-------------------------------- MODULE Rooms --------------------------------
(***************************************************************************)
(* The life of a room: crates/room/src/service.rs and repository.rs, and   *)
(* the two jobs of apps/api/src/jobs that end rooms.                       *)
(*                                                                         *)
(* Joining and leaving are READ COMMITTED transactions of two statements:  *)
(* write the participant row, then recount.  The recount's subqueries read *)
(* the snapshot taken when that statement starts; the row lock on the room *)
(* may be granted later, when another transaction has committed.  Hence    *)
(* three steps: write, Count (the snapshot), Commit (the lock, the update  *)
(* and the commit, which nothing that needs the lock can separate).        *)
(***************************************************************************)
EXTENDS Integers, Sequences, FiniteSets

CONSTANTS
  Users, Rooms,
  Requests,       \* handlers in flight at the same time
  Never,          \* SQL NULL for a timestamp or a duration
  Durations,      \* duration_minutes a caller may send
  DefaultTTL, MaxTTL,  \* DEFAULT_ and MAX_PLAYGROUND_TTL_MINUTES
  Grace,          \* PLAYGROUND_EMPTY_GRACE_SECONDS
  PatchCategory,  \* what PATCH may set: subset of BOOLEAN (is it "dm"?)
  PatchStatus,    \* what PATCH may set: statuses
  MaxTime         \* bound on the clock

Statuses == {"created", "waiting", "active", "ending", "ended"}

ASSUME RoomsAssumption ==
  /\ IsFiniteSet(Users) /\ Rooms # {}
  /\ MaxTTL \in Nat /\ DefaultTTL \in 1..MaxTTL
  /\ Grace \in Nat /\ MaxTime \in Nat
  /\ Durations \subseteq Int
  /\ PatchCategory \subseteq BOOLEAN /\ PatchStatus \subseteq Statuses
  /\ Never \notin Int

VARIABLES
  now,
  room,    \* room[r]: the row of rooms
  people,  \* people[r]: the users with a committed row in room_participants
  req,     \* req[q]: the transaction handler q is in, and the joins it has left
  alone,   \* history: the transactions nothing has overlapped so far
  exact    \* history: the rooms whose rows were last changed by one of those

vars == <<now, room, people, req, alone, exact>>
history == <<alone, exact>>

Time == 0..MaxTime
NoRoom == [status |-> "none", community |-> FALSE, dm |-> FALSE, count |-> 0,
           emptied |-> Never, expires |-> Never]
Idle == [pc |-> "idle", room |-> CHOOSE r \in Rooms : TRUE, add |-> {},
         del |-> {}, at |-> 0, tally |-> 0, rest |-> << >>]

Exists(r) == room[r].status \notin {"none", "deleted"}
IsPlayground(r) == ~room[r].community /\ ~room[r].dm

InFlight(r) ==
  {q \in Requests : req[q].pc \in {"count", "commit"} /\ req[q].room = r}

Begin(q, r) ==
  /\ alone' = IF InFlight(r) = {} THEN alone \union {q} ELSE alone \ (InFlight(r) \union {q})
  /\ UNCHANGED exact

(* A transaction holds the row of room_participants it has written.        *)
RowHeld(r, u) ==
  \E q \in Requests : req[q].room = r /\ u \in req[q].add \union req[q].del

-----------------------------------------------------------------------------
(* RoomService::create: the deadline, then the row with a count of 1, then *)
(* one join per participant.                                               *)

Lifetime(community, dm, d) ==
  IF community \/ dm THEN d
  ELSE IF d = Never THEN DefaultTTL
  ELSE IF d < 1 THEN 1 ELSE IF d > MaxTTL THEN MaxTTL ELSE d

Create(q, r, u, guests, community, dm, d) ==
  /\ req[q].pc = "idle"
  /\ room[r].status = "none"
  /\ LET life == Lifetime(community, dm, d) IN
     room' = [room EXCEPT ![r] =
                [status |-> "active", community |-> community, dm |-> dm,
                 count |-> 1, emptied |-> Never,
                 expires |-> IF life = Never THEN Never ELSE now + life]]
  /\ req' = [req EXCEPT ![q] =
               [Idle EXCEPT !.pc = "next", !.room = r, !.rest = <<u>> \o guests]]
  /\ UNCHANGED <<now, people, history>>

(* join_room, first statement: the INSERT ... ON CONFLICT DO UPDATE.       *)
(* Neither it nor the access check before it looks at the room's status.   *)
WriteJoin(q, r, u, rest) ==
  /\ Exists(r)
  /\ ~RowHeld(r, u)
  /\ req' = [req EXCEPT ![q] =
               [pc |-> "count", room |-> r, add |-> {u}, del |-> {},
                at |-> now, tally |-> 0, rest |-> rest]]
  /\ Begin(q, r)
  /\ UNCHANGED <<now, room, people>>

Join(q, r, u) == req[q].pc = "idle" /\ WriteJoin(q, r, u, << >>)

JoinNext(q) ==
  /\ req[q].pc = "next"
  /\ WriteJoin(q, req[q].room, Head(req[q].rest), Tail(req[q].rest))

(* leave_room, first statement.  A row another transaction has inserted    *)
(* but not committed is not seen: then nothing is deleted.                 *)
Leave(q, r, u) ==
  /\ req[q].pc = "idle"
  /\ Exists(r)
  /\ u \in people[r] => ~RowHeld(r, u)
  /\ req' = [req EXCEPT ![q] =
               [Idle EXCEPT !.pc = "count", !.room = r, !.at = now,
                            !.del = {u} \intersect people[r]]]
  /\ Begin(q, r)
  /\ UNCHANGED <<now, room, people>>

(* recount_participants.                                                   *)
View(q) == (people[req[q].room] \ req[q].del) \union req[q].add

Count(q) ==
  /\ req[q].pc = "count"
  /\ req' = [req EXCEPT ![q].pc = "commit", ![q].tally = Cardinality(View(q))]
  /\ UNCHANGED <<now, room, people, history>>

(* Mutant: emptied_at is stamped but never cleared.                        *)
Recounted_Sticky(row, tally, at) ==
  [row EXCEPT !.count = tally, !.emptied = IF @ = Never /\ tally = 0 THEN at ELSE @]

Recounted(row, tally, at) ==
  [row EXCEPT !.count = tally,
              !.emptied = IF tally > 0 THEN Never ELSE IF @ = Never THEN at ELSE @]

AfterJoin(q) ==
  IF req[q].rest = << >> THEN Idle
  ELSE [Idle EXCEPT !.pc = "next", !.room = req[q].room, !.rest = req[q].rest]

Commit(q) ==
  /\ req[q].pc = "commit"
  /\ LET r == req[q].room IN
     /\ people' = [people EXCEPT ![r] = View(q)]
     /\ room' = [room EXCEPT ![r] =
                   IF Exists(r) THEN Recounted(@, req[q].tally, req[q].at) ELSE @]
     /\ exact' = IF q \in alone THEN exact \union {r} ELSE exact \ {r}
  /\ req' = [req EXCEPT ![q] = AfterJoin(q)]
  /\ alone' = alone \ {q}
  /\ UNCHANGED now

(* A transaction fails and rolls back; create ignores the error of a join  *)
(* and goes on to the next, a dropped handler does not.                    *)
Abort(q) ==
  /\ req[q].pc # "idle"
  /\ \/ req' = [req EXCEPT ![q] = Idle]
     \/ req[q].pc # "next" /\ req' = [req EXCEPT ![q] = AfterJoin(q)]
  /\ alone' = alone \ {q}
  /\ UNCHANGED <<now, room, people, exact>>

-----------------------------------------------------------------------------
(* PATCH and DELETE by whoever holds ManageRoom.  Who that is never        *)
(* changes between the check and the statement, so each is one step.       *)

Update(r) ==
  /\ Exists(r)
  /\ \/ \E dm \in PatchCategory : room' = [room EXCEPT ![r].dm = dm]
     \/ \E s \in PatchStatus : room' = [room EXCEPT ![r].status = s]
  /\ UNCHANGED <<now, people, req, history>>

(* The cascade waits for every transaction that has written a row of the   *)
(* room's; the recount of a leave that deleted none then finds no room.    *)
Delete(r) ==
  /\ Exists(r)
  /\ \A u \in Users : ~RowHeld(r, u)
  /\ room' = [room EXCEPT ![r] = [NoRoom EXCEPT !.status = "deleted"]]
  /\ people' = [people EXCEPT ![r] = {}]
  /\ exact' = exact \ {r}
  /\ alone' = alone \ InFlight(r)
  /\ UNCHANGED <<now, req>>

-----------------------------------------------------------------------------
(* Job rooms.expire_ephemeral.  When something expired, the participants   *)
(* of every ended room are deleted, and nothing is recounted.              *)

(* Mutant: the deadline itself is not yet due.                             *)
Due_Late(r) == room[r].status = "active" /\ room[r].expires # Never /\ room[r].expires < now

Due(r) == room[r].status = "active" /\ room[r].expires # Never /\ room[r].expires <= now

ExpireEphemeral ==
  /\ \E r \in Rooms : Due(r)
  /\ LET over == {r \in Rooms : Due(r) \/ room[r].status = "ended"} IN
     /\ \A r \in over, u \in Users : u \in people[r] => ~RowHeld(r, u)
     /\ room' = [r \in Rooms |->
                   IF Due(r) THEN [room[r] EXCEPT !.status = "ended"] ELSE room[r]]
     /\ people' = [r \in Rooms |-> IF r \in over THEN {} ELSE people[r]]
     /\ exact' = exact \ over
     /\ alone' = alone \ UNION {InFlight(r) : r \in over}
  /\ UNCHANGED <<now, req>>

(* Job rooms.reap_empty_playground.                                        *)

(* Mutant: the end of the grace period is not yet due.                     *)
Reapable_Strict(r) ==
  /\ room[r].status = "active"
  /\ IsPlayground(r)
  /\ room[r].count = 0
  /\ room[r].emptied # Never
  /\ room[r].emptied + Grace < now

Reapable(r) ==
  /\ room[r].status = "active"
  /\ IsPlayground(r)
  /\ room[r].count = 0
  /\ room[r].emptied # Never
  /\ room[r].emptied + Grace <= now

ReapEmpty ==
  /\ \E r \in Rooms : Reapable(r)
  /\ room' = [r \in Rooms |->
                IF Reapable(r) THEN [room[r] EXCEPT !.status = "ended"] ELSE room[r]]
  /\ UNCHANGED <<now, people, req, history>>

Tick == now < MaxTime /\ now' = now + 1 /\ UNCHANGED <<room, people, req, history>>

-----------------------------------------------------------------------------
Init ==
  /\ now = 0
  /\ room = [r \in Rooms |-> NoRoom]
  /\ people = [r \in Rooms |-> {}]
  /\ req = [q \in Requests |-> Idle]
  /\ alone = {}
  /\ exact = {}

Guests(u) == {<< >>} \union {<<v>> : v \in Users \ {u}}

Next ==
  \/ \E q \in Requests :
       \/ \E r \in Rooms, u \in Users :
            \/ Join(q, r, u) \/ Leave(q, r, u)
            \/ \E guests \in Guests(u), community, dm \in BOOLEAN,
                  d \in Durations \union {Never} :
                 ~(community /\ dm) /\ Create(q, r, u, guests, community, dm, d)
       \/ JoinNext(q) \/ Count(q) \/ Commit(q) \/ Abort(q)
  \/ \E r \in Rooms : Update(r) \/ Delete(r)
  \/ ExpireEphemeral \/ ReapEmpty \/ Tick

(* The jobs run every 30 and 60 seconds; row locks are granted in order,   *)
(* so a job is not overtaken for ever; a handler's next statement runs.    *)
Fairness ==
  /\ WF_vars(Tick)
  /\ SF_vars(ExpireEphemeral) /\ WF_vars(ReapEmpty)
  /\ \A q \in Requests : WF_vars(JoinNext(q) \/ Count(q) \/ Commit(q))

Spec == Init /\ [][Next]_vars /\ Fairness

-----------------------------------------------------------------------------
TypeOK ==
  /\ now \in Time
  /\ room \in [Rooms ->
       [status : Statuses \union {"none", "deleted"}, community : BOOLEAN, dm : BOOLEAN,
        count : Nat, emptied : Nat \union {Never}, expires : Int \union {Never}]]
  /\ people \in [Rooms -> SUBSET Users]
  /\ req \in [Requests ->
       [pc : {"idle", "next", "count", "commit"}, room : Rooms,
        add : SUBSET Users, del : SUBSET Users, at : Time, tally : Nat,
        rest : Seq(Users)]]
  /\ alone \subseteq Requests
  /\ exact \subseteq Rooms

(***************************************************************************)
(* current_participants and emptied_at agree with the participant rows     *)
(* (recount_participants: "the derived columns have exactly one            *)
(* definition") of every room whose last recount overlapped no other       *)
(* transaction and no expiry: one that ran alone repairs what a race left. *)
(* The types come first: a count is never below zero.                      *)
(***************************************************************************)
DerivedAgree ==
  /\ TypeOK
  /\ \A r \in exact :
       /\ room[r].count = Cardinality(people[r])
       /\ room[r].emptied = Never <=> people[r] # {}

(***************************************************************************)
(* A room whose deadline passes does not stay active, whoever is in it and *)
(* however often its owner reopens it, until two transactions at once hold *)
(* its participants' rows: the job's DELETE waits for them all, and the    *)
(* model does not follow the queue in which PostgreSQL grants them.        *)
(***************************************************************************)
DeadlineEnds ==
  \A r \in Rooms :
    room[r].status = "active" /\ room[r].expires \in Time
      ~> room[r].status # "active" \/ Cardinality(InFlight(r)) > 1

(***************************************************************************)
(* A playground room everybody has left is ended, unless somebody comes    *)
(* back, its owner makes it a conversation, the clock's bound is hit, or   *)
(* two recounts overlapped and left a count that nobody is behind.         *)
(***************************************************************************)
AbandonedEnds ==
  \A r \in Rooms :
    /\ room[r].status = "active" /\ IsPlayground(r)
    /\ room[r].emptied # Never /\ room[r].emptied + Grace <= MaxTime
    ~> \/ room[r].status # "active" \/ people[r] # {} \/ ~IsPlayground(r) \/ r \notin exact

=============================================================================
