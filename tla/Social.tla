------------------------------- MODULE Social -------------------------------
(***************************************************************************)
(* Who may reach whom: friendships and blocks                              *)
(* (crates/social/src/service.rs, repository.rs) and the direct            *)
(* conversations that obey them (crates/room/src/directs.rs,               *)
(* RoomService::visible_access).  A room is direct by its category, which  *)
(* POST /rooms and PATCH set as they are told.                             *)
(*                                                                         *)
(* Every handler is a chain of statements with an await between them, and  *)
(* none of the chains is a transaction: what a handler has checked may no  *)
(* longer hold when it writes.                                             *)
(***************************************************************************)
EXTENDS Naturals, FiniteSets

CONSTANTS
  Users,
  Requests,   \* handlers in flight at the same time
  Rooms,      \* ids of rooms for two people
  Nobody, NoRoom,
  Alone       \* bound: whether anybody makes a room for nobody but themselves

ASSUME SocialAssumption ==
  Nobody \notin Users /\ NoRoom \notin Rooms /\ Alone \in BOOLEAN

VARIABLES
  friendship,  \* friendship[a][b]: the row with requester a and addressee b
  blocks,      \* the <<blocker, blocked>> rows
  room,        \* room[r]: the two it is for, its participants, whether its category
               \* is 'dm', and (history) whether it is as open made it
  req,         \* req[q]: the handler q and where it is
  excused,     \* history: pairs whose row a block could not end
  split        \* history: pairs whose opens overlapped, or whose room, as open
               \* made it, lost one of the two

vars == <<friendship, blocks, room, req, excused, split>>

Statuses == {"none", "pending", "accepted", "declined"}
Pairs == {{a, b} : a, b \in Users}
Unopened == [of |-> {}, in |-> {}, direct |-> FALSE, opened |-> FALSE]
Idle == [pc |-> "idle", who |-> Nobody, to |-> Nobody, accept |-> FALSE,
         row |-> <<Nobody, Nobody>>, room |-> NoRoom, left |-> {}, stale |-> FALSE]

Between(a, b) == {p \in {<<a, b>>, <<b, a>>} : friendship[p[1]][p[2]] # "none"}
Status(p) == friendship[p[1]][p[2]]
PairOf(q) == {req[q].who, req[q].to}

(* blocked_either_way                                                      *)
Blocked(a, b) == a # b /\ (<<a, b>> \in blocks \/ <<b, a>> \in blocks)

(* The handlers qs no longer hold what they have checked.                  *)
Overtake(reqs, qs) ==
  [q \in Requests |-> IF q \in qs THEN [reqs[q] EXCEPT !.stale = TRUE] ELSE reqs[q]]

Answering(p) == {q \in Requests : req[q].pc = "set" /\ req[q].row = p}
Reaching(a, b) ==
  {q \in Requests : req[q].pc \in {"ask", "insert", "post"} /\ PairOf(q) = {a, b}}

Finish(q) == req' = [req EXCEPT ![q] = Idle]

-----------------------------------------------------------------------------
(* request_friend: the block check, find_between, then the INSERT or, when *)
(* the other side has already asked, respond_to_request.                   *)

Request(q, a, b) ==
  /\ req[q].pc = "idle" /\ a # b /\ ~Blocked(a, b)
  /\ req' = [req EXCEPT ![q] = [Idle EXCEPT !.pc = "ask", !.who = a, !.to = b]]
  /\ UNCHANGED <<friendship, blocks, room, excused, split>>

FindBeforeRequest(q) ==
  LET a == req[q].who
      b == req[q].to
  IN  /\ req[q].pc = "ask"
      /\ IF Between(a, b) = {} THEN req' = [req EXCEPT ![q].pc = "insert"]
         ELSE IF friendship[b][a] = "pending"
         THEN req' = [req EXCEPT ![q].pc = "answer", ![q].accept = TRUE]
         ELSE Finish(q)
      /\ UNCHANGED <<friendship, blocks, room, excused, split>>

(* Mutant: only the primary key, not friendships_unordered_pair_idx.       *)
Taken_Key(a, b) == friendship[a][b] # "none"

(* The unique indexes that refuse the INSERT.                              *)
Taken(a, b) == Between(a, b) # {}

InsertRequest(q) ==
  LET a == req[q].who
      b == req[q].to
  IN  /\ req[q].pc = "insert"
      /\ IF Taken(a, b) THEN UNCHANGED <<friendship, excused>>
         ELSE /\ friendship' = [friendship EXCEPT ![a][b] = "pending"]
              /\ excused' = IF req[q].stale /\ Blocked(a, b)
                            THEN excused \union {{a, b}} ELSE excused
      /\ req' = [Overtake(req, Answering(<<a, b>>)) EXCEPT ![q] = Idle]
      /\ UNCHANGED <<blocks, room, split>>

-----------------------------------------------------------------------------
(* respond_to_request: no block check; what it found may be answered,      *)
(* withdrawn or asked again before set_status, which names the row only.   *)

Respond(q, a, b, accept) ==
  /\ req[q].pc = "idle" /\ a # b
  /\ req' = [req EXCEPT ![q] =
       [Idle EXCEPT !.pc = "answer", !.who = a, !.to = b, !.accept = accept]]
  /\ UNCHANGED <<friendship, blocks, room, excused, split>>

(* Mutant: either side may answer.                                         *)
CanRespond_Either(p, a) == Status(p) = "pending"

CanRespond(p, a) == Status(p) = "pending" /\ p[2] = a

FindBeforeAnswer(q) ==
  LET found == {p \in Between(req[q].who, req[q].to) : CanRespond(p, req[q].who)}
  IN  /\ req[q].pc = "answer"
      /\ IF found = {} THEN Finish(q)
         ELSE \E p \in found :
                req' = [req EXCEPT ![q].pc = "set", ![q].row = p, ![q].stale = FALSE]
      /\ UNCHANGED <<friendship, blocks, room, excused, split>>

Answer(accept) == IF accept THEN "accepted" ELSE "declined"

SetStatus(q) ==
  LET p == req[q].row
  IN  /\ req[q].pc = "set"
      /\ IF Status(p) = "none" THEN UNCHANGED friendship
         ELSE friendship' = [friendship EXCEPT ![p[1]][p[2]] = Answer(req[q].accept)]
      /\ req' = [Overtake(req, Answering(p)) EXCEPT ![q] = Idle]
      /\ UNCHANGED <<blocks, room, excused, split>>

-----------------------------------------------------------------------------
(* remove_friend, block and unblock.                                       *)

Removed(a, b) == [friendship EXCEPT ![a][b] = "none", ![b][a] = "none"]

Remove(a, b) ==
  /\ a # b /\ Between(a, b) # {}
  /\ friendship' = Removed(a, b)
  /\ excused' = excused \ {{a, b}}
  /\ req' = Overtake(req, Answering(<<a, b>>) \union Answering(<<b, a>>))
  /\ UNCHANGED <<blocks, room, split>>

Block(q, a, b) ==
  /\ req[q].pc = "idle" /\ a # b
  /\ blocks' = blocks \union {<<a, b>>}
  /\ req' = [Overtake(req, Reaching(a, b)) EXCEPT ![q] =
       [Idle EXCEPT !.pc = "unfriend", !.who = a, !.to = b]]
  /\ UNCHANGED <<friendship, room, excused, split>>

(* Mutant: an accepted friendship is left to remove_friend.                *)
Ended_Pending(a, b) ==
  [friendship EXCEPT ![a][b] = IF @ = "accepted" THEN @ ELSE "none",
                     ![b][a] = IF @ = "accepted" THEN @ ELSE "none"]

(* What block's DELETE leaves.                                             *)
Ended(a, b) == Removed(a, b)

Unfriend(q) ==
  LET a == req[q].who
      b == req[q].to
  IN  /\ req[q].pc = "unfriend"
      /\ friendship' = Ended(a, b)
      /\ excused' = excused \ {{a, b}}
      /\ req' = [Overtake(req, Answering(<<a, b>>) \union Answering(<<b, a>>))
                   EXCEPT ![q] = Idle]
      /\ UNCHANGED <<blocks, room, split>>

(* The DELETE fails, or the request is dropped: the block stays.           *)
UnfriendFails(q) ==
  /\ req[q].pc = "unfriend"
  /\ excused' = IF Between(req[q].who, req[q].to) = {} THEN excused
                ELSE excused \union {PairOf(q)}
  /\ Finish(q)
  /\ UNCHANGED <<friendship, blocks, room, split>>

Unblock(a, b) ==
  /\ <<a, b>> \in blocks
  /\ blocks' = blocks \ {<<a, b>>}
  /\ UNCHANGED <<friendship, room, req, excused, split>>

-----------------------------------------------------------------------------
(* DirectRooms::open: the block check, find_direct_room, then the room and *)
(* one join after the other.  Opening a conversation with oneself is       *)
(* allowed, and then finds any direct room one is in.                      *)

Open(q, a, b) ==
  /\ req[q].pc = "idle" /\ (a # b \/ Alone) /\ ~Blocked(a, b)
  /\ req' = [req EXCEPT ![q] = [Idle EXCEPT !.pc = "find", !.who = a, !.to = b]]
  /\ UNCHANGED <<friendship, blocks, room, excused, split>>

(* Mutant: a room on the other side of a block is not found.               *)
Shared_Unblocked(a, b) ==
  {r \in Rooms : room[r].direct /\ {a, b} \subseteq room[r].in /\ ~Blocked(a, b)}

Shared(a, b) == {r \in Rooms : room[r].direct /\ {a, b} \subseteq room[r].in}

(* The handlers in an open, from the find that found nothing to the last   *)
(* join.                                                                   *)
Opening(q) ==
  req[q].pc = "create" \/ (req[q].pc = "joins" /\ room[req[q].room].opened)

FindDirectRoom(q) ==
  /\ req[q].pc = "find"
  /\ IF Shared(req[q].who, req[q].to) # {} THEN Finish(q) /\ UNCHANGED split
     ELSE /\ req' = [req EXCEPT ![q].pc = "create"]
          /\ split' = IF \E o \in Requests \ {q} : Opening(o) /\ PairOf(o) = PairOf(q)
                      THEN split \union {PairOf(q)} ELSE split
  /\ UNCHANGED <<friendship, blocks, room, excused>>

Row(a, b, direct, opened) ==
  [of |-> {a, b}, in |-> {}, direct |-> direct, opened |-> opened]

CreateRoom(q, r) ==
  /\ req[q].pc = "create"
  /\ room[r] = Unopened
  /\ room' = [room EXCEPT ![r] = Row(req[q].who, req[q].to, TRUE, TRUE)]
  /\ req' = [req EXCEPT ![q].pc = "joins", ![q].room = r, ![q].left = PairOf(q)]
  /\ UNCHANGED <<friendship, blocks, excused, split>>

(* POST /rooms: a room of any category with somebody invited to it.        *)
(* Nothing is looked for and nobody is asked before the row is inserted.   *)
PostRoom(q, r, a, b, direct) ==
  /\ req[q].pc = "idle" /\ (a # b \/ Alone)
  /\ room[r] = Unopened
  /\ room' = [room EXCEPT ![r] = Row(a, b, direct, FALSE)]
  /\ req' = [req EXCEPT ![q] =
       [Idle EXCEPT !.pc = "joins", !.who = a, !.to = b, !.room = r, !.left = {a, b}]]
  /\ UNCHANGED <<friendship, blocks, excused, split>>

(* join_room for the owner, then for the other; a failure is ignored.      *)
NextIn(q) == IF req[q].who \in req[q].left THEN req[q].who ELSE req[q].to

Posting(r) == {q \in Requests : req[q].pc = "post" /\ req[q].room = r}

(* The pair one of whom is missing from the room that open made for it.    *)
Parted(r) == IF room[r].opened THEN {room[r].of} ELSE {}

JoinNext(q) ==
  LET u == NextIn(q)
      r == req[q].room
      rest == req[q].left \ {u}
      reqs == [req EXCEPT ![q] = IF rest = {} THEN Idle ELSE [@ EXCEPT !.left = rest]]
  IN  /\ req[q].pc = "joins"
      /\ \/ /\ room' = [room EXCEPT ![r].in = @ \union {u}]
            /\ req' = Overtake(reqs, Posting(r))
            /\ UNCHANGED split
         \/ /\ req' = reqs
            /\ split' = split \union Parted(r)
            /\ UNCHANGED room
      /\ UNCHANGED <<friendship, blocks, excused>>

-----------------------------------------------------------------------------
(* Inside a room.  A direct room's id is known to the two it was made for. *)
(* MessagingService::post and RoomService::join pass visible_access, which *)
(* looks a direct room's peer up and checks the pair; leave checks nothing.*)

Peers(r, u) == room[r].in \ {u}

(* Mutant: only the caller's own blocks are looked at.                     *)
VisibleAccess_OneWay(r, u) ==
  room[r].direct => \A p \in Peers(r, u) : <<u, p>> \notin blocks

VisibleAccess(r, u) == room[r].direct => \A p \in Peers(r, u) : ~Blocked(u, p)

Enter(q, r, u, pc) ==
  /\ req[q].pc = "idle"
  /\ u \in room[r].of
  /\ VisibleAccess(r, u)
  /\ \E other \in room[r].of : /\ {u, other} = room[r].of
       /\ req' = [req EXCEPT ![q] =
            [Idle EXCEPT !.pc = pc, !.who = u, !.to = other, !.room = r]]
  /\ UNCHANGED <<friendship, blocks, room, excused, split>>

(* The message is inserted, and broadcast to whoever is in the room.       *)
PostMessage(q) ==
  /\ req[q].pc = "post"
  /\ Finish(q)
  /\ UNCHANGED <<friendship, blocks, room, excused, split>>

Join(q) ==
  LET r == req[q].room
  IN  /\ req[q].pc = "join"
      /\ room' = [room EXCEPT ![r].in = @ \union {req[q].who}]
      /\ req' = [Overtake(req, Posting(r)) EXCEPT ![q] = Idle]
      /\ UNCHANGED <<friendship, blocks, excused, split>>

Leave(r, u) ==
  /\ u \in room[r].in
  /\ room' = [room EXCEPT ![r].in = @ \ {u}]
  /\ split' = split \union Parted(r)
  /\ UNCHANGED <<friendship, blocks, req, excused>>

(* PATCH by the owner: RoomService::update writes the category it is given *)
(* ('dm' to another or another to 'dm') into the room as it is.            *)
Recategorize(r) ==
  /\ room[r] # Unopened
  /\ room' = [room EXCEPT ![r].direct = ~ @, ![r].opened = FALSE]
  /\ req' = Overtake(req, Posting(r))
  /\ UNCHANGED <<friendship, blocks, excused, split>>

-----------------------------------------------------------------------------
Init ==
  /\ friendship = [a \in Users |-> [b \in Users |-> "none"]]
  /\ blocks = {}
  /\ room = [r \in Rooms |-> Unopened]
  /\ req = [q \in Requests |-> Idle]
  /\ excused = {}
  /\ split = {}

Next ==
  \/ \E q \in Requests :
       \/ FindBeforeRequest(q) \/ InsertRequest(q) \/ FindBeforeAnswer(q) \/ SetStatus(q)
       \/ Unfriend(q) \/ UnfriendFails(q) \/ FindDirectRoom(q) \/ JoinNext(q)
       \/ PostMessage(q) \/ Join(q)
       \/ \E a, b \in Users : \/ Request(q, a, b) \/ Block(q, a, b) \/ Open(q, a, b)
                              \/ \E accept \in BOOLEAN : Respond(q, a, b, accept)
       \/ \E r \in Rooms : \/ CreateRoom(q, r)
                           \/ \E a, b \in Users, direct \in BOOLEAN :
                                PostRoom(q, r, a, b, direct)
                           \/ \E u \in Users, pc \in {"post", "join"} : Enter(q, r, u, pc)
  \/ \E a, b \in Users : Remove(a, b) \/ Unblock(a, b)
  \/ \E r \in Rooms : Recategorize(r) \/ \E u \in Users : Leave(r, u)

Spec == Init /\ [][Next]_vars

-----------------------------------------------------------------------------
TypeOK ==
  /\ friendship \in [Users -> [Users -> Statuses]]
  /\ blocks \subseteq Users \X Users
  /\ room \in [Rooms -> [of : Pairs \union {{}}, in : SUBSET Users,
                         direct : BOOLEAN, opened : BOOLEAN]]
  /\ req \in [Requests ->
       [pc : {"idle", "ask", "insert", "answer", "set", "unfriend", "find", "create",
              "joins", "post", "join"},
        who : Users \union {Nobody}, to : Users \union {Nobody}, accept : BOOLEAN,
        row : (Users \union {Nobody}) \X (Users \union {Nobody}),
        room : Rooms \union {NoRoom}, left : SUBSET Users, stale : BOOLEAN]]
  /\ excused \subseteq Pairs
  /\ split \subseteq Pairs

(***************************************************************************)
(* "A block that leaves the friendship in place would be a half-measure"   *)
(* (SocialService::block).  Two handlers and two checks later: once block  *)
(* has returned, no row joins the pair, in whatever direction and state,   *)
(* unless a request that had passed its check before the block wrote after *)
(* it, or the block's own DELETE failed.                                   *)
(***************************************************************************)
BlockEndsFriendship ==
  \A a, b \in Users :
    /\ Blocked(a, b)
    /\ ~ \E q \in Requests : req[q].pc = "unfriend" /\ PairOf(q) = {a, b}
    /\ Between(a, b) # {}
    => {a, b} \in excused

(***************************************************************************)
(* "Exactly one row exists per unordered pair" (domain/social.rs): also    *)
(* when both ask at once, find nothing, and insert in their own direction. *)
(* The types come first: a status is one of the enum's.                    *)
(***************************************************************************)
OneRowPerPair == TypeOK /\ \A a, b \in Users : Cardinality(Between(a, b)) <= 1

(* What AddresseeAnswers asks of a step that changes one row.              *)
SetBy(q) == req[q].pc = "set" /\ req'[q].pc = "idle"
Accepts(a, b) ==
  friendship[a][b] # "accepted" /\ friendship'[a][b] = "accepted" =>
    \E q \in Requests : SetBy(q) /\ req[q].who = b /\ req[q].accept
Replaces(a, b) ==
  friendship[a][b] \in {"accepted", "declined"}
    /\ friendship'[a][b] \notin {"none", friendship[a][b]} =>
    \E q \in Requests : SetBy(q) /\ req[q].row = <<a, b>> /\ req[q].stale
Answers(a, b) == Accepts(a, b) /\ Replaces(a, b)

(***************************************************************************)
(* "Only the addressee may accept or decline, and only while pending"      *)
(* (can_respond): a friendship is accepted by a handler of its addressee   *)
(* alone, whichever of the two asked, asked back or answered, however      *)
(* stale what it found; and an answer replaces an earlier answer only when *)
(* the row was changed between this handler's find and its UPDATE.         *)
(***************************************************************************)
AddresseeAnswers == [][\A a, b \in Users : Answers(a, b)]_vars

(***************************************************************************)
(* "a block ... bites everywhere": a message reaches somebody in a direct  *)
(* room on the other side of a block only when the block, their arrival,   *)
(* or the room's category came after the check (visible_access).           *)
(***************************************************************************)
NoMessageAcross ==
  [][\A q \in Requests :
       /\ PostMessage(q) /\ room[req[q].room].direct
       /\ \E p \in Peers(req[q].room, req[q].who) : Blocked(req[q].who, p)
       => req[q].stale]_vars

(***************************************************************************)
(* "Find or create": when two people share two direct rooms, their opens   *)
(* overlapped, one of them had left a room that open made for them, a join *)
(* of theirs had failed, or one of the two rooms is direct by POST /rooms  *)
(* or by a change of category.  Blocks, departures from other rooms and    *)
(* rooms of other categories make no second conversation.                  *)
(***************************************************************************)
OneConversation ==
  \A r, s \in Rooms, a, b \in Users :
    r # s /\ a # b /\ r \in Shared(a, b) /\ s \in Shared(a, b) =>
      {a, b} \in split \/ ~room[r].opened \/ ~room[s].opened

=============================================================================
