----------------------------- MODULE RoomsProofs -----------------------------
(* Machine-checked facts about Rooms, for any rooms, any finite set of     *)
(* accounts, any deadlines and any number of transactions in flight.       *)
EXTENDS Rooms, FiniteSetTheorems, TLAPS

RoomRows == [status : Statuses \union {"none", "deleted"}, community : BOOLEAN, dm : BOOLEAN,
             count : Nat, emptied : Nat \union {Never}, expires : Int \union {Never}]
Txns == [pc : {"idle", "next", "count", "commit"}, room : Rooms,
         add : SUBSET Users, del : SUBSET Users, at : Time, tally : Nat, rest : Seq(Users)]

(* A transaction between its first statement and its commit.               *)
Flying(t) == t.pc \in {"count", "commit"}
Seen(t) == (people[t.room] \ t.del) \union t.add

(* A create that goes on to its next join has one left.                    *)
Going == \A q \in Requests : req[q].pc = "next" => req[q].rest # << >>

(* A DELETE overlaps whatever transaction is at work on the room.          *)
OnStanding == \A q \in alone : Flying(req[q]) => Exists(req[q].room)

(* A transaction nothing overlapped is the only one on its room, and what  *)
(* its recount read has not changed since.                                 *)
AloneIsAlone ==
  \A q \in alone, p \in Requests :
    Flying(req[q]) /\ Flying(req[p]) /\ req[p].room = req[q].room => p = q
TallyStands ==
  \A q \in alone : req[q].pc = "commit" => req[q].tally = Cardinality(Seen(req[q]))

Agrees(r) ==
  /\ Exists(r)
  /\ room[r].count = Cardinality(people[r])
  /\ room[r].emptied = Never <=> people[r] # {}
ExactAgree == \A r \in exact : Agrees(r)

RoomInv == TypeOK /\ Going /\ OnStanding /\ AloneIsAlone /\ TallyStands /\ ExactAgree

-----------------------------------------------------------------------------
(* What the steps share.                                                   *)

LEMMA TypeParts ==
  TypeOK <=> /\ now \in Time /\ room \in [Rooms -> RoomRows]
             /\ people \in [Rooms -> SUBSET Users] /\ req \in [Requests -> Txns]
             /\ alone \subseteq Requests /\ exact \subseteq Rooms
BY DEF TypeOK, RoomRows, Txns

LEMMA IdleIsTyped ==
  Idle \in Txns /\ Idle.pc = "idle" /\ Idle.add = {} /\ 0 \in Time
<1>1. (CHOOSE r \in Rooms : TRUE) \in Rooms
  BY RoomsAssumption
<1>2. 0 \in Time
  BY RoomsAssumption DEF Time
<1>3. << >> \in Seq(Users)
  OBVIOUS
<1> QED
  BY <1>1, <1>2, <1>3 DEF Idle, Txns

LEMMA SeenIsFinite ==
  ASSUME TypeOK, NEW t \in Txns
  PROVE  Seen(t) \subseteq Users /\ IsFiniteSet(Seen(t)) /\ Cardinality(Seen(t)) \in Nat
<1>1. people[t.room] \subseteq Users /\ t.add \subseteq Users
  BY TypeParts DEF Txns
<1>2. Seen(t) \subseteq Users
  BY <1>1 DEF Seen
<1> QED
  BY <1>2, RoomsAssumption, FS_Subset, FS_CardinalityType

LEMMA ViewIsSeen == \A q \in Requests : View(q) = Seen(req[q])
BY DEF View, Seen

LEMMA InFlightFlies ==
  \A q \in Requests : \A r :
    q \in InFlight(r) <=> Flying(req[q]) /\ req[q].room = r
BY DEF InFlight, Flying

(* recount_participants: the count is the tally, and the room is empty     *)
(* since some time exactly when the tally is zero.                         *)
LEMMA RecountedAgrees ==
  ASSUME NEW row \in RoomRows, NEW tally \in Nat, NEW at \in Time
  PROVE  /\ Recounted(row, tally, at) \in RoomRows
         /\ Recounted(row, tally, at).status = row.status
         /\ Recounted(row, tally, at).count = tally
         /\ Recounted(row, tally, at).emptied = Never <=> tally > 0
<1>1. at \in Nat /\ at # Never
  BY RoomsAssumption DEF Time
<1> QED
  BY <1>1 DEF Recounted, RoomRows

(* A transaction that ends, rolls back or turns to the next join.          *)
Landed(t) == ~Flying(t) /\ (t.pc = "next" => t.rest # << >>)

LEMMA AfterJoinLands ==
  ASSUME TypeOK, NEW q \in Requests
  PROVE  /\ AfterJoin(q) \in Txns /\ Landed(AfterJoin(q))
         /\ Idle \in Txns /\ Landed(Idle)
<1>1. Idle \in Txns /\ Landed(Idle)
  BY IdleIsTyped DEF Landed, Flying
<1>2. req[q] \in Txns /\ req[q].room \in Rooms /\ req[q].rest \in Seq(Users)
  BY TypeParts DEF Txns
<1>3. CASE req[q].rest # << >>
  <2> DEFINE t == [Idle EXCEPT !.pc = "next", !.room = req[q].room, !.rest = req[q].rest]
  <2>1. t \in Txns /\ t.pc = "next" /\ t.rest = req[q].rest
    BY <1>1, <1>2 DEF Txns
  <2>2. AfterJoin(q) = t
    BY <1>3 DEF AfterJoin
  <2> HIDE DEF t
  <2> QED
    BY <1>1, <1>3, <2>1, <2>2 DEF Landed, Flying
<1>4. CASE req[q].rest = << >>
  BY <1>1, <1>4 DEF AfterJoin
<1> QED
  BY <1>3, <1>4

-----------------------------------------------------------------------------
(* The transactions.                                                       *)

LEMMA BeginStep ==
  ASSUME RoomInv, NEW q \in Requests, NEW r \in Rooms, NEW t \in Txns,
         ~Flying(req[q]), t.pc = "count", t.room = r, Exists(r),
         req' = [req EXCEPT ![q] = t], Begin(q, r), UNCHANGED <<now, room, people>>
  PROVE  RoomInv'
<1>0. /\ req \in [Requests -> Txns] /\ alone \subseteq Requests /\ exact \subseteq Rooms
      /\ now \in Time /\ room \in [Rooms -> RoomRows] /\ people \in [Rooms -> SUBSET Users]
  BY TypeParts DEF RoomInv
<1>1. req'[q] = t /\ \A p \in Requests \ {q} : req'[p] = req[p]
  BY <1>0
<1>2. alone' \subseteq alone \union {q}
  BY DEF Begin
<1>3. \A p \in alone' \ {q} : Flying(req[p]) => req[p].room # r
  <2>1. CASE InFlight(r) = {}
    BY <1>0, <2>1, InFlightFlies DEF Begin
  <2>2. CASE InFlight(r) # {}
    BY <1>0, <2>2, InFlightFlies DEF Begin
  <2> QED
    BY <2>1, <2>2
<1>4. q \in alone' => \A p \in Requests : ~(Flying(req[p]) /\ req[p].room = r)
  BY InFlightFlies DEF Begin
<1>5. TypeOK'
  <2>1. req' \in [Requests -> Txns]
    BY <1>0
  <2> QED
    BY <1>0, <1>2, <2>1 DEF TypeOK, Txns, RoomRows, Begin
<1>6. Going' /\ OnStanding'
  BY <1>0, <1>1, <1>2 DEF RoomInv, Going, OnStanding, Exists
<1>7. AloneIsAlone'
  <2> SUFFICES ASSUME NEW a \in alone', NEW p \in Requests, Flying(req'[a]), Flying(req'[p]),
                      req'[p].room = req'[a].room
               PROVE  p = a
    BY DEF AloneIsAlone
  <2>1. CASE a = q
    BY <2>1, <1>1, <1>4
  <2>2. CASE a # q /\ p = q
    BY <2>2, <1>0, <1>1, <1>2, <1>3
  <2>3. CASE a # q /\ p # q
    BY <2>3, <1>0, <1>1, <1>2 DEF RoomInv, AloneIsAlone
  <2> QED
    BY <2>1, <2>2, <2>3
<1>8. TallyStands'
  BY <1>0, <1>1, <1>2 DEF RoomInv, TallyStands, Seen
<1>9. ExactAgree'
  BY DEF RoomInv, ExactAgree, Agrees, Exists, Begin
<1> QED
  BY <1>5, <1>6, <1>7, <1>8, <1>9 DEF RoomInv

LEMMA WriteJoinStep ==
  ASSUME RoomInv, NEW q \in Requests, ~Flying(req[q]), NEW r \in Rooms, NEW u \in Users,
         NEW rest \in Seq(Users), WriteJoin(q, r, u, rest)
  PROVE  RoomInv'
<1> DEFINE t == [pc |-> "count", room |-> r, add |-> {u}, del |-> {},
                 at |-> now, tally |-> 0, rest |-> rest]
<1>1. t \in Txns /\ t.pc = "count" /\ t.room = r
  BY TypeParts DEF RoomInv, Txns
<1>2. /\ req' = [req EXCEPT ![q] = t] /\ Exists(r) /\ Begin(q, r)
      /\ UNCHANGED <<now, room, people>>
  BY DEF WriteJoin
<1> HIDE DEF t
<1> QED
  BY <1>1, <1>2, BeginStep

LEMMA JoinStep ==
  ASSUME RoomInv, NEW q \in Requests,
         JoinNext(q) \/ \E r \in Rooms, u \in Users : Join(q, r, u)
  PROVE  RoomInv'
<1>1. ASSUME NEW r \in Rooms, NEW u \in Users, Join(q, r, u) PROVE RoomInv'
  <2>1. << >> \in Seq(Users) /\ ~Flying(req[q]) /\ WriteJoin(q, r, u, << >>)
    BY <1>1 DEF Join, Flying
  <2> QED
    BY <2>1, WriteJoinStep
<1>2. CASE JoinNext(q)
  <2> DEFINE rest == req[q].rest
  <2>1. req[q].room \in Rooms /\ rest \in Seq(Users) /\ rest # << >>
    BY <1>2, TypeParts DEF RoomInv, JoinNext, Going, Txns
  <2>2. Head(rest) \in Users /\ Tail(rest) \in Seq(Users)
    <3> HIDE DEF rest
    <3> QED
      BY <2>1
  <2>3. ~Flying(req[q]) /\ WriteJoin(q, req[q].room, Head(rest), Tail(rest))
    BY <1>2 DEF JoinNext, Flying
  <2> QED
    BY <2>1, <2>2, <2>3, WriteJoinStep
<1> QED
  BY <1>1, <1>2

LEMMA LeaveStep ==
  ASSUME RoomInv, NEW q \in Requests, NEW r \in Rooms, NEW u \in Users, Leave(q, r, u)
  PROVE  RoomInv'
<1> DEFINE del == {u} \intersect people[r]
           t == [Idle EXCEPT !.pc = "count", !.room = r, !.at = now, !.del = del]
<1>1. t \in Txns /\ t.pc = "count" /\ t.room = r
  <2>1. del \in SUBSET Users /\ now \in Time /\ Idle \in Txns
    BY TypeParts, IdleIsTyped DEF RoomInv
  <2> HIDE DEF del
  <2> QED
    BY <2>1 DEF Txns
<1>2. /\ req' = [req EXCEPT ![q] = t] /\ Exists(r) /\ Begin(q, r) /\ ~Flying(req[q])
      /\ UNCHANGED <<now, room, people>>
  BY DEF Leave, Flying
<1> HIDE DEF t
<1> QED
  BY <1>1, <1>2, BeginStep

(* The snapshot a recount reads.                                           *)
LEMMA CountStep ==
  ASSUME RoomInv, NEW q \in Requests, Count(q)
  PROVE  RoomInv'
<1>0. /\ req \in [Requests -> Txns] /\ alone \subseteq Requests /\ exact \subseteq Rooms
      /\ now \in Time /\ room \in [Rooms -> RoomRows] /\ people \in [Rooms -> SUBSET Users]
      /\ req[q] \in Txns
  BY TypeParts DEF RoomInv
<1> DEFINE n == Cardinality(Seen(req[q]))
           t == [req[q] EXCEPT !.pc = "commit", !.tally = n]
<1>1. n \in Nat
  BY <1>0, SeenIsFinite DEF RoomInv
<1>2. req' = [req EXCEPT ![q] = t] /\ UNCHANGED <<now, room, people, alone, exact>>
  BY ViewIsSeen DEF Count, history
<1>3. /\ t \in Txns /\ t.pc = "commit" /\ t.tally = n /\ t.room = req[q].room
      /\ t.add = req[q].add /\ t.del = req[q].del
  <2> HIDE DEF n
  <2> QED
    BY <1>0, <1>1 DEF Txns
<1> HIDE DEF t
<1>4. /\ req'[q] = t /\ \A p \in Requests \ {q} : req'[p] = req[p]
      /\ req' \in [Requests -> Txns]
  BY <1>0, <1>2, <1>3
<1>5. \A p \in Requests : /\ Flying(req'[p]) <=> Flying(req[p])
                          /\ req'[p].room = req[p].room
  BY <1>3, <1>4 DEF Flying, Count
<1>6. TypeOK'
  BY <1>0, <1>2, <1>4 DEF TypeOK, Txns, RoomRows
<1>7. Going' /\ OnStanding'
  BY <1>2, <1>3, <1>4, <1>5 DEF RoomInv, Going, OnStanding, Exists
<1>8. AloneIsAlone'
  BY <1>0, <1>2, <1>5 DEF RoomInv, AloneIsAlone
<1>9. TallyStands'
  <2> SUFFICES ASSUME NEW a \in alone', req'[a].pc = "commit"
               PROVE  req'[a].tally = Cardinality(Seen(req[a])')
    BY DEF TallyStands
  <2>1. CASE a = q
    <3>1. Seen(req[q])' = Seen(req[q])
      BY <1>2, <1>3, <1>4 DEF Seen
    <3> QED
      BY <2>1, <3>1, <1>3, <1>4
  <2>2. CASE a # q
    BY <2>2, <1>0, <1>2, <1>4 DEF RoomInv, TallyStands, Seen
  <2> QED
    BY <2>1, <2>2
<1>10. ExactAgree'
  BY <1>2 DEF RoomInv, ExactAgree, Agrees, Exists
<1> QED
  BY <1>6, <1>7, <1>8, <1>9, <1>10 DEF RoomInv

(* A step that begins nothing: each transaction goes on as it was or lands,*)
(* and what changes about a room is seen by no transaction nothing overlaps*)
LEMMA NothingBegins ==
  ASSUME RoomInv, TypeOK', alone' \subseteq alone, ExactAgree',
         \A p \in Requests : req'[p] = req[p] \/ Landed(req'[p]),
         \A p \in alone' : Flying(req'[p]) => Exists(req[p].room)',
         \A p \in alone' : Flying(req'[p]) => people'[req[p].room] = people[req[p].room]
  PROVE  RoomInv'
<1>0. alone \subseteq Requests
  BY TypeParts DEF RoomInv
<1>1. \A p \in Requests : Flying(req'[p]) => req'[p] = req[p]
  BY DEF Landed
<1>2. Going'
  BY DEF RoomInv, Going, Landed
<1>3. OnStanding'
  BY <1>1 DEF OnStanding, Exists
<1>4. AloneIsAlone'
  BY <1>0, <1>1 DEF RoomInv, AloneIsAlone
<1>5. TallyStands'
  <2> SUFFICES ASSUME NEW p \in alone', req'[p].pc = "commit"
               PROVE  req'[p].tally = Cardinality(Seen(req[p])')
    BY DEF TallyStands
  <2>1. Flying(req'[p]) /\ req'[p] = req[p] /\ p \in alone
    BY <1>0, <1>1 DEF Flying
  <2>2. Seen(req[p])' = Seen(req[p])
    BY <2>1 DEF Seen
  <2> QED
    BY <2>1, <2>2 DEF RoomInv, TallyStands
<1> QED
  BY <1>2, <1>3, <1>4, <1>5 DEF RoomInv

LEMMA CommitStep ==
  ASSUME RoomInv, NEW q \in Requests, Commit(q)
  PROVE  RoomInv'
<1> DEFINE r == req[q].room
           t == AfterJoin(q)
           seen == Seen(req[q])
           row == IF Exists(r) THEN Recounted(room[r], req[q].tally, req[q].at) ELSE room[r]
<1>0. /\ req \in [Requests -> Txns] /\ alone \subseteq Requests /\ exact \subseteq Rooms
      /\ now \in Time /\ room \in [Rooms -> RoomRows] /\ people \in [Rooms -> SUBSET Users]
      /\ req[q] \in Txns /\ r \in Rooms /\ room[r] \in RoomRows
      /\ req[q].tally \in Nat /\ req[q].at \in Time
  BY TypeParts DEF RoomInv, Txns
<1>1. Flying(req[q]) /\ req[q].pc = "commit" /\ (q \in alone => Exists(r))
  BY DEF RoomInv, OnStanding, Commit, Flying
<1>2. seen \subseteq Users /\ IsFiniteSet(seen)
  BY <1>0, SeenIsFinite DEF RoomInv
<1>3. /\ row \in RoomRows /\ row.status = room[r].status
      /\ Exists(r) => row.count = req[q].tally /\ (row.emptied = Never <=> req[q].tally > 0)
  BY <1>0, RecountedAgrees
<1>4. t \in Txns /\ Landed(t)
  BY AfterJoinLands DEF RoomInv
<1>5. /\ people' = [people EXCEPT ![r] = seen] /\ room' = [room EXCEPT ![r] = row]
      /\ exact' = (IF q \in alone THEN exact \union {r} ELSE exact \ {r})
      /\ req' = [req EXCEPT ![q] = t] /\ alone' = alone \ {q} /\ now' = now
  BY <1>1, ViewIsSeen DEF Commit
<1> HIDE DEF t, row, seen
<1>6. /\ req'[q] = t /\ \A p \in Requests \ {q} : req'[p] = req[p]
      /\ room'[r] = row /\ people'[r] = seen
      /\ \A s \in Rooms \ {r} : room'[s] = room[s] /\ people'[s] = people[s]
  BY <1>0, <1>5
<1>7. TypeOK'
  <2>1. /\ req' \in [Requests -> Txns] /\ room' \in [Rooms -> RoomRows]
        /\ people' \in [Rooms -> SUBSET Users] /\ exact' \subseteq Rooms
    BY <1>0, <1>2, <1>3, <1>4, <1>5
  <2> QED
    BY <2>1, <1>0, <1>5 DEF TypeOK, Txns, RoomRows
<1>8. \A s \in Rooms : Exists(s) => Exists(s)'
  BY <1>3, <1>6 DEF Exists
<1>9. ExactAgree'
  <2> SUFFICES ASSUME NEW s \in exact' PROVE Agrees(s)'
    BY DEF ExactAgree
  <2>1. CASE s = r
    <3>1. q \in alone
      BY <2>1, <1>5
    <3>2. req[q].tally = Cardinality(seen)
      BY <3>1, <1>1 DEF RoomInv, TallyStands, seen
    <3>3. req[q].tally > 0 <=> seen # {}
      BY <3>2, <1>0, <1>2, FS_EmptySet
    <3>4. s \in Rooms /\ Exists(s)
      BY <2>1, <3>1, <1>0, <1>1
    <3>5. row.count = Cardinality(seen) /\ (row.emptied = Never <=> seen # {})
      BY <2>1, <3>2, <3>3, <3>4, <1>3
    <3> QED
      BY <2>1, <3>4, <3>5, <1>6, <1>8 DEF Agrees
  <2>2. CASE s # r
    BY <2>2, <1>0, <1>5, <1>6 DEF RoomInv, ExactAgree, Agrees, Exists
  <2> QED
    BY <2>1, <2>2
<1>10. \A p \in alone' : Flying(req'[p]) => people'[req[p].room] = people[req[p].room]
  <2> SUFFICES ASSUME NEW p \in alone', Flying(req'[p])
               PROVE  people'[req[p].room] = people[req[p].room]
    OBVIOUS
  <2>1. p \in alone /\ p \in Requests /\ p # q /\ Flying(req[p])
    BY <1>0, <1>5, <1>6
  <2>2. req[p].room # r /\ req[p].room \in Rooms
    BY <2>1, <1>0, <1>1 DEF RoomInv, AloneIsAlone, Txns
  <2> QED
    BY <2>2, <1>6
<1>11. \A p \in alone' : Flying(req'[p]) => Exists(req[p].room)'
  BY <1>0, <1>4, <1>5, <1>6, <1>8 DEF RoomInv, OnStanding, Landed, Txns
<1> QED
  BY <1>4, <1>5, <1>6, <1>7, <1>9, <1>10, <1>11, NothingBegins

LEMMA AbortStep ==
  ASSUME RoomInv, NEW q \in Requests, Abort(q)
  PROVE  RoomInv'
<1>0. /\ req \in [Requests -> Txns] /\ alone \subseteq Requests
      /\ alone' = alone \ {q} /\ UNCHANGED <<now, room, people, exact>>
  BY TypeParts DEF RoomInv, Abort
<1>1. PICK t \in Txns : Landed(t) /\ req' = [req EXCEPT ![q] = t]
  BY AfterJoinLands DEF Abort, RoomInv
<1>2. /\ req' \in [Requests -> Txns] /\ req'[q] = t
      /\ \A p \in Requests \ {q} : req'[p] = req[p]
  BY <1>0, <1>1
<1>3. TypeOK'
  BY <1>0, <1>2, TypeParts DEF RoomInv, TypeOK, Txns, RoomRows
<1>4. ExactAgree'
  BY <1>0 DEF RoomInv, ExactAgree, Agrees, Exists
<1>5. \A p \in alone' : Flying(req'[p]) => Exists(req[p].room)'
  BY <1>0, <1>1, <1>2 DEF RoomInv, OnStanding, Landed, Exists
<1> QED
  BY <1>0, <1>1, <1>2, <1>3, <1>4, <1>5, NothingBegins

LEMMA CreateStep ==
  ASSUME RoomInv, NEW q \in Requests, NEW r \in Rooms, NEW u \in Users,
         NEW guests \in Guests(u), NEW community \in BOOLEAN, NEW dm \in BOOLEAN,
         NEW d \in Durations \union {Never}, Create(q, r, u, guests, community, dm, d)
  PROVE  RoomInv'
<1> DEFINE life == Lifetime(community, dm, d)
           row == [status |-> "active", community |-> community, dm |-> dm, count |-> 1,
                   emptied |-> Never, expires |-> IF life = Never THEN Never ELSE now + life]
           rest == <<u>> \o guests
           t == [Idle EXCEPT !.pc = "next", !.room = r, !.rest = rest]
<1>0. /\ req \in [Requests -> Txns] /\ alone \subseteq Requests /\ exact \subseteq Rooms
      /\ now \in Time /\ room \in [Rooms -> RoomRows] /\ people \in [Rooms -> SUBSET Users]
  BY TypeParts DEF RoomInv
<1>1. /\ room' = [room EXCEPT ![r] = row] /\ req' = [req EXCEPT ![q] = t]
      /\ UNCHANGED <<now, people, alone, exact>> /\ room[r].status = "none"
  BY DEF Create, history
<1>2. row \in RoomRows /\ row.status = "active"
  <2>1. life \in Int \union {Never}
    BY RoomsAssumption DEF Lifetime
  <2>2. now \in Int
    BY <1>0, RoomsAssumption DEF Time
  <2> HIDE DEF life
  <2>3. (IF life = Never THEN Never ELSE now + life) \in Int \union {Never}
    BY <2>1, <2>2
  <2> QED
    BY <2>3 DEF RoomRows, Statuses
<1>3. t \in Txns /\ Landed(t)
  <2>1. rest \in Seq(Users) /\ rest # << >>
    <3>1. CASE guests = << >>
      BY <3>1
    <3>2. ASSUME NEW v \in Users, guests = <<v>> PROVE rest \in Seq(Users) /\ rest # << >>
      BY <3>2
    <3> QED
      BY <3>1, <3>2 DEF Guests
  <2> HIDE DEF rest
  <2>2. t \in Txns /\ t.pc = "next" /\ t.rest = rest
    BY <2>1, IdleIsTyped DEF Txns
  <2> HIDE DEF t
  <2> QED
    BY <2>1, <2>2 DEF Landed, Flying
<1> HIDE DEF t, row
<1>4. /\ req'[q] = t /\ \A p \in Requests \ {q} : req'[p] = req[p]
      /\ room'[r] = row /\ \A s \in Rooms \ {r} : room'[s] = room[s]
      /\ req' \in [Requests -> Txns] /\ room' \in [Rooms -> RoomRows]
  BY <1>0, <1>1, <1>2, <1>3
<1>5. TypeOK'
  BY <1>0, <1>1, <1>4 DEF TypeOK, Txns, RoomRows
<1>6. ~Exists(r)
  BY <1>1 DEF Exists
<1>7. ExactAgree'
  BY <1>0, <1>1, <1>4, <1>6 DEF RoomInv, ExactAgree, Agrees, Exists
<1>8. \A s \in Rooms : Exists(s) => Exists(s)'
  BY <1>4, <1>6 DEF Exists
<1>9. \A p \in alone' : Flying(req'[p]) => Exists(req[p].room)'
  BY <1>0, <1>1, <1>3, <1>4, <1>8 DEF RoomInv, OnStanding, Landed, Txns
<1> QED
  BY <1>1, <1>3, <1>4, <1>5, <1>7, <1>9, NothingBegins

-----------------------------------------------------------------------------
(* PATCH, DELETE, the jobs and the clock.                                  *)

(* A status among Statuses is a room that is there.                        *)
LEMMA SetRoomIsTyped ==
  ASSUME NEW row \in RoomRows, row.status \notin {"none", "deleted"}
  PROVE  /\ \A dm \in BOOLEAN :
              LET new == [row EXCEPT !.dm = dm]
              IN  /\ new \in RoomRows /\ new.status = row.status
                  /\ new.count = row.count /\ new.emptied = row.emptied
         /\ \A status \in Statuses :
              LET new == [row EXCEPT !.status = status]
              IN  /\ new \in RoomRows /\ new.status \notin {"none", "deleted"}
                  /\ new.count = row.count /\ new.emptied = row.emptied
BY DEF RoomRows, Statuses

LEMMA UpdateStep ==
  ASSUME RoomInv, NEW r \in Rooms, Update(r)
  PROVE  RoomInv'
<1>0. /\ req \in [Requests -> Txns] /\ alone \subseteq Requests /\ exact \subseteq Rooms
      /\ now \in Time /\ room \in [Rooms -> RoomRows] /\ people \in [Rooms -> SUBSET Users]
      /\ UNCHANGED <<now, people, req, alone, exact>> /\ Exists(r)
  BY TypeParts DEF RoomInv, Update, history
<1>1. PICK row \in RoomRows :
        /\ room' = [room EXCEPT ![r] = row] /\ row.status \notin {"none", "deleted"}
        /\ row.count = room[r].count /\ row.emptied = room[r].emptied
  <2>1. room[r] \in RoomRows /\ room[r].status \notin {"none", "deleted"}
    BY <1>0 DEF Exists
  <2>2. CASE \E dm \in PatchCategory : room' = [room EXCEPT ![r].dm = dm]
    <3>1. PICK dm \in BOOLEAN : room' = [room EXCEPT ![r] = [room[r] EXCEPT !.dm = dm]]
      BY <2>2, RoomsAssumption
    <3> QED
      BY <2>1, <3>1, SetRoomIsTyped
  <2>3. CASE \E s \in PatchStatus : room' = [room EXCEPT ![r].status = s]
    <3>1. PICK s \in Statuses : room' = [room EXCEPT ![r] = [room[r] EXCEPT !.status = s]]
      BY <2>3, RoomsAssumption
    <3> QED
      BY <2>1, <3>1, SetRoomIsTyped
  <2> QED
    BY <2>2, <2>3 DEF Update
<1>2. /\ room'[r] = row /\ \A s \in Rooms \ {r} : room'[s] = room[s]
      /\ room' \in [Rooms -> RoomRows]
  BY <1>0, <1>1
<1>3. TypeOK'
  BY <1>0, <1>2 DEF TypeOK, Txns, RoomRows
<1>4. \A s \in Rooms : Exists(s) => Exists(s)'
  BY <1>1, <1>2 DEF Exists
<1>5. ExactAgree'
  BY <1>0, <1>1, <1>2, <1>4 DEF RoomInv, ExactAgree, Agrees
<1>6. \A p \in alone' : Flying(req'[p]) => Exists(req[p].room)'
  BY <1>0, <1>4 DEF RoomInv, OnStanding, Txns
<1> QED
  BY <1>0, <1>3, <1>5, <1>6, NothingBegins

LEMMA DeleteStep ==
  ASSUME RoomInv, NEW r \in Rooms, Delete(r)
  PROVE  RoomInv'
<1> DEFINE row == [NoRoom EXCEPT !.status = "deleted"]
<1>0. /\ req \in [Requests -> Txns] /\ alone \subseteq Requests /\ exact \subseteq Rooms
      /\ now \in Time /\ room \in [Rooms -> RoomRows] /\ people \in [Rooms -> SUBSET Users]
      /\ UNCHANGED <<now, req>> /\ exact' = exact \ {r} /\ alone' = alone \ InFlight(r)
      /\ room' = [room EXCEPT ![r] = row] /\ people' = [people EXCEPT ![r] = {}]
  BY TypeParts DEF RoomInv, Delete
<1>1. row \in RoomRows
  BY DEF NoRoom, RoomRows
<1> HIDE DEF row
<1>2. /\ \A s \in Rooms \ {r} : room'[s] = room[s] /\ people'[s] = people[s]
      /\ room' \in [Rooms -> RoomRows] /\ people' \in [Rooms -> SUBSET Users]
  BY <1>0, <1>1
<1>3. TypeOK'
  BY <1>0, <1>2 DEF TypeOK, Txns, RoomRows
<1>4. \A p \in alone' : p \in alone /\ (Flying(req[p]) => req[p].room \in Rooms \ {r})
  BY <1>0, InFlightFlies DEF Delete, Txns
<1>5. ExactAgree'
  BY <1>0, <1>2 DEF RoomInv, ExactAgree, Agrees, Exists
<1>6. \A p \in alone' : Flying(req'[p]) => Exists(req[p].room)'
  BY <1>0, <1>2, <1>4 DEF RoomInv, OnStanding, Exists
<1> QED
  BY <1>0, <1>2, <1>3, <1>4, <1>5, <1>6, NothingBegins

(* Ending a room changes nothing about it but its status.                  *)
Ends(over) ==
  room' = [r \in Rooms |-> IF r \in over THEN [room[r] EXCEPT !.status = "ended"] ELSE room[r]]

LEMMA EndedRooms ==
  ASSUME RoomInv, NEW over, Ends(over),
         \A r \in Rooms : r \in over => room[r].status = "active"
  PROVE  /\ room' \in [Rooms -> RoomRows]
         /\ \A r \in Rooms : /\ Exists(r) => Exists(r)'
                             /\ room'[r].count = room[r].count
                             /\ room'[r].emptied = room[r].emptied
<1>0. room \in [Rooms -> RoomRows]
  BY TypeParts DEF RoomInv
<1>1. ASSUME NEW r \in Rooms
      PROVE  /\ room'[r] \in RoomRows
             /\ Exists(r) => Exists(r)'
             /\ room'[r].count = room[r].count /\ room'[r].emptied = room[r].emptied
  <2>1. CASE r \in over
    <3>1. /\ room'[r] = [room[r] EXCEPT !.status = "ended"] /\ room[r] \in RoomRows
          /\ room[r].status \notin {"none", "deleted"} /\ "ended" \in Statuses
      BY <1>0, <2>1 DEF Ends, Statuses
    <3> QED
      BY <3>1, SetRoomIsTyped DEF Exists
  <2>2. CASE r \notin over
    BY <1>0, <2>2 DEF Ends, Exists
  <2> QED
    BY <2>1, <2>2
<1>2. room' \in [Rooms -> RoomRows]
  <2>1. room' = [r \in Rooms |-> room'[r]]
    BY DEF Ends
  <2> QED
    BY <1>1, <2>1
<1> QED
  BY <1>1, <1>2

LEMMA ExpireStep == ASSUME RoomInv, ExpireEphemeral PROVE RoomInv'
<1> DEFINE over == {r \in Rooms : Due(r) \/ room[r].status = "ended"}
           due == {r \in Rooms : Due(r)}
<1>0. /\ req \in [Requests -> Txns] /\ alone \subseteq Requests /\ exact \subseteq Rooms
      /\ now \in Time /\ people \in [Rooms -> SUBSET Users]
  BY TypeParts DEF RoomInv
<1>1. /\ UNCHANGED <<now, req>> /\ exact' = exact \ over
      /\ alone' = alone \ UNION {InFlight(r) : r \in over}
      /\ people' = [r \in Rooms |-> IF r \in over THEN {} ELSE people[r]]
      /\ Ends(due)
  BY DEF ExpireEphemeral, Ends
<1>2. \A r \in Rooms : r \in due => room[r].status = "active"
  BY DEF Due
<1> HIDE DEF over, due
<1>3. /\ room' \in [Rooms -> RoomRows]
      /\ \A r \in Rooms : /\ Exists(r) => Exists(r)'
                          /\ room'[r].count = room[r].count
                          /\ room'[r].emptied = room[r].emptied
  BY <1>1, <1>2, EndedRooms
<1>4. TypeOK'
  <2>1. people' \in [Rooms -> SUBSET Users]
    BY <1>0, <1>1
  <2> QED
    BY <1>0, <1>1, <1>3, <2>1 DEF TypeOK, Txns, RoomRows
<1>5. ExactAgree'
  BY <1>0, <1>1, <1>3 DEF RoomInv, ExactAgree, Agrees
<1>6. \A p \in alone' : Flying(req'[p]) => Exists(req[p].room)'
  BY <1>0, <1>1, <1>3 DEF RoomInv, OnStanding, Txns
<1>7. \A p \in alone' : Flying(req'[p]) => people'[req[p].room] = people[req[p].room]
  <2> SUFFICES ASSUME NEW p \in alone', Flying(req[p])
               PROVE  people'[req[p].room] = people[req[p].room]
    BY <1>1
  <2>1. p \in Requests /\ p \in InFlight(req[p].room) /\ req[p].room \in Rooms
    BY <1>0, <1>1, InFlightFlies DEF Txns
  <2>2. req[p].room \notin over
    BY <1>1, <2>1
  <2> QED
    BY <1>1, <2>1, <2>2
<1> QED
  BY <1>1, <1>4, <1>5, <1>6, <1>7, NothingBegins

LEMMA ReapStep == ASSUME RoomInv, ReapEmpty PROVE RoomInv'
<1> DEFINE over == {r \in Rooms : Reapable(r)}
<1>0. /\ req \in [Requests -> Txns] /\ exact \subseteq Rooms /\ alone \subseteq Requests
      /\ UNCHANGED <<now, people, req, alone, exact>> /\ Ends(over)
  BY TypeParts DEF RoomInv, ReapEmpty, Ends, history
<1>1. \A r \in Rooms : r \in over => room[r].status = "active"
  BY DEF Reapable
<1> HIDE DEF over
<1>2. /\ room' \in [Rooms -> RoomRows]
      /\ \A r \in Rooms : /\ Exists(r) => Exists(r)'
                          /\ room'[r].count = room[r].count
                          /\ room'[r].emptied = room[r].emptied
  BY <1>0, <1>1, EndedRooms
<1>3. TypeOK'
  BY <1>0, <1>2 DEF RoomInv, TypeOK, RoomRows
<1>4. ExactAgree'
  BY <1>0, <1>2 DEF RoomInv, ExactAgree, Agrees
<1>5. \A p \in alone' : Flying(req'[p]) => Exists(req[p].room)'
  BY <1>0, <1>2 DEF RoomInv, OnStanding, Txns
<1> QED
  BY <1>0, <1>3, <1>4, <1>5, NothingBegins

LEMMA QuietStep == ASSUME RoomInv, UNCHANGED vars \/ Tick PROVE RoomInv'
<1>1. now' \in Time /\ UNCHANGED <<room, people, req, alone, exact>>
  BY RoomsAssumption DEF RoomInv, TypeOK, vars, Tick, history, Time
<1>2. TypeOK'
  BY <1>1 DEF RoomInv, TypeOK
<1>3. ExactAgree' /\ OnStanding'
  BY <1>1 DEF RoomInv, ExactAgree, Agrees, OnStanding, Exists
<1>4. \A p \in alone' : Flying(req'[p]) => Exists(req[p].room)'
  BY <1>1, <1>3 DEF OnStanding
<1> QED
  BY <1>1, <1>2, <1>3, <1>4, NothingBegins

LEMMA RoomInit == Init => RoomInv
<1> SUFFICES ASSUME Init PROVE RoomInv
  OBVIOUS
<1>1. NoRoom \in RoomRows
  BY DEF NoRoom, RoomRows
<1>2. TypeOK
  BY <1>1, IdleIsTyped, TypeParts DEF Init
<1>3. Going /\ OnStanding /\ AloneIsAlone /\ TallyStands /\ ExactAgree
  BY IdleIsTyped DEF Init, Going, OnStanding, AloneIsAlone, TallyStands, ExactAgree, Flying
<1> QED
  BY <1>2, <1>3 DEF RoomInv

LEMMA RoomStep == ASSUME RoomInv, [Next]_vars PROVE RoomInv'
<1>1. ASSUME NEW q \in Requests,
             JoinNext(q) \/ Count(q) \/ Commit(q) \/ Abort(q)
      PROVE  RoomInv'
  BY <1>1, JoinStep, CountStep, CommitStep, AbortStep
<1>2. ASSUME NEW q \in Requests, NEW r \in Rooms, NEW u \in Users, Join(q, r, u) \/ Leave(q, r, u)
      PROVE  RoomInv'
  BY <1>2, JoinStep, LeaveStep
<1>3. ASSUME NEW q \in Requests, NEW r \in Rooms, NEW u \in Users,
             NEW guests \in Guests(u), NEW community \in BOOLEAN, NEW dm \in BOOLEAN,
             NEW d \in Durations \union {Never}, Create(q, r, u, guests, community, dm, d)
      PROVE  RoomInv'
  BY <1>3, CreateStep
<1>4. CASE \E r \in Rooms : Update(r) \/ Delete(r)
  BY <1>4, UpdateStep, DeleteStep
<1>5. CASE ExpireEphemeral \/ ReapEmpty \/ Tick \/ UNCHANGED vars
  BY <1>5, ExpireStep, ReapStep, QuietStep
<1> QED
  BY <1>1, <1>2, <1>3, <1>4, <1>5 DEF Next

\* What a transaction on a room has written and counted stands until its commit,
\* unless another overlapped it; and the derived columns follow (repository.rs).
THEOREM RoomInvariant == Spec => []RoomInv
BY RoomInit, RoomStep, PTL DEF Spec

-----------------------------------------------------------------------------
(***************************************************************************)
(* recount_participants repairs what a race left: after a recount that no  *)
(* other transaction or expiry overlapped, current_participants and        *)
(* emptied_at agree with the participant rows, and go on agreeing through  *)
(* every PATCH, DELETE and job until the next recount.                     *)
(***************************************************************************)
THEOREM ExactRoomsAgree == Spec => []DerivedAgree
<1>1. RoomInv => DerivedAgree
  BY DEF RoomInv, DerivedAgree, ExactAgree, Agrees
<1> QED
  BY <1>1, RoomInvariant, PTL

=============================================================================
