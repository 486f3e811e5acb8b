----------------------------- MODULE SocialProofs -----------------------------
(***************************************************************************)
(* Proofs about Social, for any accounts, any room ids and any number of   *)
(* handlers in flight.  The invariant has two halves that share only the   *)
(* blocks: what the handlers of friendships rely on, and what those of     *)
(* direct rooms do.                                                        *)
(***************************************************************************)
EXTENDS Social, FiniteSetTheorems, TLAPS

PCs == {"idle", "ask", "insert", "answer", "set", "unfriend", "find", "create",
        "joins", "post", "join"}
Reqs == [pc : PCs, who : Users \union {Nobody}, to : Users \union {Nobody}, accept : BOOLEAN,
         row : (Users \union {Nobody}) \X (Users \union {Nobody}),
         room : Rooms \union {NoRoom}, left : SUBSET Users, stale : BOOLEAN]
RoomRows == [of : Pairs \union {{}}, in : SUBSET Users, direct : BOOLEAN, opened : BOOLEAN]

Staled(t) == [t EXCEPT !.stale = TRUE]

(* What a handler of friendships knows: whom it is about; that a pair it   *)
(* found unblocked still is, and the row it found pending still is, unless *)
(* it has been overtaken.                                                  *)
FReq(t) ==
  /\ t.pc \in {"ask", "insert", "answer", "unfriend"} =>
       t.who \in Users /\ t.to \in Users /\ t.who # t.to
  /\ t.pc \in {"ask", "insert"} /\ Blocked(t.who, t.to) => t.stale
  /\ t.pc = "set" =>
       \E a, b \in Users : /\ t.row = <<a, b>> /\ t.who = b
                           /\ ~t.stale => friendship[a][b] = "pending"

OneWay == \A a, b \in Users : a # b => friendship[a][b] = "none" \/ friendship[b][a] = "none"

BlockedApart ==
  \A a, b \in Users :
    Blocked(a, b) /\ friendship[a][b] # "none" =>
      \/ {a, b} \in excused
      \/ \E q \in Requests : req[q].pc = "unfriend" /\ {req[q].who, req[q].to} = {a, b}

FInv == (\A q \in Requests : FReq(req[q])) /\ OneWay /\ BlockedApart

(* What a handler of rooms knows: the room is for the two it is about, and *)
(* a message not overtaken crosses no block in a direct room.              *)
Pair(t) == {t.who, t.to}

RReq(t) ==
  /\ t.pc \in {"find", "create"} => t.who \in Users /\ t.to \in Users
  /\ t.pc \in {"joins", "post", "join"} =>
       /\ t.who \in Users /\ t.to \in Users /\ t.room \in Rooms
       /\ room[t.room].of = Pair(t)
  /\ t.pc = "post" /\ ~t.stale => VisibleAccess(t.room, t.who)

Making == {"create", "joins"}

(* Of the rooms that are as open made them: a pair nobody has split is     *)
(* opened by one handler at a time, for its only room, and everybody is in *)
(* it or still to join.                                                    *)
InOf == \A r \in Rooms : room[r].in \subseteq room[r].of
OpenedIsDirect == \A r \in Rooms : room[r].opened => room[r].direct
OneOpener ==
  \A p, q \in Requests : p # q /\ Opening(p) /\ Opening(q)
    /\ Pair(req[p]) = Pair(req[q]) => Pair(req[p]) \in split
FirstRoom ==
  \A q \in Requests, r \in Rooms :
    req[q].pc = "create" /\ room[r].opened /\ room[r].of = Pair(req[q]) =>
      Pair(req[q]) \in split
OneRoom ==
  \A r, s \in Rooms : r # s /\ room[r].opened /\ room[s].opened /\ room[r].of = room[s].of =>
    room[r].of \in split
Joining(q, r) ==
  req[q].pc = "joins" /\ req[q].room = r /\ room[r].of \ room[r].in \subseteq req[q].left
AllJoin ==
  \A r \in Rooms : room[r].opened /\ room[r].of \notin split =>
    room[r].of \subseteq room[r].in \/ \E q \in Requests : Joining(q, r)

RoomsInv == InOf /\ OpenedIsDirect /\ OneOpener /\ FirstRoom /\ OneRoom /\ AllJoin

RInv == (\A q \in Requests : RReq(req[q])) /\ RoomsInv

IInv == TypeOK /\ FInv /\ RInv

-----------------------------------------------------------------------------
LEMMA TypeParts ==
  TypeOK <=> /\ friendship \in [Users -> [Users -> Statuses]]
             /\ blocks \subseteq Users \X Users /\ room \in [Rooms -> RoomRows]
             /\ req \in [Requests -> Reqs] /\ excused \subseteq Pairs /\ split \subseteq Pairs
  BY DEF TypeOK, Reqs, RoomRows, PCs

LEMMA IdleIsIdle == Idle \in Reqs /\ Idle.pc = "idle" /\ FReq(Idle) /\ RReq(Idle)
<1>1. Idle \in Reqs /\ Idle.pc = "idle"
  BY DEF Idle, Reqs, PCs
<1> QED
  BY <1>1 DEF FReq, RReq

LEMMA StaleKeeps ==
  ASSUME NEW t \in Reqs
  PROVE  /\ Staled(t) \in Reqs /\ Staled(t).pc = t.pc /\ Staled(t).who = t.who
         /\ Staled(t).to = t.to /\ Staled(t).room = t.room /\ Staled(t).left = t.left
         /\ Staled(t).row = t.row /\ Staled(t).accept = t.accept /\ Staled(t).stale
  BY DEF Staled, Reqs

(* One handler moves, and others are overtaken.                            *)
Moved(Q, qs) ==
  /\ req' \in [Requests -> Reqs]
  /\ \A p \in Requests \ Q : req'[p] = IF p \in qs THEN Staled(req[p]) ELSE req[p]

LEMMA OvertakeMoves ==
  ASSUME NEW reqs \in [Requests -> Reqs], NEW qs, NEW q \in Requests, NEW t \in Reqs
  PROVE  /\ Overtake(reqs, qs) \in [Requests -> Reqs]
         /\ [Overtake(reqs, qs) EXCEPT ![q] = t] \in [Requests -> Reqs]
         /\ \A p \in Requests : Overtake(reqs, qs)[p] =
              IF p \in qs THEN Staled(reqs[p]) ELSE reqs[p]
  BY StaleKeeps DEF Overtake, Staled

(* Three ways in which the actions write req.                              *)
LEMMA Moves ==
  ASSUME req \in [Requests -> Reqs], NEW qs, NEW q \in Requests, NEW t \in Reqs
  PROVE  /\ req' = [req EXCEPT ![q] = t] => Moved({q}, {}) /\ req'[q] = t
         /\ req' = [Overtake(req, qs) EXCEPT ![q] = t] => Moved({q}, qs) /\ req'[q] = t
         /\ req' = Overtake(req, qs) => Moved({}, qs)
  BY OvertakeMoves DEF Moved

LEMMA FReqStale ==
  ASSUME NEW t \in Reqs, FReq(t) PROVE FReq(Staled(t))
  BY StaleKeeps DEF FReq

LEMMA RReqStale ==
  ASSUME NEW t \in Reqs, RReq(t) PROVE RReq(Staled(t))
  BY StaleKeeps DEF RReq, Pair

-----------------------------------------------------------------------------
(* Steps that write neither friendships nor blocks.                        *)
LEMMA FriendsQuiet ==
  ASSUME TypeOK, FInv, NEW Q, NEW qs, Moved(Q, qs), UNCHANGED <<friendship, blocks, excused>>,
         \A q \in Q \cap Requests : req[q].pc # "unfriend" /\ FReq(req'[q])
  PROVE  FInv'
<1>0. req \in [Requests -> Reqs]
  BY TypeParts
<1>1. ASSUME NEW p \in Requests PROVE FReq(req[p])'
  <2>1. FReq(req'[p])
    BY <1>0, FReqStale DEF Moved, FInv
  <2> QED
    BY <2>1 DEF FReq, Blocked
<1>2. OneWay'
  BY DEF FInv, OneWay
<1>3. BlockedApart'
  <2>1. \A p \in Requests : req[p].pc = "unfriend" =>
          req'[p].pc = "unfriend" /\ req'[p].who = req[p].who /\ req'[p].to = req[p].to
    BY <1>0, StaleKeeps DEF Moved
  <2> QED
    BY <2>1 DEF FInv, BlockedApart, Blocked
<1> QED
  BY <1>1, <1>2, <1>3 DEF FInv

(* Steps that write no room and open nothing.                              *)
LEMMA OpeningKept ==
  ASSUME RInv, UNCHANGED <<room, split>>,
         \A p \in Requests :
           /\ req'[p].pc \in Making => req[p].pc = req'[p].pc /\ Pair(req'[p]) = Pair(req[p])
           /\ req[p].pc = "joins" => req'[p].pc = "joins" /\ req'[p].room = req[p].room
                                     /\ req'[p].left = req[p].left
  PROVE  RoomsInv'
<1>1. InOf' /\ OpenedIsDirect' /\ OneRoom'
  BY DEF RInv, RoomsInv, InOf, OpenedIsDirect, OneRoom
<1>2. OneOpener'
  <2>1. \A p \in Requests : Opening(p)' => Opening(p) /\ Pair(req'[p]) = Pair(req[p])
    BY DEF Opening, Making
  <2> QED
    BY <2>1 DEF RInv, RoomsInv, OneOpener, Pair
<1>3. FirstRoom'
  BY DEF RInv, RoomsInv, FirstRoom, Pair, Making
<1>4. AllJoin'
  BY DEF RInv, RoomsInv, AllJoin, Joining
<1> QED
  BY <1>1, <1>2, <1>3, <1>4 DEF RoomsInv

(* Steps that write neither rooms nor blocks, and open nothing.            *)
LEMMA RoomsQuiet ==
  ASSUME TypeOK, RInv, NEW Q, NEW qs, Moved(Q, qs), UNCHANGED <<room, blocks, split>>,
         \A q \in Q \cap Requests : /\ req[q].pc # "joins" /\ RReq(req'[q])
                                    /\ req'[q].pc \notin Making
  PROVE  RInv'
<1>0. req \in [Requests -> Reqs]
  BY TypeParts
<1>1. ASSUME NEW p \in Requests PROVE RReq(req[p])'
  <2>1. RReq(req'[p])
    BY <1>0, RReqStale DEF Moved, RInv
  <2> QED
    BY <2>1 DEF RReq, VisibleAccess, Peers, Blocked, Pair
<1>2. \A p \in Requests :
        /\ req'[p].pc \in Making => req[p].pc = req'[p].pc /\ Pair(req'[p]) = Pair(req[p])
        /\ req[p].pc = "joins" => req'[p].pc = "joins" /\ req'[p].room = req[p].room
                                  /\ req'[p].left = req[p].left
  BY <1>0, StaleKeeps DEF Moved, Pair
<1>3. RoomsInv'
  BY <1>2, OpeningKept
<1> QED
  BY <1>1, <1>3 DEF RInv

(* Steps that write friendships overtake whoever answers a changed row.    *)
LEMMA FriendsWritten ==
  ASSUME TypeOK, FInv, NEW Q, NEW qs, Moved(Q, qs), blocks' = blocks,
         \A q \in Q \cap Requests : req'[q] = Idle,
         \A a, b \in Users : friendship'[a][b] = friendship[a][b] \/ Answering(<<a, b>>) \subseteq qs
  PROVE  \A p \in Requests : FReq(req[p])'
<1> SUFFICES ASSUME NEW p \in Requests PROVE FReq(req[p])'
  OBVIOUS
<1>0. req[p] \in Reqs /\ req'[p] \in Reqs /\ FReq(req[p])
  BY TypeParts DEF Moved, FInv
<1>1. CASE p \in Q
  BY <1>1, IdleIsIdle DEF FReq
<1>2. CASE p \notin Q /\ req[p].pc # "set"
  BY <1>0, <1>2, StaleKeeps DEF FReq, Moved, Blocked
<1>3. CASE p \notin Q /\ req[p].pc = "set"
  <2>1. PICK a \in Users, b \in Users : /\ req[p].row = <<a, b>> /\ req[p].who = b
                                        /\ ~req[p].stale => friendship[a][b] = "pending"
    BY <1>0, <1>3 DEF FReq
  <2>2. /\ req'[p].pc = "set" /\ req'[p].row = <<a, b>> /\ req'[p].who = b
        /\ ~req'[p].stale => ~req[p].stale /\ p \notin qs
    BY <1>0, <1>3, <2>1, StaleKeeps DEF Moved
  <2>3. p \in Answering(<<a, b>>)
    BY <1>3, <2>1 DEF Answering
  <2> QED
    BY <2>1, <2>2, <2>3 DEF FReq
<1> QED
  BY <1>1, <1>2, <1>3

LEMMA SamePair ==
  ASSUME NEW x, NEW y, NEW a, NEW b
  PROVE  {x, y} = {a, b} <=> (x = a /\ y = b) \/ (x = b /\ y = a)
  OBVIOUS

LEMMA NoneBetween ==
  ASSUME NEW a \in Users, NEW b \in Users
  PROVE  Between(a, b) = {} <=> friendship[a][b] = "none" /\ friendship[b][a] = "none"
<1>1. <<a, b>> \in Between(a, b) <=> friendship[a][b] # "none"
  BY DEF Between
<1>2. <<b, a>> \in Between(a, b) <=> friendship[b][a] # "none"
  BY DEF Between
<1>3. Between(a, b) \subseteq {<<a, b>>, <<b, a>>}
  BY DEF Between
<1> QED
  BY <1>1, <1>2, <1>3

(* A new row across a block is excused.                                    *)
LEMMA ApartKept ==
  ASSUME TypeOK, FInv, NEW Q, NEW qs, Moved(Q, qs), blocks' = blocks, excused \subseteq excused',
         \A q \in Q \cap Requests : req[q].pc # "unfriend",
         \A x, y \in Users : Blocked(x, y) /\ friendship'[x][y] # "none" /\ friendship[x][y] = "none"
                             => {x, y} \in excused'
  PROVE  BlockedApart'
<1>1. \A p \in Requests : req[p].pc = "unfriend" =>
        req'[p].pc = "unfriend" /\ req'[p].who = req[p].who /\ req'[p].to = req[p].to
  BY TypeParts, StaleKeeps DEF Moved
<1>2. \A x, y \in Users : Blocked(x, y)' <=> Blocked(x, y)
  BY DEF Blocked
<1>3. BlockedApart
  BY DEF FInv
<1> QED
  BY <1>1, <1>2, <1>3 DEF BlockedApart

LEMMA Parts ==
  ASSUME IInv
  PROVE  /\ TypeOK /\ FInv /\ RInv /\ req \in [Requests -> Reqs] /\ room \in [Rooms -> RoomRows]
         /\ friendship \in [Users -> [Users -> Statuses]] /\ blocks \subseteq Users \X Users
         /\ excused \subseteq Pairs /\ split \subseteq Pairs
         /\ \A q \in Requests : FReq(req[q]) /\ RReq(req[q]) /\ req[q] \in Reqs
  BY TypeParts DEF IInv, FInv, RInv

(* A step of one handler that writes nothing but its own state.            *)
LEMMA OwnStep ==
  ASSUME IInv, NEW q \in Requests, NEW t \in Reqs, req' = [req EXCEPT ![q] = t],
         UNCHANGED <<friendship, blocks, room, excused, split>>, FReq(t), RReq(t),
         t.pc \notin Making, req[q].pc \notin {"unfriend", "joins"}
  PROVE  IInv'
<1>1. Moved({q}, {}) /\ req'[q] = t
  BY Parts, Moves
<1>2. FInv'
  BY <1>1, Parts, FriendsQuiet
<1>3. RInv'
  BY <1>1, Parts, RoomsQuiet
<1>4. TypeOK'
  BY <1>1, Parts, TypeParts DEF Moved, TypeOK, Reqs, RoomRows, PCs
<1> QED
  BY <1>2, <1>3, <1>4 DEF IInv

(* The first step of a handler, and the steps that only look.              *)
LEMMA LookingSteps ==
  ASSUME IInv, NEW q \in Requests, NEW a \in Users, NEW b \in Users,
         \/ Request(q, a, b) \/ FindBeforeRequest(q) \/ FindBeforeAnswer(q) \/ Open(q, a, b)
         \/ \E accept \in BOOLEAN : Respond(q, a, b, accept)
         \/ \E r \in Rooms, pc \in {"post", "join"} : Enter(q, r, a, pc)
         \/ PostMessage(q)
  PROVE  IInv'
<1>0. FReq(req[q]) /\ RReq(req[q]) /\ req[q] \in Reqs
  BY Parts, IdleIsIdle
<1>1. CASE Request(q, a, b)
  <2> DEFINE t == [Idle EXCEPT !.pc = "ask", !.who = a, !.to = b]
  <2>1. /\ t \in Reqs /\ t.pc = "ask" /\ t.who = a /\ t.to = b
    BY DEF Idle, Reqs, PCs
  <2>2. req' = [req EXCEPT ![q] = t] /\ UNCHANGED <<friendship, blocks, room, excused, split>>
        /\ req[q].pc = "idle" /\ a # b /\ ~Blocked(a, b)
    BY <1>1 DEF Request
  <2> HIDE DEF t
  <2> QED
    BY <2>1, <2>2, OwnStep DEF FReq, RReq, Making
<1>2. CASE FindBeforeRequest(q)
  <2>1. PICK t : /\ req' = [req EXCEPT ![q] = t]
                 /\ t \in {[req[q] EXCEPT !.pc = "insert"], Idle,
                           [req[q] EXCEPT !.pc = "answer", !.accept = TRUE]}
    BY <1>2 DEF FindBeforeRequest, Finish
  <2>2. req[q].pc = "ask" /\ UNCHANGED <<friendship, blocks, room, excused, split>>
    BY <1>2 DEF FindBeforeRequest
  <2>3. CASE t = Idle
    BY <2>1, <2>2, <2>3, OwnStep, IdleIsIdle DEF Making
  <2>4. CASE t # Idle
    <3>1. /\ t \in Reqs /\ t.pc \in {"insert", "answer"} /\ t.who = req[q].who
          /\ t.to = req[q].to /\ t.stale = req[q].stale
      BY <1>0, <2>1, <2>4 DEF Reqs, PCs
    <3>2. FReq(t) /\ RReq(t)
      BY <1>0, <2>2, <3>1 DEF FReq, RReq
    <3> QED
      BY <2>1, <2>2, <3>1, <3>2, OwnStep DEF Making
  <2> QED
    BY <2>3, <2>4
<1>3. CASE FindBeforeAnswer(q)
  <2> DEFINE found == {p \in Between(req[q].who, req[q].to) : CanRespond(p, req[q].who)}
  <2>1. req[q].pc = "answer" /\ UNCHANGED <<friendship, blocks, room, excused, split>>
    BY <1>3 DEF FindBeforeAnswer
  <2>2. CASE Finish(q)
    BY <2>1, <2>2, OwnStep, IdleIsIdle DEF Making, Finish
  <2>3. ASSUME NEW p \in found,
               req' = [req EXCEPT ![q].pc = "set", ![q].row = p, ![q].stale = FALSE]
        PROVE  IInv'
    <3> DEFINE t == [req[q] EXCEPT !.pc = "set", !.row = p, !.stale = FALSE]
    <3>1. PICK x \in Users, y \in Users :
            p = <<x, y>> /\ friendship[x][y] = "pending" /\ y = req[q].who
      BY <1>0, <2>1, <2>3 DEF Between, CanRespond, Status, FReq
    <3>2. t \in Reqs /\ t.pc = "set" /\ t.row = <<x, y>> /\ t.who = y
      BY <1>0, <3>1 DEF Reqs, PCs
    <3>3. req' = [req EXCEPT ![q] = t]
      BY <2>3, Parts
    <3> HIDE DEF t
    <3>4. FReq(t) /\ RReq(t)
      BY <3>1, <3>2 DEF FReq, RReq
    <3> QED
      BY <2>1, <3>2, <3>3, <3>4, OwnStep DEF Making
  <2> QED
    BY <1>3, <2>2, <2>3 DEF FindBeforeAnswer
<1>4. CASE Open(q, a, b)
  <2> DEFINE t == [Idle EXCEPT !.pc = "find", !.who = a, !.to = b]
  <2>1. t \in Reqs /\ t.pc = "find" /\ t.who = a /\ t.to = b
    BY DEF Idle, Reqs, PCs
  <2>2. req' = [req EXCEPT ![q] = t] /\ UNCHANGED <<friendship, blocks, room, excused, split>>
        /\ req[q].pc = "idle"
    BY <1>4 DEF Open
  <2> HIDE DEF t
  <2> QED
    BY <2>1, <2>2, OwnStep DEF FReq, RReq, Making
<1>5. ASSUME NEW accept \in BOOLEAN, Respond(q, a, b, accept) PROVE IInv'
  <2> DEFINE t == [Idle EXCEPT !.pc = "answer", !.who = a, !.to = b, !.accept = accept]
  <2>1. t \in Reqs /\ t.pc = "answer" /\ t.who = a /\ t.to = b
    BY DEF Idle, Reqs, PCs
  <2>2. req' = [req EXCEPT ![q] = t] /\ UNCHANGED <<friendship, blocks, room, excused, split>>
        /\ req[q].pc = "idle" /\ a # b
    BY <1>5 DEF Respond
  <2> HIDE DEF t
  <2> QED
    BY <2>1, <2>2, OwnStep DEF FReq, RReq, Making
<1>6. ASSUME NEW r \in Rooms, NEW pc \in {"post", "join"}, Enter(q, r, a, pc) PROVE IInv'
  <2>1. PICK other \in room[r].of :
          /\ {a, other} = room[r].of
          /\ req' = [req EXCEPT ![q] =
               [Idle EXCEPT !.pc = pc, !.who = a, !.to = other, !.room = r]]
    BY <1>6 DEF Enter
  <2> DEFINE t == [Idle EXCEPT !.pc = pc, !.who = a, !.to = other, !.room = r]
  <2>2. other \in Users
    <3>1. room[r] \in RoomRows
      BY Parts
    <3>2. room[r].of \subseteq Users
      BY <3>1 DEF RoomRows, Pairs
    <3> QED
      BY <3>2
  <2>3. t \in Reqs /\ t.pc = pc /\ t.who = a /\ t.to = other /\ t.room = r
    BY <2>2 DEF Idle, Reqs, PCs
  <2>4. UNCHANGED <<friendship, blocks, room, excused, split>>
        /\ req[q].pc = "idle" /\ VisibleAccess(r, a)
    BY <1>6 DEF Enter
  <2>5. req' = [req EXCEPT ![q] = t]
    BY <2>1
  <2> HIDE DEF t
  <2>6. FReq(t) /\ RReq(t)
    BY <2>1, <2>2, <2>3, <2>4 DEF FReq, RReq, Pair
  <2> QED
    BY <2>3, <2>4, <2>5, <2>6, OwnStep DEF Making
<1>7. CASE PostMessage(q)
  BY <1>7, OwnStep, IdleIsIdle DEF PostMessage, Finish, Making
<1> QED
  BY <1>1, <1>2, <1>3, <1>4, <1>5, <1>6, <1>7

-----------------------------------------------------------------------------
(* The steps that write friendships or blocks.                             *)

(* INSERT: only when no row joins the pair; one that crosses a block comes *)
(* from a handler that the block overtook.                                 *)
LEMMA InsertStep ==
  ASSUME IInv, NEW q \in Requests, InsertRequest(q)
  PROVE  IInv'
<1>0. /\ FReq(req[q]) /\ req[q].pc = "insert" /\ UNCHANGED <<blocks, room, split>>
  BY Parts DEF InsertRequest
<1>1. PICK a \in Users, b \in Users : a = req[q].who /\ b = req[q].to /\ a # b
  BY <1>0 DEF FReq
<1>2. Moved({q}, Answering(<<a, b>>)) /\ req'[q] = Idle
  BY <1>1, Parts, Moves, IdleIsIdle DEF InsertRequest
<1>3. RInv'
  BY <1>0, <1>2, Parts, RoomsQuiet, IdleIsIdle DEF Making
<1>4. CASE Taken(a, b)
  <2>1. UNCHANGED <<friendship, excused>>
    BY <1>1, <1>4 DEF InsertRequest
  <2>2. FInv'
    BY <1>0, <1>2, <2>1, Parts, FriendsQuiet, IdleIsIdle
  <2>3. TypeOK'
    BY <1>0, <1>2, <2>1, Parts, TypeParts DEF Moved, TypeOK, Reqs, RoomRows, PCs
  <2> QED
    BY <1>3, <2>2, <2>3 DEF IInv
<1>5. CASE ~Taken(a, b)
  <2>1. /\ friendship' = [friendship EXCEPT ![a][b] = "pending"]
        /\ excused' = IF req[q].stale /\ Blocked(a, b) THEN excused \union {{a, b}} ELSE excused
        /\ friendship[a][b] = "none" /\ friendship[b][a] = "none"
    BY <1>1, <1>5, NoneBetween DEF InsertRequest, Taken
  <2>2. friendship' \in [Users -> [Users -> Statuses]] /\ excused' \subseteq Pairs
    BY <2>1, Parts DEF Statuses, Pairs
  <2>3. \A x, y \in Users :
          friendship'[x][y] = IF x = a /\ y = b THEN "pending" ELSE friendship[x][y]
    BY <2>1, Parts
  <2>4. TypeOK'
    BY <1>0, <1>2, <2>2, Parts, TypeParts DEF Moved, TypeOK, Reqs, RoomRows, PCs
  <2>5. \A p \in Requests : FReq(req[p])'
    <3>1. \A x, y \in Users : friendship'[x][y] = friendship[x][y]
                             \/ Answering(<<x, y>>) \subseteq Answering(<<a, b>>)
      BY <2>3
    <3>2. TypeOK /\ FInv
      BY DEF IInv
    <3> QED
      BY <1>0, <1>2, <3>1, <3>2, FriendsWritten
  <2>6. OneWay'
    BY <1>1, <2>1, <2>3, Parts DEF FInv, OneWay
  <2>7. Blocked(a, b) => {a, b} \in excused'
    BY <1>0, <1>1, <2>1 DEF FReq
  <2>8. BlockedApart'
    <3>1. \A x, y \in Users :
            Blocked(x, y) /\ friendship'[x][y] # "none" /\ friendship[x][y] = "none"
            => {x, y} \in excused'
      BY <2>3, <2>7
    <3>2. excused \subseteq excused' /\ TypeOK /\ FInv
      BY <2>1 DEF IInv
    <3> QED
      BY <1>0, <1>2, <3>1, <3>2, ApartKept
  <2> QED
    BY <1>3, <2>4, <2>5, <2>6, <2>8 DEF IInv, FInv
<1> QED
  BY <1>4, <1>5

(* UPDATE: answers a row that is there, and whoever else answers it.       *)
LEMMA SetStatusStep ==
  ASSUME IInv, NEW q \in Requests, SetStatus(q)
  PROVE  IInv'
<1>0. FReq(req[q]) /\ req[q].pc = "set" /\ UNCHANGED <<blocks, room, excused, split>>
  BY Parts DEF SetStatus
<1>1. PICK a \in Users, b \in Users : req[q].row = <<a, b>>
  BY <1>0 DEF FReq
<1>2. Moved({q}, Answering(<<a, b>>)) /\ req'[q] = Idle
  BY <1>1, Parts, Moves, IdleIsIdle DEF SetStatus
<1>3. RInv'
  BY <1>0, <1>2, Parts, RoomsQuiet, IdleIsIdle DEF Making
<1>4. /\ friendship' \in [Users -> [Users -> Statuses]]
      /\ \A x, y \in Users : /\ friendship'[x][y] = "none" <=> friendship[x][y] = "none"
                             /\ x # a \/ y # b => friendship'[x][y] = friendship[x][y]
  <2>1. friendship' = friendship \/
        (friendship[a][b] # "none" /\ \E s \in {"accepted", "declined"} :
           friendship' = [friendship EXCEPT ![a][b] = s])
    BY <1>1 DEF SetStatus, Status, Answer
  <2> QED
    BY <2>1, Parts DEF Statuses
<1>5. TypeOK'
  BY <1>0, <1>2, <1>4, Parts, TypeParts DEF Moved, TypeOK, Reqs, RoomRows, PCs
<1>6. \A p \in Requests : FReq(req[p])'
  <2>1. \A x, y \in Users :
          friendship'[x][y] = friendship[x][y] \/ Answering(<<x, y>>) \subseteq Answering(<<a, b>>)
    BY <1>4
  <2>2. TypeOK /\ FInv
    BY DEF IInv
  <2> QED
    BY <1>0, <1>2, <2>1, <2>2, FriendsWritten
<1>7. OneWay'
  BY <1>4, Parts DEF FInv, OneWay
<1>8. BlockedApart'
  <2>1. TypeOK /\ FInv
    BY DEF IInv
  <2> QED
    BY <1>0, <1>2, <1>4, <2>1, ApartKept
<1> QED
  BY <1>3, <1>5, <1>6, <1>7, <1>8 DEF IInv, FInv

(* DELETE, by remove_friend or by block: the pair is apart.                *)
Ending(Q, a, b) ==
  /\ Moved(Q, Answering(<<a, b>>) \union Answering(<<b, a>>))
  /\ friendship' = Removed(a, b) /\ excused' = excused \ {{a, b}}
  /\ UNCHANGED <<blocks, room, split>>
  /\ \A q \in Q \cap Requests : /\ req'[q] = Idle /\ req[q].pc = "unfriend"
                                 /\ req[q].who = a /\ req[q].to = b

LEMMA RemovedApart ==
  ASSUME IInv, NEW a \in Users, NEW b \in Users, a # b, NEW Q, Ending(Q, a, b)
  PROVE  IInv'
<1> USE DEF Ending
<1>1. RInv'
  BY Parts, RoomsQuiet, IdleIsIdle DEF Making
<1>2. /\ friendship' \in [Users -> [Users -> Statuses]]
      /\ \A x, y \in Users :
           friendship'[x][y] = IF {x, y} = {a, b} THEN "none" ELSE friendship[x][y]
  <2>1. friendship' \in [Users -> [Users -> Statuses]]
    BY Parts DEF Removed, Statuses
  <2>2. \A x, y \in Users : friendship'[x][y] =
          IF (x = a /\ y = b) \/ (x = b /\ y = a) THEN "none" ELSE friendship[x][y]
    BY Parts DEF Removed
  <2>3. ASSUME NEW x \in Users, NEW y \in Users
        PROVE  friendship'[x][y] = IF {x, y} = {a, b} THEN "none" ELSE friendship[x][y]
    <3>1. {x, y} = {a, b} <=> (x = a /\ y = b) \/ (x = b /\ y = a)
      BY SamePair
    <3> QED
      BY <2>2, <3>1
  <2> QED
    BY <2>1, <2>3
<1>3. TypeOK'
  BY <1>2, Parts, TypeParts DEF Moved, TypeOK, Reqs, RoomRows, PCs
<1>4. \A p \in Requests : FReq(req[p])'
  <2>1. \A x, y \in Users :
          \/ friendship'[x][y] = friendship[x][y]
          \/ Answering(<<x, y>>) \subseteq Answering(<<a, b>>) \union Answering(<<b, a>>)
    <3> SUFFICES ASSUME NEW x \in Users, NEW y \in Users,
                        friendship'[x][y] # friendship[x][y]
                 PROVE  Answering(<<x, y>>) \subseteq Answering(<<a, b>>) \union Answering(<<b, a>>)
      OBVIOUS
    <3>1. {x, y} = {a, b}
      BY <1>2
    <3>2. (x = a /\ y = b) \/ (x = b /\ y = a)
      BY <3>1, SamePair
    <3> QED
      BY <3>2
  <2>2. TypeOK /\ FInv
    BY DEF IInv
  <2> QED
    BY <2>1, <2>2, FriendsWritten
<1>5. OneWay'
  BY <1>2, Parts DEF FInv, OneWay
<1>6. BlockedApart'
  <2>1. ASSUME NEW p \in Requests, req[p].pc = "unfriend", {req[p].who, req[p].to} # {a, b}
        PROVE  req'[p].pc = "unfriend" /\ req'[p].who = req[p].who /\ req'[p].to = req[p].to
    <3>1. p \notin Q /\ req[p] \in Reqs
      BY <2>1, Parts
    <3> QED
      BY <2>1, <3>1, StaleKeeps DEF Moved
  <2>2. \A x, y \in Users : Blocked(x, y)' <=> Blocked(x, y)
    BY DEF Blocked
  <2>3. BlockedApart
    BY DEF IInv, FInv
  <2>4. ASSUME NEW x \in Users, NEW y \in Users, Blocked(x, y), friendship'[x][y] # "none"
        PROVE  \/ {x, y} \in excused'
               \/ \E p \in Requests : req'[p].pc = "unfriend" /\ {req'[p].who, req'[p].to} = {x, y}
    <3>1. {x, y} # {a, b} /\ friendship[x][y] # "none"
      BY <1>2, <2>4
    <3>2. CASE {x, y} \in excused
      BY <3>1, <3>2
    <3>3. ASSUME NEW p \in Requests, req[p].pc = "unfriend", {req[p].who, req[p].to} = {x, y}
          PROVE  req'[p].pc = "unfriend" /\ {req'[p].who, req'[p].to} = {x, y}
      BY <2>1, <3>1, <3>3
    <3> QED
      BY <2>3, <2>4, <3>1, <3>2, <3>3 DEF BlockedApart
  <2> QED
    BY <2>2, <2>4 DEF BlockedApart
<1> QED
  BY <1>1, <1>3, <1>4, <1>5, <1>6 DEF IInv, FInv

LEMMA RemoveStep ==
  ASSUME IInv, NEW a \in Users, NEW b \in Users, Remove(a, b)
  PROVE  IInv'
<1>1. Moved({}, Answering(<<a, b>>) \union Answering(<<b, a>>))
  BY Parts, StaleKeeps DEF Remove, Overtake, Moved, Staled
<1>2. Ending({}, a, b) /\ a # b
  BY <1>1 DEF Remove, Ending
<1> QED
  BY <1>2, RemovedApart

LEMMA UnfriendStep ==
  ASSUME IInv, NEW q \in Requests, Unfriend(q)
  PROVE  IInv'
<1>1. PICK x \in Users, y \in Users : x = req[q].who /\ y = req[q].to /\ x # y
  BY Parts DEF Unfriend, FReq
<1>2. Moved({q}, Answering(<<x, y>>) \union Answering(<<y, x>>)) /\ req'[q] = Idle
  BY <1>1, Parts, Moves, IdleIsIdle DEF Unfriend
<1>3. Ending({q}, x, y)
  BY <1>1, <1>2 DEF Unfriend, Ended, Ending
<1> QED
  BY <1>1, <1>3, RemovedApart

LEMMA UnfriendFailsStep ==
  ASSUME IInv, NEW q \in Requests, UnfriendFails(q)
  PROVE  IInv'
<1>1. /\ req[q].pc = "unfriend" /\ UNCHANGED <<friendship, blocks, room, split>>
      /\ req' = [req EXCEPT ![q] = Idle]
  BY DEF UnfriendFails, Finish
<1>2. PICK a \in Users, b \in Users : a = req[q].who /\ b = req[q].to /\ a # b
  BY <1>1, Parts DEF FReq
<1>3. Moved({q}, {}) /\ req'[q] = Idle
  BY <1>1, Parts, Moves, IdleIsIdle
<1>4. RInv'
  BY <1>1, <1>3, Parts, RoomsQuiet, IdleIsIdle DEF Making
<1>5. excused' = IF Between(a, b) = {} THEN excused ELSE excused \union {{a, b}}
  BY <1>2 DEF UnfriendFails, PairOf
<1>6. excused' \subseteq Pairs /\ excused \subseteq excused'
  BY <1>5, Parts DEF Pairs
<1>7. TypeOK'
  BY <1>1, <1>3, <1>6, Parts, TypeParts DEF Moved, TypeOK, Reqs, RoomRows, PCs
<1>8. \A p \in Requests : FReq(req[p])'
  <2>1. TypeOK /\ FInv
    BY DEF IInv
  <2> QED
    BY <1>1, <1>3, <2>1, FriendsWritten
<1>9. OneWay'
  BY <1>1, Parts DEF FInv, OneWay
<1>10. BlockedApart'
  <2>1. ASSUME NEW p \in Requests, req[p].pc = "unfriend", p # q
        PROVE  req'[p].pc = "unfriend" /\ req'[p].who = req[p].who /\ req'[p].to = req[p].to
    BY <1>1, <2>1, Parts
  <2>2. \A x, y \in Users : Blocked(x, y)' <=> Blocked(x, y)
    BY <1>1 DEF Blocked
  <2>3. BlockedApart
    BY DEF IInv, FInv
  <2>4. ASSUME NEW x \in Users, NEW y \in Users, {x, y} = {a, b}, friendship[x][y] # "none"
        PROVE  {x, y} \in excused'
    <3>1. (x = a /\ y = b) \/ (x = b /\ y = a)
      BY <2>4, SamePair
    <3>2. Between(a, b) # {}
      BY <2>4, <3>1, NoneBetween
    <3> QED
      BY <1>5, <2>4, <3>2
  <2>5. ASSUME NEW x \in Users, NEW y \in Users, Blocked(x, y), friendship[x][y] # "none"
        PROVE  \/ {x, y} \in excused'
               \/ \E p \in Requests : req'[p].pc = "unfriend" /\ {req'[p].who, req'[p].to} = {x, y}
    <3>1. CASE {x, y} \in excused \/ {x, y} = {a, b}
      BY <1>6, <2>4, <2>5, <3>1
    <3>2. CASE {x, y} \notin excused /\ {x, y} # {a, b}
      <4>1. PICK p \in Requests : req[p].pc = "unfriend" /\ {req[p].who, req[p].to} = {x, y}
        BY <2>3, <2>5, <3>2 DEF BlockedApart
      <4>2. p # q
        BY <1>2, <3>2, <4>1
      <4> QED
        BY <2>1, <4>1, <4>2
    <3> QED
      BY <3>1, <3>2
  <2> QED
    BY <1>1, <2>2, <2>5 DEF BlockedApart
<1> QED
  BY <1>4, <1>7, <1>8, <1>9, <1>10 DEF IInv, FInv

(* A new block overtakes whoever is about to reach across it.              *)
LEMMA BlockStep ==
  ASSUME IInv, NEW q \in Requests, NEW a \in Users, NEW b \in Users, Block(q, a, b)
  PROVE  IInv'
<1> DEFINE t == [Idle EXCEPT !.pc = "unfriend", !.who = a, !.to = b]
<1>1. /\ req[q].pc = "idle" /\ a # b /\ blocks' = blocks \union {<<a, b>>}
      /\ UNCHANGED <<friendship, room, excused, split>>
  BY DEF Block
<1>2. t \in Reqs /\ t.pc = "unfriend" /\ t.who = a /\ t.to = b
  BY DEF Idle, Reqs, PCs
<1>3. req' = [Overtake(req, Reaching(a, b)) EXCEPT ![q] = t]
  BY DEF Block
<1> HIDE DEF t
<1>4. Moved({q}, Reaching(a, b)) /\ req'[q] = t
  BY <1>2, <1>3, Parts, Moves
<1>5. TypeOK'
  <2>1. blocks' \subseteq Users \X Users
    BY <1>1, Parts
  <2> QED
    BY <1>1, <1>4, <2>1, Parts, TypeParts DEF Moved, TypeOK, Reqs, RoomRows, PCs
<1>6. \A x, y \in Users : Blocked(x, y)' <=> Blocked(x, y) \/ {x, y} = {a, b}
  <2>1. ASSUME NEW x \in Users, NEW y \in Users
        PROVE  Blocked(x, y)' <=> Blocked(x, y) \/ {x, y} = {a, b}
    <3>1. {x, y} = {a, b} <=> (x = a /\ y = b) \/ (x = b /\ y = a)
      BY SamePair
    <3> QED
      BY <1>1, <3>1 DEF Blocked
  <2> QED
    BY <2>1
<1>7. \A p \in Requests : FReq(req[p])'
  <2> SUFFICES ASSUME NEW p \in Requests PROVE FReq(req[p])'
    OBVIOUS
  <2>0. req[p] \in Reqs /\ FReq(req[p])
    BY Parts
  <2>1. CASE p = q
    BY <1>1, <1>2, <1>4, <2>1 DEF FReq
  <2>2. CASE p # q /\ req[p].pc \in {"ask", "insert"}
    <3>1. /\ req'[p].pc = req[p].pc /\ req'[p].who = req[p].who /\ req'[p].to = req[p].to
          /\ req[p].stale \/ p \in Reaching(a, b) => req'[p].stale
          /\ req[p].who \in Users /\ req[p].to \in Users /\ req[p].who # req[p].to
      BY <1>4, <2>0, <2>2, StaleKeeps DEF Moved, FReq
    <3>2. {req[p].who, req[p].to} = {a, b} => p \in Reaching(a, b)
      BY <2>2 DEF Reaching, PairOf
    <3>3. PICK x \in Users, y \in Users : x = req[p].who /\ y = req[p].to
      BY <3>1
    <3>4. Blocked(x, y)' => req'[p].stale
      BY <1>6, <2>0, <2>2, <3>1, <3>2, <3>3 DEF FReq
    <3>5. x = req'[p].who /\ y = req'[p].to
      BY <3>1, <3>3
    <3>6. Blocked(req[p].who, req[p].to)' => Blocked(x, y)'
      BY <3>5 DEF Blocked
    <3> QED
      BY <2>2, <3>1, <3>4, <3>6 DEF FReq
  <2>3. CASE p # q /\ req[p].pc \notin {"ask", "insert"}
    BY <1>1, <1>4, <2>0, <2>3, StaleKeeps DEF Moved, FReq
  <2> QED
    BY <2>1, <2>2, <2>3
<1>8. OneWay'
  BY <1>1, Parts DEF FInv, OneWay
<1>9. BlockedApart'
  <2>1. \A p \in Requests : req[p].pc = "unfriend" =>
          req'[p].pc = "unfriend" /\ req'[p].who = req[p].who /\ req'[p].to = req[p].to
    BY <1>1, <1>4, Parts, StaleKeeps DEF Moved
  <2>2. req'[q].pc = "unfriend" /\ {req'[q].who, req'[q].to} = {a, b}
    BY <1>2, <1>4
  <2>3. BlockedApart
    BY DEF IInv, FInv
  <2>4. ASSUME NEW x \in Users, NEW y \in Users, Blocked(x, y)', friendship[x][y] # "none"
        PROVE  \/ {x, y} \in excused
               \/ \E p \in Requests : req'[p].pc = "unfriend" /\ {req'[p].who, req'[p].to} = {x, y}
    <3>1. CASE {x, y} = {a, b}
      BY <2>2, <3>1
    <3>2. ASSUME NEW p \in Requests, req[p].pc = "unfriend", {req[p].who, req[p].to} = {x, y}
          PROVE  req'[p].pc = "unfriend" /\ {req'[p].who, req'[p].to} = {x, y}
      BY <2>1, <3>2
    <3>3. CASE Blocked(x, y)
      BY <2>3, <2>4, <3>2, <3>3 DEF BlockedApart
    <3> QED
      BY <1>6, <2>4, <3>1, <3>3
  <2> QED
    BY <1>1, <2>4 DEF BlockedApart
<1>10. \A p \in Requests : RReq(req[p])'
  <2> SUFFICES ASSUME NEW p \in Requests PROVE RReq(req[p])'
    OBVIOUS
  <2>0. req[p] \in Reqs /\ RReq(req[p]) /\ InOf
    BY Parts DEF RInv, RoomsInv
  <2>1. CASE p = q
    BY <1>2, <1>4, <2>1 DEF RReq
  <2>2. CASE p # q
    <3>1. /\ req'[p].pc = req[p].pc /\ req'[p].who = req[p].who /\ req'[p].to = req[p].to
          /\ req'[p].room = req[p].room
          /\ req[p].stale \/ p \in Reaching(a, b) => req'[p].stale
      BY <1>4, <2>0, <2>2, StaleKeeps DEF Moved
    <3>2. ASSUME req[p].pc = "post", ~req'[p].stale
          PROVE  VisibleAccess(req[p].room, req[p].who)'
      <4>1. PICK u \in Users, r \in Rooms, w \in Users :
              /\ u = req[p].who /\ r = req[p].room /\ w = req[p].to
              /\ room[r].of = {u, w} /\ VisibleAccess(r, u)
        BY <2>0, <3>1, <3>2 DEF RReq, Pair
      <4>2. {u, w} # {a, b}
        BY <3>1, <3>2, <4>1 DEF Reaching, PairOf
      <4>3. ASSUME room[r].direct, NEW o \in Peers(r, u) PROVE ~Blocked(u, o)'
        <5>1. o = w /\ o \in Users /\ ~Blocked(u, o)
          BY <2>0, <4>1, <4>3 DEF Peers, InOf, VisibleAccess
        <5> QED
          BY <1>6, <4>2, <5>1
      <4>4. VisibleAccess(r, u)'
        BY <1>1, <4>3 DEF VisibleAccess, Peers
      <4>5. r = req'[p].room /\ u = req'[p].who
        BY <3>1, <4>1
      <4> QED
        BY <4>4, <4>5 DEF VisibleAccess, Peers, Blocked
    <3> QED
      BY <1>1, <2>0, <3>1, <3>2 DEF RReq, Pair
  <2> QED
    BY <2>1, <2>2
<1>11. RoomsInv'
  <2>1. \A p \in Requests :
          /\ req'[p].pc \in Making => req[p].pc = req'[p].pc /\ Pair(req'[p]) = Pair(req[p])
          /\ req[p].pc = "joins" => req'[p].pc = "joins" /\ req'[p].room = req[p].room
                                    /\ req'[p].left = req[p].left
    BY <1>1, <1>2, <1>4, Parts, StaleKeeps DEF Moved, Pair, Making
  <2> QED
    BY <1>1, <2>1, Parts, OpeningKept
<1> QED
  BY <1>5, <1>7, <1>8, <1>9, <1>10, <1>11 DEF IInv, FInv, RInv

LEMMA UnblockStep ==
  ASSUME IInv, NEW a \in Users, NEW b \in Users, Unblock(a, b)
  PROVE  IInv'
<1>1. blocks' = blocks \ {<<a, b>>} /\ UNCHANGED <<friendship, room, req, excused, split>>
  BY DEF Unblock
<1>2. \A x, y : Blocked(x, y)' => Blocked(x, y)
  BY <1>1 DEF Blocked
<1>3. TypeOK'
  BY <1>1, Parts, TypeParts DEF TypeOK, Reqs, RoomRows, PCs
<1>4. ASSUME NEW p \in Requests PROVE FReq(req[p])' /\ RReq(req[p])'
  <2>1. FReq(req[p]) /\ RReq(req[p])
    BY Parts
  <2> QED
    BY <1>1, <2>1 DEF FReq, RReq, VisibleAccess, Peers, Blocked, Pair
<1>5. OneWay' /\ BlockedApart'
  BY <1>1, <1>2, Parts DEF FInv, OneWay, BlockedApart
<1>6. RoomsInv'
  BY <1>1, Parts DEF RInv, RoomsInv, InOf, OpenedIsDirect, OneOpener, FirstRoom, OneRoom,
     AllJoin, Joining, Pair, Opening
<1> QED
  BY <1>3, <1>4, <1>5, <1>6 DEF IInv, FInv, RInv

-----------------------------------------------------------------------------
(* The steps that open, fill or empty a direct room.                       *)

(* FindDirectRoom: nobody else is opening the pair's room, or it is split. *)
LEMMA FindStep ==
  ASSUME IInv, NEW q \in Requests, FindDirectRoom(q)
  PROVE  IInv'
<1>1. req[q].pc = "find" /\ UNCHANGED <<friendship, blocks, room, excused>>
  BY DEF FindDirectRoom
<1>2. CASE Finish(q) /\ UNCHANGED split
  BY <1>1, <1>2, OwnStep, IdleIsIdle DEF Finish, Making
<1>3. CASE /\ Shared(req[q].who, req[q].to) = {}
           /\ req' = [req EXCEPT ![q].pc = "create"]
           /\ split' = IF \E o \in Requests \ {q} : Opening(o) /\ PairOf(o) = PairOf(q)
                       THEN split \union {PairOf(q)} ELSE split
  <2>0. PICK P : P = Pair(req[q]) /\ P = PairOf(q)
    BY DEF Pair, PairOf
  <2> DEFINE t == [req[q] EXCEPT !.pc = "create"]
  <2>1. /\ t \in Reqs /\ t.pc = "create" /\ t.who = req[q].who /\ t.to = req[q].to
        /\ req' = [req EXCEPT ![q] = t]
    BY <1>3, Parts DEF Reqs, PCs
  <2> HIDE DEF t
  <2>2. Moved({q}, {}) /\ req'[q] = t /\ Pair(t) = P
    BY <2>0, <2>1, Parts, Moves DEF Pair
  <2>3. req[q].who \in Users /\ req[q].to \in Users
    BY <1>1, Parts DEF RReq
  <2>4. FInv'
    BY <1>1, <2>1, <2>2, Parts, FriendsQuiet DEF FReq
  <2>5. TypeOK'
    <3>1. P \in Pairs
      BY <2>0, <2>3 DEF Pairs, Pair
    <3>2. split' \subseteq Pairs
      BY <1>3, <2>0, <3>1, Parts
    <3> QED
      BY <1>1, <2>2, <3>2, Parts, TypeParts DEF Moved, TypeOK, Reqs, RoomRows, PCs
  <2>6. /\ split \subseteq split'
        /\ \A o \in Requests \ {q} : Opening(o) /\ Pair(req[o]) = P => P \in split'
    <3>1. \A o \in Requests : PairOf(o) = Pair(req[o])
      BY DEF PairOf, Pair
    <3> QED
      BY <1>3, <2>0, <3>1
  <2>7. \A p \in Requests : req'[p] = IF p = q THEN t ELSE req[p]
    BY <2>1, Parts
  <2>8. ASSUME NEW p \in Requests PROVE RReq(req[p])'
    <3>1. RReq(req'[p])
      BY <2>1, <2>3, <2>7, Parts DEF RReq
    <3> QED
      BY <1>1, <3>1 DEF RReq, VisibleAccess, Peers, Blocked, Pair
  <2>9. InOf' /\ OpenedIsDirect' /\ OneRoom'
    BY <1>1, <2>6, Parts DEF RInv, RoomsInv, InOf, OpenedIsDirect, OneRoom
  <2>10. OneOpener'
    <3>0. \A p \in Requests \ {q} : Opening(p)' => Opening(p)
      BY <1>1, <2>7 DEF Opening
    <3>1. OneOpener
      BY Parts DEF RInv, RoomsInv
    <3>2. ASSUME NEW p \in Requests, NEW o \in Requests, p # o, Opening(p)',
                 Opening(o)', Pair(req'[p]) = Pair(req'[o])
          PROVE  Pair(req'[p]) \in split'
      <4>1. CASE p = q \/ o = q
        BY <2>2, <2>6, <2>7, <3>0, <3>2, <4>1
      <4>2. CASE p # q /\ o # q
        BY <2>6, <2>7, <3>0, <3>1, <3>2, <4>2 DEF OneOpener
      <4> QED
        BY <4>1, <4>2
    <3> QED
      BY <3>2 DEF OneOpener, Pair
  <2>11. FirstRoom'
    <3>1. ASSUME NEW r \in Rooms, room[r].opened, room[r].of = P PROVE P \in split'
      <4>1. ~(room[r].of \subseteq room[r].in)
        <5>1. room[r].direct
          BY <3>1, Parts DEF RInv, RoomsInv, OpenedIsDirect
        <5> QED
          BY <1>3, <2>0, <3>1, <5>1 DEF Shared, Pair
      <4>2. CASE P \in split
        BY <2>6, <4>2
      <4>3. ASSUME NEW o \in Requests, Joining(o, r) PROVE P \in split'
        <5>1. req[o].pc = "joins" /\ req[o].room = r /\ Pair(req[o]) = P /\ o # q
          BY <1>1, <3>1, <4>3, Parts DEF Joining, RReq
        <5> QED
          BY <2>6, <3>1, <5>1 DEF Opening
      <4>4. AllJoin
        BY Parts DEF RInv, RoomsInv
      <4> QED
        BY <3>1, <4>1, <4>2, <4>3, <4>4 DEF AllJoin
    <3>2. FirstRoom
      BY Parts DEF RInv, RoomsInv
    <3>3. ASSUME NEW p \in Requests, NEW r \in Rooms, req'[p].pc = "create",
                 room'[r].opened, room'[r].of = Pair(req'[p])
          PROVE  Pair(req'[p]) \in split'
      <4>1. CASE p = q
        BY <1>1, <2>2, <3>1, <3>3, <4>1
      <4>2. CASE p # q
        BY <1>1, <2>6, <2>7, <3>2, <3>3, <4>2 DEF FirstRoom
      <4> QED
        BY <4>1, <4>2
    <3> QED
      BY <3>3 DEF FirstRoom, Pair
  <2>12. AllJoin'
    <3>1. \A p \in Requests : req[p].pc = "joins" => req'[p] = req[p]
      BY <1>1, <2>7
    <3> QED
      BY <1>1, <2>6, <3>1, Parts DEF RInv, RoomsInv, AllJoin, Joining
  <2> QED
    BY <2>4, <2>5, <2>8, <2>9, <2>10, <2>11, <2>12 DEF IInv, RInv, RoomsInv
<1> QED
  BY <1>2, <1>3 DEF FindDirectRoom

(* CreateRoom: the new room is the pair's first, or the pair is split.     *)
LEMMA CreateStep ==
  ASSUME IInv, NEW q \in Requests, NEW r \in Rooms, CreateRoom(q, r)
  PROVE  IInv'
<1>0. PICK P : P = Pair(req[q]) /\ P = PairOf(q)
  BY DEF Pair, PairOf
<1> DEFINE t == [req[q] EXCEPT !.pc = "joins", !.room = r, !.left = P]
           new == Row(req[q].who, req[q].to, TRUE, TRUE)
<1>1. /\ req[q].pc = "create" /\ room[r].of = {}
      /\ UNCHANGED <<friendship, blocks, excused, split>>
      /\ req' = [req EXCEPT ![q] = t] /\ room' = [room EXCEPT ![r] = new]
  <2>1. req[q].pc = "create" /\ room[r] = Unopened
        /\ UNCHANGED <<friendship, blocks, excused, split>> /\ room' = [room EXCEPT ![r] = new]
    BY <1>0 DEF CreateRoom
  <2>2. room[r].of = {}
    BY <2>1 DEF Unopened
  <2>3. req' = [req EXCEPT ![q] = t]
    BY <1>0 DEF CreateRoom
  <2> QED
    BY <2>1, <2>2, <2>3
<1>2. req[q].who \in Users /\ req[q].to \in Users
  BY <1>1, Parts DEF RReq
<1>3. /\ t \in Reqs /\ t.pc = "joins" /\ t.who = req[q].who /\ t.to = req[q].to
      /\ t.room = r /\ t.left = P /\ Pair(t) = P /\ P # {}
      /\ new \in RoomRows /\ new.of = P /\ new.in = {} /\ new.direct /\ new.opened
  <2>1. P \subseteq Users /\ P \in Pairs /\ P # {} /\ req[q] \in Reqs
    BY <1>0, <1>2, Parts DEF Pairs, Pair
  <2>2. /\ t \in Reqs /\ t.pc = "joins" /\ t.who = req[q].who /\ t.to = req[q].to
        /\ t.room = r /\ t.left = P
    BY <2>1 DEF Reqs, PCs
  <2>3. new \in RoomRows /\ new.of = P /\ new.in = {} /\ new.direct /\ new.opened
    BY <1>0, <2>1 DEF RoomRows, Row, Pair
  <2>4. Pair(t) = P
    BY <1>0, <2>2 DEF Pair
  <2> QED
    BY <2>1, <2>2, <2>3, <2>4
<1> HIDE DEF t, new
<1>4. Moved({q}, {}) /\ req'[q] = t
  BY <1>1, <1>3, Parts, Moves
<1>5. \A p \in Requests : req'[p] = IF p = q THEN t ELSE req[p]
  BY <1>1, Parts
<1>6. \A s \in Rooms : room'[s] = IF s = r THEN new ELSE room[s]
  BY <1>1, Parts
<1>7. FInv'
  BY <1>1, <1>3, <1>4, Parts, FriendsQuiet DEF FReq
<1>8. TypeOK'
  <2>1. room' \in [Rooms -> RoomRows]
    BY <1>1, <1>3, Parts
  <2> QED
    BY <1>1, <1>4, <2>1, Parts, TypeParts DEF Moved, TypeOK, Reqs, RoomRows, PCs
<1>9. ASSUME NEW p \in Requests PROVE RReq(req[p])'
  <2>1. CASE p = q
    BY <1>2, <1>3, <1>5, <1>6, <2>1 DEF RReq, Pair
  <2>2. CASE p # q
    <3>1. RReq(req[p]) /\ req'[p] = req[p]
      BY <1>5, <2>2, Parts
    <3>2. req[p].pc \in {"joins", "post", "join"} =>
            room'[req[p].room] = room[req[p].room]
      BY <1>1, <1>6, <3>1 DEF RReq, Pair
    <3> QED
      BY <1>1, <3>1, <3>2 DEF RReq, VisibleAccess, Peers, Blocked, Pair
  <2> QED
    BY <2>1, <2>2
<1>10. InOf' /\ OpenedIsDirect'
  BY <1>3, <1>6, Parts DEF RInv, RoomsInv, InOf, OpenedIsDirect
<1>11. /\ \A p \in Requests : Pair(req'[p]) = Pair(req[p])
       /\ \A p \in Requests \ {q} : req'[p] = req[p]
       /\ Pair(req[q]) = P
  BY <1>0, <1>3, <1>5
<1>12. OneOpener'
  <2>1. ASSUME NEW p \in Requests, Opening(p)' PROVE Opening(p)
    <3>1. CASE p = q
      BY <1>1, <3>1 DEF Opening
    <3>2. CASE p # q
      <4>1. req'[p] = req[p] /\ RReq(req[p])
        BY <1>5, <3>2, Parts
      <4>2. req[p].pc = "joins" => room'[req[p].room] = room[req[p].room]
        BY <1>1, <1>6, <4>1 DEF RReq, Pair
      <4> QED
        BY <2>1, <4>1, <4>2 DEF Opening
    <3> QED
      BY <3>1, <3>2
  <2>2. OneOpener
    BY Parts DEF RInv, RoomsInv
  <2>3. ASSUME NEW p \in Requests, NEW o \in Requests, p # o, Opening(p)',
               Opening(o)', Pair(req'[p]) = Pair(req'[o])
        PROVE  Pair(req'[p]) \in split
    BY <1>11, <2>1, <2>2, <2>3 DEF OneOpener
  <2> QED
    BY <1>1, <2>3 DEF OneOpener, Pair
<1>13. \A p \in Requests \ {q} : req[p].pc = "create" /\ Pair(req[p]) = P => P \in split
  <2>1. OneOpener
    BY Parts DEF RInv, RoomsInv
  <2> QED
    BY <1>1, <1>11, <2>1 DEF OneOpener, Opening
<1>14. FirstRoom'
  <2>1. FirstRoom
    BY Parts DEF RInv, RoomsInv
  <2>2. ASSUME NEW p \in Requests, NEW s \in Rooms, req'[p].pc = "create",
               room'[s].opened, room'[s].of = Pair(req'[p])
        PROVE  Pair(req'[p]) \in split
    <3>1. p # q /\ req'[p] = req[p] /\ Pair(req'[p]) = Pair(req[p])
      BY <1>3, <1>5, <1>11, <2>2
    <3>2. CASE s = r
      BY <1>3, <1>6, <1>13, <2>2, <3>1, <3>2
    <3>3. CASE s # r
      BY <1>6, <2>1, <2>2, <3>1, <3>3 DEF FirstRoom
    <3> QED
      BY <3>2, <3>3
  <2> QED
    BY <1>1, <2>2 DEF FirstRoom, Pair
<1>15. OneRoom'
  <2>1. OneRoom /\ FirstRoom
    BY Parts DEF RInv, RoomsInv
  <2>2. \A s \in Rooms : room[s].opened /\ room[s].of = P => P \in split
    BY <1>1, <1>11, <2>1 DEF FirstRoom
  <2> QED
    BY <1>1, <1>3, <1>6, <2>1, <2>2 DEF OneRoom
<1>16. AllJoin'
  <2>1. AllJoin
    BY Parts DEF RInv, RoomsInv
  <2>2. ASSUME NEW s \in Rooms, s # r, NEW p \in Requests, Joining(p, s)
        PROVE  Joining(p, s)'
    BY <1>1, <1>5, <1>6, <2>2 DEF Joining
  <2>3. Joining(q, r)'
    BY <1>3, <1>5, <1>6 DEF Joining
  <2> QED
    BY <1>1, <1>6, <2>1, <2>2, <2>3 DEF AllJoin
<1> QED
  BY <1>7, <1>8, <1>9, <1>10, <1>12, <1>14, <1>15, <1>16 DEF IInv, RInv, RoomsInv

(* The three rules about who opens survive a step that opens nothing:      *)
(* a room as open made it was that before, for the same two, and whoever   *)
(* is opening one already was.                                             *)
Settled == \A s \in Rooms : room'[s].opened => room[s].opened /\ room'[s].of = room[s].of

Remains(p) ==
  req[p].pc = req'[p].pc /\ Pair(req'[p]) = Pair(req[p]) /\ req'[p].room = req[p].room

LEMMA OpeningsKept ==
  ASSUME IInv, split \subseteq split', Settled,
         \A p \in Requests : Opening(p)' => Remains(p)
  PROVE  OneOpener' /\ FirstRoom' /\ OneRoom'
<1>0. OneOpener /\ FirstRoom /\ OneRoom
  BY DEF IInv, RInv, RoomsInv
<1>1. ASSUME NEW p \in Requests, NEW o \in Requests, p # o, Opening(p)',
             Opening(o)', Pair(req'[p]) = Pair(req'[o])
      PROVE  Pair(req'[p]) \in split'
  <2>1. ASSUME NEW x \in Requests, Opening(x)'
        PROVE  Opening(x) /\ Pair(req'[x]) = Pair(req[x])
    <3>1. Remains(x) /\ RReq(req[x])
      BY <2>1, Parts
    <3> QED
      BY <2>1, <3>1 DEF Opening, Remains, RReq, Settled
  <2> QED
    BY <1>0, <1>1, <2>1 DEF OneOpener
<1>2. ASSUME NEW p \in Requests, NEW s \in Rooms, req'[p].pc = "create",
             room'[s].opened, room'[s].of = Pair(req'[p])
      PROVE  Pair(req'[p]) \in split'
  BY <1>0, <1>2 DEF FirstRoom, Opening, Remains, Settled
<1>3. OneRoom'
  BY <1>0 DEF OneRoom, Settled
<1>4. OneOpener'
  BY <1>1 DEF OneOpener, Pair
<1>5. FirstRoom'
  BY <1>2 DEF FirstRoom, Pair
<1> QED
  BY <1>3, <1>4, <1>5

(* A handler keeps what it knows of its room when it is overtaken, if at   *)
(* all, and stays where it is; one that posts is overtaken or sees nobody  *)
(* come in and the room not become direct.                                 *)
Carried(t, u) ==
  /\ u.pc = t.pc /\ u.who = t.who /\ u.to = t.to /\ u.room = t.room
  /\ t.stale => u.stale

NoWider(r) ==
  room'[r].in \subseteq room[r].in /\ (room'[r].direct => room[r].direct)

LEMMA KnowsRoom ==
  ASSUME NEW p \in Requests, RReq(req[p]), blocks' = blocks,
         \A s \in Rooms : room'[s].of = room[s].of,
         \/ req'[p] = Idle
         \/ /\ Carried(req[p], req'[p])
            /\ req[p].pc = "post" => req'[p].stale \/ NoWider(req[p].room)
  PROVE  RReq(req[p])'
<1>1. CASE req'[p] = Idle
  <2>1. req'[p].pc = "idle"
    BY <1>1, IdleIsIdle
  <2> QED
    BY <2>1 DEF RReq
<1>2. CASE /\ Carried(req[p], req'[p])
           /\ req[p].pc = "post" => req'[p].stale \/ NoWider(req[p].room)
  <2>1. /\ req'[p].pc = req[p].pc /\ req'[p].who = req[p].who /\ req'[p].to = req[p].to
        /\ req'[p].room = req[p].room /\ (req[p].stale => req'[p].stale)
    BY <1>2 DEF Carried
  <2>2. ASSUME req[p].pc = "post", ~req'[p].stale
        PROVE  VisibleAccess(req[p].room, req[p].who)'
    <3>1. PICK s, u : s = req[p].room /\ u = req[p].who
      OBVIOUS
    <3>2. VisibleAccess(s, u) /\ NoWider(s)
      BY <1>2, <2>1, <2>2, <3>1 DEF RReq
    <3>3. room'[s].direct => \A x \in room'[s].in \ {u} : ~Blocked(u, x)'
      BY <3>2 DEF VisibleAccess, Peers, Blocked, NoWider
    <3> QED
      BY <2>1, <3>1, <3>3 DEF VisibleAccess, Peers, Blocked
  <2>3. req[p].pc \in {"joins", "post", "join"} =>
          room'[req[p].room].of = room[req[p].room].of
    BY DEF RReq
  <2> QED
    BY <2>1, <2>2, <2>3 DEF RReq, Pair
<1> QED
  BY <1>1, <1>2

(* Somebody comes into a room.                                             *)
ComesIn(r, u) == u \in room[r].of /\ room' = [room EXCEPT ![r].in = @ \union {u}]
HasCome(r, u) ==
  \A s \in Rooms : /\ room'[s].of = room[s].of /\ room'[s].direct = room[s].direct
                    /\ room'[s].opened = room[s].opened
                    /\ room'[s].in = IF s = r THEN room[r].in \union {u} ELSE room[s].in

LEMMA EnteredRoom ==
  ASSUME IInv, NEW r \in Rooms, NEW u \in Users, ComesIn(r, u)
  PROVE  room' \in [Rooms -> RoomRows] /\ InOf' /\ OpenedIsDirect' /\ HasCome(r, u)
<1>1. room[r] \in RoomRows /\ InOf /\ OpenedIsDirect
  BY Parts DEF RInv, RoomsInv
<1> DEFINE new == [room[r] EXCEPT !.in = room[r].in \union {u}]
<1>2. /\ new \in RoomRows /\ new.of = room[r].of /\ new.in = room[r].in \union {u}
      /\ new.direct = room[r].direct /\ new.opened = room[r].opened
  BY <1>1 DEF RoomRows
<1>3. room' = [room EXCEPT ![r] = new] /\ u \in room[r].of
  BY DEF ComesIn
<1> HIDE DEF new
<1>4. room' \in [Rooms -> RoomRows] /\ \A s \in Rooms : room'[s] = IF s = r THEN new ELSE room[s]
  BY <1>2, <1>3, Parts
<1>5. InOf' /\ OpenedIsDirect'
  BY <1>1, <1>2, <1>3, <1>4 DEF InOf, OpenedIsDirect
<1> QED
  BY <1>2, <1>4, <1>5 DEF HasCome

LEMMA JoinStep ==
  ASSUME IInv, NEW q \in Requests, Join(q)
  PROVE  IInv'
<1>1. PICK r \in Rooms, u \in Users : r = req[q].room /\ u = req[q].who /\ u \in room[r].of
  BY Parts DEF Join, RReq, Pair
<1>2. /\ req[q].pc = "join" /\ UNCHANGED <<friendship, blocks, excused, split>>
      /\ room' = [room EXCEPT ![r].in = @ \union {u}]
      /\ req' = [Overtake(req, Posting(r)) EXCEPT ![q] = Idle]
  BY <1>1 DEF Join
<1>3. Moved({q}, Posting(r)) /\ req'[q] = Idle
  BY <1>2, Parts, Moves, IdleIsIdle
<1>4. ComesIn(r, u)
  BY <1>1, <1>2 DEF ComesIn
<1>5. room' \in [Rooms -> RoomRows] /\ InOf' /\ OpenedIsDirect' /\ HasCome(r, u)
  BY <1>4, EnteredRoom
<1>6. TypeOK'
  BY <1>2, <1>3, <1>5, Parts, TypeParts DEF Moved, TypeOK, Reqs, RoomRows, PCs
<1>7. FInv'
  BY <1>2, <1>3, Parts, FriendsQuiet, IdleIsIdle
<1>8. \A p \in Requests \ {q} :
        /\ Carried(req[p], req'[p]) /\ req'[p].left = req[p].left
        /\ req[p].pc = "post" /\ req[p].room = r => req'[p].stale
  BY <1>3, Parts, StaleKeeps DEF Moved, Carried, Posting
<1>9. ASSUME NEW p \in Requests PROVE RReq(req[p])'
  <2>1. RReq(req[p])
    BY Parts
  <2>2. CASE p = q
    BY <1>2, <1>3, <1>5, <2>1, <2>2, KnowsRoom DEF HasCome
  <2>3. CASE p # q
    <3>1. req[p].pc = "post" => req'[p].stale \/ NoWider(req[p].room)
      BY <1>5, <1>8, <2>1, <2>3 DEF RReq, HasCome, NoWider
    <3> QED
      BY <1>2, <1>5, <1>8, <2>1, <2>3, <3>1, KnowsRoom DEF HasCome
  <2> QED
    BY <2>2, <2>3
<1>10. \A p \in Requests : req[p].pc = "joins" =>
        req'[p].pc = "joins" /\ req'[p].room = req[p].room /\ req'[p].left = req[p].left
  BY <1>2, <1>8 DEF Carried
<1>11. OneOpener' /\ FirstRoom' /\ OneRoom'
  <2>1. \A p \in Requests : req'[p].pc \in Making => Remains(p)
    BY <1>3, <1>8, IdleIsIdle DEF Carried, Pair, Making, Remains
  <2>2. Settled /\ split \subseteq split'
    BY <1>2, <1>5 DEF HasCome, Settled
  <2> QED
    BY <2>1, <2>2, OpeningsKept DEF Opening, Making
<1>12. AllJoin'
  <2>1. ASSUME NEW s \in Rooms, NEW p \in Requests, Joining(p, s) PROVE Joining(p, s)'
    BY <1>5, <1>10, <2>1 DEF Joining, HasCome
  <2>2. AllJoin
    BY Parts DEF RInv, RoomsInv
  <2> QED
    BY <1>2, <1>5, <2>1, <2>2 DEF AllJoin, HasCome
<1> QED
  BY <1>5, <1>6, <1>7, <1>9, <1>11, <1>12 DEF IInv, RInv, RoomsInv

(* JoinNext: whoever is let in is no longer to join; whoever is not splits *)
(* the pair.                                                               *)
LEMMA JoinNextStep ==
  ASSUME IInv, NEW q \in Requests, JoinNext(q)
  PROVE  IInv'
<1>1. /\ req[q].pc = "joins" /\ req[q].who \in Users /\ req[q].to \in Users
      /\ req[q].room \in Rooms /\ room[req[q].room].of = Pair(req[q])
      /\ UNCHANGED <<friendship, blocks, excused>>
  BY Parts DEF JoinNext, RReq
<1>2. PICK r \in Rooms, u \in Users : r = req[q].room /\ u = NextIn(q) /\ u \in room[r].of
  BY <1>1 DEF NextIn, Pair
<1>3. PICK rest : rest = req[q].left \ {u}
  OBVIOUS
<1>4. PICK t : t = IF rest = {} THEN Idle ELSE [req[q] EXCEPT !.left = rest]
  OBVIOUS
<1>5. /\ t \in Reqs
      /\ \/ t = Idle /\ rest = {}
         \/ Carried(req[q], t) /\ t.left = rest
  <2>1. CASE rest = {}
    BY <1>4, <2>1, IdleIsIdle
  <2>2. CASE rest # {}
    BY <1>3, <1>4, <2>2, Parts DEF Reqs, Carried
  <2> QED
    BY <2>1, <2>2
<1>6. /\ FReq(t)
      /\ t.pc \in Making => t.pc = req[q].pc /\ Pair(t) = Pair(req[q]) /\ t.room = req[q].room
  BY <1>1, <1>5, IdleIsIdle DEF FReq, Carried, Pair, Making
<1>7. CASE /\ room' = [room EXCEPT ![r].in = @ \union {u}]
           /\ req' = Overtake([req EXCEPT ![q] = t], Posting(r))
           /\ UNCHANGED split
  <2>1. Moved({q}, Posting(r)) /\ req'[q] = t
    <3>1. PICK reqs : reqs = [req EXCEPT ![q] = t]
      OBVIOUS
    <3>2. /\ reqs \in [Requests -> Reqs] /\ q \notin Posting(r) /\ reqs[q] = t
          /\ \A p \in Requests \ {q} : reqs[p] = req[p]
      BY <1>1, <1>5, <3>1, Parts DEF Posting
    <3>3. req' = Overtake(reqs, Posting(r))
      BY <1>7, <3>1
    <3>4. /\ req' \in [Requests -> Reqs]
          /\ \A p \in Requests : req'[p] = IF p \in Posting(r) THEN Staled(reqs[p]) ELSE reqs[p]
      BY <1>5, <3>2, <3>3, OvertakeMoves
    <3> QED
      BY <3>2, <3>4 DEF Moved
  <2>2. ComesIn(r, u)
    BY <1>2, <1>7 DEF ComesIn
  <2>3. room' \in [Rooms -> RoomRows] /\ InOf' /\ OpenedIsDirect' /\ HasCome(r, u)
    BY <2>2, EnteredRoom
  <2>4. TypeOK'
    BY <1>1, <1>7, <2>1, <2>3, Parts, TypeParts DEF Moved, TypeOK, Reqs, RoomRows, PCs
  <2>5. FInv'
    BY <1>1, <1>6, <2>1, Parts, FriendsQuiet
  <2>6. \A p \in Requests \ {q} :
          /\ Carried(req[p], req'[p]) /\ req'[p].left = req[p].left
          /\ req[p].pc = "post" /\ req[p].room = r => req'[p].stale
    BY <2>1, Parts, StaleKeeps DEF Moved, Carried, Posting
  <2>7. ASSUME NEW p \in Requests PROVE RReq(req[p])'
    <3>1. RReq(req[p])
      BY Parts
    <3>2. CASE p = q
      <4>1. /\ req'[p] = Idle \/ Carried(req[p], req'[p])
            /\ req[p].pc # "post" /\ blocks' = blocks
        BY <1>1, <1>5, <2>1, <3>2
      <4>2. \A s \in Rooms : room'[s].of = room[s].of
        BY <2>3 DEF HasCome
      <4> QED
        BY <3>1, <4>1, <4>2, KnowsRoom
    <3>3. CASE p # q
      <4>1. req[p].pc = "post" => req'[p].stale \/ NoWider(req[p].room)
        BY <2>3, <2>6, <3>1, <3>3 DEF RReq, HasCome, NoWider
      <4> QED
        BY <1>1, <2>3, <2>6, <3>1, <3>3, <4>1, KnowsRoom DEF HasCome
    <3> QED
      BY <3>2, <3>3
  <2>8. OneOpener' /\ FirstRoom' /\ OneRoom'
    <3>1. \A p \in Requests : req'[p].pc \in Making => Remains(p)
      BY <1>6, <2>1, <2>6 DEF Carried, Pair, Remains
    <3>2. Settled /\ split \subseteq split'
      BY <1>7, <2>3 DEF HasCome, Settled
    <3> QED
      BY <3>1, <3>2, OpeningsKept DEF Opening, Making
  <2>9. AllJoin'
    <3>1. ASSUME NEW s \in Rooms, NEW p \in Requests \ {q}, Joining(p, s)
          PROVE  Joining(p, s)'
      BY <2>3, <2>6, <3>1 DEF Joining, HasCome, Carried
    <3>2. ASSUME NEW s \in Rooms, Joining(q, s)
          PROVE  room'[s].of \subseteq room'[s].in \/ Joining(q, s)'
      <4>1. s = r /\ room'[r].of \ room'[r].in \subseteq rest
        BY <1>2, <1>3, <2>3, <3>2 DEF Joining, HasCome
      <4> QED
        BY <1>1, <1>2, <1>5, <2>1, <4>1 DEF Joining, Carried
    <3>3. AllJoin
      BY Parts DEF RInv, RoomsInv
    <3> QED
      BY <1>7, <2>3, <3>1, <3>2, <3>3 DEF AllJoin, HasCome
  <2> QED
    BY <2>3, <2>4, <2>5, <2>7, <2>8, <2>9 DEF IInv, RInv, RoomsInv
<1>8. CASE /\ req' = [req EXCEPT ![q] = t]
           /\ split' = split \union Parted(r)
           /\ UNCHANGED room
  <2>1. Moved({q}, {}) /\ req'[q] = t
    BY <1>5, <1>8, Parts, Moves
  <2>2. room[r].of \in Pairs
    BY <1>1, <1>2 DEF Pairs, Pair
  <2>3. TypeOK'
    BY <1>1, <1>8, <2>1, <2>2, Parts, TypeParts
    DEF Moved, TypeOK, Reqs, RoomRows, PCs, Parted
  <2>4. FInv'
    BY <1>1, <1>6, <2>1, Parts, FriendsQuiet
  <2>5. \A p \in Requests \ {q} : req'[p] = req[p]
    BY <2>1, Parts DEF Moved
  <2>6. ASSUME NEW p \in Requests PROVE RReq(req[p])'
    <3>1. RReq(req[p])
      BY Parts
    <3>2. CASE p = q
      BY <1>1, <1>5, <1>8, <2>1, <3>1, <3>2, KnowsRoom
    <3>3. CASE p # q
      BY <1>1, <1>8, <2>5, <3>1, <3>3, KnowsRoom DEF Carried, NoWider
    <3> QED
      BY <3>2, <3>3
  <2>7. OneOpener' /\ FirstRoom' /\ OneRoom'
    <3>1. \A p \in Requests : req'[p].pc \in Making => Remains(p)
      BY <1>6, <2>1, <2>5 DEF Remains
    <3>2. Settled /\ split \subseteq split'
      BY <1>8 DEF Settled
    <3> QED
      BY <3>1, <3>2, OpeningsKept DEF Opening, Making
  <2>8. InOf' /\ OpenedIsDirect'
    BY <1>8, Parts DEF RInv, RoomsInv, InOf, OpenedIsDirect
  <2>9. AllJoin'
    <3>1. AllJoin
      BY Parts DEF RInv, RoomsInv
    <3>2. ASSUME NEW s \in Rooms, NEW p \in Requests, Joining(p, s), room[s].opened,
                 room[s].of \notin split'
          PROVE  Joining(p, s)'
      <4>1. p # q
        BY <1>2, <1>8, <3>2 DEF Joining, Parted
      <4> QED
        BY <1>8, <2>5, <3>2, <4>1 DEF Joining
    <3> QED
      BY <1>8, <3>1, <3>2 DEF AllJoin
  <2> QED
    BY <2>3, <2>4, <2>6, <2>7, <2>8, <2>9 DEF IInv, RInv, RoomsInv
<1> QED
  BY <1>2, <1>3, <1>4, <1>7, <1>8 DEF JoinNext

(* Leave: the pair is split.                                               *)
LEMMA LeaveStep ==
  ASSUME IInv, NEW r \in Rooms, NEW u \in Users, Leave(r, u)
  PROVE  IInv'
<1> DEFINE new == [room[r] EXCEPT !.in = room[r].in \ {u}]
<1>1. /\ UNCHANGED <<friendship, blocks, req, excused>> /\ u \in room[r].in
      /\ room' = [room EXCEPT ![r] = new] /\ split' = split \union Parted(r)
  BY DEF Leave
<1>2. room[r] \in RoomRows /\ InOf /\ OpenedIsDirect
  BY Parts DEF RInv, RoomsInv
<1>3. /\ new \in RoomRows /\ new.of = room[r].of /\ new.in = room[r].in \ {u}
      /\ new.direct = room[r].direct /\ new.opened = room[r].opened
  BY <1>2 DEF RoomRows
<1> HIDE DEF new
<1>4. \A s \in Rooms : room'[s] = IF s = r THEN new ELSE room[s]
  BY <1>1, Parts
<1>5. \A s \in Rooms : /\ room'[s].of = room[s].of /\ room'[s].in \subseteq room[s].in
                       /\ room'[s].direct = room[s].direct /\ room'[s].opened = room[s].opened
                       /\ s # r => room'[s].in = room[s].in
  BY <1>3, <1>4
<1>6. TypeOK'
  <2>1. room' \in [Rooms -> RoomRows]
    BY <1>1, <1>3, Parts
  <2>2. room[r].of \in Pairs
    BY <1>1, <1>2 DEF RoomRows, InOf
  <2> QED
    BY <1>1, <2>1, <2>2, Parts, TypeParts DEF TypeOK, Reqs, RoomRows, PCs, Parted
<1>7. FInv'
  <2>1. Moved({}, {})
    BY <1>1, Parts DEF Moved
  <2> QED
    BY <1>1, <2>1, Parts, FriendsQuiet
<1>8. ASSUME NEW p \in Requests PROVE RReq(req[p])'
  <2>1. RReq(req[p]) /\ Carried(req[p], req'[p])
    BY <1>1, Parts DEF Carried
  <2>2. req[p].pc = "post" => NoWider(req[p].room)
    BY <1>5, <2>1 DEF RReq, NoWider
  <2> QED
    BY <1>1, <1>5, <2>1, <2>2, KnowsRoom
<1>9. InOf' /\ OpenedIsDirect'
  BY <1>2, <1>5 DEF InOf, OpenedIsDirect
<1>10. OneOpener' /\ FirstRoom' /\ OneRoom'
  <2>1. \A p \in Requests : req'[p].pc \in Making => Remains(p)
    BY <1>1 DEF Remains
  <2>2. Settled /\ split \subseteq split'
    BY <1>1, <1>5 DEF Settled
  <2> QED
    BY <2>1, <2>2, OpeningsKept DEF Opening, Making
<1>11. AllJoin'
  <2>1. AllJoin
    BY Parts DEF RInv, RoomsInv
  <2>2. ASSUME NEW s \in Rooms, room'[s].opened, room'[s].of \notin split'
        PROVE  s # r /\ room[s].of \notin split /\ room'[s] = room[s]
    BY <1>1, <1>4, <1>5, <2>2 DEF Parted
  <2>3. ASSUME NEW s \in Rooms, s # r, NEW p \in Requests, Joining(p, s) PROVE Joining(p, s)'
    BY <1>1, <1>4, <2>3 DEF Joining
  <2> QED
    BY <2>1, <2>2, <2>3 DEF AllJoin
<1> QED
  BY <1>6, <1>7, <1>8, <1>9, <1>10, <1>11 DEF IInv, RInv, RoomsInv

(* PostRoom: the new room is not as open made it.                          *)
LEMMA PostRoomStep ==
  ASSUME IInv, NEW q \in Requests, NEW r \in Rooms, NEW a \in Users, NEW b \in Users,
         NEW direct \in BOOLEAN, PostRoom(q, r, a, b, direct)
  PROVE  IInv'
<1> DEFINE t == [Idle EXCEPT !.pc = "joins", !.who = a, !.to = b, !.room = r, !.left = {a, b}]
           new == Row(a, b, direct, FALSE)
<1>1. /\ req[q].pc = "idle" /\ room[r] = Unopened
      /\ UNCHANGED <<friendship, blocks, excused, split>>
      /\ req' = [req EXCEPT ![q] = t] /\ room' = [room EXCEPT ![r] = new]
  BY DEF PostRoom
<1>2. /\ t \in Reqs /\ t.pc = "joins" /\ t.who = a /\ t.to = b /\ t.room = r
      /\ new \in RoomRows /\ new.of = {a, b} /\ new.in = {} /\ ~new.opened
  <2>1. t \in Reqs /\ t.pc = "joins" /\ t.who = a /\ t.to = b /\ t.room = r
    BY DEF Idle, Reqs, PCs
  <2>2. new \in RoomRows /\ new.of = {a, b} /\ new.in = {} /\ ~new.opened
    BY DEF RoomRows, Row, Pairs
  <2> QED
    BY <2>1, <2>2
<1>3. room[r].of = {}
  BY <1>1 DEF Unopened
<1> HIDE DEF t, new
<1>4. Moved({q}, {}) /\ req'[q] = t
  BY <1>1, <1>2, Parts, Moves
<1>5. \A p \in Requests : req'[p] = IF p = q THEN t ELSE req[p]
  BY <1>1, Parts
<1>6. \A s \in Rooms : room'[s] = IF s = r THEN new ELSE room[s]
  BY <1>1, Parts
<1>7. FInv'
  BY <1>1, <1>2, <1>4, Parts, FriendsQuiet DEF FReq
<1>8. TypeOK'
  <2>1. room' \in [Rooms -> RoomRows]
    BY <1>1, <1>2, Parts
  <2> QED
    BY <1>1, <1>4, <2>1, Parts, TypeParts DEF Moved, TypeOK, Reqs, RoomRows, PCs
<1>9. ASSUME NEW p \in Requests PROVE RReq(req[p])'
  <2>1. CASE p = q
    BY <1>2, <1>5, <1>6, <2>1 DEF RReq, Pair
  <2>2. CASE p # q
    <3>1. RReq(req[p]) /\ req'[p] = req[p]
      BY <1>5, <2>2, Parts
    <3>2. req[p].pc \in {"joins", "post", "join"} =>
            room'[req[p].room] = room[req[p].room]
      BY <1>3, <1>6, <3>1 DEF RReq, Pair
    <3> QED
      BY <1>1, <3>1, <3>2 DEF RReq, VisibleAccess, Peers, Blocked, Pair
  <2> QED
    BY <2>1, <2>2
<1>10. InOf' /\ OpenedIsDirect'
  BY <1>2, <1>6, Parts DEF RInv, RoomsInv, InOf, OpenedIsDirect
<1>11. OneOpener' /\ FirstRoom' /\ OneRoom'
  <2>1. ASSUME NEW p \in Requests, Opening(p)' PROVE Remains(p)
    <3>1. p # q
      BY <1>2, <1>5, <1>6, <2>1 DEF Opening
    <3> QED
      BY <1>5, <3>1 DEF Remains
  <2>2. Settled /\ split \subseteq split'
    BY <1>1, <1>2, <1>6 DEF Settled
  <2> QED
    BY <2>1, <2>2, OpeningsKept
<1>12. AllJoin'
  <2>1. AllJoin
    BY Parts DEF RInv, RoomsInv
  <2>2. ASSUME NEW s \in Rooms, s # r, NEW p \in Requests, Joining(p, s)
        PROVE  Joining(p, s)'
    BY <1>1, <1>5, <1>6, <2>2 DEF Joining
  <2> QED
    BY <1>1, <1>2, <1>6, <2>1, <2>2 DEF AllJoin
<1> QED
  BY <1>7, <1>8, <1>9, <1>10, <1>11, <1>12 DEF IInv, RInv, RoomsInv

(* Recategorize: the room is no longer as open made it; who posts in it is *)
(* overtaken.                                                              *)
LEMMA RecategorizeStep ==
  ASSUME IInv, NEW r \in Rooms, Recategorize(r)
  PROVE  IInv'
<1> DEFINE new == [room[r] EXCEPT !.direct = ~room[r].direct, !.opened = FALSE]
<1>1. /\ UNCHANGED <<friendship, blocks, excused, split>>
      /\ room' = [room EXCEPT ![r] = new] /\ req' = Overtake(req, Posting(r))
  BY DEF Recategorize
<1>2. room[r] \in RoomRows /\ InOf /\ OpenedIsDirect
  BY Parts DEF RInv, RoomsInv
<1>3. new \in RoomRows /\ new.of = room[r].of /\ new.in = room[r].in /\ ~new.opened
  BY <1>2 DEF RoomRows
<1> HIDE DEF new
<1>4. \A s \in Rooms : room'[s] = IF s = r THEN new ELSE room[s]
  BY <1>1, Parts
<1>5. Moved({}, Posting(r))
  <2>1. req \in [Requests -> Reqs]
    BY Parts
  <2> QED
    BY <1>1, <2>1, StaleKeeps DEF Moved, Overtake, Staled
<1>6. TypeOK'
  <2>1. room' \in [Rooms -> RoomRows]
    BY <1>1, <1>3, Parts
  <2> QED
    BY <1>1, <1>5, <2>1, Parts, TypeParts DEF Moved, TypeOK, Reqs, RoomRows, PCs
<1>7. FInv'
  BY <1>1, <1>5, Parts, FriendsQuiet
<1>8. \A p \in Requests :
        /\ Carried(req[p], req'[p]) /\ req'[p].left = req[p].left
        /\ req[p].pc = "post" /\ req[p].room = r => req'[p].stale
  BY <1>5, Parts, StaleKeeps DEF Moved, Carried, Posting
<1>9. ASSUME NEW p \in Requests PROVE RReq(req[p])'
  <2>1. RReq(req[p])
    BY Parts
  <2>2. req[p].pc = "post" => req'[p].stale \/ NoWider(req[p].room)
    BY <1>4, <1>8, <2>1 DEF RReq, NoWider
  <2>3. \A s \in Rooms : room'[s].of = room[s].of
    BY <1>3, <1>4
  <2> QED
    BY <1>1, <1>8, <2>1, <2>2, <2>3, KnowsRoom
<1>10. InOf' /\ OpenedIsDirect'
  BY <1>2, <1>3, <1>4 DEF InOf, OpenedIsDirect
<1>11. OneOpener' /\ FirstRoom' /\ OneRoom'
  <2>1. \A p \in Requests : Opening(p)' => Remains(p)
    BY <1>8 DEF Carried, Remains, Pair
  <2>2. Settled /\ split \subseteq split'
    BY <1>1, <1>3, <1>4 DEF Settled
  <2> QED
    BY <2>1, <2>2, OpeningsKept
<1>12. AllJoin'
  <2>1. AllJoin
    BY Parts DEF RInv, RoomsInv
  <2>2. ASSUME NEW s \in Rooms, s # r, NEW p \in Requests, Joining(p, s) PROVE Joining(p, s)'
    BY <1>4, <1>8, <2>2 DEF Joining, Carried
  <2> QED
    BY <1>1, <1>3, <1>4, <2>1, <2>2 DEF AllJoin
<1> QED
  BY <1>6, <1>7, <1>9, <1>10, <1>11, <1>12 DEF IInv, RInv, RoomsInv

-----------------------------------------------------------------------------
LEMMA InitHolds == Init => IInv
<1> SUFFICES ASSUME Init PROVE IInv
  OBVIOUS
<1>1. /\ \A q \in Requests : req[q] = Idle
      /\ \A r \in Rooms : room[r] = Unopened
      /\ \A a, b \in Users : friendship[a][b] = "none"
  BY DEF Init
<1>2. Unopened \in RoomRows /\ Unopened.of = {} /\ Unopened.in = {} /\ ~Unopened.opened
  BY DEF Unopened, RoomRows
<1>3. TypeOK
  BY <1>2, IdleIsIdle, TypeParts DEF Init, Statuses
<1>4. FInv
  BY <1>1, IdleIsIdle DEF FInv, OneWay, BlockedApart
<1>5. \A q \in Requests : RReq(req[q]) /\ req[q].pc \notin Making /\ req[q].pc # "create"
  BY <1>1, IdleIsIdle DEF Making
<1>6. RoomsInv
  BY <1>1, <1>2, <1>5
  DEF RoomsInv, InOf, OpenedIsDirect, OneOpener, FirstRoom, OneRoom, AllJoin, Opening, Making
<1> QED
  BY <1>3, <1>4, <1>5, <1>6 DEF IInv, RInv

LEMMA StepHolds == IInv /\ [Next]_vars => IInv'
<1> SUFFICES ASSUME IInv, [Next]_vars PROVE IInv'
  OBVIOUS
<1>1. CASE UNCHANGED vars
  <2>1. UNCHANGED <<friendship, blocks, room, req, excused, split>>
    BY <1>1 DEF vars
  <2>2. Moved({}, {})
    BY <2>1, Parts DEF Moved
  <2>3. FInv' /\ RInv'
    BY <2>1, <2>2, Parts, FriendsQuiet, RoomsQuiet
  <2>4. TypeOK'
    BY <2>1, Parts, TypeParts DEF TypeOK, Reqs, RoomRows, PCs
  <2> QED
    BY <2>3, <2>4 DEF IInv
<1>2. ASSUME NEW q \in Requests, FindBeforeRequest(q) \/ FindBeforeAnswer(q) PROVE IInv'
  <2>1. PICK a \in Users : a = req[q].who
    <3>1. req[q].pc = "ask" \/ req[q].pc = "answer"
      <4>1. FindBeforeRequest(q) => req[q].pc = "ask"
        BY DEF FindBeforeRequest
      <4>2. FindBeforeAnswer(q) => req[q].pc = "answer"
        BY Zenon DEF FindBeforeAnswer
      <4> QED
        BY <1>2, <4>1, <4>2
    <3> QED
      BY <3>1, Parts DEF FReq
  <2> QED
    BY <1>2, LookingSteps
<1>3. ASSUME NEW q \in Requests, PostMessage(q) PROVE IInv'
  <2>1. PICK a \in Users : a = req[q].who
    BY <1>3, Parts DEF PostMessage, RReq
  <2> QED
    BY <1>3, LookingSteps
<1>4. ASSUME NEW q \in Requests,
             \/ InsertRequest(q) \/ SetStatus(q) \/ Unfriend(q) \/ UnfriendFails(q)
             \/ FindDirectRoom(q) \/ JoinNext(q) \/ Join(q)
      PROVE  IInv'
  BY <1>4, InsertStep, SetStatusStep, UnfriendStep, UnfriendFailsStep, FindStep, JoinNextStep,
     JoinStep
<1>5. ASSUME NEW q \in Requests, NEW a \in Users, NEW b \in Users,
             \/ Request(q, a, b) \/ Open(q, a, b)
             \/ \E accept \in BOOLEAN : Respond(q, a, b, accept)
      PROVE  IInv'
  BY <1>5, LookingSteps
<1>6. ASSUME NEW q \in Requests, NEW a \in Users, NEW b \in Users, Block(q, a, b) PROVE IInv'
  BY <1>6, BlockStep
<1>7. ASSUME NEW q \in Requests, NEW r \in Rooms, CreateRoom(q, r) PROVE IInv'
  BY <1>7, CreateStep
<1>8. ASSUME NEW q \in Requests, NEW r \in Rooms, NEW u \in Users, NEW pc \in {"post", "join"},
             Enter(q, r, u, pc)
      PROVE  IInv'
  BY <1>8, LookingSteps
<1>9. ASSUME NEW a \in Users, NEW b \in Users, Remove(a, b) \/ Unblock(a, b) PROVE IInv'
  BY <1>9, RemoveStep, UnblockStep
<1>10. ASSUME NEW r \in Rooms, NEW u \in Users, Leave(r, u) PROVE IInv'
  BY <1>10, LeaveStep
<1>11. ASSUME NEW q \in Requests, NEW r \in Rooms, NEW a \in Users, NEW b \in Users,
              NEW direct \in BOOLEAN, PostRoom(q, r, a, b, direct)
       PROVE  IInv'
  BY <1>11, PostRoomStep
<1>12. ASSUME NEW r \in Rooms, Recategorize(r) PROVE IInv'
  BY <1>12, RecategorizeStep
<1> QED
  BY <1>1, <1>2, <1>3, <1>4, <1>5, <1>6, <1>7, <1>8, <1>9, <1>10, <1>11, <1>12 DEF Next

LEMMA Invariance == Spec => []IInv
  BY InitHolds, StepHolds, PTL DEF Spec

-----------------------------------------------------------------------------
(***************************************************************************)
(* Whoever asks first, both at once, or blocks in between: one row joins a *)
(* pair (friendships_unordered_pair_idx), and every table is well typed.   *)
(***************************************************************************)
THEOREM RowsAreUnique == Spec => []OneRowPerPair
<1>1. ASSUME IInv, NEW a \in Users, NEW b \in Users
      PROVE  Cardinality(Between(a, b)) <= 1
  <2>1. OneWay
    BY <1>1, Parts DEF FInv
  <2>2. Between(a, b) = {} \/ Between(a, b) = {<<a, b>>} \/ Between(a, b) = {<<b, a>>}
    BY <2>1 DEF Between, OneWay
  <2>3. /\ Cardinality({}) = 0 /\ Cardinality({<<a, b>>}) = 1
        /\ Cardinality({<<b, a>>}) = 1
    BY FS_EmptySet, FS_Singleton
  <2> QED
    BY <2>2, <2>3
<1>2. IInv => OneRowPerPair
  BY <1>1 DEF IInv, OneRowPerPair
<1> QED
  BY <1>2, Invariance, PTL

(***************************************************************************)
(* SocialService::block: whatever handlers of the pair are under way, no   *)
(* row is left but an excused one.                                         *)
(***************************************************************************)
THEOREM BlockedAreApart == Spec => []BlockEndsFriendship
<1>1. ASSUME IInv, NEW a \in Users, NEW b \in Users, Blocked(a, b),
             ~ \E q \in Requests : req[q].pc = "unfriend" /\ PairOf(q) = {a, b},
             Between(a, b) # {}
      PROVE  {a, b} \in excused
  <2>1. BlockedApart
    BY <1>1, Parts DEF FInv
  <2>2. Blocked(a, b) /\ Blocked(b, a) /\ {a, b} = {b, a}
    BY <1>1 DEF Blocked
  <2>3. friendship[a][b] # "none" \/ friendship[b][a] # "none"
    BY <1>1, NoneBetween
  <2> QED
    BY <1>1, <2>1, <2>2, <2>3 DEF BlockedApart, PairOf
<1>2. IInv => BlockEndsFriendship
  BY <1>1 DEF BlockEndsFriendship
<1> QED
  BY <1>2, Invariance, PTL

(***************************************************************************)
(* DirectRooms::open, beside POST /rooms and PATCH: of the direct rooms    *)
(* two people share, all that are as open made them are one, unless their  *)
(* opens overlapped or such a room lost one of them, however many ids and  *)
(* handlers there are.                                                     *)
(***************************************************************************)
THEOREM ConversationIsOne == Spec => []OneConversation
<1>1. ASSUME IInv, NEW r \in Rooms, NEW s \in Rooms, NEW a \in Users, NEW b \in Users,
             r # s, a # b, r \in Shared(a, b), s \in Shared(a, b),
             room[r].opened, room[s].opened
      PROVE  {a, b} \in split
  <2>1. ASSUME NEW x \in Rooms, {a, b} \subseteq room[x].in PROVE room[x].of = {a, b}
    <3>1. {a, b} \subseteq room[x].of
      BY <1>1, <2>1, Parts DEF RInv, RoomsInv, InOf
    <3>2. room[x].of \in Pairs
      BY <1>1, <3>1, Parts DEF RoomRows
    <3>3. PICK c \in Users, d \in Users : room[x].of = {c, d}
      BY <3>2 DEF Pairs
    <3> QED
      BY <1>1, <3>1, <3>3
  <2>2. room[r].of = {a, b} /\ room[s].of = {a, b}
    BY <1>1, <2>1 DEF Shared
  <2>3. OneRoom
    BY <1>1, Parts DEF RInv, RoomsInv
  <2> QED
    BY <1>1, <2>2, <2>3 DEF OneRoom
<1>2. IInv => OneConversation
  BY <1>1 DEF OneConversation
<1> QED
  BY <1>2, Invariance, PTL

(***************************************************************************)
(* can_respond: only a handler of the addressee accepts, and an answer is  *)
(* replaced only by one that was overtaken after its find.                 *)
(***************************************************************************)
THEOREM OnlyAddresseesAnswer == Spec => AddresseeAnswers
<1>1. ASSUME IInv, [Next]_vars, NEW a \in Users, NEW b \in Users
      PROVE  Answers(a, b)
  <2>1. CASE friendship' = friendship
    BY <2>1 DEF Answers, Accepts, Replaces
  <2>2. ASSUME NEW q \in Requests, InsertRequest(q) PROVE Answers(a, b)
    <3>1. PICK x \in Users, y \in Users : x = req[q].who /\ y = req[q].to
      BY <1>1, <2>2, Parts DEF InsertRequest, FReq
    <3>2. CASE Taken(x, y)
      BY <3>1, <3>2, <2>2, <2>1 DEF InsertRequest
    <3>3. CASE ~Taken(x, y)
      <4>1. friendship[x][y] = "none" /\ friendship' = [friendship EXCEPT ![x][y] = "pending"]
        BY <2>2, <3>1, <3>3, NoneBetween DEF InsertRequest, Taken
      <4> QED
        BY <1>1, <4>1, Parts DEF Answers, Accepts, Replaces
    <3> QED
      BY <3>2, <3>3
  <2>3. ASSUME NEW q \in Requests, SetStatus(q) PROVE Answers(a, b)
    <3>1. PICK x \in Users, y \in Users : /\ req[q].row = <<x, y>> /\ req[q].who = y
                                          /\ ~req[q].stale => friendship[x][y] = "pending"
      BY <1>1, <2>3, Parts DEF SetStatus, FReq
    <3>2. SetBy(q)
      BY <1>1, <2>3, Parts, OvertakeMoves, IdleIsIdle DEF SetStatus, Overtake, SetBy
    <3>3. CASE friendship' = friendship
      BY <3>3 DEF Answers, Accepts, Replaces
    <3>4. CASE friendship' = [friendship EXCEPT ![x][y] = Answer(req[q].accept)]
      <4>1. CASE a = x /\ b = y
        <5>1. friendship'[a][b] = Answer(req[q].accept)
          BY <1>1, <3>4, <4>1, Parts
        <5>2. friendship'[a][b] = "accepted" => req[q].accept
          BY <5>1 DEF Answer
        <5>3. friendship[a][b] \in {"accepted", "declined"} => req[q].stale
          BY <3>1, <4>1
        <5> QED
          BY <3>1, <3>2, <4>1, <5>2, <5>3 DEF Answers, Accepts, Replaces
      <4>2. CASE ~(a = x /\ b = y)
        <5>1. friendship'[a][b] = friendship[a][b]
          BY <1>1, <3>4, <4>2, Parts
        <5> QED
          BY <5>1 DEF Answers, Accepts, Replaces
      <4> QED
        BY <4>1, <4>2
    <3> QED
      BY <2>3, <3>1, <3>3, <3>4 DEF SetStatus
  <2>4. ASSUME NEW x \in Users, NEW y \in Users, friendship' = Removed(x, y)
        PROVE  Answers(a, b)
    <3>1. friendship'[a][b] \in {"none", friendship[a][b]}
      BY <1>1, <2>4, Parts DEF Removed
    <3> QED
      BY <3>1 DEF Answers, Accepts, Replaces
  <2>5. ASSUME NEW q \in Requests, Unfriend(q) PROVE Answers(a, b)
    <3>1. PICK x \in Users, y \in Users : x = req[q].who /\ y = req[q].to
      BY <1>1, <2>5, Parts DEF Unfriend, FReq
    <3> QED
      BY <2>4, <2>5, <3>1 DEF Unfriend, Ended
  <2>6. ASSUME NEW x \in Users, NEW y \in Users, Remove(x, y) PROVE Answers(a, b)
    BY <2>4, <2>6 DEF Remove
  <2>7. ASSUME NEW q \in Requests,
               \/ FindBeforeRequest(q) \/ FindBeforeAnswer(q) \/ UnfriendFails(q)
               \/ FindDirectRoom(q) \/ JoinNext(q) \/ PostMessage(q) \/ Join(q)
        PROVE  friendship' = friendship
    <3>1. FindBeforeAnswer(q) => friendship' = friendship
      BY ZenonT(20) DEF FindBeforeAnswer
    <3> QED
      BY <2>7, <3>1 DEF FindBeforeRequest, UnfriendFails, FindDirectRoom, JoinNext, PostMessage, Join
  <2>8. ASSUME NEW q \in Requests, NEW x \in Users, NEW y \in Users,
               \/ Request(q, x, y) \/ Block(q, x, y) \/ Open(q, x, y)
               \/ \E accept \in BOOLEAN : Respond(q, x, y, accept)
        PROVE  friendship' = friendship
    BY <2>8, Zenon DEF Request, Block, Open, Respond
  <2>9. ASSUME NEW q \in Requests, NEW r \in Rooms,
               \/ CreateRoom(q, r)
               \/ \E x, y \in Users, direct \in BOOLEAN : PostRoom(q, r, x, y, direct)
               \/ \E u \in Users, pc \in {"post", "join"} : Enter(q, r, u, pc)
        PROVE  friendship' = friendship
    BY <2>9, Zenon DEF CreateRoom, PostRoom, Enter
  <2>10. \A x, y \in Users : Unblock(x, y) => friendship' = friendship
    BY DEF Unblock
  <2>11. \A r \in Rooms : Recategorize(r) \/ (\E u \in Users : Leave(r, u)) =>
           friendship' = friendship
    BY DEF Leave, Recategorize
  <2>12. UNCHANGED vars => friendship' = friendship
    BY DEF vars
  <2> QED
    BY <1>1, <2>1, <2>2, <2>3, <2>5, <2>6, <2>7, <2>8, <2>9, <2>10, <2>11, <2>12 DEF Next
<1>2. IInv /\ [Next]_vars => [\A a, b \in Users : Answers(a, b)]_vars
  BY <1>1
<1> QED
  BY <1>2, Invariance, PTL DEF Spec, AddresseeAnswers

(***************************************************************************)
(* visible_access: a message crosses a block in a direct room only when    *)
(* the block, the arrival of its reader, or the room's category, came      *)
(* after the check.                                                        *)
(***************************************************************************)
THEOREM MessagesDoNotCross == Spec => NoMessageAcross
<1> DEFINE Stops == \A q \in Requests :
             /\ PostMessage(q) /\ room[req[q].room].direct
             /\ \E p \in Peers(req[q].room, req[q].who) : Blocked(req[q].who, p)
             => req[q].stale
<1>1. IInv => Stops
  BY Parts DEF PostMessage, RReq, VisibleAccess
<1>2. IInv /\ [Next]_vars => [Stops]_vars
  BY <1>1
<1> QED
  BY <1>2, Invariance, PTL DEF Spec, NoMessageAcross

=============================================================================
