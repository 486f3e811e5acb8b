---------------------------- MODULE ProcessProofs -----------------------------
(***************************************************************************)
(* Proofs about what one API process keeps in memory: Gateway, for every   *)
(* set of users and rooms and every finite set of connections, and Cron,   *)
(* for any set of jobs and any finite number of runs in flight.            *)
(***************************************************************************)
EXTENDS Gateway, Cron, FiniteSetTheorems, TLAPS

(* Where the task is, and whom the store may have counted the connection   *)
(* for: an identity waits in user until it is counted.                     *)
Control(c) ==
  /\ sess[c].pc \in {"ready", "announceOn"} => sess[c].counted = sess[c].user
  /\ sess[c].pc \in {"count", "uncount", "announceOff", "swap", "announceOn"} =>
       sess[c].user \in Users
  /\ sess[c].pc \in {"uncount", "closing", "announceOff", "announceGone", "swap"} =>
       sess[c].counted \in Users
  /\ sess[c].pc \in {"count", "gone"} => sess[c].counted = NoUser

(* Session and store agree on the room in every state, in the middle of a  *)
(* command too; on the user as soon as the command is over.                *)
Attended(c) ==
  /\ attention[c].room = sess[c].focus
  /\ sess[c].focus # NoRoom =>
       /\ sess[c].focus \in sess[c].subs
       /\ sess[c].pc \in {"ready", "uncount", "announceOff", "swap"}
       /\ attention[c].user \in Users
       /\ sess[c].pc = "ready" => attention[c].user = sess[c].user
  /\ sess[c].focus = NoRoom => attention[c] = Unwatched

(* A claim is either focused or pending, until the socket closes.          *)
Claimed(c) ==
  \/ claim[c] = NoRoom
  \/ sess[c].pc \in {"closing", "announceGone", "leave"}
  \/ /\ sess[c].pc = "ready"
     /\ claim[c] \in sess[c].subs => sess[c].focus = claim[c] /\ sess[c].pending = NoRoom
     /\ claim[c] \notin sess[c].subs => sess[c].pending = claim[c]

Local == \A c \in Conns : Control(c) /\ Attended(c) /\ Claimed(c)

Counts == \A u \in Users : presence[u] = Cardinality(CountedFor(u))

IInv == TypeOK /\ Local /\ Counts

-----------------------------------------------------------------------------
(* A connection's own step, by the action it takes.                        *)
Step(c) ==
  \/ Open(c) \/ Close(c) \/ Touch(c) \/ Fade(c)
  \/ Uncount(c) \/ AnnounceOff(c) \/ Swap(c) \/ CountIn(c) \/ AnnounceOn(c) \/ Leave(c)
  \/ \E u \in Users : Auth(c, u)
  \/ \E r \in Rooms : Subscribe(c, r) \/ Unsubscribe(c, r)
  \/ \E r \in Rooms \union {NoRoom} : Focus(c, r)

LEMMA NextIsAStep == Next => \E c \in Conns : Step(c)
  BY DEF Next, Step, Speak

LEMMA InitHolds == Init => IInv
<1> SUFFICES ASSUME Init PROVE IInv
  OBVIOUS
<1>1. TypeOK
  BY DEF Init, TypeOK, Gone, NewSession, Unwatched, PCs
<1>2. Local
  BY GatewayAssumption DEF Init, Local, Control, Attended, Claimed, Gone, NewSession, Unwatched
<1>3. ASSUME NEW u \in Users PROVE presence[u] = Cardinality(CountedFor(u))
  <2>1. CountedFor(u) = {}
    BY GatewayAssumption DEF Init, CountedFor, Gone, NewSession
  <2> QED
    BY <2>1, FS_EmptySet DEF Init
<1> QED
  BY <1>1, <1>2, <1>3 DEF IInv, Counts

Sess == [pc : PCs, user : Users \union {NoUser}, counted : Users \union {NoUser},
         subs : SUBSET Rooms, focus : Rooms \union {NoRoom}, pending : Rooms \union {NoRoom}]
Watchers == [user : Users \union {NoUser}, room : Rooms \union {NoRoom}, fresh : BOOLEAN]

LEMMA TypeParts ==
  TypeOK <=> /\ sess \in [Conns -> Sess] /\ presence \in [Users -> Nat]
             /\ announced \in [Users -> BOOLEAN] /\ attention \in [Conns -> Watchers]
             /\ claim \in [Conns -> Rooms \union {NoRoom}]
  BY DEF TypeOK, Sess, Watchers

LEMMA TypeStep == ASSUME TypeOK, Local, NEW c \in Conns, Step(c) PROVE TypeOK'
<1>0. /\ sess \in [Conns -> Sess] /\ sess[c] \in Sess
      /\ presence \in [Users -> Nat] /\ announced \in [Users -> BOOLEAN]
      /\ attention \in [Conns -> Watchers] /\ attention[c] \in Watchers
      /\ claim \in [Conns -> Rooms \union {NoRoom}]
      /\ Unwatched \in Watchers /\ Control(c)
  BY TypeParts DEF Watchers, Unwatched, Local
<1> DEFINE Kept == /\ presence' \in [Users -> Nat] /\ announced' \in [Users -> BOOLEAN]
                   /\ attention' \in [Conns -> Watchers]
                   /\ claim' \in [Conns -> Rooms \union {NoRoom}]
<1>1. ASSUME NEW s \in Sess, sess' = [sess EXCEPT ![c] = s], Kept PROVE TypeOK'
  BY <1>0, <1>1, TypeParts DEF TypeOK, Sess, Watchers
<1>2. CASE Open(c) \/ Close(c) \/ Leave(c)
  <2>1. PICK s \in Sess : sess' = [sess EXCEPT ![c] = s]
    <3>1. NewSession \in Sess /\ Gone \in Sess
      BY DEF NewSession, Gone, Sess, PCs
    <3>2. [sess[c] EXCEPT !.focus = NoRoom,
                          !.pc = IF sess[c].counted = NoUser THEN "leave" ELSE "closing"] \in Sess
      BY <1>0 DEF Sess, PCs
    <3>3. CASE Open(c) \/ Leave(c)
      BY <3>1, <3>3 DEF Open, Leave
    <3>4. CASE Close(c)
      <4> DEFINE s == [sess[c] EXCEPT !.focus = NoRoom,
                          !.pc = IF sess[c].counted = NoUser THEN "leave" ELSE "closing"]
      <4>1. sess' = [sess EXCEPT ![c] = s]
        BY <1>0, <3>4 DEF Close, Sess
      <4> HIDE DEF s
      <4> QED
        BY <4>1, <3>2 DEF s
    <3> QED
      BY <1>2, <3>3, <3>4
  <2>2. Kept
    BY <1>0, <1>2 DEF Open, Close, Leave
  <2> QED
    BY <1>1, <2>1, <2>2
<1>3. CASE Touch(c) \/ Fade(c)
  <2>1. ASSUME NEW b \in BOOLEAN PROVE [attention[c] EXCEPT !.fresh = b] \in Watchers
    BY <1>0 DEF Watchers
  <2>2. sess' = sess /\ Kept
    BY <1>0, <1>3, <2>1 DEF Touch, Fade, Watchers
  <2> QED
    BY <1>0, <2>2, TypeParts DEF TypeOK, Sess, Watchers
<1>4. ASSUME NEW p \in PCs, sess' = [sess EXCEPT ![c].pc = p], Kept PROVE TypeOK'
  <2>1. [sess[c] EXCEPT !.pc = p] \in Sess
    BY <1>0 DEF Sess
  <2> QED
    BY <1>1, <1>4, <2>1
<1>5. CASE Uncount(c)
  <2>1. PICK p \in PCs : sess' = [sess EXCEPT ![c].pc = p]
    <3> DEFINE x == sess[c].pc
               u == sess[c].counted
               p == CASE presence[u] = 1 /\ x = "uncount" -> "announceOff"
                      [] presence[u] = 1 /\ x = "closing" -> "announceGone"
                      [] x = "uncount" -> "swap"
                      [] OTHER -> "leave"
    <3>1. p \in PCs
      BY DEF PCs
    <3>2. sess' = [sess EXCEPT ![c].pc = p]
      BY <1>5 DEF Uncount
    <3> HIDE DEF p
    <3> QED
      BY <3>1, <3>2
  <2>2. presence' \in [Users -> Nat]
    <3> DEFINE u == sess[c].counted
    <3>1. presence' = [presence EXCEPT ![u] = IF presence[u] = 0 THEN 0 ELSE presence[u] - 1]
      BY <1>5 DEF Uncount
    <3> HIDE DEF u
    <3>2. presence \in [Users -> Nat] /\ u \in Users
      BY <1>0, <1>5 DEF Uncount, Control, u
    <3>3. presence[u] \in Nat
      BY <3>2
    <3> QED
      BY <3>1, <3>2, <3>3
  <2>3. Kept
    BY <1>0, <1>5, <2>2 DEF Uncount
  <2> QED
    BY <1>4, <2>1, <2>3
<1>6. CASE AnnounceOff(c) \/ AnnounceOn(c)
  <2>1. PICK p \in PCs : sess' = [sess EXCEPT ![c].pc = p]
    BY <1>6 DEF AnnounceOff, AnnounceOn, PCs
  <2>2. Kept
    BY <1>0, <1>6 DEF AnnounceOff, AnnounceOn
  <2> QED
    BY <1>4, <2>1, <2>2
<1>7. CASE Swap(c)
  <2>1. [sess[c] EXCEPT !.pc = "count", !.focus = NoRoom, !.counted = NoUser] \in Sess
    BY <1>0 DEF Sess, PCs
  <2>2. Kept
    BY <1>0, <1>7 DEF Swap
  <2> QED
    BY <1>1, <1>7, <2>1, <2>2 DEF Swap
<1>8. CASE CountIn(c)
  <2>1. ASSUME NEW p \in PCs PROVE [sess[c] EXCEPT !.counted = sess[c].user, !.pc = p] \in Sess
    BY <1>0 DEF Sess
  <2>2. PICK p \in PCs : sess' = [sess EXCEPT ![c].counted = sess[c].user, ![c].pc = p]
    BY <1>8 DEF CountIn, PCs
  <2>3. presence' \in [Users -> Nat]
    <3> DEFINE u == sess[c].user
    <3>1. presence' = [presence EXCEPT ![u] = presence[u] + 1]
      BY <1>8 DEF CountIn
    <3> HIDE DEF u
    <3>2. presence \in [Users -> Nat] /\ u \in Users
      BY <1>0, <1>8 DEF CountIn, Control, u
    <3>3. presence[u] \in Nat
      BY <3>2
    <3> QED
      BY <3>1, <3>2, <3>3
  <2>4. Kept
    BY <1>0, <1>8, <2>3 DEF CountIn
  <2> QED
    BY <1>0, <1>1, <2>1, <2>2, <2>4
<1>9. ASSUME NEW u \in Users, Auth(c, u) PROVE TypeOK'
  <2>1. ASSUME NEW p \in PCs PROVE [sess[c] EXCEPT !.user = u, !.pc = p] \in Sess
    BY <1>0 DEF Sess
  <2>2. PICK p \in PCs : sess' = [sess EXCEPT ![c].user = u, ![c].pc = p]
    <3> DEFINE p == CASE sess[c].counted = u -> "ready"
                      [] sess[c].counted = NoUser -> "count"
                      [] OTHER -> "uncount"
    <3>1. p \in PCs
      BY DEF PCs
    <3>2. sess' = [sess EXCEPT ![c].user = u, ![c].pc = p]
      BY <1>9 DEF Auth
    <3> HIDE DEF p
    <3> QED
      BY <3>1, <3>2
  <2>3. Kept
    BY <1>0, <1>9 DEF Auth
  <2> QED
    BY <1>0, <1>1, <2>1, <2>2, <2>3
<1>10. ASSUME NEW s \in Sess, NEW r \in Rooms \union {NoRoom} PROVE Attend(s, r) \in Sess
  BY <1>10 DEF Attend, Sess
<1>11. ASSUME NEW s \in Sess, Record(c, s) PROVE attention' \in [Conns -> Watchers]
  <2>1. s.focus # NoRoom => [user |-> s.user, room |-> s.focus, fresh |-> TRUE] \in Watchers
    BY DEF Sess, Watchers
  <2> QED
    BY <1>0, <1>11, <2>1 DEF Record
<1>12. ASSUME NEW r \in Rooms, Subscribe(c, r) PROVE TypeOK'
  <2> DEFINE s == [sess[c] EXCEPT !.subs = @ \union {r}]
  <2>1. s \in Sess
    BY <1>0 DEF Sess
  <2>2. Attend(s, r) \in Sess
    BY <1>10, <2>1
  <2>3. Kept
    BY <1>0, <1>11, <1>12, <2>2 DEF Subscribe
  <2> QED
    BY <1>1, <1>12, <2>1, <2>2, <2>3 DEF Subscribe
<1>13. ASSUME NEW r \in Rooms, Unsubscribe(c, r) PROVE TypeOK'
  <2> DEFINE s == [sess[c] EXCEPT !.subs = @ \ {r}]
  <2>1. s \in Sess
    BY <1>0 DEF Sess
  <2>2. Attend(s, NoRoom) \in Sess
    BY <1>10, <2>1
  <2>3. Kept
    BY <1>0, <1>11, <1>13, <2>2 DEF Unsubscribe
  <2> QED
    BY <1>1, <1>13, <2>1, <2>2, <2>3 DEF Unsubscribe
<1>14. ASSUME NEW r \in Rooms \union {NoRoom}, Focus(c, r) PROVE TypeOK'
  <2>1. Attend(sess[c], r) \in Sess
    BY <1>0, <1>10
  <2>2. Kept
    BY <1>0, <1>11, <1>14, <2>1 DEF Focus
  <2> QED
    BY <1>1, <1>14, <2>1, <2>2 DEF Focus
<1> QED
  BY <1>2, <1>3, <1>5, <1>6, <1>7, <1>8, <1>9, <1>12, <1>13, <1>14 DEF Step

(* What the step leaves alone: every other connection.                     *)
LEMMA OthersKept ==
  ASSUME TypeOK, NEW c \in Conns, Step(c), NEW d \in Conns, d # c
  PROVE  sess'[d] = sess[d] /\ attention'[d] = attention[d] /\ claim'[d] = claim[d]
  BY DEF Step, Open, Close, Touch, Fade, Uncount, AnnounceOff, Swap, CountIn, AnnounceOn,
         Leave, Auth, Subscribe, Unsubscribe, Focus, Record, TypeOK

LEMMA LocalStep ==
  ASSUME TypeOK, TypeOK', Local, NEW c \in Conns, Step(c)
  PROVE  Control(c)' /\ Attended(c)' /\ Claimed(c)'
<1> USE GatewayAssumption
<1>0. Control(c) /\ Attended(c) /\ Claimed(c)
  BY DEF Local
<1> DEFINE Goal == Control(c)' /\ Attended(c)' /\ Claimed(c)'
<1> SUFFICES Goal
  OBVIOUS
<1>1. CASE Open(c)
  BY <1>0, <1>1 DEF Open, TypeOK, NewSession, Control, Attended, Claimed, Unwatched
<1>2. CASE Close(c)
  BY <1>0, <1>2 DEF Close, Ready, TypeOK, Unwatched, Control, Attended, Claimed
<1>3. CASE Touch(c)
  BY <1>0, <1>3 DEF Touch, Ready, TypeOK, Control, Attended, Claimed
<1>4. CASE Fade(c)
  BY <1>0, <1>4 DEF Fade, TypeOK, Control, Attended, Claimed, Unwatched
<1>5. CASE Uncount(c)
  BY <1>0, <1>5 DEF Uncount, TypeOK, Control, Attended, Claimed
<1>6. CASE AnnounceOff(c)
  BY <1>0, <1>6 DEF AnnounceOff, TypeOK, Control, Attended, Claimed
<1>7. CASE Swap(c)
  BY <1>0, <1>7 DEF Swap, TypeOK, Control, Attended, Claimed, Unwatched
<1>8. CASE CountIn(c)
  BY <1>0, <1>8 DEF CountIn, TypeOK, Control, Attended, Claimed
<1>9. CASE AnnounceOn(c)
  BY <1>0, <1>9 DEF AnnounceOn, TypeOK, Control, Attended, Claimed
<1>10. CASE Leave(c)
  BY <1>0, <1>10 DEF Leave, TypeOK, Control, Attended, Claimed, Gone, NewSession
<1>11. ASSUME NEW u \in Users, Auth(c, u) PROVE Goal
  BY <1>0, <1>11 DEF Auth, Ready, TypeOK, Control, Attended, Claimed
<1>12. ASSUME NEW r \in Rooms, Subscribe(c, r) PROVE Goal
  <2>1. CASE sess[c].pending = r
    BY <1>0, <1>12, <2>1 DEF Subscribe, SignedIn, Ready, Attend, Record, Unwatched, TypeOK,
       Control, Attended, Claimed
  <2>2. CASE sess[c].pending # r
    BY <1>0, <1>12, <2>2 DEF Subscribe, SignedIn, Ready, TypeOK, Control, Attended, Claimed
  <2> QED
    BY <2>1, <2>2
<1>13. ASSUME NEW r \in Rooms, Unsubscribe(c, r) PROVE Goal
  BY <1>0, <1>13 DEF Unsubscribe, Ready, Attend, Record, Unwatched, TypeOK, Control, Attended,
     Claimed
<1>14. ASSUME NEW r \in Rooms \union {NoRoom}, Focus(c, r) PROVE Goal
  BY <1>0, <1>14 DEF Focus, SignedIn, Ready, Attend, Record, Unwatched, TypeOK, Control,
     Attended, Claimed
<1> QED
  BY <1>1, <1>2, <1>3, <1>4, <1>5, <1>6, <1>7, <1>8, <1>9, <1>10, <1>11, <1>12, <1>13,
     <1>14 DEF Step

-----------------------------------------------------------------------------
(* The store's count, by what the step does to the set it counts.          *)
Holding == {"ready", "count", "uncount", "closing", "announceOn"}

LEMMA CountedIsFinite == ASSUME NEW u \in Users PROVE IsFiniteSet(CountedFor(u))
  BY GatewayAssumption, FS_Subset DEF CountedFor

(* Every action but Uncount and CountIn leaves both sides alone.           *)
LEMMA CountsKept ==
  ASSUME TypeOK, Local, NEW c \in Conns, Step(c), ~Uncount(c), ~CountIn(c)
  PROVE  presence' = presence /\ \A u \in Users : CountedFor(u)' = CountedFor(u)
<1>0. Control(c)
  BY DEF Local
<1> DEFINE Same == \A u \in Users : sess'[c].counted = u /\ sess'[c].pc \in Holding
                                 <=> sess[c].counted = u /\ sess[c].pc \in Holding
<1>1. presence' = presence
  BY DEF Step, Open, Close, Touch, Fade, AnnounceOff, Swap, AnnounceOn, Leave, Auth,
         Subscribe, Unsubscribe, Focus
<1>2. Same
  <2> USE GatewayAssumption
  <2>1. CASE Open(c) \/ Leave(c)
    BY <1>0, <2>1 DEF Open, Leave, TypeOK, Gone, NewSession, Control, Holding
  <2>2. CASE Close(c)
    BY <1>0, <2>2 DEF Close, Ready, TypeOK, Control, Holding
  <2>3. CASE Touch(c) \/ Fade(c)
    BY <2>3 DEF Touch, Fade
  <2>4. CASE AnnounceOff(c) \/ Swap(c) \/ AnnounceOn(c)
    BY <1>0, <2>4 DEF AnnounceOff, Swap, AnnounceOn, TypeOK, Control, Holding
  <2>5. ASSUME NEW u \in Users, Auth(c, u) PROVE Same
    BY <1>0, <2>5 DEF Auth, Ready, TypeOK, Control, Holding
  <2>6. ASSUME NEW r \in Rooms, Subscribe(c, r) \/ Unsubscribe(c, r) PROVE Same
    <3>1. /\ sess'[c].counted = sess[c].counted
          /\ sess'[c].pc = sess[c].pc
      <4> DEFINE s == [sess[c] EXCEPT !.subs = @ \union {r}]
                 t == [sess[c] EXCEPT !.subs = @ \ {r}]
      <4>1. \A x \in {s, t}, y \in {r, NoRoom} :
              Attend(x, y).counted = sess[c].counted /\ Attend(x, y).pc = sess[c].pc
        BY DEF Attend, TypeOK
      <4>2. sess'[c] \in {s, t, Attend(s, r), Attend(t, NoRoom)}
        BY <2>6 DEF Subscribe, Unsubscribe, TypeOK
      <4> QED
        BY <4>1, <4>2 DEF TypeOK
    <3> QED
      BY <3>1
  <2>7. ASSUME NEW r \in Rooms \union {NoRoom}, Focus(c, r) PROVE Same
    BY <2>7 DEF Focus, Attend, TypeOK
  <2> QED
    BY <2>1, <2>2, <2>3, <2>4, <2>5, <2>6, <2>7 DEF Step
<1> QED
  BY <1>1, <1>2, OthersKept DEF CountedFor, Holding

LEMMA CountsStep ==
  ASSUME TypeOK, TypeOK', Local, Counts, NEW c \in Conns, Step(c)
  PROVE  Counts'
<1>0. Control(c)
  BY DEF Local
<1> SUFFICES ASSUME NEW u \in Users PROVE presence'[u] = Cardinality(CountedFor(u)')
  BY DEF Counts
<1>1. presence[u] = Cardinality(CountedFor(u)) /\ presence[u] \in Nat
  BY DEF Counts, TypeOK
<1>2. IsFiniteSet(CountedFor(u))
  BY CountedIsFinite
<1>3. CASE Uncount(c)
  <2>1. /\ sess'[c].pc \notin Holding /\ sess'[c].counted = sess[c].counted
        /\ sess[c].pc \in Holding
    BY <1>3 DEF Uncount, TypeOK, Holding
  <2>2. CASE sess[c].counted = u
    <3>1. c \in CountedFor(u) /\ CountedFor(u)' = CountedFor(u) \ {c}
      BY <2>1, <2>2, OthersKept DEF CountedFor, Holding
    <3>2. presence'[u] = IF presence[u] = 0 THEN 0 ELSE presence[u] - 1
      BY <1>3, <2>2 DEF Uncount, TypeOK
    <3>3. Cardinality(CountedFor(u)') = Cardinality(CountedFor(u)) - 1
      BY <1>2, <3>1, FS_RemoveElement
    <3>4. Cardinality(CountedFor(u)) # 0
      BY <1>2, <3>1, FS_EmptySet
    <3> QED
      BY <1>1, <3>2, <3>3, <3>4
  <2>3. CASE sess[c].counted # u
    <3>1. CountedFor(u)' = CountedFor(u)
      BY <2>1, <2>3, OthersKept DEF CountedFor, Holding
    <3>2. presence'[u] = presence[u]
      BY <1>3, <2>3 DEF Uncount, TypeOK
    <3> QED
      BY <1>1, <3>1, <3>2
  <2> QED
    BY <2>2, <2>3
<1>4. CASE CountIn(c)
  <2>1. sess[c].counted = NoUser /\ sess[c].user \in Users
    BY <1>0, <1>4 DEF CountIn, Control
  <2>2. sess'[c].counted = sess[c].user /\ sess'[c].pc \in Holding
    BY <1>4 DEF CountIn, TypeOK, Holding
  <2>3. CASE sess[c].user = u
    <3>1. c \notin CountedFor(u) /\ CountedFor(u)' = CountedFor(u) \union {c}
      BY <2>1, <2>2, <2>3, OthersKept, GatewayAssumption DEF CountedFor, Holding
    <3>2. presence'[u] = presence[u] + 1
      BY <1>4, <2>3 DEF CountIn, TypeOK
    <3>3. Cardinality(CountedFor(u)') = Cardinality(CountedFor(u)) + 1
      BY <1>2, <3>1, FS_AddElement
    <3> QED
      BY <1>1, <3>2, <3>3
  <2>4. CASE sess[c].user # u
    <3>1. CountedFor(u)' = CountedFor(u)
      BY <2>1, <2>2, <2>4, OthersKept, GatewayAssumption DEF CountedFor, Holding
    <3>2. presence'[u] = presence[u]
      BY <1>4, <2>4 DEF CountIn, TypeOK
    <3> QED
      BY <1>1, <3>1, <3>2
  <2> QED
    BY <2>3, <2>4
<1>5. CASE ~Uncount(c) /\ ~CountIn(c)
  BY <1>1, <1>5, CountsKept
<1> QED
  BY <1>3, <1>4, <1>5

-----------------------------------------------------------------------------
LEMMA IInvStep == IInv /\ [Next]_vars => IInv'
<1> SUFFICES ASSUME IInv, [Next]_vars PROVE IInv'
  OBVIOUS
<1>0. TypeOK /\ Local /\ Counts
  BY DEF IInv
<1>1. CASE Next
  <2>1. PICK c \in Conns : Step(c)
    BY <1>1, NextIsAStep
  <2>2. TypeOK'
    BY <1>0, <2>1, TypeStep
  <2>3. ASSUME NEW d \in Conns PROVE Control(d)' /\ Attended(d)' /\ Claimed(d)'
    <3>1. CASE d = c
      BY <1>0, <2>1, <2>2, <3>1, LocalStep
    <3>2. CASE d # c
      BY <1>0, <2>1, <3>2, OthersKept DEF Local, Control, Attended, Claimed
    <3> QED
      BY <3>1, <3>2
  <2>4. Counts'
    BY <1>0, <2>1, <2>2, CountsStep
  <2> QED
    BY <2>2, <2>3, <2>4 DEF IInv, Local
<1>2. CASE UNCHANGED vars
  BY <1>0, <1>2 DEF IInv, TypeOK, Local, Control, Attended, Claimed, Counts, CountedFor, vars
<1> QED
  BY <1>1, <1>2

LEMMA Reachable == Spec => []IInv
  BY InitHolds, IInvStep, PTL DEF Spec

(***************************************************************************)
(* announce_presence counts a connection in and out exactly once: the      *)
(* shared count of a user is the number of their counted connections,      *)
(* through every change of identity and close, and never underflows.       *)
(***************************************************************************)
THEOREM PresenceIsExact == Spec => []PresenceCounts
<1>1. IInv => PresenceCounts
  BY DEF IInv, Counts, PresenceCounts
<1> QED
  BY <1>1, Reachable, PTL

(***************************************************************************)
(* Session::attend and the attention store never part: what silences a     *)
(* user's notifications is a room that one of their connections reads.     *)
(***************************************************************************)
THEOREM AttentionIsTrue == Spec => []AttentionAgrees
<1>1. IInv => AttentionAgrees
  <2> SUFFICES ASSUME IInv, NEW c \in Conns
               PROVE /\ sess[c].pc = "ready" =>
                          /\ attention[c].room = sess[c].focus
                          /\ attention[c].room # NoRoom => attention[c].user = sess[c].user
                     /\ sess[c].pc \in {"gone", "closing", "leave"} => attention[c] = Unwatched
                     /\ \A r \in Rooms : \A u \in Watching(r) :
                          \E w \in Conns : attention[w].user = u /\ r \in sess[w].subs
    BY DEF AttentionAgrees
  <2>1. Attended(c)
    BY DEF IInv, Local
  <2>2. ASSUME NEW r \in Rooms, NEW u \in Watching(r)
        PROVE  \E w \in Conns : attention[w].user = u /\ r \in sess[w].subs
    <3>1. PICK w \in Conns : attention[w].room = r /\ attention[w].user = u
      BY DEF Watching
    <3>2. Attended(w)
      BY DEF IInv, Local
    <3> QED
      BY <3>1, <3>2, GatewayAssumption DEF Attended
  <2> QED
    BY <2>1, <2>2 DEF Attended
<1> QED
  BY <1>1, Reachable, PTL

(***************************************************************************)
(* Session::attend holds a focus that is early and apply it when the       *)
(* subscription lands: what a connection said it reads is never lost.      *)
(***************************************************************************)
THEOREM FocusIsKept == Spec => []AttentionNotDropped
<1>1. IInv => AttentionNotDropped
  BY GatewayAssumption DEF IInv, TypeOK, Local, Claimed, Ready, AttentionNotDropped
<1> QED
  BY <1>1, Reachable, PTL

-----------------------------------------------------------------------------
(* Cron: the scheduler.                                                    *)

(* From the store of the flag on, the flag stays up.                       *)
FlagUp == process \in {"draining", "drained", "timedOut"} => stopped

BarrierInv == CronTypeOK /\ SlotsCounted /\ FlagUp /\ NothingRunsAfterDrain

LEMMA AnyJob == (CHOOSE j \in Jobs : TRUE) \in Jobs
BY CronAssumption

LEMMA InSlotFinite == IsFiniteSet(InSlot) /\ Cardinality(InSlot) \in Nat
<1>1. InSlot \subseteq Runs
  BY DEF InSlot
<1>2. QED
  BY <1>1, CronAssumption, FS_Subset, FS_CardinalityType

LEMMA InSlotFinitePrime == IsFiniteSet(InSlot') /\ Cardinality(InSlot') \in Nat
<1>1. InSlot' \subseteq Runs
  BY DEF InSlot
<1>2. QED
  BY <1>1, CronAssumption, FS_Subset, FS_CardinalityType

LEMMA CronInitInv == CronInit => BarrierInv
<1> SUFFICES ASSUME CronInit PROVE BarrierInv
  OBVIOUS
<1>1. CronTypeOK
  BY AnyJob DEF CronInit, CronTypeOK, Fresh
<1>2. InSlot = {}
  BY DEF CronInit, InSlot, Fresh
<1>3. SlotsCounted
  BY <1>2, FS_EmptySet DEF CronInit, SlotsCounted
<1>4. QED
  BY <1>1, <1>3 DEF CronInit, BarrierInv, FlagUp, NothingRunsAfterDrain

(* A run that takes a slot adds one element to InSlot, a run that gives it *)
(* up removes one, and every other step leaves InSlot alone.               *)
LEMMA TakeSlot ==
  ASSUME CronTypeOK, SlotsCounted, NEW r \in Runs, r \notin InSlot,
         InSlot' = InSlot \union {r}, inFlight' = inFlight + 1
  PROVE  SlotsCounted' /\ inFlight' \in Nat
<1>1. Cardinality(InSlot') = Cardinality(InSlot) + 1
  BY InSlotFinite, FS_AddElement
<1>2. QED
  BY <1>1 DEF SlotsCounted, CronTypeOK

LEMMA GiveSlot ==
  ASSUME CronTypeOK, SlotsCounted, NEW r \in Runs, r \in InSlot,
         InSlot' = InSlot \ {r}, inFlight' = inFlight - 1
  PROVE  SlotsCounted' /\ inFlight' \in Nat
<1>1. Cardinality(InSlot') = Cardinality(InSlot) - 1
  BY InSlotFinite, FS_RemoveElement
<1>2. Cardinality(InSlot') \in Nat
  BY InSlotFinitePrime
<1>3. QED
  BY <1>1, <1>2 DEF SlotsCounted, CronTypeOK

LEMMA KeepSlots ==
  ASSUME CronTypeOK, SlotsCounted, InSlot' = InSlot, inFlight' = inFlight
  PROVE  SlotsCounted' /\ inFlight' \in Nat
BY DEF SlotsCounted, CronTypeOK

LEMMA NextSlots == BarrierInv /\ [CronNext]_cronVars => SlotsCounted' /\ inFlight' \in Nat
<1> SUFFICES ASSUME BarrierInv, [CronNext]_cronVars PROVE SlotsCounted' /\ inFlight' \in Nat
  OBVIOUS
<1> USE DEF BarrierInv
<1>1. ASSUME NEW r \in Runs, Claim(r) PROVE SlotsCounted' /\ inFlight' \in Nat
  <2>1. r \notin InSlot /\ InSlot' = InSlot \union {r}
    BY <1>1 DEF Claim, Move, InSlot, CronTypeOK
  <2>2. QED
    BY <2>1, <1>1, TakeSlot DEF Claim
<1>2. ASSUME NEW r \in Runs, NEW j \in Jobs, RunNow(r, j)
      PROVE  SlotsCounted' /\ inFlight' \in Nat
  <2>1. r \notin InSlot /\ InSlot' = InSlot \union {r}
    BY <1>2 DEF RunNow, InSlot, CronTypeOK
  <2>2. QED
    BY <2>1, <1>2, TakeSlot DEF RunNow
<1>3. ASSUME NEW r \in Runs, Exit(r) PROVE SlotsCounted' /\ inFlight' \in Nat
  <2>1. r \in InSlot /\ InSlot' = InSlot \ {r}
    BY <1>3 DEF Exit, Move, InSlot, CronTypeOK
  <2>2. QED
    BY <2>1, <1>3, GiveSlot DEF Exit
<1>4. ASSUME NEW r \in Runs, Recheck(r) PROVE SlotsCounted' /\ inFlight' \in Nat
  <2>1. CASE stopped
    <3>1. r \in InSlot /\ InSlot' = InSlot \ {r}
      BY <1>4, <2>1 DEF Recheck, Move, InSlot, CronTypeOK
    <3>2. QED
      BY <3>1, <1>4, <2>1, GiveSlot DEF Recheck
  <2>2. CASE ~stopped
    <3>1. InSlot' = InSlot
      BY <1>4, <2>2 DEF Recheck, Move, InSlot, CronTypeOK
    <3>2. QED
      BY <3>1, <1>4, <2>2, KeepSlots DEF Recheck
  <2>3. QED
    BY <2>1, <2>2
<1>5. ASSUME NEW r \in Runs, Check(r) \/ RunRecorded(r) \/ \E j \in Jobs : Dispatch(r, j)
      PROVE  SlotsCounted' /\ inFlight' \in Nat
  <2>1. CASE Check(r)
    BY <2>1, KeepSlots DEF Check, Move, InSlot, CronTypeOK
  <2>2. CASE RunRecorded(r)
    BY <2>2, KeepSlots DEF RunRecorded, Move, InSlot, CronTypeOK
  <2>3. CASE \E j \in Jobs : Dispatch(r, j)
    BY <2>3, KeepSlots DEF Dispatch, InSlot, CronTypeOK
  <2>4. QED
    BY <1>5, <2>1, <2>2, <2>3
<1>6. ASSUME run' = run, inFlight' = inFlight
      PROVE  SlotsCounted' /\ inFlight' \in Nat
  BY <1>6, KeepSlots DEF InSlot
<1>7. ASSUME \/ Start \/ ServerDrained \/ SetStopped \/ Drained \/ DrainTimeout
             \/ UNCHANGED cronVars
             \/ \E j \in Jobs : Register(j)
      PROVE  run' = run /\ inFlight' = inFlight
  BY <1>7 DEF Start, ServerDrained, SetStopped, Drained, DrainTimeout, cronVars, Register
<1>8. QED
  BY <1>1, <1>2, <1>3, <1>4, <1>5, <1>6, <1>7 DEF CronNext

LEMMA CronTypes == BarrierInv /\ [CronNext]_cronVars => CronTypeOK'
<1> SUFFICES ASSUME BarrierInv, [CronNext]_cronVars PROVE CronTypeOK'
  OBVIOUS
<1>0. inFlight' \in Nat
  BY NextSlots
<1> USE <1>0 DEF BarrierInv, CronTypeOK, Move
<1>1. ASSUME NEW r \in Runs, Check(r) \/ Claim(r) \/ Recheck(r) \/ Exit(r)
      PROVE  CronTypeOK'
  <2>1. \E pc \in {"claim", "recheck", "running", "over"} :
          run' = [run EXCEPT ![r].pc = pc]
    BY <1>1 DEF Check, Claim, Recheck, Exit
  <2>2. UNCHANGED <<process, jobs, stopped, stats>>
    BY <1>1 DEF Check, Claim, Recheck, Exit
  <2>3. QED
    BY <2>1, <2>2
<1>2. ASSUME NEW r \in Runs, RunRecorded(r) PROVE CronTypeOK'
  <2>1. PICK failed \in {0, 1} :
          stats' = [stats EXCEPT ![run[r].job].total = @ + 1,
                                 ![run[r].job].failures = @ + failed]
    BY <1>2 DEF RunRecorded
  <2>2. stats' \in [Jobs -> [total : Nat, failures : Nat]]
    BY <2>1
  <2>3. QED
    BY <1>2, <2>2 DEF RunRecorded
<1>3. ASSUME NEW r \in Runs, NEW j \in Jobs, Dispatch(r, j) \/ RunNow(r, j)
      PROVE  CronTypeOK'
  <2>1. \E pc \in {"check", "running"}, m \in BOOLEAN :
          run' = [run EXCEPT ![r] = [pc |-> pc, job |-> j, manual |-> m]]
    BY <1>3 DEF Dispatch, RunNow
  <2>2. UNCHANGED <<process, jobs, stopped, stats>>
    BY <1>3 DEF Dispatch, RunNow
  <2>3. QED
    BY <2>1, <2>2
<1>4. ASSUME NEW j \in Jobs, Register(j) PROVE CronTypeOK'
  BY <1>4 DEF Register
<1>5. CASE Start \/ ServerDrained \/ SetStopped \/ Drained \/ DrainTimeout
  BY <1>5 DEF Start, ServerDrained, SetStopped, Drained, DrainTimeout
<1>6. CASE UNCHANGED cronVars
  BY <1>6 DEF cronVars
<1>7. QED
  BY <1>1, <1>2, <1>3, <1>4, <1>5, <1>6 DEF CronNext

LEMMA NextFlagUp == BarrierInv /\ [CronNext]_cronVars => FlagUp'
<1> SUFFICES ASSUME BarrierInv, [CronNext]_cronVars PROVE FlagUp'
  OBVIOUS
<1>1. CASE SetStopped
  BY <1>1 DEF SetStopped, FlagUp
<1>2. CASE ~SetStopped
  BY <1>2 DEF BarrierInv, FlagUp, CronNext, cronVars, Register, Start, ServerDrained, Drained,
     DrainTimeout, Check, Claim, Recheck, RunRecorded, Exit, Dispatch, RunNow
<1>3. QED
  BY <1>1, <1>2

LEMMA NextBarrier == BarrierInv /\ [CronNext]_cronVars => NothingRunsAfterDrain'
<1> SUFFICES ASSUME BarrierInv, [CronNext]_cronVars, process' = "drained", NEW q \in Runs
             PROVE  run'[q].pc \notin {"running", "leaving"}
  BY DEF NothingRunsAfterDrain
<1> USE DEF BarrierInv, CronTypeOK, Move
(* drain read a count of zero: no slot is taken.                           *)
<1>1. CASE Drained
  <2>1. Cardinality(InSlot) = 0
    BY <1>1 DEF Drained, SlotsCounted
  <2>2. InSlot = {}
    BY <2>1, InSlotFinite, FS_EmptySet
  <2>3. QED
    BY <2>2, <1>1 DEF Drained, InSlot
(* Already drained: the flag is up, and nothing enters "running".          *)
<1>2. CASE process = "drained"
  <2>1. stopped /\ \A r \in Runs : run[r].pc \notin {"running", "leaving"}
    BY <1>2 DEF FlagUp, NothingRunsAfterDrain
  <2>2. ASSUME NEW r \in Runs, Check(r) \/ Claim(r) \/ Recheck(r) \/ RunRecorded(r) \/ Exit(r)
        PROVE  run'[q].pc \notin {"running", "leaving"}
    BY <2>1, <2>2 DEF Check, Claim, Recheck, RunRecorded, Exit
  <2>3. ASSUME NEW r \in Runs, NEW j \in Jobs, Dispatch(r, j)
        PROVE  run'[q].pc \notin {"running", "leaving"}
    BY <2>1, <2>3 DEF Dispatch
  <2>4. ASSUME NEW r \in Runs, NEW j \in Jobs PROVE ~RunNow(r, j)
    BY <1>2 DEF RunNow
  <2>5. ASSUME run' = run PROVE run'[q].pc \notin {"running", "leaving"}
    BY <2>1, <2>5
  <2>6. QED
    BY <2>2, <2>3, <2>4, <2>5 DEF CronNext, cronVars, Start, ServerDrained, SetStopped,
       Drained, DrainTimeout, Register
<1>3. ASSUME process # "drained", ~Drained PROVE FALSE
  BY <1>3 DEF CronNext, cronVars, Register, Start, ServerDrained, SetStopped,
     DrainTimeout, Check, Claim, Recheck, RunRecorded, Exit, Dispatch, RunNow
<1>4. QED
  BY <1>1, <1>2, <1>3

LEMMA BarrierStep == BarrierInv /\ [CronNext]_cronVars => BarrierInv'
BY NextSlots, CronTypes, NextFlagUp, NextBarrier DEF BarrierInv

(***************************************************************************)
(* The count of runs in flight is exact in every reachable state, through  *)
(* skipped dispatches, panics and cancelled manual runs.                   *)
(***************************************************************************)
THEOREM CountIsExact == CronSpec => []SlotsCounted
<1>1. BarrierInv => SlotsCounted
  BY DEF BarrierInv
<1>2. QED
  BY CronInitInv, BarrierStep, <1>1, PTL DEF CronSpec

(***************************************************************************)
(* The shutdown barrier: after drain has seen a count of zero no job is    *)
(* running and none will, for any number of concurrent dispatches.         *)
(***************************************************************************)
THEOREM ShutdownBarrier == CronSpec => []NothingRunsAfterDrain
<1>1. BarrierInv => NothingRunsAfterDrain
  BY DEF BarrierInv
<1>2. QED
  BY CronInitInv, BarrierStep, <1>1, PTL DEF CronSpec

=============================================================================
