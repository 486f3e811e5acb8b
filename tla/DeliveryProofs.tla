--------------------------- MODULE DeliveryProofs ---------------------------
(* Machine-checked facts about what reaches somebody: the rows of          *)
(* Notifications, for any accounts, any cap on @everyone and any number of *)
(* events, and the frames of ClientSocket, for any rooms, any depth of the *)
(* screens and any number of frames that wait.                             *)
EXTENDS Notifications, ClientSocket, FiniteSetTheorems, WellFoundedInduction, TLAPS

Plans == [Users -> Kinds \union {"none"}]
Handlers == [pc : {"idle", "watching", "muting", "record", "fold"},
             actor : Users \union {Nobody}, plan : Plans, user : Users \union {Nobody}]
Rows == [state : {"none", "open", "read", "pruned"}, kind : Kinds \union {"none"},
         actor : Users \union {Nobody}, about : 0..MaxEvents, count : Nat]

(* The handler of e has yet to record e for u: no row stands for it.       *)
Pending(f, u) == f.pc = "idle" \/ f.plan[u] # "none"
Unrecorded ==
  \A e \in Events, u \in Users :
    Pending(fanout[e], u) => \A d \in Events : e \notin stands[d][u]

(* Only an INSERT that a unique index can refuse is followed by the UPDATE.*)
Folding ==
  \A e \in Events : fanout[e].pc = "fold" =>
    /\ fanout[e].user \in Users
    /\ fanout[e].plan[fanout[e].user] # "none"
    /\ Folds(fanout[e].plan[fanout[e].user])

(* A row stands for the event that inserted it and for the one it is about.*)
StandsFor(d, u) == {d, row[d][u].about} \subseteq stands[d][u]
OwnEvents == \A d \in Events, u \in Users : row[d][u].state # "none" => StandsFor(d, u)

Together(r, s) ==
  r.state = "open" /\ s.state = "open" /\ r.kind = s.kind /\ r.actor = s.actor /\ Folds(r.kind)
OpenUnique ==
  \A c, d \in Events, u \in Users : Together(row[c][u], row[d][u]) => c = d

Counted == \A d \in Events, u \in Users : row[d][u].count = Cardinality(stands[d][u])
Apart ==
  \A c, d \in Events, u \in Users : c # d => stands[c][u] \intersect stands[d][u] = {}

(* The open row a refused INSERT ran into is there until somebody reads or *)
(* prunes it.                                                              *)
MayGrow(r, f) == r.state = "open" /\ r.kind = f.plan[f.user] /\ r.actor = f.actor
Awaited ==
  \A e \in Events : fanout[e].pc = "fold" =>
    \/ <<e, fanout[e].user>> \in closed
    \/ \E d \in Events : MayGrow(row[d][fanout[e].user], fanout[e])

RecordInv ==
  TypeOK /\ Unrecorded /\ Folding /\ OwnEvents /\ OpenUnique /\ Counted /\ Apart /\ Awaited

-----------------------------------------------------------------------------
(* What the steps share.                                                   *)

LEMMA TypeParts ==
  TypeOK <=> /\ direct \in BOOLEAN /\ fanout \in [Events -> Handlers]
             /\ row \in [Events -> [Users -> Rows]]
             /\ stands \in [Events -> [Users -> SUBSET Events]]
             /\ closed \subseteq Events \X Users
BY DEF TypeOK, Handlers, Plans, Rows

LEMMA PlanOfOne ==
  ASSUME NEW p \in Plans, NEW u \in Users, NEW v \in Users
  PROVE  /\ [p EXCEPT ![u] = "none"] \in Plans
         /\ [p EXCEPT ![u] = "none"][v] # "none" => v # u /\ p[v] # "none"
BY DEF Plans

(* A handler makes no new record due by moving on, and waits at an UPDATE  *)
(* no longer than it did.                                                  *)
Onward(f, g) ==
  /\ g.pc # "idle"
  /\ \A u \in Users : g.plan[u] # "none" => Pending(f, u)
  /\ g.pc # "fold"

LEMMA HandlerMoves ==
  ASSUME RecordInv, NEW e \in Events, NEW g \in Handlers, Onward(fanout[e], g),
         fanout' = [fanout EXCEPT ![e] = g], UNCHANGED <<direct, row, stands, closed>>
  PROVE  RecordInv'
<1>0. /\ fanout \in [Events -> Handlers]
      /\ fanout'[e] = g /\ \A d \in Events \ {e} : fanout'[d] = fanout[d]
  BY TypeParts DEF RecordInv
<1>1. TypeOK'
  <2>1. fanout' \in [Events -> Handlers]
    BY <1>0
  <2> QED
    BY <2>1, TypeParts DEF RecordInv, TypeOK, Handlers, Plans
<1>2. Unrecorded'
  BY <1>0 DEF RecordInv, Unrecorded, Onward, Pending
<1>3. Folding' /\ Awaited'
  BY <1>0 DEF RecordInv, Folding, Awaited, Onward
<1>4. OwnEvents' /\ OpenUnique' /\ Counted' /\ Apart'
  BY DEF RecordInv, OwnEvents, StandsFor, OpenUnique, Counted, Apart
<1> QED
  BY <1>1, <1>2, <1>3, <1>4 DEF RecordInv

(* notify_for_message gives a reason that its unique index folds.          *)
LEMMA ReasonFolds ==
  ASSUME NEW u, NEW author, NEW mentions, NEW audience, NEW everyone
  PROVE  Reason(u, author, mentions, audience, everyone) \in Kinds \union {"none"}
<1> DEFINE fired == {k \in Kinds :
        \/ k = "mention" /\ u \in mentions
        \/ k = "direct" /\ direct /\ u \in audience
        \/ /\ k = "everyone" /\ everyone /\ ~direct
           /\ u \in audience /\ Cardinality(audience) <= EveryoneCap}
<1> DEFINE best == CHOOSE k \in fired : \A l \in fired : Rank[k] >= Rank[l]
<1>1. Reason(u, author, mentions, audience, everyone)
        = IF u = author \/ fired = {} THEN "none" ELSE best
  BY DEF Reason
<1>2. fired \subseteq Kinds \ {"friend"}
  OBVIOUS
<1> HIDE DEF fired
<1>3. ASSUME fired # {} PROVE best \in fired
  <2>1. \E k \in fired : \A l \in fired : Rank[k] >= Rank[l]
    <3>1. \A k \in Kinds : Rank[k] \in 0..3
      BY DEF Rank, Kinds
    <3>2. CASE "mention" \in fired
      BY <1>2, <3>1, <3>2 DEF Rank, Kinds
    <3>3. CASE "mention" \notin fired /\ "everyone" \in fired
      BY <1>2, <3>1, <3>3 DEF Rank, Kinds
    <3>4. CASE "mention" \notin fired /\ "everyone" \notin fired /\ "direct" \in fired
      BY <1>2, <3>1, <3>4 DEF Rank, Kinds
    <3>5. CASE fired \intersect {"mention", "everyone", "direct"} = {}
      BY <1>2, <1>3, <3>5 DEF Kinds
    <3> QED
      BY <1>2, <3>2, <3>3, <3>4, <3>5 DEF Kinds
  <2> QED
    BY <2>1
<1> QED
  BY <1>1, <1>2, <1>3

-----------------------------------------------------------------------------
(* The steps.                                                              *)

LEMMA PostStep ==
  ASSUME RecordInv, NEW e \in Events, NEW author \in Users, NEW anonymous, NEW mentions,
         NEW everyone, Post(e, author, anonymous, mentions, everyone), UNCHANGED direct
  PROVE  RecordInv'
<1>1. PICK named, audience :
        fanout' = [fanout EXCEPT ![e] =
          [pc    |-> "watching",
           actor |-> IF anonymous THEN Nobody ELSE author,
           plan  |-> [u \in Users |-> Reason(u, author, named, audience, everyone)],
           user  |-> Nobody]]
  BY DEF Post
<1> DEFINE p == [u \in Users |-> Reason(u, author, named, audience, everyone)]
           g == [pc |-> "watching", actor |-> IF anonymous THEN Nobody ELSE author,
                 plan |-> p, user |-> Nobody]
<1>2. p \in Plans
  BY ReasonFolds DEF Plans
<1>3. fanout' = [fanout EXCEPT ![e] = g]
  BY <1>1
<1>4. g \in Handlers /\ g.pc = "watching"
  <2> HIDE DEF p
  <2> QED
    BY <1>2 DEF Handlers
<1> HIDE DEF g
<1>5. Onward(fanout[e], g)
  BY <1>4 DEF Onward, Pending, Post
<1> QED
  BY <1>3, <1>4, <1>5, HandlerMoves DEF Post

LEMMA BefriendStep ==
  ASSUME RecordInv, NEW e \in Events, NEW actor \in Users, NEW u \in Users,
         Befriend(e, actor, u), UNCHANGED direct
  PROVE  RecordInv'
<1> DEFINE p == [Quiet EXCEPT ![u] = "friend"]
           g == [pc |-> "record", actor |-> actor, plan |-> p, user |-> Nobody]
<1>1. p \in Plans
  BY DEF Plans, Quiet, Kinds
<1>2. fanout' = [fanout EXCEPT ![e] = g]
  BY DEF Befriend
<1>3. g \in Handlers /\ g.pc = "record"
  <2> HIDE DEF p
  <2> QED
    BY <1>1 DEF Handlers
<1> HIDE DEF g
<1>4. Onward(fanout[e], g)
  BY <1>3 DEF Onward, Pending, Befriend
<1> QED
  BY <1>2, <1>3, <1>4, HandlerMoves DEF Befriend

(* The lookups only strike people off.                                     *)
LEMMA LookupStep ==
  ASSUME RecordInv, NEW e \in Events, LookupReading(e) \/ LookupMuted(e), UNCHANGED direct
  PROVE  RecordInv'
<1>0. fanout[e] \in Handlers
  BY TypeParts DEF RecordInv
<1>a. PICK pc \in {"muting", "record"} : \E S :
        fanout' = [fanout EXCEPT ![e].pc = pc, ![e].plan = Without(fanout[e].plan, S)]
  BY DEF LookupReading, LookupMuted
<1>1. PICK S :
        fanout' = [fanout EXCEPT ![e].pc = pc, ![e].plan = Without(fanout[e].plan, S)]
  BY <1>a
<1> DEFINE p == Without(fanout[e].plan, S)
           g == [fanout[e] EXCEPT !.pc = pc, !.plan = p]
<1>2. p \in Plans /\ \A u \in Users : p[u] # "none" => fanout[e].plan[u] # "none"
  BY <1>0 DEF Handlers, Plans, Without
<1> HIDE DEF p
<1>3. fanout' = [fanout EXCEPT ![e] = g]
  BY <1>1 DEF p
<1>4. g \in Handlers /\ g.pc = pc /\ g.plan = p
  BY <1>0, <1>2 DEF Handlers
<1> HIDE DEF g
<1>5. Onward(fanout[e], g)
  BY <1>2, <1>4 DEF Onward, Pending
<1> QED
  BY <1>3, <1>4, <1>5, HandlerMoves DEF LookupReading, LookupMuted

(* Both ways out of the UPDATE, and every failure, leave less to record.   *)
LEMMA RecordedMoves ==
  ASSUME RecordInv, NEW e \in Events, fanout[e].pc = "fold"
  PROVE  \E g \in Handlers : /\ Onward(fanout[e], g) /\ Recorded(e) = [fanout EXCEPT ![e] = g]
                             /\ g.plan[fanout[e].user] = "none"
<1>0. fanout[e] \in Handlers /\ fanout[e].user \in Users /\ fanout[e].plan \in Plans
  BY TypeParts DEF RecordInv, Folding, Handlers
<1> DEFINE p == [fanout[e].plan EXCEPT ![fanout[e].user] = "none"]
           g == [fanout[e] EXCEPT !.pc = "record", !.plan = p, !.user = Nobody]
<1>1. /\ p \in Plans /\ p[fanout[e].user] = "none"
      /\ \A u \in Users : p[u] # "none" => fanout[e].plan[u] # "none"
  BY <1>0, PlanOfOne DEF Plans
<1>2. Recorded(e) = [fanout EXCEPT ![e] = g]
  BY DEF Recorded
<1>3. g \in Handlers /\ g.pc = "record" /\ g.plan = p
  <2> HIDE DEF p
  <2> QED
    BY <1>0, <1>1 DEF Handlers
<1> HIDE DEF g, p
<1> QED
  BY <1>1, <1>2, <1>3 DEF Onward, Pending

LEMMA FailStep ==
  ASSUME RecordInv, NEW e \in Events, Fail(e), UNCHANGED direct
  PROVE  RecordInv'
<1>0. fanout[e] \in Handlers /\ fanout[e].plan \in Plans
  BY TypeParts DEF RecordInv, Handlers
<1>1. CASE fanout' = [fanout EXCEPT ![e].plan = Quiet, ![e].pc = "record", ![e].user = Nobody]
  <2> DEFINE g == [fanout[e] EXCEPT !.plan = Quiet, !.pc = "record", !.user = Nobody]
  <2>1. Quiet \in Plans /\ \A u \in Users : Quiet[u] = "none"
    BY DEF Quiet, Plans
  <2>2. fanout' = [fanout EXCEPT ![e] = g]
    BY <1>1
  <2>3. g \in Handlers /\ g.pc = "record" /\ g.plan = Quiet
    BY <1>0, <2>1 DEF Handlers
  <2> HIDE DEF g
  <2>4. Onward(fanout[e], g)
    BY <2>1, <2>3 DEF Onward
  <2> QED
    BY <2>2, <2>3, <2>4, HandlerMoves DEF Fail
<1>2. CASE fanout[e].pc = "fold" /\ fanout' = Recorded(e)
  BY <1>2, RecordedMoves, HandlerMoves DEF Fail
<1>3. ASSUME NEW u \in Users, fanout[e].pc = "record",
             fanout' = [fanout EXCEPT ![e].plan[u] = "none"]
      PROVE  RecordInv'
  <2> DEFINE p == [fanout[e].plan EXCEPT ![u] = "none"]
             g == [fanout[e] EXCEPT !.plan = p]
  <2>1. p \in Plans /\ \A v \in Users : p[v] # "none" => fanout[e].plan[v] # "none"
    BY <1>0, PlanOfOne
  <2>2. fanout' = [fanout EXCEPT ![e] = g]
    BY <1>3
  <2>3. g \in Handlers /\ g.pc = "record" /\ g.plan = p
    <3> HIDE DEF p
    <3> QED
      BY <1>0, <1>3, <2>1 DEF Handlers
  <2> HIDE DEF g, p
  <2>4. Onward(fanout[e], g)
    BY <2>1, <2>3 DEF Onward, Pending
  <2> QED
    BY <2>2, <2>3, <2>4, HandlerMoves DEF Fail
<1> QED
  BY <1>1, <1>2, <1>3 DEF Fail

(* The INSERT: refused, an open row is there; or the row is the first.     *)
LEMMA InsertStep ==
  ASSUME RecordInv, NEW e \in Events, NEW u \in Users, Insert(e, u), UNCHANGED direct
  PROVE  RecordInv'
<1> DEFINE kind == fanout[e].plan[u]
           actor == fanout[e].actor
<1>0. /\ fanout \in [Events -> Handlers] /\ fanout[e] \in Handlers /\ fanout[e].plan \in Plans
      /\ row \in [Events -> [Users -> Rows]]
      /\ stands \in [Events -> [Users -> SUBSET Events]]
      /\ closed \subseteq Events \X Users /\ direct \in BOOLEAN
      /\ kind \in Kinds /\ actor \in Users \union {Nobody}
  BY TypeParts DEF RecordInv, Handlers, Plans, Insert
<1>1. \A d \in Events : e \notin stands[d][u]
  BY DEF RecordInv, Unrecorded, Pending, Insert
<1>2. CASE Refused(e, u, kind, actor)
  <2> DEFINE g == [fanout[e] EXCEPT !.pc = "fold", !.user = u]
  <2>1. fanout' = [fanout EXCEPT ![e] = g] /\ UNCHANGED <<row, stands, closed>>
    BY <1>2 DEF Insert
  <2>2. /\ g \in Handlers /\ g.pc = "fold" /\ g.user = u /\ g.plan = fanout[e].plan
        /\ g.actor = actor
    BY <1>0 DEF Handlers
  <2> HIDE DEF g
  <2>3. /\ fanout' \in [Events -> Handlers] /\ fanout'[e] = g
        /\ \A d \in Events \ {e} : fanout'[d] = fanout[d]
    BY <1>0, <2>1, <2>2
  <2>4. AboutRow(e, u, kind) = {}
    BY <1>1 DEF AboutRow, RecordInv, OwnEvents, StandsFor
  <2>5. \E d \in Events : MayGrow(row[d][u], g)
    BY <1>2, <2>2, <2>4 DEF Refused, OpenRow, MayGrow
  <2>6. TypeOK'
    BY <2>1, <2>3, <1>0 DEF TypeOK, Handlers, Plans, Rows
  <2>7. Unrecorded' /\ Folding'
    BY <1>2, <2>1, <2>2, <2>3, <1>0
       DEF RecordInv, Unrecorded, Folding, Pending, Kinds, Refused
  <2>8. Awaited'
    BY <2>1, <2>2, <2>3, <2>5 DEF RecordInv, Awaited
  <2>9. OwnEvents' /\ OpenUnique' /\ Counted' /\ Apart'
    BY <2>1 DEF RecordInv, OwnEvents, StandsFor, OpenUnique, Counted, Apart
  <2> QED
    BY <2>6, <2>7, <2>8, <2>9 DEF RecordInv
<1>3. CASE ~Refused(e, u, kind, actor)
  <2> DEFINE p == [fanout[e].plan EXCEPT ![u] = "none"]
             g == [fanout[e] EXCEPT !.plan = p]
             r == [state |-> "open", kind |-> kind, actor |-> actor, about |-> e, count |-> 1]
  <2>1. /\ fanout' = [fanout EXCEPT ![e] = g]
        /\ row' = [row EXCEPT ![e] = [row[e] EXCEPT ![u] = r]]
        /\ stands' = [stands EXCEPT ![e] = [stands[e] EXCEPT ![u] = {e}]]
        /\ closed' = closed
    BY <1>3 DEF Insert
  <2>2. p \in Plans /\ p[u] = "none" /\ \A v \in Users : p[v] # "none" => fanout[e].plan[v] # "none"
    BY <1>0, PlanOfOne DEF Plans
  <2>3. g \in Handlers /\ g.pc = "record" /\ g.plan = p
    <3> HIDE DEF p
    <3> QED
      BY <1>0, <2>2 DEF Handlers, Insert
  <2>4. /\ r \in Rows /\ r.state = "open" /\ r.kind = kind /\ r.actor = actor
        /\ r.about = e /\ r.count = 1
    BY <1>0 DEF Rows, Events
  <2> HIDE DEF g, p, r
  <2>5. /\ fanout' \in [Events -> Handlers] /\ fanout'[e] = g
        /\ \A d \in Events \ {e} : fanout'[d] = fanout[d]
    BY <1>0, <2>1, <2>3
  <2>6. /\ row' \in [Events -> [Users -> Rows]] /\ row'[e][u] = r
        /\ \A d \in Events, v \in Users : d # e \/ v # u => row'[d][v] = row[d][v]
    BY <1>0, <2>1, <2>4
  <2>7. /\ stands' \in [Events -> [Users -> SUBSET Events]] /\ stands'[e][u] = {e}
        /\ \A d \in Events, v \in Users : d # e \/ v # u => stands'[d][v] = stands[d][v]
    BY <1>0, <2>1
  <2>8. row[e][u].state = "none"
    BY <1>1 DEF RecordInv, OwnEvents, StandsFor
  <2>9. TypeOK'
    BY <1>0, <2>1, <2>5, <2>6, <2>7 DEF TypeOK, Handlers, Plans, Rows
  <2>10. Unrecorded'
    <3> SUFFICES ASSUME NEW d \in Events, NEW v \in Users, Pending(fanout[d], v)',
                        NEW c \in Events
                 PROVE  d \notin stands'[c][v]
      BY DEF Unrecorded
    <3>1. Pending(fanout[d], v) /\ (d = e => v # u)
      BY <2>2, <2>3, <2>5 DEF Pending, Insert
    <3>2. d \notin stands[c][v]
      BY <3>1 DEF RecordInv, Unrecorded
    <3> QED
      BY <3>1, <3>2, <2>7
  <2>11. Folding'
    BY <2>3, <2>5 DEF RecordInv, Folding
  <2>16. OwnEvents'
    <3> SUFFICES ASSUME NEW d \in Events, NEW v \in Users, row'[d][v].state # "none"
                 PROVE  d \in stands'[d][v] /\ row'[d][v].about \in stands'[d][v]
      BY DEF OwnEvents, StandsFor
    <3>1. CASE d = e /\ v = u
      BY <3>1, <2>4, <2>6, <2>7
    <3>2. CASE d # e \/ v # u
      BY <3>2, <2>6, <2>7 DEF RecordInv, OwnEvents, StandsFor
    <3> QED
      BY <3>1, <3>2
  <2>12. OpenUnique'
    <3>1. \A d \in Events : ~Together(row[d][u], r)
      BY <1>3, <2>4 DEF Refused, OpenRow, Together
    <3>2. \A d \in Events : ~Together(r, row[d][u])
      BY <3>1 DEF Together
    <3> HIDE DEF Together
    <3> QED
      BY <2>6, <3>1, <3>2 DEF RecordInv, OpenUnique
  <2>13. Counted'
    <3>1. Cardinality({e}) = 1
      BY FS_Singleton
    <3> SUFFICES ASSUME NEW d \in Events, NEW v \in Users
                 PROVE  row'[d][v].count = Cardinality(stands'[d][v])
      BY DEF Counted
    <3>2. CASE d = e /\ v = u
      BY <3>1, <3>2, <2>4, <2>6, <2>7
    <3>3. CASE d # e \/ v # u
      BY <3>3, <2>6, <2>7 DEF RecordInv, Counted
    <3> QED
      BY <3>2, <3>3
  <2>14. Apart'
    BY <1>1, <2>7 DEF RecordInv, Apart
  <2>15. Awaited'
    <3> SUFFICES ASSUME NEW d \in Events, fanout'[d].pc = "fold"
                 PROVE  \/ <<d, fanout'[d].user>> \in closed'
                        \/ \E c \in Events : MayGrow(row'[c][fanout'[d].user], fanout'[d])
      BY DEF Awaited
    <3>1. fanout'[d] = fanout[d] /\ fanout[d].pc = "fold" /\ fanout[d].user \in Users
      BY <2>3, <2>5 DEF RecordInv, Folding
    <3>2. \/ <<d, fanout[d].user>> \in closed
          \/ \E c \in Events : MayGrow(row[c][fanout[d].user], fanout[d])
      BY <3>1 DEF RecordInv, Awaited
    <3> QED
      BY <3>1, <3>2, <2>1, <2>6, <2>8 DEF MayGrow
  <2> QED
    BY <2>9, <2>10, <2>11, <2>12, <2>13, <2>14, <2>15, <2>16 DEF RecordInv
<1> QED
  BY <1>2, <1>3

(* The UPDATE: at most one open row grows, by an event no row stands for.  *)
Grows(d, e, u) == row'[d][u] = Grown(row[d][u], e) /\ stands'[d][u] = stands[d][u] \union {e}
Keeps(d, v) == row'[d][v] = row[d][v] /\ stands'[d][v] = stands[d][v]

LEMMA GrownIsHonest ==
  ASSUME NEW r \in Rows, NEW e \in Events, NEW S \in SUBSET Events, e \notin S,
         r.count = Cardinality(S)
  PROVE  /\ Grown(r, e) \in Rows /\ Grown(r, e).state = r.state /\ Grown(r, e).kind = r.kind
         /\ Grown(r, e).actor = r.actor /\ Grown(r, e).about = e
         /\ Grown(r, e).count = Cardinality(S \union {e})
<1>1. IsFiniteSet(S)
  <2>1. IsFiniteSet(Events)
    BY NotificationsAssumption, FS_Interval, 1 \in Int, MaxEvents \in Int DEF Events
  <2> QED
    BY <2>1, FS_Subset
<1>2. Cardinality(S) \in Nat /\ Cardinality(S \union {e}) = Cardinality(S) + 1
  BY <1>1, FS_AddElement, FS_CardinalityType
<1>3. e \in 0..MaxEvents /\ r.count \in Nat /\ r.count + 1 \in Nat
  BY NotificationsAssumption DEF Rows, Events
<1>4. Grown(r, e) \in Rows
  BY <1>3 DEF Grown, Rows
<1>5. /\ Grown(r, e).state = r.state /\ Grown(r, e).kind = r.kind
      /\ Grown(r, e).actor = r.actor
  BY DEF Grown, Rows
<1>6. Grown(r, e).about = e /\ Grown(r, e).count = r.count + 1
  BY <1>3 DEF Grown, Rows
<1> QED
  BY <1>2, <1>4, <1>5, <1>6

LEMMA FoldStep ==
  ASSUME RecordInv, NEW e \in Events, Fold(e), UNCHANGED direct
  PROVE  /\ RecordInv'
         /\ \/ \E d \in Events : e \in stands'[d][fanout[e].user]
            \/ <<e, fanout[e].user>> \in closed
<1> DEFINE u == fanout[e].user
           kind == fanout[e].plan[u]
           into == IF AboutRow(e, u, kind) # {} THEN {} ELSE OpenRow(u, kind, fanout[e].actor)
<1>0. /\ fanout \in [Events -> Handlers] /\ fanout[e] \in Handlers
      /\ row \in [Events -> [Users -> Rows]]
      /\ stands \in [Events -> [Users -> SUBSET Events]]
      /\ closed \subseteq Events \X Users /\ direct \in BOOLEAN
      /\ u \in Users /\ kind # "none" /\ fanout[e].pc = "fold"
  BY TypeParts DEF RecordInv, Folding, Fold
<1>1. \A d \in Events : e \notin stands[d][u]
  BY <1>0 DEF RecordInv, Unrecorded, Pending
<1>2. AboutRow(e, u, kind) = {}
  BY <1>0, <1>1 DEF AboutRow, RecordInv, OwnEvents, StandsFor
<1>3. into = {d \in Events : MayGrow(row[d][u], fanout[e])}
  BY <1>2 DEF OpenRow, MayGrow
<1>4. /\ row' = [d \in Events |-> IF d \in into THEN [row[d] EXCEPT ![u] = Grown(row[d][u], e)]
                                  ELSE row[d]]
      /\ stands' = [d \in Events |->
              IF d \in into THEN [stands[d] EXCEPT ![u] = stands[d][u] \union {e}] ELSE stands[d]]
      /\ fanout' = Recorded(e) /\ closed' = closed
  BY DEF Fold
<1> HIDE DEF into
<1>5. /\ \A d \in into : Grows(d, e, u)
      /\ \A d \in Events, v \in Users : d \notin into \/ v # u => Keeps(d, v)
  BY <1>0, <1>3, <1>4 DEF Grows, Keeps
<1>6. PICK g \in Handlers :
        /\ Onward(fanout[e], g) /\ fanout' = [fanout EXCEPT ![e] = g] /\ g.plan[u] = "none"
  BY <1>0, <1>4, RecordedMoves
<1>7. /\ fanout' \in [Events -> Handlers] /\ fanout'[e] = g
      /\ \A d \in Events \ {e} : fanout'[d] = fanout[d]
  BY <1>0, <1>6
<1>8. \A d \in into :
        /\ d \in Events /\ row'[d][u] \in Rows /\ row'[d][u].state = row[d][u].state
        /\ row'[d][u].kind = row[d][u].kind /\ row'[d][u].actor = row[d][u].actor
        /\ row'[d][u].about = e /\ row'[d][u].count = Cardinality(stands'[d][u])
        /\ stands'[d][u] = stands[d][u] \union {e}
  <2> SUFFICES ASSUME NEW d \in into
               PROVE  /\ d \in Events /\ row'[d][u] \in Rows
                      /\ row'[d][u].state = row[d][u].state
                      /\ row'[d][u].kind = row[d][u].kind /\ row'[d][u].actor = row[d][u].actor
                      /\ row'[d][u].about = e /\ row'[d][u].count = Cardinality(stands'[d][u])
                      /\ stands'[d][u] = stands[d][u] \union {e}
    OBVIOUS
  <2>1. d \in Events /\ e \notin stands[d][u]
    BY <1>1, <1>3
  <2>2. row[d][u] \in Rows /\ stands[d][u] \in SUBSET Events
    BY <1>0, <2>1
  <2>3. row[d][u].count = Cardinality(stands[d][u])
    BY <1>0, <2>1 DEF RecordInv, Counted
  <2>4. /\ row'[d][u] = Grown(row[d][u], e)
        /\ stands'[d][u] = stands[d][u] \union {e}
    BY <1>5 DEF Grows
  <2> DEFINE r == row[d][u]
             S == stands[d][u]
  <2>5. /\ Grown(r, e) \in Rows /\ Grown(r, e).state = r.state /\ Grown(r, e).kind = r.kind
        /\ Grown(r, e).actor = r.actor /\ Grown(r, e).about = e
        /\ Grown(r, e).count = Cardinality(S \union {e})
    <3> HIDE DEF r, S
    <3> SUFFICES r \in Rows /\ S \in SUBSET Events /\ e \notin S /\ r.count = Cardinality(S)
      BY GrownIsHonest
    <3> QED
      BY <2>1, <2>2, <2>3 DEF r, S
  <2> QED
    BY <2>1, <2>4, <2>5
<1>9. TypeOK'
  <2>1. ASSUME NEW d \in Events PROVE row'[d] \in [Users -> Rows] /\ stands'[d] \in [Users -> SUBSET Events]
    <3>1. CASE d \in into
      <4>1. Grown(row[d][u], e) \in Rows
        BY <3>1, <1>5, <1>8 DEF Grows
      <4> QED
        BY <3>1, <4>1, <1>0, <1>4
    <3>2. CASE d \notin into
      BY <3>2, <1>0, <1>4
    <3> QED
      BY <3>1, <3>2
  <2>2. row' \in [Events -> [Users -> Rows]] /\ stands' \in [Events -> [Users -> SUBSET Events]]
    BY <2>1, <1>4
  <2> QED
    BY <2>2, <1>0, <1>4, <1>7 DEF TypeOK, Handlers, Plans, Rows
<1>10. Unrecorded'
  <2> SUFFICES ASSUME NEW d \in Events, NEW v \in Users, Pending(fanout[d], v)', NEW c \in Events
               PROVE  d \notin stands'[c][v]
    BY DEF Unrecorded
  <2>1. Pending(fanout[d], v) /\ (d = e => v # u)
    BY <1>6, <1>7 DEF Pending, Onward
  <2>2. d \notin stands[c][v]
    BY <2>1 DEF RecordInv, Unrecorded
  <2> QED
    BY <2>1, <2>2, <1>5, <1>8 DEF Keeps
<1>11. Folding'
  BY <1>6, <1>7 DEF RecordInv, Folding, Onward
<1>12. OwnEvents'
  <2> SUFFICES ASSUME NEW d \in Events, NEW v \in Users, row'[d][v].state # "none"
               PROVE  d \in stands'[d][v] /\ row'[d][v].about \in stands'[d][v]
    BY DEF OwnEvents, StandsFor
  <2>1. CASE d \in into /\ v = u
    BY <2>1, <1>8 DEF RecordInv, OwnEvents, StandsFor
  <2>2. CASE d \notin into \/ v # u
    BY <2>2, <1>5 DEF Keeps, RecordInv, OwnEvents, StandsFor
  <2> QED
    BY <2>1, <2>2
<1>13. \A d \in Events, v \in Users :
          /\ row'[d][v].state = row[d][v].state /\ row'[d][v].kind = row[d][v].kind
          /\ row'[d][v].actor = row[d][v].actor
  BY <1>5, <1>8 DEF Keeps
<1>14. OpenUnique'
  BY <1>13 DEF RecordInv, OpenUnique, Together
<1>15. Counted'
  <2> SUFFICES ASSUME NEW d \in Events, NEW v \in Users
               PROVE  row'[d][v].count = Cardinality(stands'[d][v])
    BY DEF Counted
  <2>1. CASE d \in into /\ v = u
    BY <2>1, <1>8
  <2>2. CASE d \notin into \/ v # u
    BY <2>2, <1>5 DEF Keeps, RecordInv, Counted
  <2> QED
    BY <2>1, <2>2
<1>16. Apart'
  <2>1. \A c, d \in into : c = d
    <3>1. Folds(kind)
      BY <1>0 DEF RecordInv, Folding
    <3> SUFFICES ASSUME NEW c \in into, NEW d \in into PROVE c = d
      OBVIOUS
    <3>2. c \in Events /\ d \in Events /\ Together(row[c][u], row[d][u])
      BY <3>1, <1>3 DEF MayGrow, Together
    <3> QED
      BY <3>2, <1>0 DEF RecordInv, OpenUnique
  <2> SUFFICES ASSUME NEW c \in Events, NEW d \in Events, NEW v \in Users, c # d
               PROVE  stands'[c][v] \intersect stands'[d][v] = {}
    BY DEF Apart
  <2>2. stands[c][v] \intersect stands[d][v] = {}
    BY DEF RecordInv, Apart
  <2> QED
    BY <2>1, <2>2, <1>1, <1>5, <1>8 DEF Keeps
<1>17. Awaited'
  <2> SUFFICES ASSUME NEW d \in Events, fanout'[d].pc = "fold"
               PROVE  \/ <<d, fanout'[d].user>> \in closed'
                      \/ \E c \in Events : MayGrow(row'[c][fanout'[d].user], fanout'[d])
    BY DEF Awaited
  <2>1. fanout'[d] = fanout[d] /\ fanout[d].pc = "fold" /\ fanout[d].user \in Users
    BY <1>6, <1>7 DEF RecordInv, Folding, Onward
  <2>2. \/ <<d, fanout[d].user>> \in closed
        \/ \E c \in Events : MayGrow(row[c][fanout[d].user], fanout[d])
    BY <2>1 DEF RecordInv, Awaited
  <2>3. \A c \in Events : MayGrow(row[c][fanout[d].user], fanout[d])
                           => MayGrow(row'[c][fanout[d].user], fanout[d])
    BY <2>1, <1>13 DEF MayGrow
  <2> QED
    BY <2>1, <2>2, <2>3, <1>4
<1>18. \/ \E d \in Events : e \in stands'[d][u]
       \/ <<e, u>> \in closed
  BY <1>0, <1>3, <1>8 DEF RecordInv, Awaited
<1> QED
  BY <1>9, <1>10, <1>11, <1>12, <1>14, <1>15, <1>16, <1>17, <1>18 DEF RecordInv

(* Reading and pruning only take rows out of the open state, and say so to *)
(* whoever was about to grow one.                                          *)
LEMMA CloseStep ==
  ASSUME RecordInv, NEW rows, NEW state \in {"read", "pruned"}, Close(rows, state),
         \A d \in Events, u \in Users : <<d, u>> \in rows => row[d][u].state # "none",
         UNCHANGED direct
  PROVE  RecordInv'
<1>0. /\ fanout \in [Events -> Handlers] /\ row \in [Events -> [Users -> Rows]]
      /\ stands \in [Events -> [Users -> SUBSET Events]]
      /\ closed \subseteq Events \X Users /\ direct \in BOOLEAN
  BY TypeParts DEF RecordInv
<1>1. fanout' = fanout /\ stands' = stands
  BY DEF Close
<1>2. row' = [d \in Events |-> [u \in Users |->
        IF <<d, u>> \in rows THEN [row[d][u] EXCEPT !.state = state] ELSE row[d][u]]]
  BY DEF Close
<1>3. ASSUME NEW d \in Events, NEW u \in Users
      PROVE  /\ row'[d][u] \in Rows
             /\ row'[d][u].kind = row[d][u].kind /\ row'[d][u].actor = row[d][u].actor
             /\ row'[d][u].about = row[d][u].about /\ row'[d][u].count = row[d][u].count
             /\ row'[d][u].state # "none" => row[d][u].state # "none"
             /\ row'[d][u].state = "open" => row[d][u].state = "open"
             /\ <<d, u>> \notin rows => row'[d][u] = row[d][u]
  <2>1. row[d][u] \in Rows
    BY <1>0
  <2>2. CASE <<d, u>> \in rows
    <3>1. row'[d][u] = [row[d][u] EXCEPT !.state = state] /\ row[d][u].state # "none"
      BY <1>2, <2>2
    <3> QED
      BY <2>1, <2>2, <3>1 DEF Rows
  <2>3. CASE <<d, u>> \notin rows
    BY <1>2, <2>1, <2>3
  <2> QED
    BY <2>2, <2>3
<1>4. closed \subseteq closed' /\ closed' \subseteq closed \union
        {<<e, fanout[e].user>> : e \in {f \in Events : fanout[f].pc = "fold"}}
  BY DEF Close
<1>5. ASSUME NEW e \in Events, fanout[e].pc = "fold",
             NEW d \in Events, MayGrow(row[d][fanout[e].user], fanout[e]),
             <<d, fanout[e].user>> \in rows
      PROVE  <<e, fanout[e].user>> \in closed'
  <2>1. <<d, fanout[e].user>> \in Ahead(e)
    BY <1>5 DEF Ahead, OpenRow, MayGrow
  <2> QED
    BY <1>5, <2>1 DEF Close
<1>6. TypeOK'
  <2>1. row' \in [Events -> [Users -> Rows]]
    BY <1>2, <1>3
  <2>2. closed' \subseteq Events \X Users
    BY <1>0, <1>4 DEF RecordInv, Folding
  <2> QED
    BY <1>0, <1>1, <2>1, <2>2 DEF TypeOK, Handlers, Plans, Rows
<1>7. Unrecorded' /\ Folding' /\ Apart'
  BY <1>1 DEF RecordInv, Unrecorded, Folding, Apart, Pending
<1>8. OwnEvents' /\ Counted'
  <2> SUFFICES ASSUME NEW d \in Events, NEW u \in Users
               PROVE  /\ row'[d][u].state # "none" => {d, row'[d][u].about} \subseteq stands[d][u]
                      /\ row'[d][u].count = Cardinality(stands[d][u])
    BY <1>1 DEF OwnEvents, StandsFor, Counted
  <2>1. /\ row[d][u].state # "none" => {d, row[d][u].about} \subseteq stands[d][u]
        /\ row[d][u].count = Cardinality(stands[d][u])
    BY DEF RecordInv, OwnEvents, StandsFor, Counted
  <2> QED
    BY <2>1, <1>3
<1>9. OpenUnique'
  <2> SUFFICES ASSUME NEW c \in Events, NEW d \in Events, NEW u \in Users,
                      Together(row'[c][u], row'[d][u])
               PROVE  c = d
    BY DEF OpenUnique
  <2>1. Together(row[c][u], row[d][u])
    BY <1>3 DEF Together
  <2> QED
    BY <2>1 DEF RecordInv, OpenUnique
<1>10. Awaited'
  <2> SUFFICES ASSUME NEW e \in Events, fanout[e].pc = "fold"
               PROVE  \/ <<e, fanout[e].user>> \in closed'
                      \/ \E d \in Events : MayGrow(row'[d][fanout[e].user], fanout[e])
    BY <1>1 DEF Awaited
  <2>1. CASE <<e, fanout[e].user>> \in closed
    BY <1>4, <2>1
  <2>2. ASSUME NEW d \in Events, MayGrow(row[d][fanout[e].user], fanout[e])
        PROVE  \/ <<e, fanout[e].user>> \in closed'
               \/ MayGrow(row'[d][fanout[e].user], fanout[e])
    <3>1. fanout[e].user \in Users
      BY DEF RecordInv, Folding
    <3> QED
      BY <1>3, <1>5, <2>2, <3>1
  <2> QED
    BY <2>1, <2>2 DEF RecordInv, Awaited
<1> QED
  BY <1>6, <1>7, <1>8, <1>9, <1>10 DEF RecordInv

LEMMA ReadStep ==
  ASSUME RecordInv, UNCHANGED direct,
         \/ \E d \in Events, u \in Users : MarkRead(d, u) \/ Prune(d, u)
         \/ \E u \in Users : MarkAllRead(u)
  PROVE  RecordInv'
<1>1. ASSUME NEW d \in Events, NEW u \in Users, MarkRead(d, u) \/ Prune(d, u) PROVE RecordInv'
  <2>1. PICK state \in {"read", "pruned"} : Close({<<d, u>>}, state) /\ row[d][u].state # "none"
    BY <1>1 DEF MarkRead, Prune
  <2> QED
    BY <2>1, CloseStep
<1>2. ASSUME NEW u \in Users, MarkAllRead(u) PROVE RecordInv'
  <2> DEFINE mine == {<<d, u>> : d \in {c \in Events : row[c][u].state = "open"}}
  <2>1. Close(mine, "read")
    BY <1>2 DEF MarkAllRead
  <2>2. \A d \in Events, v \in Users : <<d, v>> \in mine => row[d][v].state # "none"
    OBVIOUS
  <2> HIDE DEF mine
  <2> QED
    BY <2>1, <2>2, CloseStep
<1> QED
  BY <1>1, <1>2

LEMMA RecordStep == ASSUME RecordInv, [Next]_vars PROVE RecordInv'
<1>1. CASE UNCHANGED vars
  <2>1. TypeOK'
    BY <1>1 DEF vars, RecordInv, TypeOK
  <2>2. Unrecorded' /\ Folding' /\ Awaited'
    BY <1>1 DEF vars, RecordInv, Unrecorded, Folding, Awaited, Pending, MayGrow
  <2>3. OwnEvents' /\ OpenUnique' /\ Counted' /\ Apart'
    BY <1>1 DEF vars, RecordInv, OwnEvents, StandsFor, OpenUnique, Together, Counted, Apart
  <2> QED
    BY <2>1, <2>2, <2>3 DEF RecordInv
<1>2. CASE Next
  <2>1. CASE \E e \in Events : LookupReading(e) \/ LookupMuted(e) \/ Fold(e) \/ Fail(e)
    BY <1>2, <2>1, LookupStep, FoldStep, FailStep DEF Next
  <2>2. CASE \E e \in Events, u \in Users : Insert(e, u)
    BY <1>2, <2>2, InsertStep DEF Next
  <2>3. CASE \E e \in Events, u, v \in Users : Befriend(e, u, v)
    BY <1>2, <2>3, BefriendStep DEF Next
  <2>4. CASE \E e \in Events, author \in Users, anonymous, everyone \in BOOLEAN,
                mentions \in SUBSET Users : Post(e, author, anonymous, mentions, everyone)
    BY <1>2, <2>4, PostStep DEF Next
  <2>5. CASE \/ \E d \in Events, u \in Users : MarkRead(d, u) \/ Prune(d, u)
             \/ \E u \in Users : MarkAllRead(u)
    BY <1>2, <2>5, ReadStep DEF Next
  <2> QED
    BY <1>2, <2>1, <2>2, <2>3, <2>4, <2>5 DEF Next, Step
<1> QED
  BY <1>1, <1>2

LEMMA RecordInit == Init => RecordInv
<1> SUFFICES ASSUME Init PROVE RecordInv
  OBVIOUS
<1>1. Quiet \in Plans /\ Waiting \in Handlers /\ Waiting.pc = "idle"
  BY DEF Quiet, Plans, Waiting, Handlers
<1>2. NoRow \in Rows /\ NoRow.state = "none" /\ NoRow.count = 0
  BY NotificationsAssumption DEF NoRow, Rows
<1>3. TypeOK
  BY <1>1, <1>2, TypeParts DEF Init
<1>4. Unrecorded /\ Folding /\ Awaited /\ Apart
  BY <1>1 DEF Init, Unrecorded, Folding, Awaited, Apart
<1>5. OwnEvents /\ OpenUnique
  BY <1>2 DEF Init, OwnEvents, OpenUnique, Together
<1>6. Counted
  BY <1>2, FS_EmptySet DEF Init, Counted
<1> QED
  BY <1>3, <1>4, <1>5, <1>6 DEF RecordInv

\* What a handler of notifications, its INSERT and the fold after it have found
\* still holds when they act on it, but for what readers and prunes closed.
THEOREM RecordInvariant == Spec => []RecordInv
BY RecordInit, RecordStep, PTL DEF Spec

-----------------------------------------------------------------------------
(***************************************************************************)
(* record() has an open row refuse the INSERT and grow: two messages that  *)
(* arrive at once leave one row, for any number of handlers, readers and   *)
(* runs of the prune job.                                                  *)
(***************************************************************************)
THEOREM OneRowIsOpen == Spec => []OneOpenRow
<1>1. RecordInv => OneOpenRow
  <2> SUFFICES ASSUME RecordInv, NEW u \in Users, NEW kind \in Kinds,
                      NEW actor \in Users \union {Nobody}, Folds(kind)
               PROVE  TypeOK /\ Cardinality(OpenRow(u, kind, actor)) <= 1
    BY DEF OneOpenRow, RecordInv
  <2> DEFINE open == OpenRow(u, kind, actor)
  <2>1. \A c, d \in open : c = d
    BY DEF OpenRow, RecordInv, OpenUnique, Together
  <2>2. CASE open = {}
    BY <2>2, FS_EmptySet DEF RecordInv
  <2>3. ASSUME NEW d \in open PROVE Cardinality(open) = 1
    <3>1. open = {d}
      BY <2>1
    <3> QED
      BY <3>1, FS_Singleton
  <2> QED
    BY <2>2, <2>3 DEF RecordInv
<1> QED
  BY <1>1, RecordInvariant, PTL

(***************************************************************************)
(* A row counts the events it stands for, and no event is in two rows of   *)
(* one person, however INSERTs, UPDATEs, failures and readers interleave.  *)
(***************************************************************************)
THEOREM CountsAreTrue == Spec => []CountIsHonest
<1>1. RecordInv => CountIsHonest
  BY DEF RecordInv, CountIsHonest, Counted, Apart
<1> QED
  BY <1>1, RecordInvariant, PTL

(***************************************************************************)
(* The UPDATE after a refused INSERT grows a row, or the row was read or   *)
(* pruned in between: Recorded::Known loses no event otherwise.            *)
(***************************************************************************)
THEOREM NothingElseIsLost == Spec => LostOnlyToClosing
<1> DEFINE Kept == \A e \in Events : Fold(e) =>
             \/ \E d \in Events : e \in stands'[d][fanout[e].user]
             \/ <<e, fanout[e].user>> \in closed
<1>1. RecordInv /\ [Next]_vars => [Kept]_vars
  BY FoldStep DEF Next
<1> QED
  BY <1>1, RecordInvariant, PTL DEF Spec, LostOnlyToClosing


----------------------------------------------------------------------------
(* The client's socket.                                                    *)

(* A ChatSocket object, and what the server holds of a connection.         *)
RoomSets == SUBSET Rooms
RoomOrNone == Rooms \cup {None}
Chats == [socket : {"null", "connecting", "open", "closed"}, explicit : BOOLEAN,
          timer : BOOLEAN, subscribed : SUBSET Rooms, focused : Rooms \cup {None},
          queue : Seq(Frame), wire : Seq(Frame)]
Connections == [known : BOOLEAN, subs : SUBSET Rooms, focus : Rooms \cup {None},
                pending : Rooms \cup {None}]

On(r) == Frm("subscribe", r)
Off(r) == Frm("unsubscribe", r)
Firm(f) == f.type \in {"unsubscribe", "focus"}
Asked(f) == IF f.type = "unsubscribe" THEN None ELSE f.room

Has(q, f) == \E k \in 1..Len(q) : q[k] = f

(* Every g in the frames q is followed by an f.                            *)
Followed(q, g, f) ==
  \A j \in 1..Len(q) : q[j] = g => \E k \in 1..Len(q) : k > j /\ q[k] = f
Later(q, i) == \E k \in 1..Len(q) : k > i /\ Firm(q[k])

(* The last word of q on a room is whether it is in S; the last firm word  *)
(* on what is read is x, and after it typing is said of x or a room of L.  *)
LastSubs(q, S) == \A r \in Rooms : IF r \in S THEN Followed(q, Off(r), On(r))
                                              ELSE Followed(q, On(r), Off(r))
Strays(f, x, L) == /\ f.type # "subscribe" /\ Asked(f) # x
                   /\ f.type = "typing" => f.room \notin L
LastAsks(q, x, L) == \A i \in 1..Len(q) : Strays(q[i], x, L) => Later(q, i)

Says(q, S, x, L) == LastSubs(q, S) /\ LastAsks(q, x, L)

(* The rooms of the server and of the object differ by frames on their way,*)
(* and so does what is read.                                               *)
Brings(q, S, subs) ==
  \A r \in Rooms : /\ r \in S => r \in subs \/ Has(q, On(r))
                   /\ r \notin S => r \notin subs \/ Has(q, Off(r))
Silent(q) == \A i \in 1..Len(q) : ~Firm(q[i])
Minds(n, x, L) == IF n.pending = None THEN n.focus \in {x} \cup L ELSE n.pending = x
Carries(q, S, x, L, n) == /\ Says(q, S, x, L) /\ Brings(q, S, n.subs)
                          /\ Silent(q) => Minds(n, x, L)
PendingApart(n) == n.pending # None => n.focus = None /\ n.pending \notin n.subs

Queued(s, L) == /\ Says(s.queue, s.subscribed, s.focused, L)
                /\ s.socket = "open" => s.queue = <<>>
NoneKept(s) == client = "web" /\ ~Live(s) => s.queue = <<>>
Wired(s, n, L) == s.socket = "open" /\ n.known =>
                    Carries(s.wire, s.subscribed, s.focused, L, n) /\ PendingApart(n)
Kept(s, n, L) == Queued(s, L) /\ NoneKept(s) /\ Wired(s, n, L)

----------------------------------------------------------------------------
(* Sequences of frames.                                                    *)

(* q is p with f at its end.                                               *)
Adds(q, f, p) == /\ q \in Seq(Frame) /\ p \in Seq(Frame) /\ Len(p) = Len(q) + 1
                 /\ \A i \in 1..Len(q) : p[i] = q[i]
                 /\ p[Len(p)] = f

LEMMA FramesAre ==
  /\ \A t, r : Frm(t, r).type = t /\ Frm(t, r).room = r
  /\ \A r \in Rooms, t \in {"subscribe", "unsubscribe", "typing"} : Frm(t, r) \in Frame
  /\ \A r \in Rooms \cup {None} : Frm("focus", r) \in Frame
  BY DEF Frm, Frame

LEMMA FrameIs ==
  ASSUME NEW f \in Frame
  PROVE  /\ f = Frm(f.type, f.room) /\ f.room \in Rooms \cup {None}
         /\ f.type \in {"subscribe", "unsubscribe", "focus", "typing"}
         /\ f.type # "focus" => f.room \in Rooms
  BY DEF Frm, Frame

LEMMA AddedOne ==
  ASSUME NEW q \in Seq(Frame), NEW f \in Frame
  PROVE  Adds(q, f, q \o <<f>>)
  BY DEF Adds

LEMMA EmptySays ==
  ASSUME NEW S, NEW x, NEW L
  PROVE  Says(<<>>, S, x, L)
  BY DEF Says, LastSubs, Followed, LastAsks

(* What holds of few rooms holds of more.                                  *)
LEMMA KeptMore ==
  ASSUME NEW s, NEW n, NEW K, NEW L, K \subseteq L
  PROVE  /\ Queued(s, K) => Queued(s, L)
         /\ Wired(s, n, K) => Wired(s, n, L)
         /\ Kept(s, n, K) => Kept(s, n, L)
<1>1. \A q, S, x : Says(q, S, x, K) => Says(q, S, x, L)
  BY DEF Says, LastAsks, Strays
<1>2. \A x : Minds(n, x, K) => Minds(n, x, L)
  BY DEF Minds
<1>3. Queued(s, K) => Queued(s, L)
  BY <1>1 DEF Queued
<1>4. Wired(s, n, K) => Wired(s, n, L)
  BY <1>1, <1>2 DEF Wired, Carries
<1> QED BY <1>3, <1>4 DEF Kept

LEMMA AddsLater ==
  ASSUME NEW q, NEW f, NEW p, Adds(q, f, p), NEW i \in 1..Len(q)
  PROVE  /\ Later(q, i) => Later(p, i)
         /\ Firm(f) => Later(p, i)
  BY DEF Adds, Later

LEMMA AddsFollowed ==
  ASSUME NEW q, NEW f, NEW p, Adds(q, f, p), NEW g, NEW h, g # h
  PROVE  /\ f = h => Followed(p, g, h)
         /\ Followed(q, g, h) /\ f # g => Followed(p, g, h)
  BY DEF Adds, Followed

LEMMA SubscribeSays ==
  ASSUME NEW q, NEW p, NEW r \in Rooms, NEW S, NEW x, NEW L,
         Adds(q, On(r), p), Says(q, S, x, L)
  PROVE  Says(p, S \cup {r}, x, L)
<1>1. \A i \in 1..Len(p) : i \in 1..Len(q) \/ p[i] = On(r)
  BY DEF Adds
<1>2. LastSubs(p, S \cup {r})
  <2> SUFFICES ASSUME NEW o \in Rooms
               PROVE  IF o \in S \cup {r} THEN Followed(p, Off(o), On(o))
                                          ELSE Followed(p, On(o), Off(o))
    BY DEF LastSubs
  <2>1. /\ Off(o) # On(o) /\ On(r) # Off(o) /\ (o # r => On(r) # On(o))
    BY DEF On, Off, Frm
  <2>2. IF o \in S THEN Followed(q, Off(o), On(o)) ELSE Followed(q, On(o), Off(o))
    BY DEF Says, LastSubs
  <2> QED BY <2>1, <2>2, AddsFollowed
<1>3. ~Strays(On(r), x, L)
  BY FramesAre DEF Strays, On
<1>4. LastAsks(p, x, L)
  BY <1>1, <1>3, AddsLater DEF Says, LastAsks, Adds
<1> QED BY <1>2, <1>4 DEF Says

LEMMA UnsubscribeSays ==
  ASSUME NEW q, NEW p, NEW r \in Rooms, NEW S, NEW x, NEW L,
         Adds(q, Off(r), p), Says(q, S, x, L)
  PROVE  Says(p, S \ {r}, None, {})
<1>1. Firm(Off(r)) /\ Asked(Off(r)) = None
  BY FramesAre DEF Firm, Asked, Off
<1>2. LastSubs(p, S \ {r})
  <2> SUFFICES ASSUME NEW o \in Rooms
               PROVE  IF o \in S \ {r} THEN Followed(p, Off(o), On(o))
                                       ELSE Followed(p, On(o), Off(o))
    BY DEF LastSubs
  <2>1. /\ Off(o) # On(o) /\ Off(r) # On(o) /\ (o # r => Off(r) # Off(o))
    BY DEF On, Off, Frm
  <2>2. IF o \in S THEN Followed(q, Off(o), On(o)) ELSE Followed(q, On(o), Off(o))
    BY DEF Says, LastSubs
  <2> QED BY <2>1, <2>2, AddsFollowed
<1>3. \A i \in 1..Len(p) : i \in 1..Len(q) \/ p[i] = Off(r)
  BY DEF Adds
<1>4. LastAsks(p, None, {})
  BY <1>1, <1>3, AddsLater DEF LastAsks, Strays
<1> QED BY <1>2, <1>4 DEF Says

LEMMA FocusSays ==
  ASSUME NEW q, NEW p, NEW y \in Rooms \cup {None}, NEW S, NEW x, NEW L,
         Adds(q, Frm("focus", y), p), Says(q, S, x, L)
  PROVE  Says(p, S, y, {})
<1> DEFINE f == Frm("focus", y)
<1>1. Firm(f) /\ Asked(f) = y
  BY FramesAre DEF Firm, Asked
<1>2. LastSubs(p, S)
  <2> SUFFICES ASSUME NEW o \in Rooms
               PROVE  IF o \in S THEN Followed(p, Off(o), On(o))
                                 ELSE Followed(p, On(o), Off(o))
    BY DEF LastSubs
  <2>1. /\ Off(o) # On(o) /\ f # On(o) /\ f # Off(o)
    BY DEF On, Off, Frm
  <2>2. IF o \in S THEN Followed(q, Off(o), On(o)) ELSE Followed(q, On(o), Off(o))
    BY DEF Says, LastSubs
  <2> QED BY <2>1, <2>2, AddsFollowed
<1>3. \A i \in 1..Len(p) : i \in 1..Len(q) \/ p[i] = f
  BY DEF Adds
<1>4. LastAsks(p, y, {})
  BY <1>1, <1>3, AddsLater DEF LastAsks, Strays
<1> QED BY <1>2, <1>4 DEF Says

LEMMA TypingSays ==
  ASSUME NEW q, NEW p, NEW S, NEW x, NEW L, NEW r \in {x} \cup L,
         Adds(q, Frm("typing", r), p), Says(q, S, x, L)
  PROVE  Says(p, S, x, L)
<1> DEFINE f == Frm("typing", r)
<1>1. ~Strays(f, x, L)
  BY FramesAre DEF Strays, Asked
<1>2. LastSubs(p, S)
  <2> SUFFICES ASSUME NEW o \in Rooms
               PROVE  IF o \in S THEN Followed(p, Off(o), On(o))
                                 ELSE Followed(p, On(o), Off(o))
    BY DEF LastSubs
  <2>1. /\ Off(o) # On(o) /\ f # On(o) /\ f # Off(o)
    BY DEF On, Off, Frm
  <2>2. IF o \in S THEN Followed(q, Off(o), On(o)) ELSE Followed(q, On(o), Off(o))
    BY DEF Says, LastSubs
  <2> QED BY <2>1, <2>2, AddsFollowed
<1>3. \A i \in 1..Len(p) : i \in 1..Len(q) \/ p[i] = f
  BY DEF Adds
<1>4. LastAsks(p, x, L)
  BY <1>1, <1>3, AddsLater DEF Says, LastAsks, Adds
<1> QED BY <1>2, <1>4 DEF Says

LEMMA AddsHas ==
  ASSUME NEW q, NEW f, NEW p, Adds(q, f, p)
  PROVE  /\ Has(p, f)
         /\ \A g : Has(q, g) => Has(p, g)
         /\ Silent(p) => Silent(q) /\ ~Firm(f)
  BY DEF Adds, Has, Silent

LEMMA SubscribeCarries ==
  ASSUME NEW q, NEW p, NEW r \in Rooms, NEW S, NEW x, NEW L, NEW n,
         Adds(q, On(r), p), Carries(q, S, x, L, n)
  PROVE  Carries(p, S \cup {r}, x, L, n)
  BY SubscribeSays, AddsHas DEF Carries, Brings

LEMMA UnsubscribeCarries ==
  ASSUME NEW q, NEW p, NEW r \in Rooms, NEW S, NEW x, NEW L, NEW n,
         Adds(q, Off(r), p), Carries(q, S, x, L, n)
  PROVE  Carries(p, S \ {r}, None, {}, n)
<1>1. Firm(Off(r))
  BY FramesAre DEF Firm, Off
<1> QED BY <1>1, UnsubscribeSays, AddsHas DEF Carries, Brings

LEMMA FocusCarries ==
  ASSUME NEW q, NEW p, NEW y \in Rooms \cup {None}, NEW S, NEW x, NEW L, NEW n,
         Adds(q, Frm("focus", y), p), Carries(q, S, x, L, n)
  PROVE  Carries(p, S, y, {}, n)
<1>1. Firm(Frm("focus", y))
  BY FramesAre DEF Firm
<1> QED BY <1>1, FocusSays, AddsHas DEF Carries, Brings

LEMMA TypingCarries ==
  ASSUME NEW q, NEW p, NEW S, NEW x, NEW L, NEW r \in {x} \cup L, NEW n,
         Adds(q, Frm("typing", r), p), Carries(q, S, x, L, n)
  PROVE  Carries(p, S, x, L, n)
  BY TypingSays, AddsHas DEF Carries, Brings

(* Frames that end every subscription and claim nothing.                   *)
Ends(fs, S) ==
  /\ \A i \in 1..Len(fs) : Firm(fs[i]) /\ Asked(fs[i]) = None
  /\ \A r \in S : Has(fs, Off(r))

LEMMA EndsSay ==
  ASSUME NEW q \in Seq(Frame), NEW fs \in Seq(Frame), NEW S, NEW x \in S \cup {None},
         NEW L, Says(q, S, x, L), Ends(fs, S)
  PROVE  Says(q \o fs, {}, None, IF S = {} THEN L ELSE {})
<1> DEFINE p == q \o fs
<1>1. /\ p \in Seq(Frame) /\ Len(p) = Len(q) + Len(fs)
      /\ Len(q) \in Nat /\ Len(fs) \in Nat
      /\ \A i \in 1..Len(q) : p[i] = q[i]
      /\ \A i \in 1..Len(fs) : p[Len(q) + i] = fs[i]
  OBVIOUS
<1>2. \A i \in 1..Len(p) : i \in 1..Len(q) \/ (i - Len(q) \in 1..Len(fs) /\ p[i] = fs[i - Len(q)])
  BY <1>1
<1> HIDE DEF p
<1>3. CASE fs = <<>>
  <2>1. S = {} /\ x = None
    BY <1>3 DEF Ends, Has
  <2>2. p = q
    BY <1>3 DEF p
  <2> QED BY <2>1, <2>2 DEF Says, p
<1>4. CASE fs # <<>>
  <2>1. Len(fs) \in 1..Len(fs) /\ Len(fs) > 0
    BY <1>4
  <2>2. \A i \in 1..Len(q) : Later(p, i)
    BY <1>1, <2>1 DEF Later, Ends
  <2>3. LastAsks(p, None, IF S = {} THEN L ELSE {})
    BY <1>2, <2>2 DEF LastAsks, Strays, Ends
  <2>5. LastSubs(p, {})
    <3> SUFFICES ASSUME NEW r \in Rooms, NEW j \in 1..Len(p), p[j] = On(r)
                 PROVE  \E k \in 1..Len(p) : k > j /\ p[k] = Off(r)
      BY DEF LastSubs, Followed
    <3>1. ~Firm(On(r))
      BY FramesAre DEF Firm, On
    <3>2. j \in 1..Len(q) /\ q[j] = On(r)
      BY <1>1, <1>2, <3>1 DEF Ends
    <3>3. CASE r \in S
      <4>1. PICK k \in 1..Len(fs) : fs[k] = Off(r)
        BY <3>3 DEF Ends, Has
      <4>2. Len(q) + k \in 1..Len(p) /\ Len(q) + k > j /\ p[Len(q) + k] = Off(r)
        BY <1>1, <3>2, <4>1
      <4> QED BY <4>2
    <3>4. CASE r \notin S
      <4>1. PICK k \in 1..Len(q) : k > j /\ q[k] = Off(r)
        BY <3>2, <3>4 DEF Says, LastSubs, Followed
      <4> QED BY <1>1, <4>1
    <3> QED BY <3>3, <3>4
  <2> QED BY <2>3, <2>5 DEF Says, p
<1> QED BY <1>3, <1>4

----------------------------------------------------------------------------
(* What a new connection says.                                             *)

LEMMA AgainIs ==
  ASSUME NEW S \in SUBSET Rooms, IsFiniteSet(S)
  PROVE  LET T == {Frm("subscribe", r) : r \in S}
             q == SetToSeq(T)
         IN  /\ q \in Seq(Frame)
             /\ \A i \in 1..Len(q) : \E r \in S : q[i] = On(r)
             /\ \A r \in S : Has(q, On(r))
<1> DEFINE T == {Frm("subscribe", r) : r \in S}
           q == SetToSeq(T)
           g == [r \in S |-> Frm("subscribe", r)]
<1>1. T \subseteq Frame
  BY DEF Frame, Frm
<1>2. g \in Surjection(S, T)
  BY DEF Surjection
<1>3. IsFiniteSet(T)
  <2> HIDE DEF g, T
  <2> QED BY <1>2, FS_Surjection
<1> HIDE DEF T
<1>4. Cardinality(T) \in Nat /\ ExistsBijection(1..Cardinality(T), T)
  BY <1>3, FS_CardinalityType
<1>5. \E f \in [1..Cardinality(T) -> T] : IsInjective(f)
  BY <1>4 DEF ExistsBijection, Bijection, Injection
<1>6. q \in [1..Cardinality(T) -> T] /\ IsInjective(q)
  BY <1>5 DEF SetToSeq
<1> HIDE DEF q
<1>7. q \in Injection(1..Cardinality(T), T)
  BY <1>6 DEF Injection
<1>8. IsFiniteSet(1..Cardinality(T)) /\ Cardinality(1..Cardinality(T)) = Cardinality(T)
  BY <1>3, <1>4, <1>7, FS_Interval, FS_Injection
<1>9. q \in Surjection(1..Cardinality(T), T)
  BY <1>3, <1>7, <1>8, FS_Injection
<1>10. q \in Seq(Frame) /\ Len(q) = Cardinality(T)
  BY <1>1, <1>4, <1>6
<1>11. \A i \in 1..Len(q) : \E r \in S : q[i] = On(r)
  BY <1>6, <1>10 DEF T, On
<1>12. \A r \in S : Has(q, On(r))
  BY <1>9, <1>10 DEF T, On, Has, Surjection
<1> QED BY <1>10, <1>11, <1>12 DEF q, T

(* What the new connection is told stands for what was said before.        *)
LEMMA OpeningSays ==
  ASSUME NEW again \in Seq(Frame), NEW claim \in Seq(Frame), NEW q \in Seq(Frame),
         NEW S \in SUBSET Rooms, NEW x \in S \cup {None}, NEW L, Says(q, S, x, L),
         \A i \in 1..Len(again) : \E r \in S : again[i] = On(r),
         \A r \in S : Has(again, On(r)),
         claim = IF x = None THEN <<>> ELSE <<Frm("focus", x)>>
  PROVE  LET p == again \o claim \o q
         IN  /\ Says(p, S, x, L) /\ Brings(p, S, {})
             /\ Silent(p) => x = None
<1> DEFINE p == again \o claim \o q
           h == again \o claim
<1> DEFINE m == Len(h)
<1>1. /\ h \in Seq(Frame) /\ m \in Nat /\ m = Len(again) + Len(claim)
      /\ Len(again) \in Nat /\ Len(claim) \in Nat
      /\ \A i \in 1..Len(again) : h[i] = again[i]
      /\ \A i \in 1..Len(claim) : h[Len(again) + i] = claim[i]
  OBVIOUS
<1>2. \A i \in 1..m : \/ i \in 1..Len(again) /\ h[i] = again[i]
                      \/ i = m /\ x # None /\ h[i] = Frm("focus", x) /\ m = Len(again) + 1
  <2> SUFFICES ASSUME NEW i \in 1..m, i \notin 1..Len(again)
               PROVE  i = m /\ x # None /\ h[i] = Frm("focus", x) /\ m = Len(again) + 1
    BY <1>1
  <2>1. x # None /\ claim = <<Frm("focus", x)>> /\ Len(claim) = 1 /\ claim[1] = Frm("focus", x)
    BY <1>1
  <2> HIDE DEF h
  <2> QED BY <1>1, <2>1
<1>3. /\ x # None => m > 0 /\ h[m] = Frm("focus", x)
      /\ \A r \in S : \E k \in 1..m : h[k] = On(r)
  <2>1. x # None => m > 0 /\ h[m] = Frm("focus", x)
    BY <1>1
  <2>2. \A r \in S : \E k \in 1..m : h[k] = On(r)
    <3> HIDE DEF h
    <3> QED BY <1>1 DEF Has
  <2> QED BY <2>1, <2>2
<1> HIDE DEF h
<1>4. /\ p \in Seq(Frame) /\ Len(p) = m + Len(q) /\ Len(q) \in Nat
      /\ \A i \in 1..m : p[i] = h[i]
      /\ \A i \in 1..Len(q) : p[m + i] = q[i]
  BY <1>1 DEF p
<1>5. \A i \in 1..Len(p) : \/ i \in 1..m
                           \/ i > m /\ i - m \in 1..Len(q) /\ p[i] = q[i - m]
  BY <1>1, <1>4
<1> HIDE DEF p, m
<1>6. \A i \in 1..m : \/ \E r \in S : p[i] = On(r)
                      \/ i = m /\ x # None /\ p[i] = Frm("focus", x)
  BY <1>2, <1>4
<1>7. \A i \in 1..Len(q) : m + i \in 1..Len(p) /\ m + i > m
  BY <1>1, <1>4
<1>8. \A i \in 1..Len(q) : Later(q, i) => Later(p, m + i)
  <2> SUFFICES ASSUME NEW i \in 1..Len(q), Later(q, i)
               PROVE  Later(p, m + i)
    OBVIOUS
  <2>1. PICK k \in 1..Len(q) : k > i /\ Firm(q[k])
    BY DEF Later
  <2>2. m + k \in 1..Len(p) /\ p[m + k] = q[k]
    BY <1>4, <1>7
  <2>3. m + k > m + i
    BY <1>1, <2>1
  <2> QED BY <2>1, <2>2, <2>3 DEF Later
<1>9. \A r \in S : \E k \in 1..m : p[k] = On(r)
  BY <1>3, <1>4
<1>10. LastSubs(p, S)
  <2> SUFFICES ASSUME NEW r \in Rooms
               PROVE  IF r \in S THEN Followed(p, Off(r), On(r)) ELSE Followed(p, On(r), Off(r))
    BY DEF LastSubs
  <2>1. /\ Off(r) # On(r) /\ Frm("focus", x) # On(r) /\ Frm("focus", x) # Off(r)
        /\ \A o : On(o) # Off(r) /\ (On(o) = On(r) => o = r)
    BY DEF On, Off, Frm
  <2>2. IF r \in S THEN Followed(q, Off(r), On(r)) ELSE Followed(q, On(r), Off(r))
    BY DEF Says, LastSubs
  <2>3. CASE r \in S
    <3> SUFFICES ASSUME NEW j \in 1..Len(p), p[j] = Off(r)
                 PROVE  \E k \in 1..Len(p) : k > j /\ p[k] = On(r)
      BY <2>3 DEF Followed
    <3>1. j > m /\ j - m \in 1..Len(q) /\ q[j - m] = Off(r)
      BY <1>5, <1>6, <2>1
    <3>2. PICK k \in 1..Len(q) : k > j - m /\ q[k] = On(r)
      BY <2>2, <2>3, <3>1 DEF Followed
    <3>3. m + k \in 1..Len(p) /\ m + k > j /\ p[m + k] = On(r)
      BY <1>1, <1>4, <1>7, <3>2
    <3> QED BY <3>3
  <2>4. CASE r \notin S
    <3> SUFFICES ASSUME NEW j \in 1..Len(p), p[j] = On(r)
                 PROVE  \E k \in 1..Len(p) : k > j /\ p[k] = Off(r)
      BY <2>4 DEF Followed
    <3>1. j > m /\ j - m \in 1..Len(q) /\ q[j - m] = On(r)
      BY <1>5, <1>6, <2>1, <2>4
    <3>2. PICK k \in 1..Len(q) : k > j - m /\ q[k] = Off(r)
      BY <2>2, <2>4, <3>1 DEF Followed
    <3>3. m + k \in 1..Len(p) /\ m + k > j /\ p[m + k] = Off(r)
      BY <1>1, <1>4, <1>7, <3>2
    <3> QED BY <3>3
  <2> QED BY <2>3, <2>4
<1>11. /\ \A r : ~Strays(On(r), x, L)
       /\ Firm(Frm("focus", x)) /\ ~Strays(Frm("focus", x), x, L)
  BY DEF Firm, Strays, Asked, On, Frm
<1>12. LastAsks(p, x, L)
  <2> SUFFICES ASSUME NEW i \in 1..Len(p), Strays(p[i], x, L)
               PROVE  Later(p, i)
    BY DEF LastAsks
  <2>1. i > m /\ i - m \in 1..Len(q) /\ p[i] = q[i - m]
    BY <1>5, <1>6, <1>11
  <2>2. Later(q, i - m)
    BY <2>1 DEF Says, LastAsks
  <2>3. m + (i - m) = i
    BY <1>1, <2>1
  <2> QED BY <1>8, <2>1, <2>2, <2>3
<1>14. Brings(p, S, {})
  BY <1>1, <1>4, <1>9 DEF Brings, Has
<1>15. Silent(p) => x = None
  <2> SUFFICES ASSUME x # None PROVE ~Silent(p)
    OBVIOUS
  <2>1. m \in 1..Len(p) /\ p[m] = Frm("focus", x)
    BY <1>1, <1>3, <1>4
  <2> QED BY <1>11, <2>1 DEF Silent
<1> QED BY <1>10, <1>12, <1>14, <1>15 DEF Says, p, h

----------------------------------------------------------------------------
(* What the server makes of the first frame.                               *)

(* p is q without its first frame f.                                       *)
Drops(q, f, p) == /\ q \in Seq(Frame) /\ p \in Seq(Frame) /\ Len(q) = Len(p) + 1
                  /\ f \in Frame /\ q[1] = f
                  /\ \A i \in 1..Len(p) : i + 1 \in 1..Len(q) /\ p[i] = q[i + 1]

LEMMA DroppedOne ==
  ASSUME NEW q \in Seq(Frame), q # <<>>
  PROVE  Drops(q, Head(q), Tail(q))
<1>1. /\ Len(q) \in Nat /\ Len(q) > 0 /\ Tail(q) \in Seq(Frame) /\ Len(Tail(q)) = Len(q) - 1
      /\ \A i \in 1..Len(Tail(q)) : Tail(q)[i] = q[i + 1]
      /\ Head(q) = q[1] /\ Head(q) \in Frame
  OBVIOUS
<1> DEFINE p == Tail(q)
           f == Head(q)
<1> HIDE DEF p, f
<1>2. Len(p) \in Nat /\ Len(q) = Len(p) + 1
  BY <1>1 DEF p
<1>3. \A i \in 1..Len(p) : i + 1 \in 1..Len(q) /\ p[i] = q[i + 1]
  BY <1>1, <1>2 DEF p
<1>4. p \in Seq(Frame) /\ f \in Frame /\ q[1] = f
  BY <1>1 DEF p, f
<1>5. Drops(q, f, p)
  BY <1>2, <1>3, <1>4 DEF Drops
<1> QED BY <1>5 DEF p, f

LEMMA DropsBack ==
  ASSUME NEW q, NEW f, NEW p, Drops(q, f, p)
  PROVE  /\ Len(p) \in Nat /\ 1 \in 1..Len(q)
         /\ \A k \in 1..Len(q) : k = 1 \/ (k - 1 \in 1..Len(p) /\ p[k - 1] = q[k])
  BY DEF Drops

LEMMA DropsHas ==
  ASSUME NEW q, NEW f, NEW p, Drops(q, f, p), NEW g
  PROVE  Has(q, g) => f = g \/ Has(p, g)
<1> SUFFICES ASSUME NEW k \in 1..Len(q), q[k] = g, f # g
             PROVE  Has(p, g)
  BY DEF Has
<1>1. k # 1
  BY DEF Drops
<1>2. k - 1 \in 1..Len(p) /\ p[k - 1] = g
  BY <1>1, DropsBack
<1> QED BY <1>2 DEF Has

LEMMA DropsLater ==
  ASSUME NEW q, NEW f, NEW p, Drops(q, f, p), NEW i \in 1..Len(p)
  PROVE  i + 1 \in 1..Len(q) /\ (Later(q, i + 1) => Later(p, i))
<1> SUFFICES ASSUME NEW k \in 1..Len(q), k > i + 1, Firm(q[k])
             PROVE  Later(p, i)
  BY DEF Later, Drops
<1>1. k # 1 /\ k - 1 > i
  BY DropsBack
<1> QED BY <1>1, DropsBack DEF Later

LEMMA DropsFollowed ==
  ASSUME NEW q, NEW f, NEW p, Drops(q, f, p), NEW g, NEW h, Followed(q, g, h)
  PROVE  Followed(p, g, h) /\ (f = g => Has(p, h))
<1>1. Followed(p, g, h)
  <2> SUFFICES ASSUME NEW j \in 1..Len(p), p[j] = g
               PROVE  \E k \in 1..Len(p) : k > j /\ p[k] = h
    BY DEF Followed
  <2>1. PICK k \in 1..Len(q) : k > j + 1 /\ q[k] = h
    BY DEF Followed, Drops
  <2>2. k # 1 /\ k - 1 > j
    BY <2>1, DropsBack
  <2> QED BY <2>1, <2>2, DropsBack
<1>2. ASSUME f = g PROVE Has(p, h)
  <2>1. PICK k \in 1..Len(q) : k > 1 /\ q[k] = h
    BY <1>2, DropsBack DEF Followed, Drops
  <2> QED BY <2>1, DropsBack DEF Has
<1> QED BY <1>1, <1>2

LEMMA ServedIs ==
  ASSUME NEW n \in Connections, NEW f \in Frame, n.known
  PROVE  LET o == Handle(n, f)
         IN  /\ o \in Connections /\ o.known
             /\ f.type = "subscribe" =>
                  /\ o.subs = n.subs \cup {f.room}
                  /\ IF n.pending = f.room THEN o.focus = f.room /\ o.pending = None
                                           ELSE o.focus = n.focus /\ o.pending = n.pending
             /\ f.type = "unsubscribe" =>
                  o.subs = n.subs \ {f.room} /\ o.focus = None /\ o.pending = None
             /\ f.type = "focus" =>
                  /\ o.subs = n.subs
                  /\ IF f.room = None \/ f.room \in n.subs
                     THEN o.focus = f.room /\ o.pending = None
                     ELSE o.focus = None /\ o.pending = f.room
             /\ f.type = "typing" =>
                  /\ o.subs = n.subs
                  /\ IF f.room \in n.subs THEN o.focus = f.room /\ o.pending = None
                                          ELSE o.focus = n.focus /\ o.pending = n.pending
<1>0. f.type \in {"subscribe", "unsubscribe", "focus", "typing"} /\ f.room \in Rooms \cup {None}
      /\ (f.type # "focus" => f.room \in Rooms)
  BY FrameIs
<1>1. CASE f.type = "subscribe"
  BY <1>0, <1>1 DEF Handle, Attend, Connections
<1>2. CASE f.type = "unsubscribe"
  BY <1>0, <1>2 DEF Handle, Attend, Connections
<1>3. CASE f.type = "focus"
  BY <1>0, <1>3 DEF Handle, Attend, Connections
<1>4. CASE f.type = "typing"
  BY <1>0, <1>4 DEF Handle, Attend, Connections
<1> QED BY <1>0, <1>1, <1>2, <1>3, <1>4

LEMMA ServeSays ==
  ASSUME NEW q, NEW f, NEW p, Drops(q, f, p), NEW S, NEW x, NEW L, Says(q, S, x, L)
  PROVE  Says(p, S, x, L)
<1>1. LastSubs(p, S)
  BY DropsFollowed DEF Says, LastSubs
<1>2. LastAsks(p, x, L)
  BY DropsLater DEF Says, LastAsks, Drops
<1> QED BY <1>1, <1>2 DEF Says

LEMMA ServeCarries ==
  ASSUME NEW q, NEW f, NEW p, Drops(q, f, p), NEW S, NEW x,
         NEW L, NEW n \in Connections, n.known, Carries(q, S, x, L, n), PendingApart(n)
  PROVE  Carries(p, S, x, L, Handle(n, f)) /\ PendingApart(Handle(n, f))
<1> DEFINE o == Handle(n, f)
<1>1. f \in Frame /\ f = Frm(f.type, f.room) /\ f.room \in Rooms \cup {None}
  BY FrameIs DEF Drops
<1>2. /\ f.type = "subscribe" =>
            /\ o.subs = n.subs \cup {f.room}
            /\ IF n.pending = f.room THEN o.focus = f.room /\ o.pending = None
                                     ELSE o.focus = n.focus /\ o.pending = n.pending
      /\ f.type = "unsubscribe" =>
            o.subs = n.subs \ {f.room} /\ o.focus = None /\ o.pending = None
      /\ f.type = "focus" =>
            /\ o.subs = n.subs
            /\ IF f.room = None \/ f.room \in n.subs
               THEN o.focus = f.room /\ o.pending = None
               ELSE o.focus = None /\ o.pending = f.room
      /\ f.type = "typing" =>
            /\ o.subs = n.subs
            /\ IF f.room \in n.subs THEN o.focus = f.room /\ o.pending = None
                                    ELSE o.focus = n.focus /\ o.pending = n.pending
      /\ f.type \in {"subscribe", "unsubscribe", "focus", "typing"}
  BY <1>1, ServedIs, FrameIs
<1>3. Says(p, S, x, L)
  BY ServeSays DEF Carries
<1> HIDE DEF o
<1>4. Brings(p, S, o.subs)
  <2> SUFFICES ASSUME NEW r \in Rooms
               PROVE  /\ r \in S => r \in o.subs \/ Has(p, On(r))
                      /\ r \notin S => r \notin o.subs \/ Has(p, Off(r))
    BY DEF Brings
  <2>1. /\ r \in S => r \in n.subs \/ Has(q, On(r))
        /\ r \notin S => r \notin n.subs \/ Has(q, Off(r))
        /\ IF r \in S THEN Followed(q, Off(r), On(r)) ELSE Followed(q, On(r), Off(r))
    BY DEF Carries, Brings, Says, LastSubs
  <2>2. /\ f = On(r) => r \in o.subs
        /\ f = Off(r) => r \notin o.subs
        /\ f # On(r) /\ f # Off(r) => (r \in o.subs <=> r \in n.subs)
    BY <1>1, <1>2, FramesAre DEF On, Off
  <2>3. CASE r \in S
    BY <2>1, <2>2, <2>3, DropsHas, DropsFollowed
  <2>4. CASE r \notin S
    BY <2>1, <2>2, <2>4, DropsHas, DropsFollowed
  <2> QED BY <2>3, <2>4
<1>5. ASSUME Silent(p) PROVE Minds(o, x, L)
  <2>1. ASSUME ~Firm(f) PROVE Minds(n, x, L)
    <3>1. Silent(q)
      <4> SUFFICES ASSUME NEW k \in 1..Len(q) PROVE ~Firm(q[k])
        BY DEF Silent
      <4>1. CASE k = 1
        BY <2>1, <4>1 DEF Drops
      <4>2. CASE k # 1
        BY <1>5, <4>2, DropsBack DEF Silent
      <4> QED BY <4>1, <4>2
    <3> QED BY <3>1 DEF Carries
  <2>2. ~Strays(f, x, L)
    <3>1. ~Later(q, 1)
      BY <1>5, DropsBack DEF Later, Silent, Drops
    <3> QED BY <3>1, DropsBack DEF Carries, Says, LastAsks, Drops
  <2>3. CASE f.type = "subscribe"
    <3>1. Minds(n, x, L) /\ f.room # None
      BY <1>1, <2>1, <2>3, NoneIsNoRoom, FrameIs DEF Firm
    <3> QED BY <1>2, <2>3, <3>1 DEF Minds
  <2>4. CASE f.type = "typing"
    <3>1. Minds(n, x, L) /\ f.room \in {x} \cup L
      BY <2>1, <2>2, <2>4 DEF Firm, Strays, Asked
    <3> QED BY <1>2, <2>4, <3>1 DEF Minds
  <2>5. CASE f.type \in {"unsubscribe", "focus"}
    <3>1. Asked(f) = x
      BY <2>2, <2>5 DEF Strays
    <3> QED BY <1>2, <2>5, <3>1 DEF Minds, Asked
  <2> QED BY <1>2, <2>3, <2>4, <2>5
<1>6. PendingApart(o)
  BY <1>2, NoneIsNoRoom DEF PendingApart
<1> QED BY <1>3, <1>4, <1>5, <1>6 DEF Carries, o

----------------------------------------------------------------------------
(* The methods of the object.                                              *)

(* Frames wait for a connection, or for the next one.                      *)
Waits(s) == s.socket # "open" /\ (client = "mobile" \/ s.socket = "connecting")

LEMMA SendAllIs ==
  ASSUME NEW s \in Chats, NEW fs \in Seq(Frame)
  PROVE  LET t == SendAll(s, fs)
         IN  /\ t \in Chats /\ t.socket = s.socket
             /\ t.subscribed = s.subscribed /\ t.focused = s.focused
<1>1. s.wire \o fs \in Seq(Frame) /\ s.queue \o fs \in Seq(Frame)
  BY DEF Chats
<1>2. CASE s.socket = "open"
  BY <1>1, <1>2 DEF SendAll, Chats
<1>3. CASE Waits(s)
  BY <1>1, <1>3 DEF SendAll, Chats, Waits
<1>4. CASE s.socket # "open" /\ ~Waits(s)
  BY <1>1, <1>4 DEF SendAll, Waits
<1> QED BY <1>2, <1>3, <1>4

LEMMA SendAllSends ==
  ASSUME NEW s \in Chats, NEW fs \in Seq(Frame)
  PROVE  LET t == SendAll(s, fs)
         IN  /\ s.socket = "open" => t.wire = s.wire \o fs
             /\ Waits(s) => t.queue = s.queue \o fs
             /\ ~Waits(s) => t.queue = s.queue
<1>1. CASE s.socket = "open"
  BY <1>1 DEF SendAll, Chats, Waits
<1>2. CASE Waits(s)
  BY <1>2 DEF SendAll, Chats, Waits
<1>3. CASE s.socket # "open" /\ ~Waits(s)
  BY <1>3 DEF SendAll, Waits
<1> QED BY <1>1, <1>2, <1>3

(* The object s with other rooms, another room being read and f sent.      *)
Put(s, S, x) == [s EXCEPT !.subscribed = S, !.focused = x]
Said(s, S, x, f) == SendAll(Put(s, S, x), <<f>>)

LEMMA PutIs ==
  ASSUME NEW s \in Chats, NEW S \in RoomSets, NEW x \in RoomOrNone
  PROVE  /\ Put(s, S, x) \in Chats /\ Put(s, S, x).socket = s.socket
         /\ Put(s, S, x).subscribed = S /\ Put(s, S, x).focused = x
         /\ Put(s, S, x).wire = s.wire /\ Put(s, S, x).queue = s.queue
  BY DEF Put, Chats, RoomSets, RoomOrNone

LEMMA SaidIs ==
  ASSUME NEW s \in Chats, NEW S \in RoomSets, NEW x \in RoomOrNone, NEW f \in Frame
  PROVE  /\ Said(s, S, x, f) \in Chats /\ Said(s, S, x, f).socket = s.socket
         /\ Said(s, S, x, f).subscribed = S /\ Said(s, S, x, f).focused = x
<1>1. <<f>> \in Seq(Frame)
  OBVIOUS
<1>2. /\ Put(s, S, x) \in Chats /\ Put(s, S, x).socket = s.socket
      /\ Put(s, S, x).subscribed = S /\ Put(s, S, x).focused = x
  BY PutIs
<1> QED BY <1>1, <1>2, SendAllIs DEF Said

LEMMA SaidKeeps ==
  ASSUME ClientsKnown, client \in Clients,
         NEW s \in Chats, NEW S \in RoomSets, NEW x \in RoomOrNone,
         NEW f \in Frame, NEW n, NEW K, NEW L, Kept(s, n, K),
         Says(s.queue \o <<f>>, S, x, L),
         s.socket = "open" /\ n.known => Carries(s.wire \o <<f>>, S, x, L, n)
  PROVE  Kept(Said(s, S, x, f), n, L)
<1> DEFINE t == Said(s, S, x, f)
           u == Put(s, S, x)
<1>1. t.socket = s.socket /\ t.subscribed = S /\ t.focused = x
  BY SaidIs
<1>2. <<f>> \in Seq(Frame)
  OBVIOUS
<1>3. u \in Chats /\ u.wire = s.wire /\ u.queue = s.queue /\ u.socket = s.socket
  BY PutIs
<1>4. Waits(u) <=> Waits(s)
  BY <1>3 DEF Waits
<1>5. /\ s.socket = "open" => t.wire = s.wire \o <<f>>
      /\ Waits(s) => t.queue = s.queue \o <<f>>
      /\ ~Waits(s) => t.queue = s.queue
  BY <1>2, <1>3, <1>4, SendAllSends DEF Said
<1>6. client = "mobile" \/ client = "web"
  BY ClientsKnown
<1> HIDE DEF t, u
<1>7. Wired(t, n, L)
  BY <1>1, <1>5 DEF Kept, Wired
<1>8. NoneKept(t)
  BY <1>1, <1>5, <1>6 DEF Kept, NoneKept, Live, Waits
<1>9. Queued(t, L)
  <2>1. CASE Waits(s)
    BY <1>1, <1>5, <2>1 DEF Queued, Waits
  <2>2. CASE ~Waits(s)
    <3>1. s.queue = <<>>
      BY <1>6, <2>2 DEF Kept, Queued, NoneKept, Live, Waits
    <3> QED BY <1>1, <1>5, <2>2, <3>1, EmptySays DEF Queued
  <2> QED BY <2>1, <2>2
<1> QED BY <1>7, <1>8, <1>9 DEF Kept, t

LEMMA SubscribeKeeps ==
  ASSUME ClientsKnown, client \in Clients,
         NEW s \in Chats, IsFiniteSet(s.subscribed), NEW r \in Rooms, NEW n, NEW L
  PROVE  LET t == Subscribe(s, r)
         IN  /\ t \in Chats /\ IsFiniteSet(t.subscribed) /\ t.socket = s.socket
             /\ t.subscribed = s.subscribed \cup {r} /\ t.focused = s.focused
             /\ Kept(s, n, L) => Kept(t, n, L)
<1> DEFINE S == s.subscribed \cup {r}
<1>1. S \in RoomSets /\ s.focused \in RoomOrNone /\ On(r) \in Frame
      /\ s.queue \in Seq(Frame) /\ s.wire \in Seq(Frame)
  BY FramesAre DEF Chats, On, RoomSets, RoomOrNone
<1>2. Subscribe(s, r) = Said(s, S, s.focused, On(r))
  BY DEF Subscribe, Said, Put, Send, Chats, On
<1>3. IsFiniteSet(S)
  BY FS_AddElement
<1>4. ASSUME Kept(s, n, L) PROVE Kept(Subscribe(s, r), n, L)
  <2>1. Says(s.queue \o <<On(r)>>, S, s.focused, L)
    BY <1>1, <1>4, AddedOne, SubscribeSays DEF Kept, Queued
  <2>2. s.socket = "open" /\ n.known => Carries(s.wire \o <<On(r)>>, S, s.focused, L, n)
    BY <1>1, <1>4, AddedOne, SubscribeCarries DEF Kept, Wired
  <2> HIDE DEF S
  <2> QED BY <1>1, <1>2, <1>4, <2>1, <2>2, SaidKeeps
<1> HIDE DEF S
<1>5. /\ Said(s, S, s.focused, On(r)) \in Chats /\ Said(s, S, s.focused, On(r)).socket = s.socket
      /\ Said(s, S, s.focused, On(r)).subscribed = S /\ Said(s, S, s.focused, On(r)).focused = s.focused
  BY <1>1, SaidIs
<1> QED BY <1>2, <1>3, <1>4, <1>5 DEF S

LEMMA UnsubscribeKeeps ==
  ASSUME ClientsKnown, client \in Clients,
         NEW s \in Chats, IsFiniteSet(s.subscribed), NEW r \in Rooms, NEW n, NEW L
  PROVE  LET t == Unsubscribe(s, r)
         IN  /\ t \in Chats /\ IsFiniteSet(t.subscribed) /\ t.socket = s.socket
             /\ t.subscribed = s.subscribed \ {r}
             /\ t.focused = IF s.focused = r THEN None ELSE s.focused
             /\ Kept(s, n, L) /\ s.focused \in {None, r} => Kept(t, n, {})
<1> DEFINE S == s.subscribed \ {r}
           x == IF s.focused = r THEN None ELSE s.focused
<1>1. S \in RoomSets /\ x \in RoomOrNone /\ Off(r) \in Frame
      /\ s.queue \in Seq(Frame) /\ s.wire \in Seq(Frame)
  BY FramesAre DEF Chats, Off, RoomSets, RoomOrNone
<1>2. Unsubscribe(s, r) = Said(s, S, x, Off(r))
  BY DEF Unsubscribe, Said, Put, Send, Chats, Off
<1>3. IsFiniteSet(S)
  BY FS_RemoveElement
<1>4. ASSUME Kept(s, n, L), s.focused \in {None, r} PROVE Kept(Unsubscribe(s, r), n, {})
  <2>0. x = None
    BY <1>4
  <2>1. Adds(s.queue, Off(r), s.queue \o <<Off(r)>>) /\ Adds(s.wire, Off(r), s.wire \o <<Off(r)>>)
    BY <1>1, AddedOne
  <2>2. Says(s.queue, s.subscribed, s.focused, L)
    BY <1>4 DEF Kept, Queued
  <2>3. Says(s.queue \o <<Off(r)>>, S, None, {})
    BY <1>4, <2>1, <2>2, UnsubscribeSays
  <2>4. s.socket = "open" /\ n.known => Carries(s.wire, s.subscribed, s.focused, L, n)
    BY <1>4 DEF Kept, Wired
  <2>5. s.socket = "open" /\ n.known => Carries(s.wire \o <<Off(r)>>, S, None, {}, n)
    BY <1>4, <2>1, <2>4, UnsubscribeCarries
  <2> HIDE DEF S, x
  <2> QED BY <1>1, <1>2, <1>4, <2>0, <2>3, <2>5, SaidKeeps
<1> HIDE DEF S, x
<1>5. /\ Said(s, S, x, Off(r)) \in Chats /\ Said(s, S, x, Off(r)).socket = s.socket
      /\ Said(s, S, x, Off(r)).subscribed = S /\ Said(s, S, x, Off(r)).focused = x
  BY <1>1, SaidIs
<1> QED BY <1>2, <1>3, <1>4, <1>5 DEF S, x

LEMMA FocusKeeps ==
  ASSUME ClientsKnown, client \in Clients,
         NEW s \in Chats, IsFiniteSet(s.subscribed), NEW y \in Rooms \cup {None}, NEW n, NEW L
  PROVE  LET t == Focus(s, y)
         IN  /\ t \in Chats /\ IsFiniteSet(t.subscribed) /\ t.socket = s.socket
             /\ t.subscribed = s.subscribed /\ t.focused = y
             /\ Kept(s, n, L) => Kept(t, n, IF s.focused = y THEN L ELSE {})
<1> DEFINE f == Frm("focus", y)
           S == s.subscribed
<1>0. CASE s.focused = y
  BY <1>0 DEF Focus
<1>a. CASE s.focused # y
  <2>1. S \in RoomSets /\ y \in RoomOrNone /\ f \in Frame
        /\ s.queue \in Seq(Frame) /\ s.wire \in Seq(Frame)
    BY FramesAre DEF Chats, RoomSets, RoomOrNone
  <2>2. Focus(s, y) = Said(s, S, y, f)
    BY <1>a DEF Focus, Said, Put, Send, Chats
  <2>4. ASSUME Kept(s, n, L) PROVE Kept(Focus(s, y), n, {})
    <3>1. Says(s.queue \o <<f>>, S, y, {})
      BY <2>1, <2>4, AddedOne, FocusSays DEF Kept, Queued
    <3>2. s.socket = "open" /\ n.known => Carries(s.wire \o <<f>>, S, y, {}, n)
      BY <2>1, <2>4, AddedOne, FocusCarries DEF Kept, Wired
    <3> HIDE DEF S, f
    <3> QED BY <2>1, <2>2, <2>4, <3>1, <3>2, SaidKeeps
  <2> HIDE DEF S, f
  <2>5. /\ Said(s, S, y, f) \in Chats /\ Said(s, S, y, f).socket = s.socket
        /\ Said(s, S, y, f).subscribed = S /\ Said(s, S, y, f).focused = y
    BY <2>1, SaidIs
  <2> QED BY <1>a, <2>2, <2>4, <2>5 DEF S
<1> QED BY <1>0, <1>a

LEMMA TypingKeeps ==
  ASSUME ClientsKnown, client \in Clients,
         NEW s \in Chats, IsFiniteSet(s.subscribed), NEW r \in Rooms, NEW n, NEW L
  PROVE  LET t == Send(s, Frm("typing", r))
         IN  /\ t \in Chats /\ IsFiniteSet(t.subscribed) /\ t.socket = s.socket
             /\ t.subscribed = s.subscribed /\ t.focused = s.focused
             /\ Kept(s, n, L) /\ r \in {s.focused} \cup L => Kept(t, n, L)
<1> DEFINE f == Frm("typing", r)
           S == s.subscribed
<1>1. S \in RoomSets /\ f \in Frame /\ s.focused \in RoomOrNone
      /\ s.queue \in Seq(Frame) /\ s.wire \in Seq(Frame)
  BY FramesAre DEF Chats, RoomSets, RoomOrNone
<1>2. Send(s, f) = Said(s, S, s.focused, f)
  BY DEF Said, Put, Send, Chats
<1>4. ASSUME Kept(s, n, L), r \in {s.focused} \cup L PROVE Kept(Send(s, f), n, L)
  <2>1. Says(s.queue \o <<f>>, S, s.focused, L)
    BY <1>1, <1>4, AddedOne, TypingSays DEF Kept, Queued
  <2>2. s.socket = "open" /\ n.known => Carries(s.wire \o <<f>>, S, s.focused, L, n)
    BY <1>1, <1>4, AddedOne, TypingCarries DEF Kept, Wired
  <2> HIDE DEF S, f
  <2> QED BY <1>1, <1>2, <1>4, <2>1, <2>2, SaidKeeps
<1> HIDE DEF S, f
<1>5. /\ Said(s, S, s.focused, f) \in Chats /\ Said(s, S, s.focused, f).socket = s.socket
      /\ Said(s, S, s.focused, f).subscribed = S /\ Said(s, S, s.focused, f).focused = s.focused
  BY <1>1, SaidIs
<1> QED BY <1>2, <1>4, <1>5 DEF S, f

LEMMA DisconnectIs ==
  ASSUME NEW s \in Chats
  PROVE  LET t == Disconnect(s)
         IN  /\ t \in Chats /\ t.socket = "null" /\ t.queue = s.queue
             /\ t.subscribed = s.subscribed /\ t.focused = s.focused
<1>1. <<>> \in Seq(Frame)
  OBVIOUS
<1>2. s.timer \in BOOLEAN /\ s.subscribed \in SUBSET Rooms /\ s.queue \in Seq(Frame)
  BY DEF Chats
<1> QED BY <1>1, <1>2 DEF Disconnect, Chats

LEMMA ConnectIs ==
  ASSUME NEW s \in Chats
  PROVE  LET t == Connect(s)
         IN  /\ t \in Chats /\ t.queue = s.queue /\ t.wire = s.wire
             /\ t.subscribed = s.subscribed /\ t.focused = s.focused
             /\ Live(s) => t.socket = s.socket
             /\ ~Live(s) => t.socket = "connecting"
  BY DEF Connect, Chats

LEMMA SetTokenKeeps ==
  ASSUME NEW s \in Chats, NEW n, NEW L
  PROVE  LET t == SetToken(s, TRUE)
         IN  /\ t \in Chats /\ t.socket = "connecting"
             /\ t.subscribed = s.subscribed /\ t.focused = s.focused
             /\ Queued(s, L) => Kept(t, n, L)
<1> DEFINE u == IF s.socket # "null" THEN Disconnect(s) ELSE s
           t == Connect(u)
<1>1. /\ u \in Chats /\ u.socket = "null" /\ u.queue = s.queue
      /\ u.subscribed = s.subscribed /\ u.focused = s.focused
  <2>1. CASE s.socket = "null"
    BY <2>1
  <2>2. CASE s.socket # "null"
    <3>1. u = Disconnect(s)
      BY <2>2
    <3> HIDE DEF u
    <3> QED BY <3>1, DisconnectIs
  <2> QED BY <2>1, <2>2
<1> HIDE DEF u
<1>2. ~Live(u)
  BY <1>1 DEF Live
<1>3. /\ t \in Chats /\ t.socket = "connecting" /\ t.queue = s.queue
      /\ t.subscribed = s.subscribed /\ t.focused = s.focused
  BY <1>1, <1>2, ConnectIs
<1>4. SetToken(s, TRUE) = t
  BY DEF SetToken, u
<1> HIDE DEF t
<1>5. Queued(s, L) => Kept(t, n, L)
  BY <1>3 DEF Kept, Queued, NoneKept, Wired, Live
<1> QED BY <1>3, <1>4, <1>5

LEMMA RetryKeeps ==
  ASSUME NEW s \in Chats, NEW n, NEW L
  PROVE  LET t == Connect([s EXCEPT !.timer = FALSE])
         IN  /\ t \in Chats /\ t.subscribed = s.subscribed /\ t.focused = s.focused
             /\ Kept(s, n, L) => Kept(t, n, L)
<1> DEFINE u == [s EXCEPT !.timer = FALSE]
           t == Connect(u)
<1>1. /\ u \in Chats /\ u.socket = s.socket /\ u.queue = s.queue /\ u.wire = s.wire
      /\ u.subscribed = s.subscribed /\ u.focused = s.focused
  BY DEF Chats
<1> HIDE DEF u
<1>2. /\ t \in Chats /\ t.queue = s.queue /\ t.wire = s.wire
      /\ t.subscribed = s.subscribed /\ t.focused = s.focused
      /\ Live(u) => t.socket = u.socket
      /\ ~Live(u) => t.socket = "connecting"
  BY <1>1, ConnectIs
<1> HIDE DEF t
<1>3. Kept(s, n, L) => Kept(t, n, L)
  BY <1>1, <1>2 DEF Kept, Queued, NoneKept, Wired, Live
<1> QED BY <1>2, <1>3 DEF t, u

LEMMA HandleCloseIs ==
  ASSUME NEW s \in Chats
  PROVE  LET t == HandleClose(s)
         IN  /\ t \in Chats /\ t.socket = "closed" /\ t.queue = s.queue
             /\ t.subscribed = s.subscribed /\ t.focused = s.focused
<1>1. <<>> \in Seq(Frame)
  OBVIOUS
<1>2. s.timer \in BOOLEAN /\ s.subscribed \in SUBSET Rooms /\ s.queue \in Seq(Frame)
  BY DEF Chats
<1> QED BY <1>1, <1>2 DEF HandleClose, Chats

LEMMA HandleOpenKeeps ==
  ASSUME NEW s \in Chats, IsFiniteSet(s.subscribed), NEW known \in BOOLEAN, NEW L
  PROVE  LET t == HandleOpen(s)
         IN  /\ t \in Chats /\ t.subscribed = s.subscribed /\ t.focused = s.focused
             /\ Queued(s, L) /\ s.focused \in s.subscribed \cup {None} =>
                  Kept(t, [NoSession EXCEPT !.known = known], L)
<1> DEFINE T == {Frm("subscribe", r) : r \in s.subscribed}
           again == SetToSeq(T)
           claim == IF s.focused = None THEN <<>> ELSE <<Frm("focus", s.focused)>>
           w == again \o claim \o s.queue
           t == HandleOpen(s)
           n == [NoSession EXCEPT !.known = known]
<1>1. s.subscribed \in SUBSET Rooms /\ s.queue \in Seq(Frame) /\ s.focused \in Rooms \cup {None}
  BY DEF Chats
<1>2. /\ again \in Seq(Frame)
      /\ \A i \in 1..Len(again) : \E r \in s.subscribed : again[i] = On(r)
      /\ \A r \in s.subscribed : Has(again, On(r))
  BY <1>1, AgainIs
<1>3. claim \in Seq(Frame)
  BY <1>1, FramesAre
<1>4. t = [s EXCEPT !.socket = "open", !.wire = w, !.queue = <<>>]
  BY DEF HandleOpen
<1>6. claim = IF s.focused = None THEN <<>> ELSE <<Frm("focus", s.focused)>>
  OBVIOUS
<1> HIDE DEF again, T, claim
<1>5. w \in Seq(Frame)
  BY <1>1, <1>2, <1>3
<1>7. ASSUME Queued(s, L), s.focused \in s.subscribed \cup {None}
      PROVE  /\ Says(w, s.subscribed, s.focused, L) /\ Brings(w, s.subscribed, {})
             /\ Silent(w) => s.focused = None
  BY <1>1, <1>2, <1>3, <1>6, <1>7, OpeningSays DEF Queued
<1> HIDE DEF w, t
<1>8. /\ t \in Chats /\ t.subscribed = s.subscribed /\ t.focused = s.focused
      /\ t.socket = "open" /\ t.wire = w /\ t.queue = <<>>
  <2>1. <<>> \in Seq(Frame)
    OBVIOUS
  <2> QED BY <1>4, <1>5, <2>1 DEF Chats
<1>9. n.subs = {} /\ n.focus = None /\ n.pending = None /\ n.known = known
  BY DEF NoSession
<1> HIDE DEF n
<1>10. ASSUME Queued(s, L), s.focused \in s.subscribed \cup {None} PROVE Kept(t, n, L)
  <2>1. Carries(w, s.subscribed, s.focused, L, n) /\ PendingApart(n)
    BY <1>7, <1>9, <1>10 DEF Carries, Minds, PendingApart
  <2>2. Queued(t, L)
    BY <1>8, EmptySays DEF Queued
  <2> QED BY <1>8, <2>1, <2>2 DEF Kept, NoneKept, Wired
<1> QED BY <1>8, <1>10 DEF t, n

LEMMA BlurKeeps ==
  ASSUME ClientsKnown, client \in Clients,
         NEW s \in Chats, IsFiniteSet(s.subscribed), NEW r, NEW n, NEW L
  PROVE  LET t == Blur(s, r)
         IN  /\ t \in Chats /\ IsFiniteSet(t.subscribed) /\ t.socket = s.socket
             /\ t.subscribed = s.subscribed
             /\ t.focused = IF s.focused = r THEN None ELSE s.focused
             /\ Kept(s, n, L) => Kept(t, n, IF t.focused = s.focused THEN L ELSE {})
<1>1. CASE s.focused = r
  <2>1. Blur(s, r) = Focus(s, None)
    BY <1>1 DEF Blur
  <2>2. None \in Rooms \cup {None}
    OBVIOUS
  <2> DEFINE t == Focus(s, None)
  <2>3. /\ t \in Chats /\ IsFiniteSet(t.subscribed) /\ t.socket = s.socket
        /\ t.subscribed = s.subscribed /\ t.focused = None
        /\ Kept(s, n, L) => Kept(t, n, IF s.focused = None THEN L ELSE {})
    BY <2>2, FocusKeeps
  <2> QED BY <1>1, <2>1, <2>3
<1>2. CASE s.focused # r
  BY <1>2 DEF Blur
<1> QED BY <1>1, <1>2

LEMMA ServeKeeps ==
  ASSUME NEW s \in Chats, s.wire # <<>>, NEW n \in Connections, NEW L
  PROVE  LET t == [s EXCEPT !.wire = Tail(s.wire)]
             o == Handle(n, Head(s.wire))
         IN  /\ t \in Chats /\ t.subscribed = s.subscribed /\ t.focused = s.focused
             /\ o \in Connections
             /\ Kept(s, n, L) => Kept(t, o, L)
<1> DEFINE t == [s EXCEPT !.wire = Tail(s.wire)]
           f == Head(s.wire)
           o == Handle(n, f)
<1>1. s.wire \in Seq(Frame)
  BY DEF Chats
<1>2. Drops(s.wire, f, Tail(s.wire))
  BY <1>1, DroppedOne
<1>3. Tail(s.wire) \in Seq(Frame) /\ f \in Frame
  BY <1>2 DEF Drops
<1>4. /\ t \in Chats /\ t.subscribed = s.subscribed /\ t.focused = s.focused
      /\ t.socket = s.socket /\ t.queue = s.queue /\ t.wire = Tail(s.wire)
  BY <1>3 DEF Chats
<1> HIDE DEF t, f
<1>5. o \in Connections /\ (o.known <=> n.known)
  <2>1. CASE n.known
    BY <1>3, <2>1, ServedIs
  <2>2. CASE ~n.known
    BY <1>3, <2>2, FrameIs DEF Handle, Attend, Connections
  <2> QED BY <2>1, <2>2
<1>6. ASSUME Kept(s, n, L) PROVE Kept(t, o, L)
  <2>1. ASSUME s.socket = "open", n.known
        PROVE  Carries(Tail(s.wire), s.subscribed, s.focused, L, o) /\ PendingApart(o)
    <3>1. Carries(s.wire, s.subscribed, s.focused, L, n) /\ PendingApart(n)
      BY <1>6, <2>1 DEF Kept, Wired
    <3> QED BY <1>2, <2>1, <3>1, ServeCarries
  <2> HIDE DEF o
  <2>2. Wired(t, o, L)
    BY <1>4, <1>5, <2>1 DEF Wired
  <2> QED BY <1>4, <1>6, <2>2 DEF Kept, Queued, NoneKept, Live
<1> QED BY <1>4, <1>5, <1>6 DEF t, f

LEMMA LeastIs ==
  ASSUME NEW S, S \subseteq Nat, S # {}
  PROVE  Min(S) \in S
<1> DEFINE R == OpToRel(<, Nat)
<1>0. \A x, y \in Nat : y < x => <<y, x>> \in R
  <2> SUFFICES ASSUME NEW x \in Nat, NEW y \in Nat, y < x PROVE <<y, x>> \in R
    OBVIOUS
  <2> DEFINE p == <<y, x>>
  <2>1. p \in Nat \X Nat /\ p[1] < p[2]
    OBVIOUS
  <2> HIDE DEF p
  <2> QED BY <2>1, Zenon DEF OpToRel, p
<1> HIDE DEF R
<1>1. \E x \in S : \A y \in S : ~ (<<y, x>> \in R)
  BY NatLessThanWellFounded, WFMin DEF R
<1>2. \E x \in S : \A y \in S : x <= y
  <2>1. PICK x \in S : \A y \in S : ~ (<<y, x>> \in R)
    BY <1>1
  <2>2. \A y \in S : ~(y < x) /\ x \in Nat /\ y \in Nat
    BY <1>0, <2>1
  <2> QED BY <2>2
<1> QED BY <1>2 DEF Min

LEMMA InsertedIs ==
  ASSUME NEW q \in Seq(Frame), NEW i \in 1..Len(q), NEW f \in Frame
  PROVE  LET p == InsertAt(q, i, f)
         IN  /\ p \in Seq(Frame)
             /\ \A j \in 1..Len(p) : p[j] = f \/ \E k \in 1..Len(q) : p[j] = q[k]
             /\ \A g : Has(q, g) => Has(p, g)
<1> DEFINE a == SubSeq(q, 1, i - 1)
           b == SubSeq(q, i, Len(q))
           m == Len(q)
           h == a \o <<f>>
           p == h \o b
<1>1. i \in Nat /\ m \in Nat /\ 1 <= i /\ i <= m
  OBVIOUS
<1>2. /\ a \in Seq(Frame) /\ Len(a) = i - 1 /\ \A j \in 1..i-1 : a[j] = q[j]
      /\ b \in Seq(Frame) /\ Len(b) = m - i + 1 /\ \A j \in 1..m-i+1 : b[j] = q[i + j - 1]
  <2>1. /\ a \in Seq(Frame) /\ Len(a) = i - 1
    BY <1>1
  <2>2. \A j \in 1..i-1 : a[j] = q[j]
    BY <1>1
  <2>3. /\ b \in Seq(Frame) /\ Len(b) = m - i + 1
    BY <1>1
  <2>4. \A j \in 1..m-i+1 : b[j] = q[i + j - 1]
    BY <1>1
  <2> QED BY <2>1, <2>2, <2>3, <2>4
<1> HIDE DEF a, b, m
<1>3. /\ h \in Seq(Frame) /\ Len(h) = i
      /\ \A j \in 1..i-1 : h[j] = q[j]
      /\ h[i] = f
  <2>1. h \in Seq(Frame) /\ Len(h) = Len(a) + 1
    BY <1>2
  <2>2. Len(h) = i
    BY <1>1, <1>2, <2>1
  <2>3. \A j \in 1..i-1 : h[j] = a[j]
    BY <1>1, <1>2
  <2>4. a \in Seq(Frame) /\ Len(a) + 1 = i
    BY <1>1, <1>2
  <2>5. h[Len(a) + 1] = f
    BY <2>4
  <2> HIDE DEF h
  <2> QED BY <1>2, <2>1, <2>2, <2>3, <2>4, <2>5
<1> HIDE DEF h
<1>4. /\ p \in Seq(Frame) /\ Len(p) = m + 1
      /\ \A j \in 1..i-1 : p[j] = q[j]
      /\ p[i] = f
      /\ \A j \in 1..m-i+1 : p[i + j] = q[i + j - 1]
  <2>a. h \in Seq(Frame) /\ b \in Seq(Frame) /\ Len(h) = i /\ Len(b) = m - i + 1
    BY <1>2, <1>3
  <2>0. p \in Seq(Frame) /\ Len(p) = Len(h) + Len(b)
    BY <2>a
  <2>1. p \in Seq(Frame) /\ Len(p) = m + 1
    BY <1>1, <2>0, <2>a
  <2>2. \A j \in 1..i : p[j] = h[j]
    BY <1>1, <1>2, <1>3
  <2>3. \A j \in 1..m-i+1 : p[i + j] = b[j]
    BY <1>1, <1>2, <1>3
  <2>4. \A j \in 1..i-1 : p[j] = q[j]
    BY <1>1, <1>3, <2>2
  <2>5. p[i] = f
    BY <1>1, <1>3, <2>2
  <2>6. \A j \in 1..m-i+1 : p[i + j] = q[i + j - 1]
    BY <1>2, <2>3
  <2> QED BY <2>1, <2>4, <2>5, <2>6
<1>5. p = InsertAt(q, i, f)
  BY DEF InsertAt, h, a, b
<1> HIDE DEF p
<1>6. \A j \in 1..Len(p) : p[j] = f \/ \E k \in 1..m : p[j] = q[k]
  <2> SUFFICES ASSUME NEW j \in 1..Len(p), p[j] # f
               PROVE  \E k \in 1..m : p[j] = q[k]
    OBVIOUS
  <2>1. CASE j < i
    BY <1>1, <1>4, <2>1
  <2>2. CASE j > i
    <3>1. j - i \in 1..m-i+1 /\ i + (j - i) = j /\ j - 1 \in 1..m
      BY <1>1, <1>4, <2>2
    <3>2. p[i + (j - i)] = q[i + (j - i) - 1]
      BY <1>4, <3>1
    <3> QED BY <3>1, <3>2
  <2> QED BY <1>1, <1>4, <2>1, <2>2
<1>7. \A g : Has(q, g) => Has(p, g)
  <2> SUFFICES ASSUME NEW k \in 1..m PROVE \E j \in 1..Len(p) : p[j] = q[k]
    BY DEF Has, m
  <2>1. CASE k < i
    BY <1>1, <1>4, <2>1
  <2>2. CASE k >= i
    <3>1. k - i + 1 \in 1..m-i+1 /\ i + (k - i + 1) = k + 1 /\ k + 1 \in 1..Len(p)
      BY <1>1, <1>4, <2>2
    <3>2. p[i + (k - i + 1)] = q[i + (k - i + 1) - 1]
      BY <1>4, <3>1
    <3>3. i + (k - i + 1) - 1 = k
      BY <1>1, <3>1
    <3> QED BY <3>1, <3>2, <3>3
  <2> QED BY <1>1, <2>1, <2>2
<1> QED BY <1>4, <1>5, <1>6, <1>7 DEF m

LEMMA MountKeeps ==
  ASSUME ClientsKnown, client \in Clients,
         NEW s \in Chats, IsFiniteSet(s.subscribed), NEW r \in Rooms, NEW n, NEW L
  PROVE  LET t == Mount(s, r)
         IN  /\ t \in Chats /\ IsFiniteSet(t.subscribed)
             /\ t.subscribed = s.subscribed \cup {r} /\ t.focused = Claim(r)
             /\ Kept(s, n, L) => Kept(t, n, IF t.focused = s.focused THEN L ELSE {})
<1>0. Claim(r) \in Rooms \cup {None}
  BY DEF Claim
<1>1. CASE client = "web"
  <2> DEFINE u == Subscribe(s, r)
             t == Focus(u, Claim(r))
  <2>1. /\ u \in Chats /\ IsFiniteSet(u.subscribed)
        /\ u.subscribed = s.subscribed \cup {r} /\ u.focused = s.focused
        /\ Kept(s, n, L) => Kept(u, n, L)
    BY SubscribeKeeps
  <2> HIDE DEF u
  <2>2. /\ t \in Chats /\ IsFiniteSet(t.subscribed)
        /\ t.subscribed = u.subscribed /\ t.focused = Claim(r)
        /\ Kept(u, n, L) => Kept(t, n, IF u.focused = Claim(r) THEN L ELSE {})
    BY <1>0, <2>1, FocusKeeps
  <2>3. Mount(s, r) = t
    BY <1>1 DEF Mount, u
  <2> HIDE DEF t
  <2> QED BY <2>1, <2>2, <2>3
<1>2. CASE client # "web"
  <2> DEFINE K == IF s.focused = Claim(r) THEN L ELSE {}
             u == Focus(s, Claim(r))
             t == Subscribe(u, r)
  <2>1. /\ u \in Chats /\ IsFiniteSet(u.subscribed)
        /\ u.subscribed = s.subscribed /\ u.focused = Claim(r)
        /\ Kept(s, n, L) => Kept(u, n, K)
    BY <1>0, FocusKeeps
  <2> HIDE DEF u
  <2>2. /\ t \in Chats /\ IsFiniteSet(t.subscribed)
        /\ t.subscribed = u.subscribed \cup {r} /\ t.focused = u.focused
        /\ Kept(u, n, K) => Kept(t, n, K)
    BY <2>1, SubscribeKeeps
  <2>3. Mount(s, r) = t
    BY <1>2 DEF Mount, u
  <2> HIDE DEF t
  <2> QED BY <2>1, <2>2, <2>3
<1> QED BY <1>1, <1>2

LEMMA UnmountKeeps ==
  ASSUME ClientsKnown, client \in Clients,
         NEW s \in Chats, IsFiniteSet(s.subscribed), NEW r \in Rooms, NEW n, NEW L
  PROVE  LET t == Unmount(s, r)
         IN  /\ t \in Chats /\ IsFiniteSet(t.subscribed)
             /\ t.subscribed = s.subscribed \ {r}
             /\ t.focused = IF s.focused = r THEN None ELSE s.focused
             /\ Kept(s, n, L) /\ s.focused \in {None, r} => Kept(t, n, {})
<1>0. r # None
  BY NoneIsNoRoom
<1>1. CASE client = "web"
  <2> DEFINE u == Unsubscribe(s, r)
             t == Blur(u, r)
  <2>1. /\ u \in Chats /\ IsFiniteSet(u.subscribed)
        /\ u.subscribed = s.subscribed \ {r}
        /\ u.focused = IF s.focused = r THEN None ELSE s.focused
        /\ Kept(s, n, L) /\ s.focused \in {None, r} => Kept(u, n, {})
    BY UnsubscribeKeeps
  <2> HIDE DEF u
  <2>2. t = u
    BY <1>0, <2>1 DEF Blur
  <2>3. Unmount(s, r) = t
    BY <1>1 DEF Unmount, u
  <2> HIDE DEF t
  <2> QED BY <2>1, <2>2, <2>3
<1>2. CASE client # "web"
  <2> DEFINE u == Blur(s, r)
             K == IF u.focused = s.focused THEN L ELSE {}
             t == Unsubscribe(u, r)
  <2>1. /\ u \in Chats /\ IsFiniteSet(u.subscribed)
        /\ u.subscribed = s.subscribed
        /\ u.focused = IF s.focused = r THEN None ELSE s.focused
        /\ Kept(s, n, L) => Kept(u, n, K)
    BY BlurKeeps
  <2> HIDE DEF u, K
  <2>2. /\ t \in Chats /\ IsFiniteSet(t.subscribed)
        /\ t.subscribed = u.subscribed \ {r}
        /\ t.focused = IF u.focused = r THEN None ELSE u.focused
        /\ Kept(u, n, K) /\ u.focused \in {None, r} => Kept(t, n, {})
    BY <2>1, UnsubscribeKeeps
  <2>3. Unmount(s, r) = t
    BY <1>2 DEF Unmount, u
  <2> HIDE DEF t
  <2> QED BY <1>0, <2>1, <2>2, <2>3
<1> QED BY <1>1, <1>2

LEMMA UnmountAllIs ==
  ASSUME ClientsKnown, client \in Clients, screens \in Seq(Rooms),
         NEW s \in Chats, IsFiniteSet(s.subscribed)
  PROVE  LET t == UnmountAll(s)
         IN  /\ t \in Chats /\ IsFiniteSet(t.subscribed) /\ t.socket = s.socket
             /\ t.subscribed = s.subscribed \ Range(screens)
             /\ t.focused = IF s.focused \in Range(screens) THEN None ELSE s.focused
             /\ \E fs \in Seq(Frame) :
                  /\ Ends(fs, Range(screens))
                  /\ Waits(s) => t.queue = s.queue \o fs
                  /\ ~Waits(s) => t.queue = s.queue
<1> DEFINE ends == [i \in DOMAIN screens |-> Frm("unsubscribe", screens[i])]
           read == {i \in DOMAIN screens : screens[i] = s.focused}
           claim == Frm("focus", None)
           fs == IF client = "web" \/ read = {} THEN ends ELSE InsertAt(ends, Min(read), claim)
           S == s.subscribed \ Range(screens)
           x == IF read = {} THEN s.focused ELSE None
           u == Put(s, S, x)
           t == SendAll(u, fs)
<1>1. DOMAIN screens = 1..Len(screens) /\ Len(screens) \in Nat
      /\ \A i \in 1..Len(screens) : screens[i] \in Rooms
  OBVIOUS
<1>2. /\ ends \in Seq(Frame) /\ Len(ends) = Len(screens)
      /\ \A i \in 1..Len(screens) : ends[i] = Off(screens[i])
  <2>1. \A i \in 1..Len(screens) : Frm("unsubscribe", screens[i]) \in Frame
    BY <1>1, FramesAre
  <2>2. ends \in [1..Len(screens) -> Frame]
    BY <1>1, <2>1
  <2>3. ends \in Seq(Frame) /\ Len(ends) = Len(screens)
    BY <1>1, <2>2
  <2> QED BY <1>1, <2>3 DEF Off
<1>3. /\ \A r : Firm(Off(r)) /\ Asked(Off(r)) = None
      /\ Firm(claim) /\ Asked(claim) = None /\ claim \in Frame
  BY FramesAre DEF Firm, Asked, Off
<1>4. \A r \in Range(screens) : Has(ends, Off(r))
  BY <1>1, <1>2 DEF Range, Has
<1>5. Ends(ends, Range(screens))
  BY <1>2, <1>3, <1>4 DEF Ends
<1>6. read # {} => Min(read) \in 1..Len(ends)
  <2>1. read \subseteq Nat /\ read \subseteq 1..Len(screens)
    BY <1>1
  <2> HIDE DEF read
  <2> QED BY <1>2, <2>1, LeastIs
<1>7. read = {} <=> s.focused \notin Range(screens)
  BY DEF Range
<1> HIDE DEF ends, read, claim
<1>8. fs \in Seq(Frame) /\ Ends(fs, Range(screens))
  <2>1. CASE client = "web" \/ read = {}
    BY <1>2, <1>5, <2>1
  <2>2. CASE ~(client = "web" \/ read = {})
    <3> DEFINE p == InsertAt(ends, Min(read), claim)
    <3>1. /\ p \in Seq(Frame)
          /\ \A j \in 1..Len(p) : p[j] = claim \/ \E k \in 1..Len(ends) : p[j] = ends[k]
          /\ \A g : Has(ends, g) => Has(p, g)
      BY <1>2, <1>3, <1>6, <2>2, InsertedIs
    <3> HIDE DEF p
    <3>2. Ends(p, Range(screens))
      BY <1>3, <1>5, <3>1 DEF Ends
    <3>3. fs = p
      BY <2>2 DEF p
    <3> HIDE DEF fs
    <3> QED BY <3>1, <3>2, <3>3
  <2> QED BY <2>1, <2>2
<1>9. S \in RoomSets /\ x \in RoomOrNone
  BY DEF Chats, RoomSets, RoomOrNone
<1>10. IsFiniteSet(S)
  <2>1. S \in SUBSET s.subscribed
    OBVIOUS
  <2> HIDE DEF S
  <2> QED BY <2>1, FS_Subset
<1>11. UnmountAll(s) = t
  BY <1>7 DEF UnmountAll, Put, fs, ends, read, claim
<1>12. x = IF s.focused \in Range(screens) THEN None ELSE s.focused
  BY <1>7
<1>13. S = s.subscribed \ Range(screens)
  OBVIOUS
<1> HIDE DEF fs, S, x
<1>14. /\ u \in Chats /\ u.socket = s.socket /\ u.subscribed = S /\ u.focused = x
       /\ u.queue = s.queue
  BY <1>9, PutIs
<1>15. Waits(u) <=> Waits(s)
  BY <1>14 DEF Waits
<1> HIDE DEF u
<1>16. /\ t \in Chats /\ t.socket = u.socket
       /\ t.subscribed = u.subscribed /\ t.focused = u.focused
  BY <1>8, <1>14, SendAllIs
<1>17. /\ Waits(s) => t.queue = s.queue \o fs
       /\ ~Waits(s) => t.queue = s.queue
  BY <1>8, <1>14, <1>15, SendAllSends
<1> HIDE DEF t
<1>18. \E gs \in Seq(Frame) : /\ Ends(gs, Range(screens))
                              /\ Waits(s) => t.queue = s.queue \o gs
                              /\ ~Waits(s) => t.queue = s.queue
  BY <1>8, <1>17
<1> QED BY <1>10, <1>11, <1>12, <1>13, <1>14, <1>16, <1>18

LEMMA UnmountAllQueued ==
  ASSUME ClientsKnown, client \in Clients, screens \in Seq(Rooms),
         NEW s \in Chats, IsFiniteSet(s.subscribed),
         NEW L, Queued(s, L), NoneKept(s), s.subscribed = Range(screens),
         s.focused \in s.subscribed \cup {None}
  PROVE  LET t == UnmountAll(s)
             K == IF s.subscribed = {} THEN L ELSE {}
         IN  t.subscribed = {} /\ t.focused = None /\ Queued(t, K)
<1> DEFINE t == UnmountAll(s)
           K == IF s.subscribed = {} THEN L ELSE {}
<1>1. /\ t.socket = s.socket
      /\ t.subscribed = s.subscribed \ Range(screens)
      /\ t.focused = IF s.focused \in Range(screens) THEN None ELSE s.focused
  BY UnmountAllIs
<1>2. PICK fs \in Seq(Frame) :
        /\ Ends(fs, Range(screens))
        /\ Waits(s) => t.queue = s.queue \o fs
        /\ ~Waits(s) => t.queue = s.queue
  BY UnmountAllIs
<1> HIDE DEF t
<1>3. t.subscribed = {} /\ t.focused = None
  BY <1>1
<1>4. CASE Waits(s)
  <2>1. s.queue \in Seq(Frame)
    BY DEF Chats
  <2>2. Says(s.queue \o fs, {}, None, K)
    BY <1>2, <2>1, EndsSay DEF Queued
  <2> QED BY <1>1, <1>2, <1>3, <1>4, <2>2 DEF Queued, Waits, t
<1>5. CASE ~Waits(s)
  <2>1. client = "mobile" \/ client = "web"
    BY ClientsKnown
  <2>2. s.queue = <<>>
    BY <1>5, <2>1 DEF Queued, NoneKept, Waits, Live
  <2> QED BY <1>2, <1>3, <1>5, <2>2, EmptySays DEF Queued, t
<1> QED BY <1>4, <1>5

(* What signing out makes of the object.                                   *)
Gone(s) == IF client = "web" THEN Disconnect(UnmountAll(s)) ELSE UnmountAll(Disconnect(s))

LEMMA GoneIs ==
  ASSUME ClientsKnown, client \in Clients, screens \in Seq(Rooms),
         NEW s \in Chats, IsFiniteSet(s.subscribed), NEW L
  PROVE  /\ Gone(s) \in Chats /\ IsFiniteSet(Gone(s).subscribed) /\ Gone(s).socket = "null"
         /\ Queued(s, L) /\ NoneKept(s) /\ s.subscribed = Range(screens)
              /\ s.focused \in s.subscribed \cup {None} =>
            Gone(s).subscribed = {} /\ Gone(s).focused = None
            /\ Queued(Gone(s), IF s.subscribed = {} THEN L ELSE {})
<1> DEFINE K == IF s.subscribed = {} THEN L ELSE {}
           Before(u) == /\ Queued(u, L) /\ NoneKept(u) /\ u.subscribed = Range(screens)
                        /\ u.focused \in u.subscribed \cup {None}
           After(u) == u.subscribed = {} /\ u.focused = None /\ Queued(u, K)
<1>1. CASE client = "web"
  <2> DEFINE u == UnmountAll(s)
             t == Disconnect(u)
  <2>1. u \in Chats /\ IsFiniteSet(u.subscribed)
    BY UnmountAllIs
  <2>2. Before(s) => After(u)
    BY UnmountAllQueued
  <2> HIDE DEF u
  <2>3. /\ t \in Chats /\ t.socket = "null" /\ t.queue = u.queue
        /\ t.subscribed = u.subscribed /\ t.focused = u.focused
    BY <2>1, DisconnectIs
  <2>4. Gone(s) = t
    BY <1>1 DEF Gone, u
  <2> HIDE DEF t
  <2>5. After(u) => After(t)
    BY <2>3 DEF Queued
  <2> QED BY <2>1, <2>2, <2>3, <2>4, <2>5
<1>2. CASE client # "web"
  <2> DEFINE u == Disconnect(s)
             t == UnmountAll(u)
  <2>1. /\ u \in Chats /\ u.socket = "null" /\ u.queue = s.queue
        /\ u.subscribed = s.subscribed /\ u.focused = s.focused
    BY DisconnectIs
  <2> HIDE DEF u
  <2>2. t \in Chats /\ IsFiniteSet(t.subscribed) /\ t.socket = u.socket
    BY <2>1, UnmountAllIs
  <2>3. Before(s) => Before(u)
    BY <1>2, <2>1 DEF Queued, NoneKept
  <2>4. Before(u) => After(t)
    BY <2>1, UnmountAllQueued
  <2>5. Gone(s) = t
    BY <1>2 DEF Gone, u
  <2> HIDE DEF t
  <2> QED BY <2>1, <2>2, <2>3, <2>4, <2>5
<1> QED BY <1>1, <1>2

----------------------------------------------------------------------------
(* The invariant.                                                          *)

SocketTypes ==
  /\ client \in Clients /\ signedIn \in BOOLEAN /\ fresh \in BOOLEAN
  /\ expiries \in 0..MaxExpiries /\ visible \in BOOLEAN /\ covered \in BOOLEAN
  /\ screens \in Seq(Rooms) /\ Len(screens) <= MaxStack + 1
  /\ chat \in Chats /\ IsFiniteSet(chat.subscribed) /\ session \in Connections
  /\ stops \subseteq Rooms /\ late \subseteq Rooms
  /\ faults \subseteq {"stale queue", "opened twice"}

(* Until a fault happens the object says what the screens show, and every  *)
(* frame on its way, kept or lost, is accounted for.                       *)
Agreed ==
  faults = {} => /\ IsInjective(screens)
                 /\ chat.subscribed = Range(screens) /\ chat.focused = Reading
                 /\ Kept(chat, session, late)

SocketInv == SocketTypes /\ Agreed

LEMMA StackIs ==
  ASSUME SocketTypes
  PROVE  /\ screens \in Seq(Rooms) /\ Len(screens) \in Nat
         /\ Len(screens) <= MaxStack + 1 /\ MaxStack \in Nat
<1>1. screens \in Seq(Rooms) /\ Len(screens) <= MaxStack + 1
  BY DEF SocketTypes
<1>2. Len(screens) \in Nat
  BY <1>1
<1> QED BY <1>1, <1>2, BoundsAreNat

LEMMA TopIs ==
  ASSUME screens \in Seq(Rooms)
  PROVE  /\ screens = <<>> => Top = None /\ Range(screens) = {}
         /\ screens # <<>> => /\ Top \in Rooms /\ Top \in Range(screens)
                              /\ Len(screens) > 0 /\ Top = screens[Len(screens)]
<1>1. screens = <<>> => Top = None /\ Range(screens) = {}
  BY DEF Top, Range
<1>2. ASSUME screens # <<>>
      PROVE  /\ Top \in Rooms /\ Top \in Range(screens)
             /\ Len(screens) > 0 /\ Top = screens[Len(screens)]
  <2>1. Len(screens) \in 1..Len(screens) /\ DOMAIN screens = 1..Len(screens)
    BY <1>2
  <2> QED BY <1>2, <2>1 DEF Top, Last, Range
<1> QED BY <1>1, <1>2

LEMMA ReadingIs ==
  ASSUME screens \in Seq(Rooms)
  PROVE  Reading \in Range(screens) \cup {None}
  BY TopIs DEF Reading

LEMMA AppendedIs ==
  ASSUME NEW q \in Seq(Rooms), NEW r \in Rooms
  PROVE  LET p == Append(q, r)
         IN  /\ p \in Seq(Rooms) /\ Len(p) = Len(q) + 1 /\ p # <<>> /\ Last(p) = r
             /\ Range(p) = Range(q) \cup {r}
<1> DEFINE p == Append(q, r)
<1>1. /\ p \in Seq(Rooms) /\ Len(p) = Len(q) + 1 /\ p[Len(p)] = r /\ Len(q) \in Nat
      /\ DOMAIN p = 1..Len(p) /\ DOMAIN q = 1..Len(q)
      /\ \A i \in 1..Len(q) : p[i] = q[i]
  OBVIOUS
<1> HIDE DEF p
<1>2. Range(p) = Range(q) \cup {r}
  BY <1>1 DEF Range
<1>3. p # <<>> /\ Last(p) = r
  BY <1>1 DEF Last
<1> QED BY <1>1, <1>2, <1>3 DEF p

LEMMA FrontIs ==
  ASSUME NEW q \in Seq(Rooms), q # <<>>
  PROVE  LET p == Front(q)
         IN  /\ p \in Seq(Rooms) /\ Len(p) = Len(q) - 1
             /\ IsInjective(q) => Range(p) = Range(q) \ {q[Len(q)]}
<1> DEFINE p == Front(q)
<1>1. Len(q) \in Nat /\ Len(q) > 0 /\ DOMAIN q = 1..Len(q)
  OBVIOUS
<1>2. p \in Seq(Rooms) /\ Len(p) = Len(q) - 1
  BY <1>1 DEF Front
<1>3. \A i \in 1..Len(q)-1 : p[i] = q[i]
  BY <1>1 DEF Front
<1>4. DOMAIN p = 1..Len(q)-1
  BY <1>2
<1> HIDE DEF p
<1>5. IsInjective(q) => Range(p) = Range(q) \ {q[Len(q)]}
  BY <1>1, <1>3, <1>4 DEF IsInjective, Range
<1> QED BY <1>2, <1>5 DEF p

LEMMA NoSessionIs ==
  NoSession \in Connections /\ \A k \in BOOLEAN : [NoSession EXCEPT !.known = k] \in Connections
  BY DEF NoSession, Connections

(* What stands of the rooms `said` while frames are on their way.          *)
Lasting(s, said) ==
  IF s.focused # chat.focused \/ ~(chat.subscribed \subseteq s.subscribed) THEN {} ELSE said

(* A step that installs s keeps the invariant when s agrees with the       *)
(* screens as they then are.                                               *)
LEMMA InstallsKeeps ==
  ASSUME SocketTypes, NEW s, s \in Chats, IsFiniteSet(s.subscribed),
         NEW said, said \in SUBSET Rooms, Installs(s, said), client' = client,
         faults = {} /\ IsInjective(screens') /\ NoneKept(s) =>
           s.subscribed = Range(screens') /\ s.focused = Reading'
           /\ Queued(s, Lasting(s, said)) /\ Wired(s, session, Lasting(s, said))
  PROVE  /\ chat' \in Chats /\ IsFiniteSet(chat'.subscribed) /\ session' \in Connections
         /\ late' \subseteq Rooms /\ faults' \subseteq {"stale queue", "opened twice"}
         /\ Agreed'
<1>1. chat' = s
  BY DEF Installs
<1>2. session' \in Connections
  BY NoSessionIs DEF Installs, SocketTypes
<1>3. faults' \subseteq {"stale queue", "opened twice"} /\ late' \subseteq Rooms
  BY DEF Installs, Standing, SocketTypes
<1>4. ASSUME faults' = {}
      PROVE  faults = {} /\ IsInjective(screens') /\ NoneKept(s)
  BY <1>4 DEF Installs, NoneKept
<1>5. \A L : Wired(s, session, L) => Wired(s, session', L)
  BY DEF Installs, Wired
<1>6. ASSUME Queued(s, Lasting(s, said)), Wired(s, session, Lasting(s, said))
      PROVE  Queued(s, late') /\ Wired(s, session', late')
  <2>1. CASE s.socket # "open" /\ s.queue = <<>>
    BY <2>1, EmptySays DEF Queued, Wired
  <2>2. CASE ~(s.socket # "open" /\ s.queue = <<>>)
    <3>1. late' = Lasting(s, said)
      BY <2>2 DEF Installs, Standing, Lasting
    <3> QED BY <1>5, <1>6, <3>1
  <2> QED BY <2>1, <2>2
<1>7. ASSUME faults' = {}
      PROVE  /\ IsInjective(screens') /\ chat'.subscribed = Range(screens')
             /\ chat'.focused = Reading' /\ Queued(chat', late') /\ Wired(chat', session', late')
             /\ NoneKept(s)
  BY <1>1, <1>4, <1>6, <1>7
<1>8. NoneKept(s) => (NoneKept(chat))'
  BY <1>1 DEF NoneKept
<1>9. Agreed'
  BY <1>7, <1>8 DEF Agreed, Kept
<1> QED BY <1>1, <1>2, <1>3, <1>9

LEMMA BecomesKeeps ==
  ASSUME SocketTypes, NEW s, s \in Chats, IsFiniteSet(s.subscribed), Becomes(s),
         client' = client, NEW K, K \subseteq Lasting(s, late),
         faults = {} /\ IsInjective(screens') /\ NoneKept(s) =>
           s.subscribed = Range(screens') /\ s.focused = Reading'
           /\ Queued(s, K) /\ Wired(s, session, K)
  PROVE  /\ chat' \in Chats /\ IsFiniteSet(chat'.subscribed) /\ session' \in Connections
         /\ late' \subseteq Rooms /\ faults' \subseteq {"stale queue", "opened twice"}
         /\ Agreed'
<1>1. Installs(s, late) /\ late \in SUBSET Rooms
  BY DEF Becomes, SocketTypes
<1>2. /\ Queued(s, K) => Queued(s, Lasting(s, late))
      /\ Wired(s, session, K) => Wired(s, session, Lasting(s, late))
  BY KeptMore
<1> QED BY <1>1, <1>2, InstallsKeeps

----------------------------------------------------------------------------
(* The steps.                                                              *)

LEMMA SocketStarts == SocketInit => SocketInv
<1> SUFFICES ASSUME SocketInit PROVE SocketInv
  OBVIOUS
<1>1. <<>> \in Seq(Frame) /\ <<>> \in Seq(Rooms) /\ Len(<<>>) = 0
  OBVIOUS
<1>2. chat \in Chats
  BY <1>1 DEF SocketInit, Chats
<1>3. /\ chat.subscribed = {} /\ chat.focused = None /\ chat.queue = <<>>
      /\ chat.socket = "null"
  BY DEF SocketInit
<1>4. IsFiniteSet(chat.subscribed)
  BY <1>3, FS_EmptySet
<1>5. SocketTypes
  <2>1. 0 \in 0..MaxExpiries /\ 0 <= MaxStack + 1
    BY BoundsAreNat
  <2>2. expiries \in 0..MaxExpiries /\ screens \in Seq(Rooms) /\ Len(screens) <= MaxStack + 1
    BY <1>1, <2>1 DEF SocketInit
  <2> QED BY <1>2, <1>4, <2>2, NoSessionIs DEF SocketInit, SocketTypes
<1>6. IsInjective(screens) /\ Range(screens) = {} /\ Reading = None
  BY DEF SocketInit, IsInjective, Range, Reading, Top
<1>7. Kept(chat, session, late)
  BY <1>3, EmptySays DEF Kept, Queued, NoneKept, Wired
<1> QED BY <1>3, <1>5, <1>6, <1>7 DEF SocketInv, Agreed

LEMMA SignInKeeps == SocketInv /\ SignIn => SocketInv'
<1> SUFFICES ASSUME SocketInv, SignIn PROVE SocketInv'
  OBVIOUS
<1> DEFINE t == SetToken(chat, TRUE)
<1>1. /\ t \in Chats /\ t.subscribed = chat.subscribed /\ t.focused = chat.focused
      /\ Queued(chat, late) => Kept(t, session, late)
  BY SetTokenKeeps DEF SocketInv, SocketTypes
<1>2. Becomes(t)
  BY DEF SignIn
<1> HIDE DEF t
<1>3. UNCHANGED <<client, expiries, screens, covered, visible, stops>>
      /\ signedIn' \in BOOLEAN /\ fresh' \in BOOLEAN
  BY DEF SignIn
<1>4. Reading' = Reading
  BY <1>3 DEF Reading, Top
<1>5. faults = {} => t.subscribed = Range(screens') /\ t.focused = Reading' /\ Queued(t, late)
                     /\ Wired(t, session, late)
  BY <1>1, <1>3, <1>4 DEF SocketInv, Agreed, Kept
<1>7. late \subseteq Lasting(t, late)
  BY <1>1 DEF Lasting
<1>6. /\ chat' \in Chats /\ IsFiniteSet(chat'.subscribed) /\ session' \in Connections
      /\ late' \subseteq Rooms /\ faults' \subseteq {"stale queue", "opened twice"} /\ Agreed'
  BY <1>1, <1>2, <1>3, <1>5, <1>7, BecomesKeeps DEF SocketInv, SocketTypes
<1> QED BY <1>3, <1>6 DEF SocketInv, SocketTypes

LEMMA RefreshKeeps == SocketInv /\ Refresh => SocketInv'
<1> SUFFICES ASSUME SocketInv, Refresh PROVE SocketInv'
  OBVIOUS
<1> DEFINE t == SetToken(chat, TRUE)
<1>1. /\ t \in Chats /\ t.subscribed = chat.subscribed /\ t.focused = chat.focused
      /\ Queued(chat, late) => Kept(t, session, late)
  BY SetTokenKeeps DEF SocketInv, SocketTypes
<1>2. Becomes(t)
  BY DEF Refresh
<1> HIDE DEF t
<1>3. UNCHANGED <<client, signedIn, expiries, screens, covered, visible, stops>>
      /\ fresh' \in BOOLEAN
  BY DEF Refresh
<1>4. Reading' = Reading
  BY <1>3 DEF Reading, Top
<1>5. faults = {} => t.subscribed = Range(screens') /\ t.focused = Reading' /\ Queued(t, late)
                     /\ Wired(t, session, late)
  BY <1>1, <1>3, <1>4 DEF SocketInv, Agreed, Kept
<1>7. late \subseteq Lasting(t, late)
  BY <1>1 DEF Lasting
<1>6. /\ chat' \in Chats /\ IsFiniteSet(chat'.subscribed) /\ session' \in Connections
      /\ late' \subseteq Rooms /\ faults' \subseteq {"stale queue", "opened twice"} /\ Agreed'
  BY <1>1, <1>2, <1>3, <1>5, <1>7, BecomesKeeps DEF SocketInv, SocketTypes
<1> QED BY <1>3, <1>6 DEF SocketInv, SocketTypes

LEMMA SignOutKeeps == SocketInv /\ SignOut => SocketInv'
<1> SUFFICES ASSUME SocketInv, SignOut PROVE SocketInv'
  OBVIOUS
<1> DEFINE t == Gone(chat)
           K == IF chat.subscribed = {} /\ chat.focused = None /\ t.focused = None
                THEN late ELSE {}
<1>1. /\ t \in Chats /\ IsFiniteSet(t.subscribed) /\ t.socket = "null"
      /\ Queued(chat, late) /\ NoneKept(chat) /\ chat.subscribed = Range(screens)
              /\ chat.focused \in chat.subscribed \cup {None} =>
            t.subscribed = {} /\ t.focused = None
            /\ Queued(t, IF chat.subscribed = {} THEN late ELSE {})
  BY ClientsKnown, GoneIs DEF SocketInv, SocketTypes
<1>2. Becomes(t)
  BY DEF SignOut, Gone
<1>8. K \subseteq Lasting(t, late)
  BY DEF Lasting
<1>9. t.focused = None /\ chat.focused \in chat.subscribed \cup {None} =>
        K = IF chat.subscribed = {} THEN late ELSE {}
  OBVIOUS
<1> HIDE DEF t, K
<1>3. UNCHANGED <<client, expiries, visible, stops>> /\ screens' = <<>> /\ covered' = FALSE
      /\ signedIn' = FALSE /\ fresh' = FALSE
  BY DEF SignOut
<1>4. Reading' = None /\ Range(screens') = {}
  BY <1>3 DEF Reading, Top, Range
<1>5. faults = {} => t.subscribed = Range(screens') /\ t.focused = Reading' /\ Queued(t, K)
                     /\ Wired(t, session, K)
  BY <1>1, <1>4, <1>9, ReadingIs DEF SocketInv, SocketTypes, Agreed, Kept, Wired
<1>6. /\ chat' \in Chats /\ IsFiniteSet(chat'.subscribed) /\ session' \in Connections
      /\ late' \subseteq Rooms /\ faults' \subseteq {"stale queue", "opened twice"} /\ Agreed'
  BY <1>1, <1>2, <1>3, <1>5, <1>8, BecomesKeeps DEF SocketInv, SocketTypes
<1>7. screens' \in Seq(Rooms) /\ Len(screens') <= MaxStack + 1
  BY <1>3, BoundsAreNat
<1> QED BY <1>3, <1>6, <1>7 DEF SocketInv, SocketTypes

LEMMA ExpireKeeps == SocketInv /\ Expire => SocketInv'
<1> SUFFICES ASSUME SocketInv, Expire PROVE SocketInv'
  OBVIOUS
<1>1. UNCHANGED <<client, signedIn, screens, covered, visible, stops, chat, session, late, faults>>
      /\ fresh' = FALSE /\ expiries' \in 0..MaxExpiries
  <2>1. expiries \in 0..MaxExpiries
    BY DEF SocketInv, SocketTypes
  <2>2. expiries < MaxExpiries /\ expiries' = expiries + 1 /\ MaxExpiries \in Nat
    BY BoundsAreNat DEF Expire
  <2> QED BY <2>1, <2>2 DEF Expire
<1>2. Agreed'
  BY <1>1 DEF SocketInv, Agreed, Reading, Top, Kept, NoneKept
<1> QED BY <1>1, <1>2 DEF SocketInv, SocketTypes

LEMMA OpenKeeps == ASSUME NEW r \in Rooms PROVE SocketInv /\ Open(r) => SocketInv'
<1> SUFFICES ASSUME SocketInv, Open(r) PROVE SocketInv'
  OBVIOUS
<1> DEFINE u == IF screens = <<>> THEN chat ELSE Unmount(chat, Top)
           q == IF screens = <<>> THEN <<>> ELSE Front(screens)
           K == IF screens = <<>> THEN late ELSE {}
           t == Mount(u, r)
           L == IF t.focused = u.focused THEN K ELSE {}
<1>0. client \in Clients /\ chat \in Chats /\ IsFiniteSet(chat.subscribed) /\ screens \in Seq(Rooms)
  BY DEF SocketInv, SocketTypes
<1>1. /\ u \in Chats /\ IsFiniteSet(u.subscribed)
      /\ faults = {} => u.subscribed = Range(q) /\ Kept(u, session, K)
  <2>1. CASE screens = <<>>
    BY <1>0, <2>1 DEF SocketInv, Agreed, Range
  <2>2. CASE screens # <<>>
    <3> DEFINE v == Unmount(chat, Top)
    <3>1. Top \in Rooms /\ Top = screens[Len(screens)]
      BY <1>0, <2>2, TopIs
    <3>2. /\ v \in Chats /\ IsFiniteSet(v.subscribed)
          /\ v.subscribed = chat.subscribed \ {Top}
          /\ Kept(chat, session, late) /\ chat.focused \in {None, Top} => Kept(v, session, {})
      BY <1>0, <3>1, ClientsKnown, UnmountKeeps
    <3> HIDE DEF v
    <3>3. IsInjective(screens) => Range(q) = Range(screens) \ {Top}
      BY <1>0, <2>2, <3>1, FrontIs
    <3>4. Reading \in {None, Top}
      BY DEF Reading
    <3>5. u = v /\ K = {}
      BY <2>2 DEF v
    <3> HIDE DEF u, q, K
    <3> QED BY <3>2, <3>3, <3>4, <3>5 DEF SocketInv, Agreed
  <2> QED BY <2>1, <2>2
<1>2. /\ q \in Seq(Rooms) /\ Len(q) <= MaxStack
      /\ screens' = Append(q, r)
  <2>1. CASE screens = <<>>
    <3>1. screens' = <<r>> /\ q = <<>>
      BY <2>1 DEF Open
    <3>2. <<>> \in Seq(Rooms) /\ Len(<<>>) = 0 /\ <<r>> = Append(<<>>, r)
      OBVIOUS
    <3>3. 0 <= MaxStack
      BY BoundsAreNat
    <3> HIDE DEF q
    <3> QED BY <3>1, <3>2, <3>3
  <2>2. CASE screens # <<>>
    <3>1. screens' = Append(q, r) /\ q = Front(screens)
      BY <2>2 DEF Open
    <3>2. q \in Seq(Rooms) /\ Len(q) = Len(screens) - 1
      BY <1>0, <2>2, <3>1, FrontIs
    <3>3. Len(screens) <= MaxStack + 1 /\ Len(screens) \in Nat /\ MaxStack \in Nat
      BY StackIs DEF SocketInv
    <3> HIDE DEF q
    <3>4. Len(q) <= MaxStack
      BY <3>2, <3>3
    <3> QED BY <3>1, <3>2, <3>4
  <2> QED BY <2>1, <2>2
<1>3. Becomes(t) /\ UNCHANGED <<client, signedIn, fresh, expiries, covered, visible, stops>> /\ ~covered
  BY DEF Open
<1> HIDE DEF q, u
<1>4. /\ t \in Chats /\ IsFiniteSet(t.subscribed)
      /\ t.subscribed = u.subscribed \cup {r} /\ t.focused = Claim(r)
      /\ Kept(u, session, K) => Kept(t, session, L)
  BY <1>0, <1>1, ClientsKnown, MountKeeps
<1>9. L \subseteq Lasting(t, late)
  BY <1>4 DEF u, Lasting
<1> HIDE DEF t, L, K
<1>5. /\ screens' \in Seq(Rooms) /\ Len(screens') <= MaxStack + 1 /\ screens' # <<>>
      /\ Last(screens') = r /\ Range(screens') = Range(q) \cup {r}
  <2>1. Len(q) \in Nat
    BY <1>2
  <2> QED BY <1>2, <2>1, AppendedIs, BoundsAreNat
<1>6. Reading' = Claim(r)
  BY <1>3, <1>5 DEF Reading, Top, Claim
<1>7. faults = {} => t.subscribed = Range(screens') /\ t.focused = Reading' /\ Queued(t, L)
                     /\ Wired(t, session, L)
  BY <1>1, <1>4, <1>5, <1>6 DEF Kept
<1>8. /\ chat' \in Chats /\ IsFiniteSet(chat'.subscribed) /\ session' \in Connections
      /\ late' \subseteq Rooms /\ faults' \subseteq {"stale queue", "opened twice"} /\ Agreed'
  BY <1>3, <1>4, <1>7, <1>9, BecomesKeeps DEF SocketInv
<1> QED BY <1>3, <1>5, <1>8 DEF SocketInv, SocketTypes

LEMMA PushKeeps == ASSUME NEW r \in Rooms PROVE SocketInv /\ Push(r) => SocketInv'
<1> SUFFICES ASSUME SocketInv, Push(r) PROVE SocketInv'
  OBVIOUS
<1> DEFINE t == Mount(chat, r)
           L == IF t.focused = chat.focused THEN late ELSE {}
<1>0. client \in Clients /\ chat \in Chats /\ IsFiniteSet(chat.subscribed) /\ screens \in Seq(Rooms)
  BY DEF SocketInv, SocketTypes
<1>2. /\ Len(screens) < MaxStack /\ screens' = Append(screens, r) /\ covered' = FALSE
      /\ Becomes(t) /\ UNCHANGED <<client, signedIn, fresh, expiries, visible, stops>>
  BY DEF Push
<1>4. /\ t \in Chats /\ IsFiniteSet(t.subscribed)
      /\ t.subscribed = chat.subscribed \cup {r} /\ t.focused = Claim(r)
      /\ Kept(chat, session, late) => Kept(t, session, L)
  BY <1>0, ClientsKnown, MountKeeps
<1>9. L \subseteq Lasting(t, late)
  BY <1>4 DEF Lasting
<1> HIDE DEF t, L
<1>5. /\ screens' \in Seq(Rooms) /\ Len(screens') <= MaxStack + 1 /\ screens' # <<>>
      /\ Last(screens') = r /\ Range(screens') = Range(screens) \cup {r}
  <2>1. Len(screens) \in Nat
    BY <1>0
  <2> QED BY <1>0, <1>2, <2>1, AppendedIs, BoundsAreNat
<1>6. Reading' = Claim(r)
  BY <1>2, <1>5 DEF Reading, Top, Claim
<1>7. faults = {} => t.subscribed = Range(screens') /\ t.focused = Reading' /\ Queued(t, L)
                     /\ Wired(t, session, L)
  BY <1>4, <1>5, <1>6 DEF Kept, SocketInv, Agreed
<1>8. /\ chat' \in Chats /\ IsFiniteSet(chat'.subscribed) /\ session' \in Connections
      /\ late' \subseteq Rooms /\ faults' \subseteq {"stale queue", "opened twice"} /\ Agreed'
  BY <1>2, <1>4, <1>7, <1>9, BecomesKeeps DEF SocketInv
<1> QED BY <1>2, <1>5, <1>8 DEF SocketInv, SocketTypes

LEMMA LeaveKeeps == SocketInv /\ Leave => SocketInv'
<1> SUFFICES ASSUME SocketInv, Leave PROVE SocketInv'
  OBVIOUS
<1> DEFINE t == Unmount(chat, Top)
<1>0. client \in Clients /\ chat \in Chats /\ IsFiniteSet(chat.subscribed) /\ screens \in Seq(Rooms)
  BY DEF SocketInv, SocketTypes
<1>2. /\ screens # <<>> /\ screens' = Front(screens) /\ covered' = (Len(screens) > 1)
      /\ Becomes(t) /\ UNCHANGED <<client, signedIn, fresh, expiries, visible, stops>>
  BY DEF Leave
<1>3. Top \in Rooms /\ Top = screens[Len(screens)] /\ Len(screens) > 0 /\ Len(screens) \in Nat
  BY <1>0, <1>2, TopIs
<1>4. /\ t \in Chats /\ IsFiniteSet(t.subscribed)
      /\ t.subscribed = chat.subscribed \ {Top}
      /\ t.focused = IF chat.focused = Top THEN None ELSE chat.focused
      /\ Kept(chat, session, late) /\ chat.focused \in {None, Top} => Kept(t, session, {})
  BY <1>0, <1>3, ClientsKnown, UnmountKeeps
<1> HIDE DEF t
<1>5. /\ screens' \in Seq(Rooms) /\ Len(screens') = Len(screens) - 1
      /\ IsInjective(screens) => Range(screens') = Range(screens) \ {Top}
  BY <1>0, <1>2, <1>3, FrontIs
<1>6. Reading' = None
  <2>1. CASE Len(screens) > 1
    BY <1>2, <2>1 DEF Reading
  <2>2. CASE ~(Len(screens) > 1)
    <3>1. screens' = <<>>
      BY <1>3, <1>5, <2>2
    <3> QED BY <3>1 DEF Reading, Top
  <2> QED BY <2>1, <2>2
<1>7. Reading \in {None, Top}
  BY DEF Reading
<1>8. faults = {} => t.subscribed = Range(screens') /\ t.focused = Reading' /\ Queued(t, {})
                     /\ Wired(t, session, {})
  BY <1>4, <1>5, <1>6, <1>7 DEF Kept, SocketInv, Agreed
<1>12. {} \subseteq Lasting(t, late)
  OBVIOUS
<1>9. /\ chat' \in Chats /\ IsFiniteSet(chat'.subscribed) /\ session' \in Connections
      /\ late' \subseteq Rooms /\ faults' \subseteq {"stale queue", "opened twice"} /\ Agreed'
  BY <1>2, <1>4, <1>8, <1>12, BecomesKeeps DEF SocketInv
<1>10. Len(screens') <= MaxStack + 1
  <2>1. Len(screens) <= MaxStack + 1 /\ MaxStack \in Nat
    BY StackIs DEF SocketInv
  <2> QED BY <1>3, <1>5, <2>1
<1>11. covered' \in BOOLEAN
  BY <1>2, <1>3
<1> QED BY <1>2, <1>5, <1>9, <1>10, <1>11 DEF SocketInv, SocketTypes

LEMMA CoverKeeps == SocketInv /\ Cover => SocketInv'
<1> SUFFICES ASSUME SocketInv, Cover PROVE SocketInv'
  OBVIOUS
<1> DEFINE t == Blur(chat, Top)
           L == IF t.focused = chat.focused THEN late ELSE {}
<1>1. client \in Clients /\ chat \in Chats /\ IsFiniteSet(chat.subscribed)
  BY DEF SocketInv, SocketTypes
<1>2. /\ UNCHANGED <<client, signedIn, fresh, expiries, screens, visible, stops>>
      /\ covered' = TRUE /\ Becomes(t)
  BY DEF Cover
<1>3. /\ t \in Chats /\ IsFiniteSet(t.subscribed)
      /\ t.subscribed = chat.subscribed
      /\ t.focused = IF chat.focused = Top THEN None ELSE chat.focused
      /\ Kept(chat, session, late) => Kept(t, session, L)
  BY <1>1, ClientsKnown, BlurKeeps
<1>7. L \subseteq Lasting(t, late)
  BY <1>3 DEF Lasting
<1> HIDE DEF t, L
<1>4. Reading' = None /\ Reading \in {None, Top}
  BY <1>2 DEF Reading
<1>5. faults = {} => t.subscribed = Range(screens') /\ t.focused = Reading' /\ Queued(t, L)
                     /\ Wired(t, session, L)
  BY <1>2, <1>3, <1>4 DEF Kept, SocketInv, Agreed
<1>6. /\ chat' \in Chats /\ IsFiniteSet(chat'.subscribed) /\ session' \in Connections
      /\ late' \subseteq Rooms /\ faults' \subseteq {"stale queue", "opened twice"} /\ Agreed'
  BY <1>2, <1>3, <1>5, <1>7, BecomesKeeps DEF SocketInv
<1> QED BY <1>2, <1>6 DEF SocketInv, SocketTypes

(* Both ways of saying what is read now.                                   *)
LEMMA AttendsKeeps ==
  ASSUME SocketInv, NEW y, y \in Rooms \cup {None}, Becomes(Focus(chat, y)),
         client' = client, screens' = screens, Reading' = y
  PROVE  /\ chat' \in Chats /\ IsFiniteSet(chat'.subscribed) /\ session' \in Connections
         /\ late' \subseteq Rooms /\ faults' \subseteq {"stale queue", "opened twice"} /\ Agreed'
<1> DEFINE t == Focus(chat, y)
           L == IF chat.focused = y THEN late ELSE {}
<1>1. client \in Clients /\ chat \in Chats /\ IsFiniteSet(chat.subscribed)
  BY DEF SocketInv, SocketTypes
<1>2. /\ t \in Chats /\ IsFiniteSet(t.subscribed)
      /\ t.subscribed = chat.subscribed /\ t.focused = y
      /\ Kept(chat, session, late) => Kept(t, session, L)
  BY <1>1, ClientsKnown, FocusKeeps
<1>3. Becomes(t)
  OBVIOUS
<1>5. L \subseteq Lasting(t, late)
  BY <1>2 DEF Lasting
<1> HIDE DEF t, L
<1>4. faults = {} => t.subscribed = Range(screens') /\ t.focused = Reading' /\ Queued(t, L)
                     /\ Wired(t, session, L)
  BY <1>2 DEF Kept, SocketInv, Agreed
<1> QED BY <1>2, <1>3, <1>4, <1>5, BecomesKeeps DEF SocketInv

LEMMA UncoverKeeps == SocketInv /\ Uncover => SocketInv'
<1> SUFFICES ASSUME SocketInv, Uncover PROVE SocketInv'
  OBVIOUS
<1>1. /\ UNCHANGED <<client, signedIn, fresh, expiries, screens, visible, stops>>
      /\ covered' = FALSE /\ Becomes(Focus(chat, Claim(Top)))
  BY DEF Uncover
<1>2. Reading' = Claim(Top)
  BY <1>1 DEF Reading, Top, Claim
<1>3. Claim(Top) \in Rooms \cup {None}
  BY TopIs DEF Claim, SocketInv, SocketTypes
<1>4. /\ chat' \in Chats /\ IsFiniteSet(chat'.subscribed) /\ session' \in Connections
      /\ late' \subseteq Rooms /\ faults' \subseteq {"stale queue", "opened twice"} /\ Agreed'
  BY <1>1, <1>2, <1>3, AttendsKeeps
<1> QED BY <1>1, <1>4 DEF SocketInv, SocketTypes

LEMMA TurnKeeps == SocketInv /\ Turn => SocketInv'
<1> SUFFICES ASSUME SocketInv, Turn PROVE SocketInv'
  OBVIOUS
<1>1. UNCHANGED <<client, signedIn, fresh, expiries, screens, covered, stops>>
      /\ visible' = ~visible
  BY DEF Turn
<1>2. CASE screens = <<>> \/ covered
  <2>1. UNCHANGED <<chat, session, late, faults>>
    BY <1>2 DEF Turn
  <2>2. Reading' = Reading
    BY <1>1, <1>2 DEF Reading, Top
  <2>3. Agreed'
    BY <1>1, <2>1, <2>2 DEF SocketInv, Agreed, Kept, NoneKept
  <2> QED BY <1>1, <2>1, <2>3 DEF SocketInv, SocketTypes
<1>3. CASE ~(screens = <<>> \/ covered)
  <2> DEFINE y == IF visible THEN None ELSE Top
  <2>1. Becomes(Focus(chat, y))
    BY <1>3 DEF Turn
  <2>2. Reading' = y
    BY <1>1, <1>3 DEF Reading, Top, SocketInv, SocketTypes
  <2>3. y \in Rooms \cup {None}
    BY TopIs DEF SocketInv, SocketTypes
  <2> HIDE DEF y
  <2>4. /\ chat' \in Chats /\ IsFiniteSet(chat'.subscribed) /\ session' \in Connections
        /\ late' \subseteq Rooms /\ faults' \subseteq {"stale queue", "opened twice"} /\ Agreed'
    BY <1>1, <2>1, <2>2, <2>3, AttendsKeeps
  <2> QED BY <1>1, <2>4 DEF SocketInv, SocketTypes
<1> QED BY <1>2, <1>3

(* That somebody types, or stopped, is said of r.                          *)
LEMMA SaysTypingKeeps ==
  ASSUME SocketInv, NEW r \in Rooms, NEW said, said \in SUBSET Rooms, late \subseteq said,
         r \in {Reading} \cup said, Installs(Send(chat, Frm("typing", r)), said),
         client' = client, screens' = screens, Reading' = Reading
  PROVE  /\ chat' \in Chats /\ IsFiniteSet(chat'.subscribed) /\ session' \in Connections
         /\ late' \subseteq Rooms /\ faults' \subseteq {"stale queue", "opened twice"} /\ Agreed'
<1> DEFINE t == Send(chat, Frm("typing", r))
<1>1. client \in Clients /\ chat \in Chats /\ IsFiniteSet(chat.subscribed)
  BY DEF SocketInv, SocketTypes
<1>2. /\ t \in Chats /\ IsFiniteSet(t.subscribed)
      /\ t.subscribed = chat.subscribed /\ t.focused = chat.focused
      /\ Kept(chat, session, said) /\ r \in {chat.focused} \cup said => Kept(t, session, said)
  BY <1>1, ClientsKnown, TypingKeeps
<1>3. Installs(t, said)
  OBVIOUS
<1> HIDE DEF t
<1>4. Kept(chat, session, late) => Kept(chat, session, said)
  BY KeptMore
<1>5. Lasting(t, said) = said
  BY <1>2 DEF Lasting
<1>6. faults = {} => t.subscribed = Range(screens') /\ t.focused = Reading' /\ Queued(t, said)
                     /\ Wired(t, session, said)
  BY <1>2, <1>4 DEF Kept, SocketInv, Agreed
<1> QED BY <1>2, <1>3, <1>5, <1>6, InstallsKeeps DEF SocketInv

LEMMA TypingStepKeeps == SocketInv /\ Typing => SocketInv'
<1> SUFFICES ASSUME SocketInv, Typing PROVE SocketInv'
  OBVIOUS
<1>1. /\ UNCHANGED <<client, signedIn, fresh, expiries, screens, covered, visible>>
      /\ Reading # None
  BY DEF Typing
<1>2. Reading' = Reading /\ Reading = Top
  BY <1>1 DEF Reading, Top
<1>3. Top \in Rooms /\ late \in SUBSET Rooms /\ stops \subseteq Rooms
  BY <1>1, <1>2, TopIs DEF SocketInv, SocketTypes
<1>4. stops' \subseteq Rooms
  BY <1>3 DEF Typing
<1>5. CASE Becomes(Send(chat, Frm("typing", Top)))
  <2>1. Installs(Send(chat, Frm("typing", Top)), late)
    BY <1>5 DEF Becomes
  <2>2. /\ chat' \in Chats /\ IsFiniteSet(chat'.subscribed) /\ session' \in Connections
        /\ late' \subseteq Rooms /\ faults' \subseteq {"stale queue", "opened twice"} /\ Agreed'
    BY <1>1, <1>2, <1>3, <2>1, SaysTypingKeeps
  <2> QED BY <1>1, <1>4, <2>2 DEF SocketInv, SocketTypes
<1>6. CASE Becomes(chat)
  <2>1. late \subseteq Lasting(chat, late)
    BY DEF Lasting
  <2>2. faults = {} => chat.subscribed = Range(screens') /\ chat.focused = Reading'
                       /\ Queued(chat, late) /\ Wired(chat, session, late)
    BY <1>1, <1>2 DEF Kept, SocketInv, Agreed
  <2>3. /\ chat' \in Chats /\ IsFiniteSet(chat'.subscribed) /\ session' \in Connections
        /\ late' \subseteq Rooms /\ faults' \subseteq {"stale queue", "opened twice"} /\ Agreed'
    BY <1>1, <1>6, <2>1, <2>2, BecomesKeeps DEF SocketInv, SocketTypes
  <2> QED BY <1>1, <1>4, <2>3 DEF SocketInv, SocketTypes
<1> QED BY <1>5, <1>6 DEF Typing

LEMMA SubmitKeeps == SocketInv /\ Submit => SocketInv'
<1> SUFFICES ASSUME SocketInv, Submit PROVE SocketInv'
  OBVIOUS
<1>1. /\ UNCHANGED <<client, signedIn, fresh, expiries, screens, covered, visible>>
      /\ Reading # None /\ Installs(Send(chat, Frm("typing", Top)), late)
  BY DEF Submit, Becomes
<1>2. Reading' = Reading /\ Reading = Top
  BY <1>1 DEF Reading, Top
<1>3. Top \in Rooms /\ late \in SUBSET Rooms /\ stops' \subseteq Rooms
  BY <1>1, <1>2, TopIs DEF Submit, SocketInv, SocketTypes
<1>4. /\ chat' \in Chats /\ IsFiniteSet(chat'.subscribed) /\ session' \in Connections
      /\ late' \subseteq Rooms /\ faults' \subseteq {"stale queue", "opened twice"} /\ Agreed'
  BY <1>1, <1>2, <1>3, SaysTypingKeeps
<1> QED BY <1>1, <1>3, <1>4 DEF SocketInv, SocketTypes

LEMMA StopTypingKeeps == ASSUME NEW r \in Rooms PROVE SocketInv /\ StopTyping(r) => SocketInv'
<1> SUFFICES ASSUME SocketInv, StopTyping(r) PROVE SocketInv'
  OBVIOUS
<1> DEFINE said == late \cup ({r} \ {Reading})
<1>1. /\ UNCHANGED <<client, signedIn, fresh, expiries, screens, covered, visible>>
      /\ Installs(Send(chat, Frm("typing", r)), said)
  BY DEF StopTyping
<1>2. Reading' = Reading
  BY <1>1 DEF Reading, Top
<1>3. /\ said \in SUBSET Rooms /\ stops' \subseteq Rooms
      /\ late \subseteq said /\ r \in {Reading} \cup said
  BY DEF StopTyping, SocketInv, SocketTypes
<1> HIDE DEF said
<1>4. /\ chat' \in Chats /\ IsFiniteSet(chat'.subscribed) /\ session' \in Connections
      /\ late' \subseteq Rooms /\ faults' \subseteq {"stale queue", "opened twice"} /\ Agreed'
  BY <1>1, <1>2, <1>3, SaysTypingKeeps
<1> QED BY <1>1, <1>3, <1>4 DEF SocketInv, SocketTypes

LEMMA OpenedKeeps == SocketInv /\ Opened => SocketInv'
<1> SUFFICES ASSUME SocketInv, Opened PROVE SocketInv'
  OBVIOUS
<1> DEFINE t == HandleOpen(chat)
           n == [NoSession EXCEPT !.known = fresh]
<1>1. chat \in Chats /\ IsFiniteSet(chat.subscribed) /\ fresh \in BOOLEAN
  BY DEF SocketInv, SocketTypes
<1>2. /\ UNCHANGED <<client, signedIn, fresh, expiries, screens, covered, visible, stops, late, faults>>
      /\ chat' = t /\ session' = n
  BY DEF Opened
<1>3. /\ t \in Chats /\ t.subscribed = chat.subscribed /\ t.focused = chat.focused
      /\ Queued(chat, late) /\ chat.focused \in chat.subscribed \cup {None} => Kept(t, n, late)
  BY <1>1, HandleOpenKeeps
<1>4. n \in Connections
  BY <1>1, NoSessionIs
<1> HIDE DEF t, n
<1>5. Reading' = Reading
  BY <1>2 DEF Reading, Top
<1>6. ASSUME faults = {} PROVE Kept(t, n, late)
  BY <1>3, <1>6, ReadingIs DEF SocketInv, SocketTypes, Agreed, Kept
<1>7. Agreed'
  <2> SUFFICES ASSUME faults' = {}
               PROVE  /\ IsInjective(screens') /\ chat'.subscribed = Range(screens')
                      /\ chat'.focused = Reading' /\ Kept(chat, session, late)'
    BY DEF Agreed
  <2>1. Kept(chat, session, late)'
    BY <1>2, <1>6 DEF Kept, NoneKept
  <2> QED BY <1>2, <1>3, <1>5, <2>1 DEF SocketInv, Agreed
<1> QED BY <1>1, <1>2, <1>3, <1>4, <1>7 DEF SocketInv, SocketTypes

LEMMA LostKeeps == SocketInv /\ Lost => SocketInv'
<1> SUFFICES ASSUME SocketInv, Lost PROVE SocketInv'
  OBVIOUS
<1> DEFINE t == HandleClose(chat)
<1>1. chat \in Chats /\ IsFiniteSet(chat.subscribed)
  BY DEF SocketInv, SocketTypes
<1>2. /\ UNCHANGED <<client, signedIn, fresh, expiries, screens, covered, visible, stops>>
      /\ Becomes(t)
  BY DEF Lost
<1>3. /\ t \in Chats /\ t.socket = "closed" /\ t.queue = chat.queue
      /\ t.subscribed = chat.subscribed /\ t.focused = chat.focused
  BY <1>1, HandleCloseIs
<1> HIDE DEF t
<1>4. Reading' = Reading
  BY <1>2 DEF Reading, Top
<1>5. faults = {} => t.subscribed = Range(screens') /\ t.focused = Reading' /\ Queued(t, late)
                     /\ Wired(t, session, late)
  BY <1>2, <1>3, <1>4 DEF Kept, Queued, Wired, SocketInv, Agreed
<1>7. late \subseteq Lasting(t, late)
  BY <1>3 DEF Lasting
<1>6. /\ chat' \in Chats /\ IsFiniteSet(chat'.subscribed) /\ session' \in Connections
      /\ late' \subseteq Rooms /\ faults' \subseteq {"stale queue", "opened twice"} /\ Agreed'
  BY <1>1, <1>2, <1>3, <1>5, <1>7, BecomesKeeps DEF SocketInv
<1> QED BY <1>2, <1>6 DEF SocketInv, SocketTypes

LEMMA RetryStepKeeps == SocketInv /\ Retry => SocketInv'
<1> SUFFICES ASSUME SocketInv, Retry PROVE SocketInv'
  OBVIOUS
<1> DEFINE t == Connect([chat EXCEPT !.timer = FALSE])
<1>1. chat \in Chats /\ IsFiniteSet(chat.subscribed)
  BY DEF SocketInv, SocketTypes
<1>2. /\ UNCHANGED <<client, signedIn, fresh, expiries, screens, covered, visible, stops>>
      /\ Becomes(t)
  BY DEF Retry
<1>3. /\ t \in Chats /\ t.subscribed = chat.subscribed /\ t.focused = chat.focused
      /\ Kept(chat, session, late) => Kept(t, session, late)
  BY <1>1, RetryKeeps
<1> HIDE DEF t
<1>4. Reading' = Reading
  BY <1>2 DEF Reading, Top
<1>5. faults = {} => t.subscribed = Range(screens') /\ t.focused = Reading' /\ Queued(t, late)
                     /\ Wired(t, session, late)
  BY <1>2, <1>3, <1>4 DEF Kept, SocketInv, Agreed
<1>7. late \subseteq Lasting(t, late)
  BY <1>3 DEF Lasting
<1>6. /\ chat' \in Chats /\ IsFiniteSet(chat'.subscribed) /\ session' \in Connections
      /\ late' \subseteq Rooms /\ faults' \subseteq {"stale queue", "opened twice"} /\ Agreed'
  BY <1>1, <1>2, <1>3, <1>5, <1>7, BecomesKeeps DEF SocketInv
<1> QED BY <1>2, <1>6 DEF SocketInv, SocketTypes

LEMMA ServeStepKeeps == SocketInv /\ Serve => SocketInv'
<1> SUFFICES ASSUME SocketInv, Serve PROVE SocketInv'
  OBVIOUS
<1> DEFINE t == [chat EXCEPT !.wire = Tail(chat.wire)]
           n == Handle(session, Head(chat.wire))
<1>1. chat \in Chats /\ IsFiniteSet(chat.subscribed) /\ session \in Connections
  BY DEF SocketInv, SocketTypes
<1>2. /\ UNCHANGED <<client, signedIn, fresh, expiries, screens, covered, visible, stops, late, faults>>
      /\ chat.wire # <<>> /\ chat' = t /\ session' = n
  BY DEF Serve
<1>3. /\ t \in Chats /\ t.subscribed = chat.subscribed /\ t.focused = chat.focused
      /\ n \in Connections
      /\ Kept(chat, session, late) => Kept(t, n, late)
  BY <1>1, <1>2, ServeKeeps
<1> HIDE DEF t, n
<1>4. Reading' = Reading
  BY <1>2 DEF Reading, Top
<1>5. Agreed'
  <2> SUFFICES ASSUME faults' = {}
               PROVE  /\ IsInjective(screens') /\ chat'.subscribed = Range(screens')
                      /\ chat'.focused = Reading' /\ Kept(chat, session, late)'
    BY DEF Agreed
  <2>1. Kept(chat, session, late)'
    BY <1>2, <1>3 DEF SocketInv, Agreed, Kept, NoneKept
  <2> QED BY <1>2, <1>3, <1>4, <2>1 DEF SocketInv, Agreed
<1> QED BY <1>1, <1>2, <1>3, <1>5 DEF SocketInv, SocketTypes

LEMMA SocketInvHolds == SocketSpec => []SocketInv
<1>1. SocketInit => SocketInv
  BY SocketStarts
<1>2. SocketInv /\ [SocketNext]_socketVars => SocketInv'
  <2> SUFFICES ASSUME SocketInv, [SocketNext]_socketVars PROVE SocketInv'
    OBVIOUS
  <2>1. CASE \E r \in Rooms : Open(r) \/ Push(r) \/ StopTyping(r)
    BY <2>1, OpenKeeps, PushKeeps, StopTypingKeeps
  <2>2. CASE UNCHANGED socketVars
    BY <2>2 DEF socketVars, SocketInv, SocketTypes, Agreed, Reading, Top, Kept, NoneKept
  <2> QED BY <2>1, <2>2, SignInKeeps, SignOutKeeps, ExpireKeeps, RefreshKeeps, LeaveKeeps,
             CoverKeeps, UncoverKeeps, TurnKeeps, TypingStepKeeps, SubmitKeeps, OpenedKeeps, LostKeeps,
             RetryStepKeeps, ServeStepKeeps DEF SocketNext
<1> QED BY <1>1, <1>2, PTL DEF SocketSpec

(* The server that has read everything holds what the screens show.        *)
LEMMA SettledAgrees ==
  ASSUME SocketInv, Settled, faults = {}
  PROVE  session.subs = Range(screens) /\ session.focus \in {Reading} \cup late
<1>1. /\ chat.subscribed = Range(screens) /\ chat.focused = Reading
      /\ Carries(<<>>, chat.subscribed, chat.focused, late, session) /\ PendingApart(session)
  BY DEF SocketInv, Agreed, Kept, Wired, Settled
<1>2. /\ session.subs \subseteq Rooms /\ chat.subscribed \subseteq Rooms
      /\ chat.focused \in Rooms \cup {None} /\ screens \in Seq(Rooms)
  BY DEF SocketInv, SocketTypes, Connections, Chats
<1>3. \A f : ~Has(<<>>, f)
  BY DEF Has
<1>4. session.subs = chat.subscribed
  BY <1>1, <1>2, <1>3 DEF Carries, Brings
<1>5. Minds(session, Reading, late)
  BY <1>1 DEF Carries, Silent
<1>6. session.focus \in {Reading} \cup late
  BY <1>1, <1>2, <1>4, <1>5, ReadingIs DEF Minds, PendingApart
<1> QED BY <1>1, <1>4, <1>6

(* Whatever frames a lost connection took with it, once the next one has   *)
(* settled the server sends the client the traffic of exactly the rooms    *)
(* its screens show (ChatSocket.handleOpen and the server's handle).       *)
THEOREM LostFramesAreResaid == SocketSpec => []ScreensAreHeard
<1>1. SocketInv => ScreensAreHeard
  <2> SUFFICES ASSUME SocketInv PROVE ScreensAreHeard
    OBVIOUS
  <2>1. SocketTypeOK
    BY DEF SocketInv, SocketTypes, SocketTypeOK, Chats, Connections
  <2> QED BY <2>1, SettledAgrees DEF ScreensAreHeard
<1> QED BY <1>1, SocketInvHolds, PTL

(* And the room it keeps quiet about is the one in front of the reader, or *)
(* one the web said typing stopped in when nobody looked at it any more    *)
(* (ChatSocket.focus, Session::attend and the composer's timer).           *)
THEOREM AttentionIsResaid == SocketSpec => []QuietAboutWhatIsRead
<1>1. SocketInv => QuietAboutWhatIsRead
  BY SettledAgrees DEF QuietAboutWhatIsRead
<1> QED BY <1>1, SocketInvHolds, PTL

=============================================================================
