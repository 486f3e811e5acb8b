---------------------------- MODULE AccountProofs ----------------------------
(* Machine-checked facts about an account's session and what is kept under *)
(* it: Sessions, for any number of accounts, sessions and requests in      *)
(* flight; ClientAuth, for either client, any accounts and any numbers of  *)
(* tokens and kills; and QueryCache, for any calls and any cases of the    *)
(* kind the clients have.                                                  *)
EXTENDS Sessions, ClientAuth, QueryCache, SequenceTheorems, TLAPS

(***************************************************************************)
(* Sessions: the server's rows.                                            *)
(***************************************************************************)
LEMMA AnyUserInUsers == AnyUser \in Users
BY SessionsAssumption DEF AnyUser

LEMMA InitTypeOK == Init => TypeOK
BY SessionsAssumption, AnyUserInUsers DEF Init, TypeOK, Idle

LEMMA NextTypeOK == TypeOK /\ [Next]_vars => TypeOK'
<1> SUFFICES ASSUME TypeOK, [Next]_vars PROVE TypeOK'
  OBVIOUS
<1> USE SessionsAssumption, AnyUserInUsers DEF TypeOK, Idle, Done, Goto
<1>1. ASSUME NEW r \in Requests, Start(r) PROVE TypeOK'
  BY <1>1 DEF Start, RefreshExpiry
<1>2. ASSUME NEW r \in Requests, RefreshReuse(r) PROVE TypeOK'
  BY <1>2 DEF RefreshReuse, SessionsOf
<1>3. ASSUME NEW r \in Requests, RefreshUser(r) PROVE TypeOK'
  BY <1>3 DEF RefreshUser
<1>4. ASSUME NEW r \in Requests, RefreshRevoke(r) PROVE TypeOK'
  BY <1>4 DEF RefreshRevoke
<1>5. ASSUME NEW r \in Requests, EndRevoke(r) PROVE TypeOK'
  BY <1>5 DEF EndRevoke
<1>6. ASSUME NEW r \in Requests, ForceDelete(r) \/ Drop(r) PROVE TypeOK'
  <2>1. CASE ForceDelete(r)
    BY <2>1 DEF ForceDelete
  <2>2. CASE Drop(r)
    BY <2>2 DEF Drop
  <2>3. QED
    BY <1>6, <2>1, <2>2
<1>7. ASSUME NEW r \in Requests, NEW u \in Users,
             Register(r, u) \/ Login(r, u) \/ ForceFind(r, u)
      PROVE TypeOK'
  BY <1>7 DEF Register, Login, ForceFind
<1>8. ASSUME NEW r \in Requests, NEW s \in Sessions,
             RefreshFind(r, s) \/ EndFind(r, s)
      PROVE TypeOK'
  BY <1>8 DEF RefreshFind, EndFind
<1>9. ASSUME NEW u \in Users, Suspend(u) \/ Reinstate(u) PROVE TypeOK'
  BY <1>9 DEF Suspend, Reinstate
<1>10. CASE PruneExpired
  BY <1>10 DEF PruneExpired
<1>11. CASE Tick
  BY <1>11 DEF Tick
<1>12. CASE UNCHANGED vars
  BY <1>12 DEF vars
<1>13. QED
  BY <1>1, <1>2, <1>3, <1>4, <1>5, <1>6, <1>7, <1>8, <1>9, <1>10, <1>11,
     <1>12 DEF Next

(***************************************************************************)
(* Every reachable state of the session tables and of the handlers over    *)
(* them is well typed.                                                     *)
(***************************************************************************)
THEOREM SessionsTypeCorrect == Spec => []TypeOK
BY InitTypeOK, NextTypeOK, PTL DEF Spec

-----------------------------------------------------------------------------
(* What a handler in flight knows of the session it holds: it was inserted *)
(* (and a row never returns to "free"), and a rotation that is about to    *)
(* start the new session has spent the old one.                            *)
HeldTokens ==
  \A r \in Requests :
    /\ req[r].pc \in {"reuse", "user", "revoke", "end"} =>
         req[r].tok \in Sessions /\ row[req[r].tok] # "free"
    /\ req[r].pc = "start" /\ req[r].tok # NoSession =>
         row[req[r].tok] \in {"revoked", "deleted"}

Inv == TypeOK /\ HeldTokens /\ ParentSpent

LEMMA InitInv == Init => Inv
BY InitTypeOK DEF Init, Inv, HeldTokens, ParentSpent, Idle

(* A row only moves forward: once spent, it stays spent; once inserted, it *)
(* is never free again.                                                    *)
RowsForward ==
  \A s \in Sessions :
    /\ row[s] \in {"revoked", "deleted"} => row'[s] \in {"revoked", "deleted"}
    /\ row[s] # "free" => row'[s] # "free"

LEMMA NextForward == TypeOK /\ [Next]_vars => RowsForward
<1> SUFFICES ASSUME TypeOK, [Next]_vars PROVE RowsForward
  OBVIOUS
<1> USE DEF TypeOK, RowsForward
<1>1. ASSUME NEW r \in Requests,
             Start(r) \/ RefreshReuse(r) \/ RefreshUser(r)
               \/ RefreshRevoke(r) \/ EndRevoke(r) \/ ForceDelete(r) \/ Drop(r)
      PROVE RowsForward
  BY <1>1 DEF Start, RefreshReuse, RefreshUser, RefreshRevoke, EndRevoke,
              ForceDelete, Drop, SessionsOf, Exists
<1>2. ASSUME NEW r \in Requests, NEW u \in Users,
             Register(r, u) \/ Login(r, u) \/ ForceFind(r, u)
      PROVE RowsForward
  BY <1>2 DEF Register, Login, ForceFind
<1>3. ASSUME NEW r \in Requests, NEW s \in Sessions,
             RefreshFind(r, s) \/ EndFind(r, s)
      PROVE RowsForward
  BY <1>3 DEF RefreshFind, EndFind
<1>4. ASSUME NEW u \in Users, Suspend(u) \/ Reinstate(u) PROVE RowsForward
  BY <1>4 DEF Suspend, Reinstate
<1>5. CASE PruneExpired
  BY <1>5 DEF PruneExpired, Prunable, Exists
<1>6. CASE Tick \/ UNCHANGED vars
  BY <1>6 DEF Tick, vars
<1>7. QED
  BY <1>1, <1>2, <1>3, <1>4, <1>5, <1>6 DEF Next

LEMMA NextHeldTokens == Inv /\ [Next]_vars => HeldTokens'
<1> SUFFICES ASSUME Inv, [Next]_vars, NEW q \in Requests
             PROVE  /\ req'[q].pc \in {"reuse", "user", "revoke", "end"} =>
                         req'[q].tok \in Sessions /\ row'[req'[q].tok] # "free"
                    /\ req'[q].pc = "start" /\ req'[q].tok # NoSession =>
                         row'[req'[q].tok] \in {"revoked", "deleted"}
  BY DEF HeldTokens
<1>0. RowsForward
  BY NextForward DEF Inv
<1> USE <1>0, SessionsAssumption
    DEF Inv, TypeOK, HeldTokens, RowsForward, Idle, Done, Goto
<1>1. ASSUME NEW r \in Requests,
             Start(r) \/ RefreshReuse(r) \/ EndRevoke(r) \/ ForceDelete(r)
               \/ Drop(r)
      PROVE req' = [req EXCEPT ![r] = Idle]
  BY <1>1 DEF Start, RefreshReuse, EndRevoke, ForceDelete, Drop
<1>2. ASSUME NEW r \in Requests, RefreshUser(r) \/ RefreshRevoke(r)
      PROVE  /\ req[r].pc \in {"user", "revoke"}
             /\ \/ req' = [req EXCEPT ![r] = Idle]
                \/ RefreshUser(r) /\ req' = [req EXCEPT ![r].pc = "revoke"]
                \/ RefreshRevoke(r) /\ req' = [req EXCEPT ![r].pc = "start"]
  BY <1>2 DEF RefreshUser, RefreshRevoke
<1>3. ASSUME NEW r \in Requests, RefreshRevoke(r)
      PROVE  row'[req[r].tok] \in {"revoked", "deleted"}
  BY <1>3 DEF RefreshRevoke
<1>4. ASSUME NEW r \in Requests, NEW u \in Users,
             Register(r, u) \/ Login(r, u) \/ ForceFind(r, u)
      PROVE  \E pc \in {"start", "force"} :
               req' = [req EXCEPT ![r] = [pc |-> pc, user |-> u, tok |-> NoSession]]
  BY <1>4 DEF Register, Login, ForceFind
<1>5. ASSUME NEW r \in Requests, NEW s \in Sessions,
             RefreshFind(r, s) \/ EndFind(r, s)
      PROVE  /\ row[s] # "free"
             /\ \E pc \in {"reuse", "user", "end"} :
                  req' = [req EXCEPT ![r] = [pc |-> pc, user |-> owner[s], tok |-> s]]
  BY <1>5 DEF RefreshFind, EndFind, Exists
<1>6. ASSUME Tick \/ PruneExpired \/ UNCHANGED vars
               \/ \E u \in Users : Suspend(u) \/ Reinstate(u)
      PROVE  req' = req
  BY <1>6 DEF Tick, PruneExpired, vars, Suspend, Reinstate
<1>7. QED
  <2>1. CASE \E r \in Requests :
               Start(r) \/ RefreshReuse(r) \/ EndRevoke(r) \/ ForceDelete(r)
                 \/ Drop(r)
    BY <2>1, <1>1
  <2>2. CASE \E r \in Requests : RefreshUser(r) \/ RefreshRevoke(r)
    <3>1. PICK r \in Requests : RefreshUser(r) \/ RefreshRevoke(r)
      BY <2>2
    <3>2. CASE req' = [req EXCEPT ![r] = Idle]
      BY <3>2
    <3>3. CASE RefreshUser(r) /\ req' = [req EXCEPT ![r].pc = "revoke"]
      <4>1. /\ req'[q].tok = req[q].tok
            /\ IF q = r THEN req[q].pc \in {"user", "revoke"} /\ req'[q].pc = "revoke"
               ELSE req'[q].pc = req[q].pc
        BY <3>3, <1>2
      <4>2. QED
        BY <4>1
    <3>4. CASE RefreshRevoke(r) /\ req' = [req EXCEPT ![r].pc = "start"]
      BY <3>4, <1>2, <1>3
    <3>5. QED
      BY <3>1, <3>2, <3>3, <3>4, <1>2
  <2>3. CASE \E r \in Requests, u \in Users : Register(r, u) \/ Login(r, u) \/ ForceFind(r, u)
    BY <2>3, <1>4
  <2>4. CASE \E r \in Requests, s \in Sessions : RefreshFind(r, s) \/ EndFind(r, s)
    <3>1. PICK r \in Requests, s \in Sessions : RefreshFind(r, s) \/ EndFind(r, s)
      BY <2>4
    <3>2. CASE q = r
      <4>1. req'[q].tok = s /\ req'[q].pc \in {"reuse", "user", "end"} /\ row[s] # "free"
        BY <3>1, <3>2, <1>5
      <4>2. QED
        BY <4>1
    <3>3. CASE q # r
      <4>1. req'[q] = req[q]
        BY <3>1, <3>3, <1>5
      <4>2. QED
        BY <4>1
    <3>4. QED
      BY <3>2, <3>3
  <2>5. CASE Tick \/ PruneExpired \/ UNCHANGED vars
               \/ \E u \in Users : Suspend(u) \/ Reinstate(u)
    BY <2>5, <1>6
  <2>6. QED
    BY <2>1, <2>2, <2>3, <2>4, <2>5 DEF Next

LEMMA NextParentSpent == Inv /\ [Next]_vars => ParentSpent'
<1> SUFFICES ASSUME Inv, [Next]_vars PROVE ParentSpent'
  OBVIOUS
<1>0. RowsForward
  BY NextForward DEF Inv
<1> USE <1>0, SessionsAssumption DEF Inv, TypeOK, ParentSpent, RowsForward
<1>1. ASSUME NEW r \in Requests, Start(r) PROVE ParentSpent'
  BY <1>1 DEF Start, HeldTokens
<1>2. ASSUME parent' = parent PROVE ParentSpent'
  BY <1>2
<1>3. ASSUME ~ \E r \in Requests : Start(r) PROVE parent' = parent
  BY <1>3 DEF Next, vars, RefreshReuse, RefreshUser, RefreshRevoke, EndRevoke,
     ForceDelete, Drop, Register, Login, ForceFind, RefreshFind, EndFind, Suspend,
     Reinstate, PruneExpired, Tick
<1>4. QED
  BY <1>1, <1>2, <1>3

(***************************************************************************)
(* Rotation spends the old session before the new one exists, with any     *)
(* number of refreshes, logouts, prunes and suspensions interleaved.       *)
(***************************************************************************)
THEOREM RotationSpendsParent == Spec => []ParentSpent
<1>1. Inv /\ [Next]_vars => Inv'
  BY NextTypeOK, NextHeldTokens, NextParentSpent DEF Inv
<1>2. Inv => ParentSpent
  BY DEF Inv
<1>3. QED
  BY InitInv, <1>1, <1>2, PTL DEF Spec


-----------------------------------------------------------------------------
(* Reuse detection.  What the sweep has ended stays ended (Swept).  A      *)
(* handler still carrying a swept token was in flight across the sweep     *)
(* (CarriedIsContended): a later one would have read the row as revoked.   *)
(* A session belongs to the account of the token it came from (Family), so *)
(* the sweep of the account reaches it.                                    *)
Swept == \A s \in burned : row[s] \in {"revoked", "deleted"}

CarriedIsContended ==
  \A r \in Requests :
    req[r].pc \in {"user", "revoke", "start"} /\ req[r].tok \in burned =>
      req[r].tok \in contended

Family ==
  /\ \A s \in Sessions :
       parent[s] # NoSession => row[s] # "free" /\ owner[s] = owner[parent[s]]
  /\ \A r \in Requests :
       req[r].pc \in {"user", "revoke", "start"} /\ req[r].tok # NoSession =>
         req[r].user = owner[req[r].tok]

TheftInv == Inv /\ Swept /\ CarriedIsContended /\ Family /\ TheftEndsFamily

(* A handler carries a token into the next state only if it carried it     *)
(* before, or has just read it live.                                       *)
Carries(q) == req[q].pc \in {"user", "revoke", "start"} /\ req[q].tok \in Sessions

CarriedBefore(q) ==
  Carries(q)' =>
    \/ Carries(q) /\ req'[q].tok = req[q].tok /\ req'[q].user = req[q].user
    \/ /\ RefreshFind(q, req'[q].tok)
       /\ row[req'[q].tok] = "live" /\ req'[q].user = owner[req'[q].tok]

LEMMA NextCarries ==
  ASSUME TypeOK, [Next]_vars, NEW q \in Requests
  PROVE  CarriedBefore(q)
<1> USE SessionsAssumption DEF TypeOK, CarriedBefore, Carries, Idle, Done, Goto
<1>1. ASSUME NEW r \in Requests,
             Start(r) \/ RefreshReuse(r) \/ EndRevoke(r) \/ ForceDelete(r)
               \/ Drop(r)
      PROVE  CarriedBefore(q)
  <2>1. req' = [req EXCEPT ![r] = Idle]
    BY <1>1 DEF Start, RefreshReuse, EndRevoke, ForceDelete, Drop
  <2>2. QED
    BY <2>1
<1>2. ASSUME NEW r \in Requests, RefreshUser(r) \/ RefreshRevoke(r)
      PROVE  CarriedBefore(q)
  <2>1. /\ req[r].pc \in {"user", "revoke"}
        /\ \/ req' = [req EXCEPT ![r] = Idle]
           \/ \E pc \in {"revoke", "start"} : req' = [req EXCEPT ![r].pc = pc]
    BY <1>2 DEF RefreshUser, RefreshRevoke
  <2>2. CASE req' = [req EXCEPT ![r] = Idle]
    BY <2>2
  <2>3. ASSUME NEW pc \in {"revoke", "start"}, req' = [req EXCEPT ![r].pc = pc]
        PROVE  CarriedBefore(q)
    BY <2>1, <2>3
  <2>4. QED
    BY <2>1, <2>2, <2>3
<1>3. ASSUME NEW r \in Requests, NEW u \in Users,
             Register(r, u) \/ Login(r, u) \/ ForceFind(r, u)
      PROVE  CarriedBefore(q)
  <2>1. PICK pc \in {"start", "force"} :
          req' = [req EXCEPT ![r] = [pc |-> pc, user |-> u, tok |-> NoSession]]
    BY <1>3 DEF Register, Login, ForceFind
  <2>2. QED
    BY <2>1
<1>4. ASSUME NEW r \in Requests, NEW s \in Sessions, EndFind(r, s)
      PROVE  CarriedBefore(q)
  BY <1>4 DEF EndFind
<1>5. ASSUME NEW r \in Requests, NEW s \in Sessions, RefreshFind(r, s)
      PROVE  CarriedBefore(q)
  <2>1. CASE q = r
    BY <1>5, <2>1 DEF RefreshFind, Exists
  <2>2. CASE q # r
    BY <1>5, <2>2 DEF RefreshFind
  <2>3. QED
    BY <2>1, <2>2
<1>6. ASSUME req' = req PROVE CarriedBefore(q)
  BY <1>6
<1>7. QED
  BY <1>1, <1>2, <1>3, <1>4, <1>5, <1>6
  DEF Next, vars, Suspend, Reinstate, PruneExpired, Tick

(* What the history of a sweep and of the families does in a step that     *)
(* neither sweeps nor starts a session: nothing, but for more contention.  *)
LEMMA QuietStep ==
  ASSUME TypeOK, [Next]_vars,
         ~ \E r \in Requests : Start(r) \/ RefreshReuse(r)
  PROVE  /\ burned' = burned /\ parent' = parent /\ owner' = owner
         /\ contended \subseteq contended'
BY DEF Next, vars, RefreshUser, RefreshRevoke, EndRevoke, ForceDelete, Drop, Register,
   Login, ForceFind, RefreshFind, EndFind, Suspend, Reinstate, PruneExpired, Tick

LEMMA NextTheft ==
  ASSUME TheftInv, [Next]_vars
  PROVE  Swept' /\ CarriedIsContended' /\ Family' /\ TheftEndsFamily'
<1>0. TypeOK /\ TypeOK' /\ RowsForward /\ HeldTokens /\ ParentSpent
  BY NextTypeOK, NextForward DEF TheftInv, Inv
<1>1. \A q \in Requests : CarriedBefore(q)
  BY <1>0, NextCarries
<1>2. CASE ~ \E r \in Requests : Start(r) \/ RefreshReuse(r)
  <2>1. /\ burned' = burned /\ parent' = parent /\ owner' = owner
        /\ contended \subseteq contended'
    BY <1>0, <1>2, QuietStep
  <2>2. Swept'
    BY <1>0, <2>1 DEF Swept, RowsForward, TheftInv, TypeOK
  <2>3. CarriedIsContended'
    <3> SUFFICES ASSUME NEW q \in Requests, Carries(q)', req'[q].tok \in burned
                 PROVE  req'[q].tok \in contended'
      BY <1>0, <2>1 DEF CarriedIsContended, Carries, TypeOK
    <3>1. row[req'[q].tok] # "live"
      BY DEF TheftInv, Swept
    <3>2. QED
      BY <3>1, <1>1, <2>1 DEF CarriedBefore, Carries, TheftInv, CarriedIsContended
  <2>4. Family'
    <3>1. ASSUME NEW s \in Sessions, parent'[s] # NoSession
          PROVE  row'[s] # "free" /\ owner'[s] = owner'[parent'[s]]
      BY <3>1, <1>0, <2>1 DEF TheftInv, Family, RowsForward
    <3>2. ASSUME NEW q \in Requests, req'[q].pc \in {"user", "revoke", "start"},
                 req'[q].tok # NoSession
          PROVE  req'[q].user = owner'[req'[q].tok]
      <4>1. Carries(q)'
        BY <3>2, <1>0 DEF TypeOK, Carries
      <4>2. QED
        BY <4>1, <1>1, <2>1, SessionsAssumption DEF CarriedBefore, Carries, TheftInv, Family
    <3>3. QED
      BY <3>1, <3>2 DEF Family
  <2>5. TheftEndsFamily'
    <3> SUFFICES ASSUME NEW c \in Sessions, c \notin burned,
                        parent[c] \in burned \ contended
                 PROVE  row'[c] # "live"
      BY <2>1, <2>2 DEF TheftEndsFamily, Swept
    <3>1. row[c] # "live"
      BY DEF TheftInv, TheftEndsFamily
    <3>2. row[c] # "free"
      BY <1>0, SessionsAssumption DEF TheftInv, Family, TypeOK
    <3>3. QED
      BY <3>1, <3>2, <1>0 DEF RowsForward, TypeOK
  <2>6. QED
    BY <2>2, <2>3, <2>4, <2>5
<1>3. ASSUME NEW r \in Requests, Start(r)
      PROVE  Swept' /\ CarriedIsContended' /\ Family' /\ TheftEndsFamily'
  <2>1. PICK s \in Sessions :
          /\ row[s] = "free"
          /\ row' = [row EXCEPT ![s] = "live"]
          /\ owner' = [owner EXCEPT ![s] = req[r].user]
          /\ parent' = [parent EXCEPT ![s] = req[r].tok]
    BY <1>3 DEF Start
  <2>2. burned' = burned /\ contended' = contended /\ req[r].pc = "start"
    BY <1>3 DEF Start
  <2>3. s \notin burned
    BY <2>1 DEF TheftInv, Swept
  <2>4. ASSUME NEW p \in Sessions, row[p] # "free" PROVE owner'[p] = owner[p]
    BY <2>1, <2>4, <1>0 DEF TypeOK
  <2>5. \A p \in Sessions : parent[p] # NoSession => parent[p] # s /\ p # s
    BY <1>0, <2>1 DEF ParentSpent, TheftInv, Family
  <2>6. Swept'
    BY <1>0, <2>2 DEF Swept, RowsForward, TheftInv, TypeOK
  <2>7. CarriedIsContended'
    <3> SUFFICES ASSUME NEW q \in Requests, Carries(q)', req'[q].tok \in burned
                 PROVE  req'[q].tok \in contended'
      BY <1>0, <2>2 DEF CarriedIsContended, Carries, TypeOK
    <3>1. row[req'[q].tok] # "live"
      BY DEF TheftInv, Swept
    <3>2. QED
      BY <3>1, <1>1, <2>2 DEF CarriedBefore, Carries, TheftInv, CarriedIsContended
  <2>8. Family'
    <3>1. ASSUME NEW c \in Sessions, parent'[c] # NoSession
          PROVE  row'[c] # "free" /\ owner'[c] = owner'[parent'[c]]
      <4>1. CASE c = s
        <5>1. /\ req[r].tok \in Sessions /\ req[r].user = owner[req[r].tok]
              /\ row[req[r].tok] # "free"
          BY <3>1, <4>1, <2>1, <2>2, <1>0 DEF TypeOK, TheftInv, Family, HeldTokens
        <5>2. QED
          BY <5>1, <4>1, <2>1, <2>4, <1>0 DEF TypeOK
      <4>2. CASE c # s
        <5>1. parent[c] \in Sessions /\ parent'[c] = parent[c] /\ row[c] # "free"
              /\ row[parent[c]] # "free" /\ owner[c] = owner[parent[c]]
          BY <3>1, <4>2, <2>1, <1>0 DEF TypeOK, TheftInv, Family, ParentSpent
        <5>2. QED
          BY <5>1, <2>4, <1>0 DEF RowsForward
      <4>3. QED
        BY <4>1, <4>2
    <3>2. ASSUME NEW q \in Requests, req'[q].pc \in {"user", "revoke", "start"},
                 req'[q].tok # NoSession
          PROVE  req'[q].user = owner'[req'[q].tok]
      <4>1. Carries(q)'
        BY <3>2, <1>0 DEF TypeOK, Carries
      <4>2. row[req'[q].tok] # "free" /\ req'[q].user = owner[req'[q].tok]
        BY <4>1, <1>1, <1>0, SessionsAssumption
        DEF CarriedBefore, Carries, TheftInv, Family, HeldTokens
      <4>3. QED
        BY <4>1, <4>2, <2>4 DEF Carries
    <3>3. QED
      BY <3>1, <3>2 DEF Family
  <2>9. TheftEndsFamily'
    <3> SUFFICES ASSUME NEW c \in Sessions,
                        c \in burned \/ parent'[c] \in burned \ contended
                 PROVE  row'[c] # "live"
      BY <2>2 DEF TheftEndsFamily
    <3>1. CASE c = s
      BY <3>1, <2>1, <2>2, <2>3, <1>0 DEF TheftInv, CarriedIsContended, TypeOK
    <3>2. CASE c # s
      BY <3>2, <2>1, <1>0 DEF TheftInv, TheftEndsFamily, TypeOK
    <3>3. QED
      BY <3>1, <3>2
  <2>10. QED
    BY <2>6, <2>7, <2>8, <2>9
<1>4. ASSUME NEW r \in Requests, RefreshReuse(r)
      PROVE  Swept' /\ CarriedIsContended' /\ Family' /\ TheftEndsFamily'
  <2> DEFINE ended == SessionsOf(req[r].user)
  <2>1. /\ row' = [s \in Sessions |-> IF s \in ended THEN "revoked" ELSE row[s]]
        /\ burned' = burned \union ended
        /\ contended' = contended \union {s \in ended : Rotating(s) # {}}
        /\ req' = [req EXCEPT ![r] = Idle]
        /\ owner' = owner /\ parent' = parent
    BY <1>4 DEF RefreshReuse, Done
  <2>2. \A s \in Sessions : s \in ended <=>
          row[s] \in {"live", "revoked"} /\ owner[s] = req[r].user
    BY DEF SessionsOf, Exists
  <2> HIDE DEF ended
  <2>3. Swept'
    BY <2>1, <2>2, <1>0 DEF Swept, TheftInv, TypeOK
  <2>4. \A q \in Requests : Carries(q)' =>
          /\ Carries(q) /\ req'[q] = req[q]
          /\ q \in Rotating(req[q].tok)
    BY <2>1, <1>0 DEF Carries, Idle, TypeOK, Rotating
  <2>5. CarriedIsContended'
    <3> SUFFICES ASSUME NEW q \in Requests, Carries(q)', req'[q].tok \in burned'
                 PROVE  req'[q].tok \in contended'
      BY <1>0 DEF CarriedIsContended, Carries, TypeOK
    <3>1. CASE req[q].tok \in burned
      BY <3>1, <2>1, <2>4 DEF TheftInv, CarriedIsContended, Carries
    <3>2. CASE req[q].tok \in ended
      BY <3>2, <2>1, <2>4
    <3>3. QED
      BY <3>1, <3>2, <2>1, <2>4
  <2>6. Family'
    <3>1. ASSUME NEW q \in Requests, req'[q].pc \in {"user", "revoke", "start"},
                 req'[q].tok # NoSession
          PROVE  req'[q].user = owner'[req'[q].tok]
      BY <3>1, <2>1, <2>4, <1>0 DEF TheftInv, Family, Carries, TypeOK
    <3>2. QED
      BY <3>1, <2>1, <1>0 DEF Family, TheftInv, RowsForward
  <2>7. TheftEndsFamily'
    <3> SUFFICES ASSUME NEW c \in Sessions, c \notin burned',
                        parent[c] \in burned' \ contended'
                 PROVE  row'[c] # "live"
      BY <2>1, <2>3 DEF TheftEndsFamily, Swept
    <3>1. CASE parent[c] \in burned
      BY <3>1, <2>1, <1>0 DEF TheftInv, TheftEndsFamily, TypeOK
    <3>2. CASE parent[c] \in ended
      <4>1. parent[c] \in Sessions
        BY <3>2, <1>0, <2>1 DEF TypeOK, SessionsOf, ended
      <4>2. owner[c] = req[r].user
        BY <3>2, <4>1, <2>2, SessionsAssumption DEF TheftInv, Family
      <4>3. QED
        BY <4>2, <2>1, <2>2, <1>0 DEF TypeOK
    <3>3. QED
      BY <3>1, <3>2, <2>1
  <2>8. QED
    BY <2>3, <2>5, <2>6, <2>7
<1>5. QED
  BY <1>2, <1>3, <1>4

(***************************************************************************)
(* Reuse detection ends the whole family of a stolen token: no session     *)
(* that existed when the theft was seen, and none rotated out of one later *)
(* or before, works again, except out of a rotation that was in flight     *)
(* across the sweep.                                                       *)
(***************************************************************************)
THEOREM TheftEndsTheFamily == Spec => []TheftEndsFamily
<1>1. Init => TheftInv
  BY InitInv, SessionsAssumption DEF Init, TheftInv, Swept, CarriedIsContended, Family,
     TheftEndsFamily, Idle
<1>2. TheftInv /\ [Next]_vars => TheftInv'
  BY NextTypeOK, NextHeldTokens, NextParentSpent, NextTheft DEF TheftInv, Inv
<1>3. TheftInv => TheftEndsFamily
  BY DEF TheftInv
<1>4. QED
  BY <1>1, <1>2, <1>3, PTL DEF Spec

-----------------------------------------------------------------------------
(* A token carried by at most one handler, and by none once it has a       *)
(* successor, unless it is contended.                                      *)
CarriedOnce ==
  \A p \in Sessions \ contended :
    /\ \A q, r \in Rotating(p) : q = r
    /\ (\E s \in Sessions : parent[s] = p) => Rotating(p) = {}

SpentInv == Inv /\ CarriedOnce /\ SpentOnce

LEMMA NextSpent ==
  ASSUME SpentInv, [Next]_vars
  PROVE  CarriedOnce' /\ SpentOnce'
<1>0. TypeOK /\ TypeOK' /\ ParentSpent /\ CarriedOnce
  BY NextTypeOK DEF SpentInv, Inv
<1>1. \A q \in Requests : CarriedBefore(q)
  BY <1>0, NextCarries
<1>2. /\ contended \subseteq contended'
      /\ \/ parent' = parent
         \/ \E r \in Requests : Start(r)
  <2>1. CASE \E r \in Requests : Start(r) \/ RefreshReuse(r)
    BY <2>1 DEF Start, RefreshReuse
  <2>2. QED
    BY <2>1, <1>0, QuietStep
<1>3. \A p \in Sessions, q \in Requests :
        q \in Rotating(p)' => q \in Rotating(p) \/ (RefreshFind(q, p) /\ row[p] = "live")
  BY <1>1, <1>0 DEF CarriedBefore, Carries, Rotating
<1>4. ASSUME NEW p \in Sessions \ contended', NEW q \in Requests,
             RefreshFind(q, p), row[p] = "live"
      PROVE  /\ Rotating(p) = {} /\ Rotating(p)' \subseteq {q}
             /\ \A s \in Sessions : parent'[s] # p
  <2>1. Rotating(p) = {} /\ parent' = parent /\ req[q].pc = "idle"
        /\ req' = [req EXCEPT ![q] = [pc |-> "user", user |-> owner[p], tok |-> p]]
    BY <1>4 DEF RefreshFind
  <2>2. \A s \in Sessions : parent'[s] # p
    BY <2>1, <1>0, <1>4, SessionsAssumption DEF ParentSpent
  <2>3. Rotating(p)' \subseteq {q}
    BY <2>1, <1>0 DEF Rotating, TypeOK
  <2>4. QED
    BY <2>1, <2>2, <2>3
<1>5. ASSUME NEW r \in Requests, Start(r), NEW s \in Sessions, NEW p \in Sessions \ contended',
             parent'[s] = p
      PROVE  /\ Rotating(p)' = {}
             /\ \A t \in Sessions : parent'[t] = p => t = s
  <2>1. PICK c \in Sessions : parent' = [parent EXCEPT ![c] = req[r].tok]
    BY <1>5 DEF Start
  <2>2. req[r].pc = "start" /\ req' = [req EXCEPT ![r] = Idle] /\ p \notin contended
    BY <1>5, <1>2 DEF Start, Done
  <2>3. \A q \in Requests : q \in Rotating(p)' => q \in Rotating(p) /\ q # r
    BY <2>2, <1>0 DEF Rotating, TypeOK, Idle
  <2>4. CASE req[r].tok = p
    <3>1. r \in Rotating(p) /\ Rotating(p) = {r}
      BY <2>2, <2>4, <1>0 DEF Rotating, CarriedOnce
    <3>2. \A t \in Sessions : parent[t] # p
      BY <3>1, <2>2, <1>0 DEF CarriedOnce
    <3>3. Rotating(p)' = {}
      BY <3>1, <2>3 DEF Rotating
    <3>4. QED
      BY <3>2, <3>3, <2>1, <1>5, <1>0 DEF TypeOK
  <2>5. CASE req[r].tok # p
    <3>1. s # c /\ parent[s] = p
      BY <2>5, <2>1, <1>5, <1>0 DEF TypeOK
    <3>2. Rotating(p)' = {}
      BY <3>1, <2>2, <2>3, <1>0 DEF CarriedOnce, Rotating
    <3>3. \A t \in Sessions : parent'[t] = p => t # c /\ parent[t] = p
      BY <2>5, <2>1, <1>0 DEF TypeOK
    <3>4. QED
      BY <3>1, <3>2, <3>3, <2>2, SessionsAssumption DEF SpentInv, SpentOnce
  <2>6. QED
    BY <2>4, <2>5
<1>6. CarriedOnce'
  <2> SUFFICES ASSUME NEW p \in Sessions \ contended'
               PROVE  /\ \A q, r \in Rotating(p)' : q = r
                      /\ (\E s \in Sessions : parent'[s] = p) => Rotating(p)' = {}
    BY DEF CarriedOnce
  <2>1. p \notin contended /\ Rotating(p)' \subseteq Requests
    BY <1>2 DEF Rotating
  <2>2. CASE \E q \in Requests : RefreshFind(q, p) /\ row[p] = "live"
    BY <2>2, <1>4
  <2>3. CASE ~ \E q \in Requests : RefreshFind(q, p) /\ row[p] = "live"
    <3>1. Rotating(p)' \subseteq Rotating(p)
      BY <2>3, <2>1, <1>3
    <3>2. CASE parent' = parent
      BY <3>1, <3>2, <2>1, <1>0 DEF CarriedOnce
    <3>3. CASE \E r \in Requests : Start(r)
      BY <3>1, <3>3, <2>1, <1>0, <1>5 DEF CarriedOnce
    <3>4. QED
      BY <3>2, <3>3, <1>2
  <2>4. QED
    BY <2>2, <2>3
<1>7. SpentOnce'
  <2> SUFFICES ASSUME NEW s \in Sessions, NEW t \in Sessions, s # t,
                      parent'[s] # NoSession, parent'[s] = parent'[t],
                      parent'[s] \notin contended'
               PROVE  FALSE
    BY DEF SpentOnce
  <2>1. parent'[s] \in Sessions \ contended'
    BY <1>0 DEF TypeOK
  <2>2. CASE parent' = parent
    BY <2>1, <2>2, <1>2 DEF SpentInv, SpentOnce
  <2>3. CASE \E r \in Requests : Start(r)
    BY <2>1, <2>3, <1>5
  <2>4. QED
    BY <2>2, <2>3, <1>2
<1>8. QED
  BY <1>6, <1>7

(***************************************************************************)
(* A refresh token is exchanged for one session at most, unless two        *)
(* refreshes of it, or a refresh and a sweep, overlapped: the only window  *)
(* is the one between reading the row and starting the successor.          *)
(***************************************************************************)
THEOREM RefreshTokenSpentOnce == Spec => []SpentOnce
<1>1. Init => SpentInv
  BY InitInv, SessionsAssumption DEF Init, SpentInv, CarriedOnce, SpentOnce, Rotating, Idle
<1>2. SpentInv /\ [Next]_vars => SpentInv'
  BY NextTypeOK, NextHeldTokens, NextParentSpent, NextSpent DEF SpentInv, Inv
<1>3. SpentInv => SpentOnce
  BY DEF SpentInv
<1>4. QED
  BY <1>1, <1>2, <1>3, PTL DEF Spec

-----------------------------------------------------------------------------
(* A handler past its reading of is_active: the account is active still,   *)
(* or was suspended over the handler's head.                               *)
Admitted(q) == req[q].pc \in {"revoke", "start"}

AdmittedOrOvertaken ==
  \A q \in Requests :
    Admitted(q) => account[req[q].user] = "active" \/ q \in overtaken

GateInv == TypeOK /\ AdmittedOrOvertaken

LEMMA NextAdmitted == GateInv /\ [Next]_vars => AdmittedOrOvertaken'
<1> SUFFICES ASSUME GateInv, [Next]_vars, NEW q \in Requests, Admitted(q)'
             PROVE  account'[req'[q].user] = "active" \/ q \in overtaken'
  BY DEF AdmittedOrOvertaken
<1> USE SessionsAssumption
    DEF GateInv, TypeOK, AdmittedOrOvertaken, Admitted, Idle, Done, Goto
<1>1. ASSUME NEW r \in Requests, Start(r) \/ Drop(r)
      PROVE  account'[req'[q].user] = "active" \/ q \in overtaken'
  <2>1. /\ req' = [req EXCEPT ![r] = Idle] /\ account' = account
        /\ overtaken' = overtaken \ {r}
    BY <1>1 DEF Start, Drop
  <2>2. QED
    BY <2>1
<1>2. ASSUME NEW r \in Requests, RefreshReuse(r) \/ EndRevoke(r) \/ ForceDelete(r)
      PROVE  account'[req'[q].user] = "active" \/ q \in overtaken'
  <2>1. req' = [req EXCEPT ![r] = Idle] /\ UNCHANGED <<account, overtaken>>
    BY <1>2 DEF RefreshReuse, EndRevoke, ForceDelete
  <2>2. QED
    BY <2>1
<1>3. ASSUME NEW r \in Requests, RefreshUser(r)
      PROVE  account'[req'[q].user] = "active" \/ q \in overtaken'
  <2>1. UNCHANGED <<account, overtaken>>
    BY <1>3 DEF RefreshUser
  <2>2. CASE q = r
    <3>1. account[req[r].user] = "active" /\ req'[q].user = req[r].user
      BY <1>3, <2>2 DEF RefreshUser
    <3>2. QED
      BY <2>1, <3>1
  <2>3. CASE q # r
    <3>1. req'[q] = req[q]
      BY <1>3, <2>3 DEF RefreshUser
    <3>2. QED
      BY <2>1, <3>1
  <2>4. QED
    BY <2>2, <2>3
<1>4. ASSUME NEW r \in Requests, RefreshRevoke(r)
      PROVE  account'[req'[q].user] = "active" \/ q \in overtaken'
  <2>1. /\ req' = [req EXCEPT ![r].pc = "start"] /\ req[r].pc = "revoke"
        /\ UNCHANGED <<account, overtaken>>
    BY <1>4 DEF RefreshRevoke
  <2>2. req'[q].user = req[q].user /\ Admitted(q)
    BY <2>1
  <2>3. QED
    BY <2>1, <2>2
<1>5. ASSUME NEW r \in Requests, NEW u \in Users, Register(r, u) \/ Login(r, u)
      PROVE  account'[req'[q].user] = "active" \/ q \in overtaken'
  <2>1. /\ account'[u] = "active" /\ overtaken' = overtaken
        /\ req' = [req EXCEPT ![r] = [pc |-> "start", user |-> u, tok |-> NoSession]]
        /\ \A v \in Users : account[v] = "active" => account'[v] = "active"
    BY <1>5 DEF Register, Login
  <2>2. QED
    BY <2>1
<1>6. ASSUME NEW r \in Requests,
             \/ \E u \in Users : ForceFind(r, u)
             \/ \E s \in Sessions : RefreshFind(r, s) \/ EndFind(r, s)
      PROVE  account'[req'[q].user] = "active" \/ q \in overtaken'
  <2>1. /\ UNCHANGED <<account, overtaken>>
        /\ q # r /\ req'[q] = req[q]
    BY <1>6 DEF ForceFind, RefreshFind, EndFind
  <2>2. QED
    BY <2>1
<1>7. ASSUME NEW u \in Users, Suspend(u) \/ Reinstate(u)
      PROVE  account'[req'[q].user] = "active" \/ q \in overtaken'
  BY <1>7 DEF Suspend, Reinstate
<1>8. CASE PruneExpired \/ Tick \/ UNCHANGED vars
  BY <1>8 DEF PruneExpired, Tick, vars
<1>9. QED
  BY <1>1, <1>2, <1>3, <1>4, <1>5, <1>6, <1>7, <1>8 DEF Next

(* Only the insert of Start makes a row live.                              *)
LEMMA OnlyStartInserts ==
  ASSUME TypeOK, [Next]_vars, NEW s \in Sessions, row[s] = "free", row'[s] = "live"
  PROVE  \E r \in Requests : Start(r) /\ owner'[s] = req[r].user
<1>1. \E r \in Requests : Start(r)
  BY DEF TypeOK, Next, vars, RefreshReuse, RefreshUser, RefreshRevoke, EndRevoke,
     ForceDelete, Drop, Register, Login, ForceFind, RefreshFind, EndFind, Suspend,
     Reinstate, PruneExpired, Prunable, Tick, SessionsOf, Exists
<1>2. QED
  BY <1>1 DEF TypeOK, Start

(***************************************************************************)
(* A suspended account stays out: while it is suspended, each handler that *)
(* had read is_active before lets at most one session in, and nothing else *)
(* makes one, with any number of handlers, suspensions and reinstatements. *)
(***************************************************************************)
THEOREM SuspensionHolds == Spec => SuspendedStayOut
<1> DEFINE A == \A s \in Sessions :
       row[s] = "free" /\ row'[s] = "live" /\ account[owner'[s]] # "active" =>
         \E r \in overtaken \ overtaken' : req[r].user = owner'[s]
<1>1. Init => GateInv
  BY InitTypeOK DEF Init, GateInv, AdmittedOrOvertaken, Admitted, Idle
<1>2. GateInv /\ [Next]_vars => GateInv'
  BY NextTypeOK, NextAdmitted DEF GateInv
<1>3. GateInv /\ [Next]_vars => [A]_vars
  <2> SUFFICES ASSUME GateInv, [Next]_vars, NEW s \in Sessions, row[s] = "free",
                      row'[s] = "live", account[owner'[s]] # "active"
               PROVE  \E r \in overtaken \ overtaken' : req[r].user = owner'[s]
    OBVIOUS
  <2>1. PICK r \in Requests : Start(r) /\ owner'[s] = req[r].user
    BY OnlyStartInserts DEF GateInv
  <2>2. r \in overtaken /\ r \notin overtaken'
    BY <2>1 DEF Start, GateInv, AdmittedOrOvertaken, Admitted
  <2>3. QED
    BY <2>1, <2>2
<1>4. QED
  BY <1>1, <1>2, <1>3, PTL DEF Spec, SuspendedStayOut

(***************************************************************************)
(* ClientAuth: the session a client holds, and the one that is stored.      *)
(***************************************************************************)
\* The session in memory is the one on the screens and the one a refresh
\* exchanges; storage holds it too, or the one about to take its place.
HeldIsShown ==
  /\ held # 0 => user # None \/ booting
  /\ user # None => held # 0 /\ ~booting /\ login = 0 /\ issued[held] = user
  /\ login # 0 => held = 0 /\ ~booting /\ stored = login
  /\ refresh.phase # "none" => held # 0 /\ refresh.token = held
  /\ refresh.phase \in {"answered", "saved"} =>
       refresh.next # 0 /\ issued[refresh.next] = issued[held]

HeldIsStored ==
  /\ held # 0 => stored = IF refresh.phase = "saved" THEN refresh.next ELSE held
  /\ held = 0 /\ login = 0 /\ ~booting => stored = 0

Consistent == "left mid-refresh" \notin faults => HeldIsShown /\ HeldIsStored

\* What the client has to present is valid, and no sign-out is about to end it.
Presentable(t) == t \in valid /\ t # ending

Unspent ==
  faults = {} =>
    /\ ~reused
    /\ held # 0 /\ refresh.phase \in {"none", "sent"} => Presentable(held)
    /\ refresh.phase \in {"answered", "saved"} => Presentable(refresh.next)
    /\ held = 0 /\ stored # 0 => Presentable(stored)

AuthInv == AuthTypeOK /\ Consistent /\ Unspent

(* Types in three parts, so that what an action leaves alone is cited once. *)
Slots == 0..Len(issued)

Refreshes ==
  [token : Slots, next : Slots, phase : {"none", "sent", "answered", "saved", "failed"}]

Server ==
  /\ issued \in Seq(Accounts) /\ Len(issued) <= MaxTokens
  /\ valid \subseteq Tokens /\ old \subseteq Tokens

SessionSlots ==
  /\ held \in Slots /\ stored \in Slots /\ login \in Slots /\ ending \in Slots
  /\ refresh \in Refreshes

Screens ==
  /\ client \in Clients /\ user \in Accounts \cup {None} /\ booting \in BOOLEAN
  /\ cache \subseteq Accounts /\ kills \in 0..MaxKills /\ reused \in BOOLEAN
  /\ faults \subseteq {"left mid-refresh", "killed mid-refresh"}

LEMMA Parts == AuthTypeOK <=> Server /\ SessionSlots /\ Screens
BY Zenon DEF AuthTypeOK, Server, SessionSlots, Screens, Slots, Refreshes

LEMMA PartsPrime == AuthTypeOK' <=> Server' /\ SessionSlots' /\ Screens'
BY Zenon DEF AuthTypeOK, Server, SessionSlots, Screens, Slots, Refreshes

(* A slot is empty or holds a token, and every token has an account.       *)
LEMMA SlotFacts ==
  ASSUME Server
  PROVE  /\ 0 \in Slots /\ Tokens \subseteq Slots
         /\ \A t \in Slots : t # 0 => t \in Tokens
         /\ \A t \in Tokens : t # 0 /\ issued[t] \in Accounts
<1>1. issued \in Seq(Accounts)
  BY DEF Server
<1>2. Len(issued) \in Nat
  BY <1>1
<1>3. \A t \in Tokens : issued[t] \in Accounts
  BY <1>1, ElementOfSeq DEF Tokens
<1>4. QED
  BY <1>2, <1>3 DEF Slots, Tokens

LEMMA SameSlots ==
  ASSUME issued' = issued
  PROVE  Slots' = Slots /\ Tokens' = Tokens /\ Refreshes' = Refreshes
BY DEF Slots, Tokens, Refreshes

(* A token the server issues is a new one, and the others keep their       *)
(* account.                                                                *)
LEMMA Issued ==
  ASSUME Server, NEW a \in Accounts, Issue(a)
  PROVE  /\ issued' \in Seq(Accounts) /\ Len(issued') <= MaxTokens
         /\ Len(issued') \in Tokens' /\ Len(issued') \in Slots'
         /\ Len(issued') # 0 /\ Len(issued') \notin Slots
         /\ Slots \subseteq Slots' /\ Tokens \subseteq Tokens'
         /\ issued'[Len(issued')] = a
         /\ \A t \in Tokens : issued'[t] = issued[t]
<1>1. issued \in Seq(Accounts) /\ issued' = Append(issued, a) /\ Len(issued) < MaxTokens
  BY DEF Server, Issue
<1>2. Len(issued) \in Nat /\ Len(issued') = Len(issued) + 1 /\ issued' \in Seq(Accounts)
  BY <1>1
<1>3. issued'[Len(issued')] = a /\ \A t \in 1..Len(issued) : issued'[t] = issued[t]
  BY <1>1, <1>2
<1>4. QED
  BY <1>1, <1>2, <1>3, BoundsAreNat DEF Slots, Tokens

LEMMA AuthStarts == AuthInit => AuthInv
<1> SUFFICES ASSUME AuthInit PROVE AuthInv
  OBVIOUS
<1>1. issued \in Seq(Accounts) /\ Len(issued) = 0
  BY DEF AuthInit
<1>2. Server
  BY <1>1, BoundsAreNat DEF AuthInit, Server
<1>3. SessionSlots
  BY <1>2, SlotFacts DEF AuthInit, SessionSlots, Refreshes, NoRefresh
<1>4. kills \in 0..MaxKills
  BY BoundsAreNat DEF AuthInit
<1>5. Screens
  BY <1>4 DEF AuthInit, Screens
<1>6. Consistent /\ Unspent
  BY DEF AuthInit, Consistent, Unspent, HeldIsShown, HeldIsStored, NoRefresh
<1>7. QED
  BY <1>2, <1>3, <1>5, <1>6, Parts DEF AuthInv

(***************************************************************************)
(* Types.                                                                   *)
(***************************************************************************)
(* The steps that issue nothing.                                           *)
LEMMA QuietTypes ==
  ASSUME Server, SessionSlots, Screens, AuthNext \/ UNCHANGED authVars, issued' = issued
  PROVE  Server' /\ SessionSlots' /\ Screens'
<1>1. Slots' = Slots /\ Tokens' = Tokens /\ Refreshes' = Refreshes
  BY SameSlots
<1>2. \A a : ~Issue(a)
  BY DEF Issue, Server
<1>3. ~RefreshServed /\ \A a \in Accounts : ~SignIn(a)
  BY <1>2 DEF RefreshServed, SignIn
<1>4. ASSUME Kill PROVE kills' \in 0..MaxKills
  <2>1. kills \in 0..MaxKills
    BY DEF Screens
  <2>2. kills < MaxKills /\ kills' = kills + 1
    BY <1>4 DEF Kill
  <2>3. QED
    BY <2>1, <2>2, BoundsAreNat
<1> USE <1>1, SlotFacts DEF Server, SessionSlots, Screens
<1>5. CASE Adopt
  BY <1>5 DEF Adopt, server, history
<1>6. CASE Logout
  BY <1>6 DEF Logout, SignOutLocally, server
<1>7. CASE LogoutSettles
  BY <1>7 DEF LogoutSettles, history
<1>8. CASE Expire
  BY <1>8 DEF Expire, server, history
<1>9. CASE GetToken
  BY <1>9 DEF GetToken, Refreshes, server, history
<1>10. CASE RefreshRefused
  BY <1>10 DEF RefreshRefused, Refreshes, history
<1>11. CASE RefreshLost
  BY <1>11 DEF RefreshLost, Refreshes, server, history
<1>12. CASE RefreshSaved
  BY <1>12 DEF RefreshSaved, Refreshes, server, history
<1>13. CASE RefreshDone
  BY <1>13 DEF RefreshDone, Refreshes, NoRefresh, server, history
<1>14. CASE RefreshFailed
  BY <1>14 DEF RefreshFailed, SignOutLocally, Forgotten, Refreshes, NoRefresh, server,
     history
<1>15. CASE Fetch
  BY <1>15 DEF Fetch, server, history
<1>16. CASE Kill
  BY <1>16, <1>4 DEF Kill, Refreshes, NoRefresh, server
<1>17. CASE Load
  BY <1>17 DEF Load, server, history
<1>18. CASE Restored
  BY <1>18 DEF Restored, server, history
<1>19. CASE NotRestored
  BY <1>19 DEF NotRestored, SignOutLocally, Forgotten, server, history
<1>20. CASE UNCHANGED authVars
  BY <1>20 DEF authVars
<1>21. QED
  BY <1>3, <1>5, <1>6, <1>7, <1>8, <1>9, <1>10, <1>11, <1>12, <1>13, <1>14, <1>15,
      <1>16,
     <1>17, <1>18, <1>19, <1>20 DEF AuthNext

LEMMA AuthTypesKept == AuthTypeOK /\ [AuthNext]_authVars => AuthTypeOK'
<1> SUFFICES ASSUME Server, SessionSlots, Screens, [AuthNext]_authVars
             PROVE  Server' /\ SessionSlots' /\ Screens'
  BY Parts, PartsPrime
<1>1. ASSUME NEW a \in Accounts, SignIn(a) PROVE Server' /\ SessionSlots' /\ Screens'
  <2>1. Issue(a)
    BY <1>1 DEF SignIn
  <2>2. Server'
    BY <1>1, <2>1, Issued DEF SignIn, Server
  <2>3. SessionSlots'
    BY <1>1, <2>1, Issued DEF SignIn, SessionSlots, Refreshes
  <2>4. Screens'
    BY <1>1 DEF SignIn, Screens, history
  <2>5. QED
    BY <2>2, <2>3, <2>4
<1>2. CASE RefreshServed
  <2>1. issued[refresh.token] \in Accounts /\ Issue(issued[refresh.token])
    BY <1>2, SlotFacts DEF RefreshServed, Server
  <2>2. Server'
    BY <1>2, <2>1, Issued DEF RefreshServed, Server
  <2>3. SessionSlots'
    BY <1>2, <2>1, Issued DEF RefreshServed, SessionSlots, Refreshes
  <2>4. Screens'
    BY <1>2 DEF RefreshServed, Screens, history
  <2>5. QED
    BY <2>2, <2>3, <2>4
<1>3. ASSUME \A a \in Accounts : ~SignIn(a), ~RefreshServed PROVE issued' = issued
  BY <1>3 DEF AuthNext, authVars, Adopt, Logout, LogoutSettles, Expire, GetToken,
     RefreshRefused, RefreshLost, RefreshSaved, RefreshDone, RefreshFailed, Fetch,
     Kill, Load, Restored, NotRestored, server
<1>4. QED
  BY <1>1, <1>2, <1>3, QuietTypes

(***************************************************************************)
(* Memory, screens and storage.                                             *)
(***************************************************************************)
LEMMA NextConsistent == AuthTypeOK /\ Consistent /\ [AuthNext]_authVars => Consistent'
<1> SUFFICES ASSUME Server, SessionSlots, Screens, Consistent, [AuthNext]_authVars,
                    "left mid-refresh" \notin faults'
             PROVE  HeldIsShown' /\ HeldIsStored'
  BY Parts DEF Consistent
<1> USE DEF HeldIsShown, HeldIsStored
<1>1. "left mid-refresh" \notin faults /\ faults \subseteq faults'
  BY DEF AuthNext, authVars, SignIn, Adopt, Logout, LogoutSettles, Expire, GetToken,
     RefreshServed, RefreshRefused, RefreshLost, RefreshSaved, RefreshDone,
     RefreshFailed, Fetch, Kill, Load, Restored, NotRestored, history
<1>2. HeldIsShown /\ HeldIsStored
  BY <1>1 DEF Consistent
<1>3. ASSUME NEW a \in Accounts, SignIn(a) PROVE HeldIsShown' /\ HeldIsStored'
  <2>1. Issue(a) /\ refresh.phase = "none" /\ held = 0
    BY <1>2, <1>3, NoneIsNobody DEF SignIn
  <2>2. QED
    BY <1>2, <1>3, <2>1, Issued, NoneIsNobody DEF SignIn, SessionSlots, Refreshes, history
<1>4. CASE Adopt
  BY <1>2, <1>4, SlotFacts, NoneIsNobody DEF Adopt, SessionSlots, Refreshes, server, history
<1>5. CASE Logout
  <2>1. refresh.phase = "none"
    BY <1>1, <1>5 DEF Logout
  <2>2. QED
    BY <1>2, <1>5, <2>1 DEF Logout, SignOutLocally, server
<1>6. CASE LogoutSettles
  BY <1>2, <1>6 DEF LogoutSettles, history
<1>7. CASE Expire
  BY <1>2, <1>7 DEF Expire, server, history
<1>8. CASE Fetch
  BY <1>2, <1>8 DEF Fetch, server, history
<1>9. CASE RefreshRefused
  BY <1>2, <1>9 DEF RefreshRefused, SessionSlots, Refreshes, history
<1>10. CASE RefreshLost
  BY <1>2, <1>10 DEF RefreshLost, SessionSlots, Refreshes, server, history
<1>11. CASE GetToken
  BY <1>2, <1>11, SlotFacts DEF GetToken, Server, server, history
<1>12. CASE RefreshServed
  <2>1. /\ Issue(issued[refresh.token]) /\ issued[refresh.token] \in Accounts
        /\ held \in Tokens /\ refresh.token = held
    BY <1>2, <1>12, SlotFacts DEF RefreshServed, SessionSlots, Refreshes
  <2>2. issued'[refresh'.next] = issued[held] /\ issued'[held] = issued[held]
    BY <1>12, <2>1, Issued DEF RefreshServed, SessionSlots, Refreshes
  <2>3. QED
    BY <1>2, <1>12, <2>1, <2>2, Issued DEF RefreshServed, SessionSlots, Refreshes, history
<1>13. CASE RefreshSaved
  BY <1>2, <1>13 DEF RefreshSaved, SessionSlots, Refreshes, server, history
<1>14. CASE RefreshDone
  BY <1>2, <1>14 DEF RefreshDone, NoRefresh, SessionSlots, Refreshes, server, history
<1>15. CASE RefreshFailed
  BY <1>2, <1>15 DEF RefreshFailed, SignOutLocally, NoRefresh, server, history
<1>16. CASE NotRestored
  BY <1>2, <1>16, SlotFacts DEF NotRestored, SignOutLocally, server, history
<1>17. CASE Kill
  BY <1>2, <1>17 DEF Kill, NoRefresh, server
<1>18. CASE Load
  BY <1>2, <1>18 DEF Load, server, history
<1>19. CASE Restored
  BY <1>2, <1>19, SlotFacts, NoneIsNobody DEF Restored, server, history
<1>20. CASE UNCHANGED authVars
  BY <1>2, <1>20 DEF authVars
<1>21. QED
  BY <1>3, <1>4, <1>5, <1>6, <1>11, <1>12, <1>13, <1>14, <1>15, <1>17, <1>18, <1>19,
     <1>20, <1>7, <1>9, <1>10, <1>16, <1>8 DEF AuthNext

(***************************************************************************)
(* What is held has not been spent.                                         *)
(***************************************************************************)
LEMMA NextUnspent == AuthTypeOK /\ Consistent /\ Unspent /\ [AuthNext]_authVars => Unspent'
<1> SUFFICES ASSUME Server, SessionSlots, Screens, Consistent, Unspent, [AuthNext]_authVars,
    faults' = {}
             PROVE  Unspent'
  BY Parts DEF Unspent
<1>1. faults = {}
  BY DEF AuthNext, authVars, SignIn, Adopt, Logout, LogoutSettles, Expire, GetToken,
     RefreshServed, RefreshRefused, RefreshLost, RefreshSaved, RefreshDone,
     RefreshFailed, Fetch, Kill, Load, Restored, NotRestored, history
<1>2. HeldIsShown /\ HeldIsStored
  BY <1>1 DEF Consistent
<1> USE DEF Unspent, Presentable
<1>3. ASSUME NEW a \in Accounts, SignIn(a) PROVE Unspent'
  <2>1. Issue(a) /\ refresh.phase = "none" /\ held = 0
    BY <1>2, <1>3, NoneIsNobody DEF SignIn, HeldIsShown
  <2>2. Len(issued') # ending /\ Len(issued') # 0
    BY <2>1, Issued DEF SessionSlots
  <2>3. QED
    BY <1>1, <1>3, <2>1, <2>2 DEF SignIn, SessionSlots, Refreshes
<1>4. CASE Adopt
  BY <1>1, <1>2, <1>4 DEF Adopt, server, HeldIsShown, HeldIsStored
<1>5. CASE Logout
  <2>1. refresh.phase = "none"
    BY <1>1, <1>5 DEF Logout
  <2>2. QED
    BY <1>1, <1>5, <2>1 DEF Logout, SignOutLocally, server
<1>6. CASE LogoutSettles
  <2>1. \A t : Presentable(t) /\ t # 0 => Presentable(t)'
    BY <1>6 DEF LogoutSettles
  <2>2. QED
    BY <1>1, <1>2, <1>6, <2>1 DEF LogoutSettles, HeldIsShown
<1>7. CASE Expire \/ GetToken \/ Fetch
  BY <1>1, <1>7 DEF Expire, GetToken, Fetch, SessionSlots, Refreshes, server, history
<1>8. CASE RefreshServed
  <2>1. /\ Issue(issued[refresh.token]) /\ issued[refresh.token] \in Accounts
        /\ held # 0
    BY <1>2, <1>8, SlotFacts DEF RefreshServed, SessionSlots, Refreshes, HeldIsShown
  <2>2. Len(issued') # ending
    BY <2>1, Issued DEF SessionSlots
  <2>3. QED
    BY <1>1, <1>8, <2>1, <2>2 DEF RefreshServed, SessionSlots, Refreshes
<1>9. ~RefreshRefused
  BY <1>1, <1>2 DEF RefreshRefused, HeldIsShown
<1>10. CASE RefreshLost \/ RefreshSaved
  BY <1>1, <1>2, <1>10 DEF RefreshLost, RefreshSaved, SessionSlots, Refreshes,
      HeldIsShown, server
<1>11. CASE RefreshDone
  BY <1>1, <1>2, <1>11 DEF RefreshDone, NoRefresh, server, HeldIsShown
<1>12. CASE RefreshFailed \/ NotRestored
  BY <1>1, <1>12 DEF RefreshFailed, NotRestored, SignOutLocally, NoRefresh, server
<1>13. CASE Kill
  <2>1. refresh.phase = "none"
    BY <1>1, <1>13 DEF Kill
  <2>2. stored # 0 => stored \in valid
    BY <1>1, <1>2, <2>1 DEF HeldIsStored
  <2>3. QED
    BY <1>1, <1>13, <2>2 DEF Kill, NoRefresh, server
<1>14. CASE Load
  BY <1>1, <1>2, <1>14 DEF Load, server, HeldIsShown
<1>15. CASE Restored
  BY <1>1, <1>15 DEF Restored, server
<1>16. CASE UNCHANGED authVars
  BY <1>1, <1>16 DEF authVars
<1>17. QED
  BY <1>3, <1>4, <1>5, <1>6, <1>7, <1>8, <1>9, <1>10, <1>11, <1>12, <1>13, <1>14,
     <1>15, <1>16 DEF AuthNext

LEMMA Inductive == AuthInv /\ [AuthNext]_authVars => AuthInv'
BY AuthTypesKept, NextConsistent, NextUnspent DEF AuthInv

(***************************************************************************)
(* The state keeps its types whatever is answered, lost or killed.          *)
(***************************************************************************)
THEOREM ClientTypeCorrect == AuthSpec => []AuthTypeOK
<1>1. AuthInv => AuthTypeOK
  BY DEF AuthInv
<1>2. QED
  BY AuthStarts, Inductive, <1>1, PTL DEF AuthSpec

(***************************************************************************)
(* The single flight: however requests, sign-outs, sign-ins and lost        *)
(* answers interleave, getToken presents no refresh token twice unless the  *)
(* app was killed, or somebody signed out, with an exchange under way.      *)
(***************************************************************************)
THEOREM SingleFlight == AuthSpec => []TokenSpentOnce
<1>1. AuthInv => TokenSpentOnce
  BY DEF AuthInv, Unspent, TokenSpentOnce
<1>2. QED
  BY AuthStarts, Inductive, <1>1, PTL DEF AuthSpec

(***************************************************************************)
(* The account on the screens is the one whose token is sent, and storage   *)
(* holds the session a reload should restore (persist, saveSession), unless *)
(* somebody signed out with a refresh under way.                            *)
(***************************************************************************)
THEOREM ShownAccountIsHeld == AuthSpec => []ShownIsHeld
<1>1. AuthInv => ShownIsHeld
  BY DEF AuthInv, Consistent, HeldIsShown, HeldIsStored, ShownIsHeld
<1>2. QED
  BY AuthStarts, Inductive, <1>1, PTL DEF AuthSpec

(***************************************************************************)
(* QueryCache: the entry a view draws, while its user acts.                 *)
(***************************************************************************)
\* A call that will end, and the calls that were ever sent.
Pending(c) == calls[c] \in {"sent", "applied", "refused"}
Begun == {c \in Calls : calls[c] \notin {"idle", "asking"}}

\* What an answer may hold: it agrees with the server on every call that has ended.
Agrees(answer) == \A c \in Calls : calls[c] = "done" => (c \in answer <=> c \in applied)

\* What the server and the user's calls say of each other, and of what was answered
\* or patched in: a call that was not sent is nowhere.
Books ==
  /\ \A c \in Calls :
       calls[c] \in {"idle", "asking", "sent", "refused"} => c \notin applied
  /\ \A c \in Calls : calls[c] = "applied" => c \in applied
  /\ \A c \in Calls : seen[c] \subseteq applied /\ before[c] \subseteq Begun
  /\ entry.got \subseteq applied
  /\ entry.data \subseteq Begun
  /\ ~rules.optimistic => entry.data \subseteq applied

\* An answer on its way back is right about every call that has ended, or a call
\* that ended since has met it.
AnswerAgrees ==
  ~case.gap /\ entry.fetch = "read" /\ ~entry.overtaken => Agrees(entry.got)

\* What the entry lacks is being fetched, was refused, waits for a call that will
\* mark the entry however it ends, or for the next mount.
Coming ==
  \/ entry.fetch # "none"
  \/ entry.failed
  \/ rules.settles /\ \E c \in Calls : Pending(c)
  \/ entry.invalid /\ ~mounted

\* So an entry that was answered is right about every call that has ended, or will be.
EntryAgrees ==
  ~case.gap /\ entry.has /\ ~entry.overtaken => Agrees(entry.data) \/ Coming

CacheInv == CacheTypeOK /\ Books /\ AnswerAgrees /\ EntryAgrees

----------------------------------------------------------------------------
LEMMA RefetchedIsFetched ==
  ASSUME NEW e \in EntryType
  PROVE  LET f == Refetch(e) IN
         /\ f \in EntryType /\ f.has = e.has /\ f.data = e.data
         /\ f.got \subseteq e.got /\ f.fetch # "none"
         /\ f.fetch = "read" => f.overtaken
         /\ f.overtaken => e.overtaken \/ e.fetch = "read"
BY DEF Refetch, Asking, Overtaking, EntryType

LEMMA InvalidatedIsMarked ==
  ASSUME NEW e \in EntryType, NEW drawn \in BOOLEAN
  PROVE  LET f == Invalidate(e, drawn) IN
         /\ f \in EntryType /\ f.has = e.has /\ f.data = e.data
         /\ f.got \subseteq e.got
         /\ drawn => f.fetch # "none"
         /\ ~drawn => f.invalid
         /\ f.fetch = "read" => f.overtaken
<1> DEFINE marked == [e EXCEPT !.invalid = TRUE]
<1>1. /\ marked \in EntryType /\ marked.has = e.has /\ marked.data = e.data
      /\ marked.got = e.got /\ marked.invalid
  BY DEF EntryType
<1>2. Invalidate(e, drawn) =
        IF drawn THEN Refetch(marked) ELSE Overtaking(marked)
  BY DEF Invalidate
<1> HIDE DEF marked
<1>3. CASE drawn
  BY <1>1, <1>2, <1>3, RefetchedIsFetched
<1>4. CASE ~drawn
  BY <1>1, <1>2, <1>4 DEF Overtaking, EntryType
<1> QED
  BY <1>3, <1>4

LEMMA SuccessIsComing ==
  ASSUME CacheInv, NEW c \in Calls, calls[c] = "applied"
  PROVE  LET f == OnSuccess(entry, c) IN
         /\ f \in EntryType
         /\ f.got \subseteq applied /\ f.data \subseteq Begun
         /\ ~rules.optimistic => f.data \subseteq applied
         /\ Reached(rules) =>
              /\ f.fetch = "read" => f.overtaken
              /\ f.has => f.fetch # "none" \/ (f.invalid /\ ~mounted)
<1> DEFINE removed == IF rules.removes THEN Blank ELSE entry
           written == IF rules.overwrites
                      THEN Overwrite(removed, seen[c]) ELSE removed
           patched == IF rules.patches THEN Patch(written, c) ELSE written
           marked  == IF rules.invalidates \/ rules.settles
                      THEN Invalidate(patched, mounted) ELSE patched
           Kept(e) == /\ e \in EntryType
                      /\ e.got \subseteq applied /\ e.data \subseteq Begun
                      /\ ~rules.optimistic => e.data \subseteq applied
<1>0. /\ rules \in CaseType
      /\ mounted \in BOOLEAN /\ entry \in EntryType
      /\ seen[c] \subseteq applied /\ c \in applied /\ applied \subseteq Begun
      /\ c \in Begun /\ applied \subseteq Calls
  BY CasesAssumption DEF CacheInv, CacheTypeOK, Books, Begun, rules, Stages
<1>1. Kept(removed) /\ (rules.removes => ~removed.has /\ removed.fetch = "none")
  BY <1>0 DEF CacheInv, Books, Blank, EntryType
<1>2. Kept(written) /\ (~rules.overwrites => written = removed)
                    /\ (rules.overwrites => written.has)
  <2> HIDE DEF removed
  <2> QED
    BY <1>0, <1>1 DEF Overwrite, EntryType
<1>3. Kept(patched) /\ (~written.has => patched = written)
                    /\ (written.has => patched.has)
  <2> HIDE DEF removed, written
  <2> QED
    BY <1>0, <1>2 DEF Patch, Overwrite, EntryType
<1> HIDE DEF removed, written, patched
<1>4. /\ Kept(marked) /\ marked.has = patched.has
      /\ rules.invalidates \/ rules.settles =>
           /\ marked.fetch = "read" => marked.overtaken
           /\ marked.fetch # "none" \/ (marked.invalid /\ ~mounted)
      /\ ~(rules.invalidates \/ rules.settles) => marked = patched
  BY <1>0, <1>3, InvalidatedIsMarked
<1>5. OnSuccess(entry, c) =
        IF rules.refreshes THEN Refetch(marked) ELSE marked
  BY DEF OnSuccess, removed, written, patched
<1> HIDE DEF marked
<1>6. CASE rules.refreshes
  BY <1>4, <1>5, <1>6, RefetchedIsFetched
<1>7. CASE ~rules.refreshes
  <2>1. OnSuccess(entry, c) = marked
    BY <1>5, <1>7
  <2>2. CASE rules.invalidates \/ rules.settles
    BY <1>4, <2>1, <2>2
  <2>3. CASE ~(rules.invalidates \/ rules.settles)
    <3>1. Reached(rules) => rules.removes /\ ~rules.overwrites
      BY <1>7, <2>3 DEF Reached
    <3> QED
      BY <1>1, <1>2, <1>3, <1>4, <2>1, <2>3, <3>1
  <2> QED
    BY <2>2, <2>3
<1> QED
  BY <1>6, <1>7

LEMMA GapFree == CacheInv /\ ~case.gap => Reached(rules)
BY CasesAssumption DEF CacheInv, CacheTypeOK, rules

----------------------------------------------------------------------------
LEMMA CacheStarts == CacheInit => CacheInv
BY DEF CacheInit, CacheInv, CacheTypeOK, Books, AnswerAgrees, EntryAgrees,
       Coming, Asking, Blank, EntryType, Stages

LEMMA SendStep ==
  ASSUME CacheInv, NEW c \in Calls, calls[c] \in {"idle", "asking"}, Send(c),
         UNCHANGED <<case, applied, seen, mounted>>
  PROVE  CacheInv'
<1>0. CacheTypeOK /\ Books /\ AnswerAgrees /\ EntryAgrees
  BY DEF CacheInv
<1>1. Begun' = Begun \cup {c} /\ rules' = rules
  BY <1>0 DEF Begun, Send, CacheTypeOK, rules
<1>2. CASE rules.optimistic
  <2>0. rules.optimistic
    BY <1>2
  <2>1. /\ entry.has /\ before' = [before EXCEPT ![c] = entry.data]
        /\ entry' = [Cancel(entry) EXCEPT !.data = entry.data \cup {c}]
    BY <2>0 DEF Send, OnMutate
  <2>2. /\ entry' \in EntryType /\ entry'.fetch = "none" /\ entry'.got = {}
        /\ entry'.data = entry.data \cup {c} /\ entry'.has = entry.has
    BY <1>0, <2>1 DEF CacheTypeOK, Cancel, EntryType
  <2>3. CacheTypeOK'
    BY <1>0, <2>1, <2>2 DEF CacheTypeOK, Send, Stages, EntryType
  <2>4. Books'
    BY <1>0, <1>1, <2>0, <2>1, <2>2 DEF Books, CacheTypeOK, Send
  <2>5. ~case.gap => rules.settles
    BY <2>0, GapFree DEF Reached
  <2> QED
    BY <1>0, <1>1, <2>2, <2>3, <2>4, <2>5
    DEF CacheInv, AnswerAgrees, EntryAgrees, Coming, Pending, Send, CacheTypeOK
<1>3. CASE ~rules.optimistic
  <2>1. UNCHANGED <<before, entry>>
    BY <1>3 DEF Send, OnMutate
  <2> QED
    BY <1>0, <1>1, <2>1
    DEF CacheInv, CacheTypeOK, Books, AnswerAgrees, EntryAgrees, Coming,
        Pending, Agrees, Send, Stages
<1> QED
  BY <1>2, <1>3

LEMMA ServeStep ==
  ASSUME CacheInv, NEW c \in Calls, Serve(c)
  PROVE  CacheInv'
<1>0. CacheTypeOK /\ Books /\ AnswerAgrees /\ EntryAgrees
  BY DEF CacheInv
<1>1. Begun' = Begun /\ rules' = rules /\ applied \subseteq applied'
  BY <1>0 DEF Begun, Serve, CacheTypeOK, rules
<1>2. CacheTypeOK'
  BY <1>0 DEF CacheTypeOK, Serve, Stages
<1>3. Books'
  BY <1>0, <1>1 DEF Books, CacheTypeOK, Serve
<1>4. \A D : Agrees(D) => Agrees(D)'
  BY <1>0 DEF Agrees, Serve, CacheTypeOK
<1>5. Coming => Coming'
  BY <1>0, <1>1 DEF Coming, Pending, Serve, CacheTypeOK
<1> QED
  BY <1>0, <1>2, <1>3, <1>4, <1>5
  DEF CacheInv, AnswerAgrees, EntryAgrees, Serve

LEMMA RefuseStep ==
  ASSUME CacheInv, NEW c \in Calls, Refuse(c)
  PROVE  CacheInv'
<1>0. CacheTypeOK /\ Books /\ AnswerAgrees /\ EntryAgrees
  BY DEF CacheInv
<1>1. Begun' = Begun /\ rules' = rules
  BY <1>0 DEF Begun, Refuse, CacheTypeOK, rules
<1>2. CacheTypeOK'
  BY <1>0 DEF CacheTypeOK, Refuse, Stages
<1>3. Books'
  BY <1>0, <1>1 DEF Books, CacheTypeOK, Refuse
<1>4. \A D : Agrees(D) => Agrees(D)'
  BY <1>0 DEF Agrees, Refuse, CacheTypeOK
<1>5. Coming => Coming'
  BY <1>0, <1>1 DEF Coming, Pending, Refuse, CacheTypeOK
<1> QED
  BY <1>0, <1>2, <1>3, <1>4, <1>5
  DEF CacheInv, AnswerAgrees, EntryAgrees, Refuse

LEMMA SucceedStep ==
  ASSUME CacheInv, NEW c \in Calls, Succeed(c)
  PROVE  CacheInv'
<1>0. CacheTypeOK /\ Books /\ calls[c] = "applied"
  BY DEF CacheInv, Succeed
<1>1. Begun' = Begun /\ rules' = rules
  BY <1>0 DEF Begun, Succeed, CacheTypeOK, rules
<1>2. /\ entry' \in EntryType
      /\ entry'.got \subseteq applied /\ entry'.data \subseteq Begun
      /\ ~rules.optimistic => entry'.data \subseteq applied
      /\ Reached(rules) =>
           /\ entry'.fetch = "read" => entry'.overtaken
           /\ entry'.has => entry'.fetch # "none" \/ (entry'.invalid /\ ~mounted)
  BY <1>0, SuccessIsComing DEF Succeed
<1>3. CacheTypeOK'
  BY <1>0, <1>2 DEF CacheTypeOK, Succeed, Stages
<1>4. Books'
  BY <1>0, <1>1, <1>2 DEF Books, CacheTypeOK, Succeed
<1>5. ~case.gap => Reached(rules)
  BY GapFree
<1> QED
  BY <1>2, <1>3, <1>4, <1>5
  DEF CacheInv, AnswerAgrees, EntryAgrees, Coming, Succeed

LEMMA FailStep ==
  ASSUME CacheInv, NEW c \in Calls, Fail(c)
  PROVE  CacheInv'
<1>0. /\ CacheTypeOK /\ Books /\ AnswerAgrees /\ EntryAgrees /\ calls[c] = "refused"
      /\ entry \in EntryType /\ mounted \in BOOLEAN /\ c \notin applied
  BY DEF CacheInv, Fail, CacheTypeOK, Books
<1>1. Begun' = Begun /\ rules' = rules
  BY <1>0 DEF Begun, Fail, CacheTypeOK, rules
<1> DEFINE restored == IF rules.optimistic
                       THEN Overwrite(entry, before[c]) ELSE entry
<1>2. /\ restored \in EntryType /\ restored.got \subseteq applied
      /\ restored.data \subseteq Begun
      /\ ~rules.optimistic => restored = entry
  BY <1>0 DEF Overwrite, EntryType, CacheTypeOK, Books
<1>3. entry' = IF rules.settles
               THEN Invalidate(restored, mounted) ELSE restored
  BY DEF Fail, OnError
<1> HIDE DEF restored
<1>4. /\ entry' \in EntryType /\ entry'.got \subseteq applied
      /\ entry'.data = restored.data
      /\ rules.settles =>
           /\ entry'.fetch = "read" => entry'.overtaken
           /\ entry'.fetch # "none" \/ (entry'.invalid /\ ~mounted)
      /\ ~rules.settles => entry' = restored
  BY <1>0, <1>2, <1>3, InvalidatedIsMarked
<1>5. CacheTypeOK'
  BY <1>0, <1>4 DEF CacheTypeOK, Fail, Stages
<1>6. Books'
  BY <1>0, <1>1, <1>2, <1>4 DEF Books, CacheTypeOK, Fail
<1>7. CASE rules.settles
  BY <1>1, <1>4, <1>5, <1>6, <1>7
  DEF CacheInv, AnswerAgrees, EntryAgrees, Coming, Fail
<1>8. CASE ~rules.settles
  <2>1. ~case.gap => ~rules.optimistic
    BY <1>8, GapFree, <1>0 DEF CacheInv, Reached
  <2>2. ~case.gap => /\ entry' = entry
                     /\ entry.data \subseteq applied /\ entry.got \subseteq applied
    BY <1>0, <1>2, <1>4, <1>8, <2>1 DEF Books
  <2>3. \A D : D \subseteq applied /\ Agrees(D) => Agrees(D)'
    BY <1>0 DEF Agrees, Fail, CacheTypeOK
  <2>4. ~case.gap => (Coming => Coming')
    BY <1>0, <1>1, <1>8, <2>2 DEF Coming, Fail
  <2> QED
    BY <1>0, <1>5, <1>6, <2>2, <2>3, <2>4
    DEF CacheInv, AnswerAgrees, EntryAgrees, Fail
<1> QED
  BY <1>7, <1>8

(* Steps of the entry and the view alone.                                  *)
LEMMA EntryStep ==
  ASSUME CacheInv,
      \/ FetchRead \/ FetchDone \/ FetchFail
      \/ Poll \/ Leave \/ Return
  PROVE  CacheInv'
<1>0. CacheTypeOK /\ Books /\ AnswerAgrees /\ EntryAgrees /\ entry \in EntryType
  BY DEF CacheInv, CacheTypeOK
<1>1. UNCHANGED <<case, applied, calls, seen, before>>
  BY DEF FetchRead, FetchDone, FetchFail, Poll, Leave, Return
<1>2. Begun' = Begun /\ rules' = rules
  BY <1>1 DEF Begun, rules
<1>3. \A D : Agrees(D) <=> Agrees(D)'
  BY <1>1 DEF Agrees
<1>4. Agrees(applied)
  BY DEF Agrees
<1>5. ASSUME entry' = Asking(entry), UNCHANGED here, mounted' \in BOOLEAN
      PROVE  CacheInv'
  <2>1. /\ entry' \in EntryType /\ entry'.fetch = "asked" /\ entry'.got = {}
        /\ entry'.data = entry.data
    BY <1>0, <1>5 DEF Asking, EntryType
  <2> QED
    BY <1>0, <1>1, <1>2, <1>5, <2>1
    DEF CacheInv, CacheTypeOK, Books, AnswerAgrees, EntryAgrees, Coming
<1>6. CASE FetchRead
  <2>1. /\ entry' \in EntryType /\ entry'.fetch = "read" /\ entry'.got = applied
        /\ entry'.data = entry.data
    BY <1>0, <1>6 DEF FetchRead, EntryType, CacheTypeOK
  <2> QED
    BY <1>0, <1>1, <1>2, <1>3, <1>4, <1>6, <2>1
    DEF CacheInv, CacheTypeOK, Books, AnswerAgrees, EntryAgrees, Coming,
        FetchRead
<1>7. CASE FetchDone
  <2>1. /\ entry' \in EntryType /\ entry'.fetch = "none" /\ entry'.got = {}
        /\ entry'.data = entry.got /\ entry'.overtaken = entry.overtaken
    BY <1>0, <1>7 DEF FetchDone, EntryType, CacheTypeOK
  <2>2. applied \subseteq Begun
    BY <1>0 DEF CacheTypeOK, Books, Begun
  <2>3. CacheTypeOK' /\ Books'
    BY <1>0, <1>1, <1>2, <1>7, <2>1, <2>2 DEF CacheTypeOK, Books, FetchDone
  <2> QED
    BY <1>0, <1>1, <1>3, <1>7, <2>1, <2>3
    DEF CacheInv, AnswerAgrees, EntryAgrees, FetchDone
<1>8. CASE FetchFail
  <2>1. /\ entry' \in EntryType /\ entry'.fetch = "none" /\ entry'.got = {}
        /\ entry'.data = entry.data /\ entry'.failed
    BY <1>0, <1>8 DEF FetchFail, Cancel, EntryType
  <2> QED
    BY <1>0, <1>1, <1>2, <1>8, <2>1
    DEF CacheInv, CacheTypeOK, Books, AnswerAgrees, EntryAgrees, Coming,
        FetchFail
<1>9. CASE Poll
  BY <1>0, <1>5, <1>9 DEF Poll, CacheTypeOK
<1>10. CASE Leave
  BY <1>0, <1>1, <1>2, <1>3, <1>10
  DEF CacheInv, CacheTypeOK, Books, AnswerAgrees, EntryAgrees, Coming, Pending,
      Leave
<1>11. CASE Return
  <2>1. CASE entry' = Asking(entry)
    BY <1>5, <1>11, <2>1 DEF Return
  <2>2. CASE entry' = entry /\ ~(entry.fetch = "none" /\ (~entry.has \/ entry.invalid))
    BY <1>0, <1>1, <1>2, <1>3, <1>11, <2>2
    DEF CacheInv, CacheTypeOK, Books, AnswerAgrees, EntryAgrees, Coming,
        Pending, Return
  <2> QED
    BY <1>11, <2>1, <2>2 DEF Return
<1> QED
  BY <1>6, <1>7, <1>8, <1>9, <1>10, <1>11

LEMMA CacheSteps == CacheInv /\ [CacheNext]_cacheVars => CacheInv'
<1> SUFFICES ASSUME CacheInv, [CacheNext]_cacheVars PROVE CacheInv'
  OBVIOUS
<1>1. ASSUME NEW c \in Calls, Press(c) PROVE CacheInv'
  <2>1. CASE Send(c)
    BY <1>1, <2>1, SendStep DEF Press
  <2>2. CASE /\ calls' = [calls EXCEPT ![c] = "asking"]
             /\ UNCHANGED <<before, entry, here>>
    BY <1>1, <2>2
    DEF CacheInv, CacheTypeOK, Books, AnswerAgrees, EntryAgrees, Coming,
        Pending, Agrees, Begun, Press, Stages, rules
  <2> QED
    BY <1>1, <2>1, <2>2 DEF Press
<1>2. ASSUME NEW c \in Calls, Confirm(c) PROVE CacheInv'
  BY <1>2, SendStep DEF Confirm
<1>3. ASSUME NEW c \in Calls, Dismiss(c) PROVE CacheInv'
  BY <1>3
  DEF CacheInv, CacheTypeOK, Books, AnswerAgrees, EntryAgrees, Coming, Pending,
      Agrees, Begun, Dismiss, Stages, rules
<1>4. CASE UNCHANGED cacheVars
  BY <1>4
  DEF cacheVars, CacheInv, CacheTypeOK, Books, AnswerAgrees, EntryAgrees,
      Coming, Pending, Agrees, Begun, rules
<1> QED
  BY <1>1, <1>2, <1>3, <1>4, ServeStep, RefuseStep, SucceedStep, FailStep,
     EntryStep
  DEF CacheNext

(* Once every answer is in, what is drawn is what the server holds.        *)
LEMMA QuietShows == CacheInv => OwnWritesShow
<1> SUFFICES ASSUME CacheInv, Quiet, mounted, ~entry.failed, ~entry.overtaken,
    ~case.gap,
                    entry.has
             PROVE  entry.data = applied
  BY DEF CacheInv, OwnWritesShow
<1>1. ~Coming
  BY DEF Coming, Pending, Quiet
<1>2. Agrees(entry.data)
  BY <1>1 DEF CacheInv, EntryAgrees
<1>3. \A c \in Calls : c \in entry.data \/ c \in applied => calls[c] = "done"
  BY DEF CacheInv, Books, Begun, Quiet
<1> QED
  BY <1>2, <1>3 DEF CacheInv, CacheTypeOK, EntryType, Agrees

(***************************************************************************)
(* Once every answer is in, a mounted view draws exactly the user's calls   *)
(* the server applied, for any calls and any cases whose rules are as       *)
(* CasesAssumption says: whatever fetch met which answer, unless the last   *)
(* refetch failed or was overtaken, or the mutation names no key.           *)
(***************************************************************************)
THEOREM OwnWritesAreShown == CacheSpec => []OwnWritesShow
<1>1. CacheInit => CacheInv
  BY CacheStarts
<1>2. CacheInv /\ [CacheNext]_cacheVars => CacheInv'
  BY CacheSteps
<1>3. QED
  BY <1>1, <1>2, QuietShows, PTL DEF CacheSpec
==============================================================================
