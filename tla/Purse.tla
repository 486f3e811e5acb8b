------------------------------- MODULE Purse --------------------------------
(***************************************************************************)
(* What the points system promises an account, said without check-ins,     *)
(* referrals, store or transactions: points are earned, and counted among  *)
(* everything ever earned, or somebody parts with points they have.        *)
(* Economy implements this specification.                                  *)
(***************************************************************************)
EXTENDS Integers

CONSTANT Users

VARIABLES
  points,   \* what each account can spend
  earned    \* everything it was ever credited

vars == <<points, earned>>

Init ==
  /\ points = [u \in Users |-> 0]
  /\ earned = [u \in Users |-> 0]

\* One event may reward several accounts: a referral pays both.
Earn ==
  /\ points' \in [Users -> Nat] /\ earned' \in [Users -> Nat]
  /\ \A u \in Users :
       /\ earned'[u] >= earned[u]
       /\ points'[u] - points[u] = earned'[u] - earned[u]

\* Only one account pays at a time, never more than it has.
Spend(u) ==
  /\ \E rest \in 0..points[u] : points' = [points EXCEPT ![u] = rest]
  /\ UNCHANGED earned

Next == Earn \/ \E u \in Users : Spend(u)

Spec == Init /\ [][Next]_vars
=============================================================================
