------------------------------ MODULE MCEconomy ------------------------------
(* Economy for TLC: accounts and handlers are interchangeable.             *)
EXTENDS Economy, TLC

Symmetry ==
  Permutations(Claimants) \union Permutations(Users \ Claimants) \union Permutations(Requests)

(* A bound: the two halves meet in the balances only, so a behaviour has   *)
(* check-ins and referrals before there is an item, or a store and nobody  *)
(* who has claimed.                                                        *)
Unclaimed ==
  /\ now = 0
  /\ \A u \in Users : referrer[u] = None /\ bal[u].last = None
  /\ \A q \in Requests : tx[q].op \notin {"checkin", "refer", "credited"}

OneHalf == Unclaimed \/ \A i \in Items : item[i].state = "none"

=============================================================================
