----------------------------- MODULE MCSessions -----------------------------
(* Sessions for TLC: session ids are random and request handlers           *)
(* interchangeable, so both sets are symmetric.                            *)
EXTENDS Sessions, TLC

Symmetry == Permutations(Sessions) \union Permutations(Requests)

=============================================================================
