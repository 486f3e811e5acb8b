------------------------------ MODULE MCSocial ------------------------------
(* Social for TLC: people, handlers and room ids are interchangeable.      *)
EXTENDS Social, TLC

Symmetry == Permutations(Users) \union Permutations(Requests) \union Permutations(Rooms)

=============================================================================
