--------------------------- MODULE MCAccountCodes ---------------------------
(* Instance of AccountCodes for TLC. *)
EXTENDS AccountCodes, TLC

\* Requests are interchangeable.
Symmetry == Permutations(Requests)
=============================================================================
