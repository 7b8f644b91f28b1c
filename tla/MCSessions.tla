---------------------------- MODULE MCSessions ----------------------------
(* Instance of Sessions for TLC. *)
EXTENDS Sessions, TLC

\* Requests are interchangeable, and so are users.
Symmetry == Permutations(Requests) \cup Permutations(Users)
=============================================================================
