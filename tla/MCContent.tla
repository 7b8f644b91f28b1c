----------------------------- MODULE MCContent -----------------------------
(* Instance of Content for TLC. *)
EXTENDS Content, TLC

\* Requests are interchangeable, and so are users.
Symmetry == Permutations(Requests) \cup Permutations(Users)
=============================================================================
