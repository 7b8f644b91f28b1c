--------------------------- MODULE MCIdempotency ---------------------------
(* Instance of Idempotency for TLC. *)
EXTENDS Idempotency, TLC

\* Requests are interchangeable, and so are bodies.  For the runs that check
\* safety only.
Symmetry == Permutations(Requests) \cup Permutations(Bodies)
=============================================================================
