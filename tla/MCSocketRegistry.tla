-------------------------- MODULE MCSocketRegistry --------------------------
(* Instance of SocketRegistry for TLC. *)
EXTENDS SocketRegistry, TLC

\* Users and sockets are interchangeable.
Symmetry == Permutations(Users) \cup Permutations(Sockets)
=============================================================================
