--------------------------- MODULE MCRateLimiter ---------------------------
(* Instance of RateLimiter for TLC. *)
EXTENDS RateLimiter, TLC

\* Requests, client addresses and e-mail addresses are interchangeable.
Symmetry == Permutations(Requests) \cup Permutations(Ips) \cup Permutations(Emails)
=============================================================================
