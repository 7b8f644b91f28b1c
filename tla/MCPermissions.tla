--------------------------- MODULE MCPermissions ---------------------------
(* Instance of Permissions for TLC. *)
EXTENDS Permissions, TLC

\* Admin calls, guarded requests, roles and permissions are interchangeable.
Symmetry == Permutations(Admins) \cup Permutations(Guards)
              \cup Permutations(Roles) \cup Permutations(Perms)
=============================================================================
