------------------------------ MODULE SignIns ------------------------------
(***************************************************************************)
(* What the sessions of auth-service promise: whoever can act for a user   *)
(* descends from one sign-in, made on a device of its own with the         *)
(* password of that moment.  A sign-in that has come to an end does not    *)
(* come back, whatever cookies of it are still about.                      *)
(***************************************************************************)
EXTENDS Naturals

CONSTANTS Users, Devices

VARIABLES
  pwd,        \* how often a user has changed the password
  given,      \* the devices given out so far
  inUse       \* the sign-ins that can still act, <<device, user, password>>

vars == <<pwd, given, inUse>>

Init == pwd = [u \in Users |-> 0] /\ given = {} /\ inUse = {}

\* The user signs in: the device is new.
SignIn(d, u) ==
  /\ d \notin given
  /\ given' = given \cup {d}
  /\ inUse' = inUse \cup {<<d, u, pwd[u]>>}
  /\ UNCHANGED pwd

\* Sign-ins end: one or all of them, by a logout, a reset or a failure.
End ==
  /\ UNCHANGED <<pwd, given>>
  /\ inUse' \subseteq inUse

ChangePassword(u) ==
  /\ pwd' = [pwd EXCEPT ![u] = @ + 1]
  /\ UNCHANGED <<given, inUse>>

Next ==
  \/ End
  \/ \E d \in Devices, u \in Users : SignIn(d, u)
  \/ \E u \in Users : ChangePassword(u)

Spec == Init /\ [][Next]_vars
=============================================================================
