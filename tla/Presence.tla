------------------------------ MODULE Presence ------------------------------
(***************************************************************************)
(* What the gateway's socket registry promises: it knows which sockets of  *)
(* which users are connected, and an event for a user goes to all sockets  *)
(* of that user and to no others.                                          *)
(***************************************************************************)
CONSTANTS Users, Sockets, None

VARIABLES
  online,     \* pairs <<socket, user>>
  event       \* the last event: its user, and the sockets it went to

vars == <<online, event>>

Init == online = {} /\ event = None

Join(s, u) ==
  /\ \A v \in Users : <<s, v>> \notin online
  /\ online' = online \cup {<<s, u>>}
  /\ UNCHANGED event

Leave(s) ==
  /\ \E u \in Users : <<s, u>> \in online
  /\ online' = {p \in online : p[1] # s}
  /\ UNCHANGED event

Notify(u) ==
  /\ event' = [user |-> u, to |-> {s \in Sockets : <<s, u>> \in online}]
  /\ UNCHANGED online

Next ==
  \/ \E s \in Sockets : Leave(s) \/ \E u \in Users : Join(s, u)
  \/ \E u \in Users : Notify(u)

Spec == Init /\ [][Next]_vars
=============================================================================
