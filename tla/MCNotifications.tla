-------------------------- MODULE MCNotifications --------------------------
(* Instance of Notifications for TLC: one job may be tried twice, the other *)
(* once.                                                                    *)
EXTENDS Notifications
CONSTANTS j1, j2
MCAttempts == [j \in Jobs |-> IF j = j1 THEN 2 ELSE 1]
=============================================================================
