-------------------------- MODULE MCLeaderNotification --------------------------
(* LeaderNotification for TLC *)
EXTENDS LeaderNotification
=============================================================================
