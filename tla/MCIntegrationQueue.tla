-------------------------- MODULE MCIntegrationQueue --------------------------
(* Instances of IntegrationQueue for TLC. *)
EXTENDS IntegrationQueue

CONSTANTS p1, p2, c1, c2

OneQueued == <<c2>>
===============================================================================
