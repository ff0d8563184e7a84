-------------------------- MODULE MCKeyedWorkQueue --------------------------
(* Instance of KeyedWorkQueue for TLC. *)
EXTENDS KeyedWorkQueue
=============================================================================
