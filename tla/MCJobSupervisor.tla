-------------------------- MODULE MCJobSupervisor --------------------------
(* Instances of JobSupervisor for TLC. *)
EXTENDS JobSupervisor
=============================================================================
