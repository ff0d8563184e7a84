-------------------------- MODULE MCControllerPump --------------------------
(* Instances of ControllerPump for TLC: a Task with a role, or a Task and the key
   of the Operator. *)
EXTENDS ControllerPump

CONSTANTS t1, task1, role1, operator

TaskAndRoleTaskOf == [k \in {task1, role1} |-> t1]
TaskAndOperatorTaskOf == [k \in {task1, operator} |-> IF k = task1 THEN t1 ELSE None]
OneTaskTaskKey == [t \in {t1} |-> task1]
=============================================================================
