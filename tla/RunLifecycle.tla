----------------------------- MODULE RunLifecycle -----------------------------
(***************************************************************************)
(* What the delivery of AgentRuns promises to whoever dispatches them, with *)
(* no word about attempts, hosts or mailboxes: one Run of a Role is active *)
(* at a time; its input is given to the Agent at most once; and it ends    *)
(* once, with exactly one report, which comes with the end and never       *)
(* without it.  An input may still be given after the end (a Run can be    *)
(* given up while its input is on the way), but never before the start.    *)
(***************************************************************************)
EXTENDS Naturals

CONSTANT Runs

VARIABLES phase,    \* none, active or ended
          given,    \* inputs given to the Agent
          told      \* reports to the Leader

vars == <<phase, given, told>>

Init ==
  /\ phase = [r \in Runs |-> "none"]
  /\ given = [r \in Runs |-> 0]
  /\ told = [r \in Runs |-> 0]

Begin(r) ==
  /\ phase[r] = "none" /\ \A q \in Runs : phase[q] # "active"
  /\ phase' = [phase EXCEPT ![r] = "active"]
  /\ UNCHANGED <<given, told>>

GiveInput(r) ==
  /\ phase[r] # "none" /\ given[r] = 0
  /\ given' = [given EXCEPT ![r] = 1]
  /\ UNCHANGED <<phase, told>>

End(r) ==
  /\ phase[r] = "active"
  /\ phase' = [phase EXCEPT ![r] = "ended"]
  /\ told' = [told EXCEPT ![r] = 1]
  /\ UNCHANGED given

Next == \E r \in Runs : Begin(r) \/ GiveInput(r) \/ End(r)

Spec == Init /\ [][Next]_vars
=============================================================================
