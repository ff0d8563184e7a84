---------------------------- MODULE JobLifecycle ----------------------------
(***************************************************************************)
(* What a durable job promises its Task, without saying how: it is         *)
(* attempted at most once, an attempt is recorded before anything runs, it *)
(* ends at most once, and its end and the Leader's wakeup are one event.   *)
(* JobSupervisor is shown to implement this.                               *)
(***************************************************************************)
EXTENDS DurableJob

VARIABLES
  job,          \* the durable record
  launches,     \* how many runner processes were ever started for it
  leaderWakes   \* job-finished signals enqueued in the Leader's mailbox

vars == <<job, launches, leaderWakes>>

Init ==
  /\ job = NewDurableJob
  /\ launches = 0
  /\ leaderWakes = 0

Open == ~IsTerminal(job)

(* The possible-effect boundary is crossed before the launch, and once. *)
Attempt ==
  /\ Open /\ job.effect = "none"
  /\ job' = [job EXCEPT !.effect = "possible"]
  /\ UNCHANGED <<launches, leaderWakes>>

Launch ==
  /\ job.effect # "none" /\ launches = 0
  /\ launches' = 1
  /\ UNCHANGED <<job, leaderWakes>>

(* Only a launched job is adopted as running. *)
Adopt ==
  /\ job.status = "queued" /\ launches = 1
  /\ job' = [job EXCEPT !.status = "running", !.effect = "confirmed"]
  /\ UNCHANGED <<launches, leaderWakes>>

RequestCancel ==
  /\ Open
  /\ job' = [job EXCEPT !.cancelRequested = TRUE]
  /\ UNCHANGED <<launches, leaderWakes>>

(* A job that never crossed the boundary ends cancelled or failed, one that
   did may only end unknown until it was adopted. *)
Outcomes ==
  IF job.status = "running" THEN TerminalStatuses
  ELSE IF job.effect = "none" THEN {"cancelled", "failed"} ELSE {"unknown"}

Finish ==
  /\ Open
  /\ \E outcome \in Outcomes, source \in Evidence :
       job' = [job EXCEPT !.status = outcome, !.evidence = source,
                          !.wakeupNotified = TRUE]
  /\ leaderWakes' = leaderWakes + 1
  /\ UNCHANGED launches

Acknowledge ==
  /\ job.status = "unknown"
  /\ job' = [job EXCEPT !.acknowledged = TRUE]
  /\ UNCHANGED <<launches, leaderWakes>>

Next == Attempt \/ Launch \/ Adopt \/ RequestCancel \/ Finish \/ Acknowledge

Spec == Init /\ [][Next]_vars
=============================================================================
