----------------------------- MODULE DurableJob -----------------------------
(***************************************************************************)
(* The durable record of a job, src/job/durableJob.ts: its statuses, the   *)
(* functions that produce the next record and the rule the store applies   *)
(* to every save (saveDurableJob of src/storage/sqliteStore.ts).           *)
(*                                                                         *)
(* A record keeps the fields the properties tell apart. Identity, command  *)
(* lines, log locators and step payloads are left out; the timestamps are  *)
(* left out here, and JobSupervisor keeps the comparisons made on them.    *)
(***************************************************************************)
EXTENDS Naturals

(* DurableJobStatus. "unknown" is unknown-needs-attention. *)
TerminalStatuses == {"succeeded", "failed", "timed-out", "cancelled", "unknown"}
Statuses == {"queued", "running"} \cup TerminalStatuses

(* OperationFacts.effect, which only accumulates. *)
Effects == {"none", "possible", "confirmed"}
EffectRank(e) == CASE e = "none" -> 0 [] e = "possible" -> 1 [] e = "confirmed" -> 2
MaxEffect(a, b) == IF EffectRank(b) > EffectRank(a) THEN b ELSE a

(* result.evidenceSource, and how a record without one came to its result. *)
Evidence == {"none", "exit-artifact", "checkpoint"}

DurableJobs ==
  [status : Statuses, effect : Effects, cancelRequested : BOOLEAN,
   evidence : Evidence, wakeupNotified : BOOLEAN, acknowledged : BOOLEAN]

IsTerminal(job) == job.status \in TerminalStatuses

(* createDurableJob *)
NewDurableJob ==
  [status |-> "queued", effect |-> "none", cancelRequested |-> FALSE,
   evidence |-> "none", wakeupNotified |-> FALSE, acknowledged |-> FALSE]

-----------------------------------------------------------------------------
(* Each function below throws unless its CanX holds. *)

(* The send intent #startJob commits before it spawns a runner. *)
CanAttempt(job) == job.status = "queued" /\ job.effect = "none"
AttemptDurableJob(job) == [job EXCEPT !.effect = "possible"]

CanStart(job) == job.status = "queued"
StartDurableJob(job) == [job EXCEPT !.status = "running", !.effect = "confirmed"]

(* touchDurableJobHeartbeat changes timestamps only. *)
CanTouch(job) == job.status = "running"

CanComplete(job) == job.status = "running"
CompleteDurableJob(job, outcome, source) ==
  [job EXCEPT !.status = outcome, !.evidence = source]

CanReject(job) == job.status = "queued" /\ job.effect = "none"
RejectQueuedDurableJob(job) == [job EXCEPT !.status = "failed"]

CanMarkUnknown(job) ==
  job.status = "running" \/ (job.status = "queued" /\ job.effect # "none")
MarkDurableJobUnknown(job) == [job EXCEPT !.status = "unknown"]

(* An idempotent no-op on a terminal or already cancelled job. *)
RequestDurableJobCancel(job) ==
  IF IsTerminal(job) THEN job ELSE [job EXCEPT !.cancelRequested = TRUE]

CanCancelQueued(job) == job.status = "queued"
CancelQueuedDurableJob(job) == [job EXCEPT !.status = "cancelled"]

MarkDurableJobWakeupNotified(job) == [job EXCEPT !.wakeupNotified = TRUE]

CanAcknowledge(job) == job.status = "unknown"
AcknowledgeUnknownDurableJob(job) == [job EXCEPT !.acknowledged = TRUE]

(* The receipt #harvestExit commits before it interprets exit.json. *)
RecordExitReceipt(job) == [job EXCEPT !.effect = MaxEffect(job.effect, "confirmed")]

(* validDurableJobTransition: what saveDurableJob accepts. *)
ValidDurableJobTransition(before, after) ==
  /\ EffectRank(after.effect) >= EffectRank(before.effect)
  /\ CASE IsTerminal(before) ->
            /\ after.status = before.status
            /\ after.evidence = before.evidence
            /\ after.effect = before.effect
            /\ before.wakeupNotified => after.wakeupNotified
            /\ before.acknowledged => after.acknowledged
       [] before.status = "queued" ->
            \/ after.status \in {"queued", "running", "cancelled", "unknown"}
            \/ after.status = "failed" /\ before.effect = "none" /\ after.effect = "none"
       [] before.status = "running" -> after.status # "queued"
=============================================================================
