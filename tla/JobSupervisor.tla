--------------------------- MODULE JobSupervisor ---------------------------
(***************************************************************************)
(* One durable job from its creation to its end: the Controller's          *)
(* DurableJobSupervisor (src/controller/jobSupervisor.ts), the detached    *)
(* runner process it spawns (src/job/jobRunner.ts), the artifact files     *)
(* they share, and the cancel and acknowledge requests other processes     *)
(* commit to the store (src/controller/jobControl.ts).                     *)
(*                                                                         *)
(* A supervision pass is a sequence of steps, one per file access, signal  *)
(* or store transaction: the runner, a canceller and a crash of the        *)
(* Controller may come between any two. Jobs are supervised independently  *)
(* (every map and path is keyed by Task and job), so one job suffices.     *)
(*                                                                         *)
(* Timestamps are kept as the comparisons the code makes on them: see clk. *)
(***************************************************************************)
EXTENDS DurableJob, Sequences

CONSTANTS
  NSteps,       \* planned steps of the job
  StepResults,  \* what a step may end with when nobody cancels it
  MayHang,      \* whether the runner's event loop may stop for good
  MaxCrashes    \* bound: crashes of the Controller

(* A "-0ms" result has durationMs = 0, which validateStepResult refuses. A
   "nospawn" step never started; a "killed" one ended by the runner's own
   SIGTERM to its process group. *)
ResultKinds == {"ok", "ok-0ms", "fail", "fail-0ms", "nospawn", "timeout", "killed"}

ASSUME JobAssumption ==
  /\ NSteps \in Nat \ {0}
  /\ StepResults \subseteq ResultKinds
  /\ MayHang \in BOOLEAN
  /\ MaxCrashes \in Nat

VARIABLES
  job,          \* the record in the Task Store
  launches,     \* history: runner processes spawned for it
  leaderWakes,  \* job-finished signals committed to the Leader's mailbox
  start,        \* start.json: "none", "pending" or "real"
  ready,        \* ready.json: "none", "empty" (created, not written) or "real"
  fence,        \* the cancel file exists
  checkpoint,   \* checkpoint.json: the results of the completed steps
  exit,         \* exit.json: "none" or its outcome (its steps = checkpoint)
  runner,       \* the runner process
  sup,          \* the supervision pass in progress, and what it has read
  sigkillAt,    \* #sigkillAt, in memory: "none", "armed" or "due"
  clk,          \* the order of the timestamps
  crashes

vars == <<job, launches, leaderWakes, start, ready, fence, checkpoint, exit,
          runner, sup, sigkillAt, clk, crashes>>
record == <<job, launches, leaderWakes>>
files == <<start, ready, fence, checkpoint, exit>>

ExitOutcomes == {"succeeded", "failed", "timed-out", "cancelled"}
RunnerPcs == {"none", "spawned", "creating", "loop", "stepping", "checkpointing",
              "finishing", "exiting", "gone"}
SupervisorPcs == {"idle", "down", "queued", "fence", "signal", "adopt",
                  "unknown", "cancel", "authorize", "attempt", "reject", "pending",
                  "spawn", "mark", "readExit", "receipt", "harvest", "liveness",
                  "dead", "settleDead", "running", "heartbeat", "sigkill"}

(* clk.heartbeat: the heartbeat file is missing, fresh, or older than
   HEARTBEAT_STALE_MS; clk.newer: it is later than job.heartbeatAt;
   clk.behind: it is earlier than job.updatedAt; clk.late: it was touched
   after the current pass read the clock; clk.ahead: job.updatedAt is later
   than the time the current pass read. *)
Clocks == [heartbeat : {"none", "fresh", "stale"}, newer : BOOLEAN,
           behind : BOOLEAN, late : BOOLEAN, ahead : BOOLEAN]

Runners == [pc : RunnerPcs, cancelled : BOOLEAN, hung : BOOLEAN,
            last : ResultKinds \cup {"none"}, outcome : ExitOutcomes]
Passes == [pc : SupervisorPcs, snap : DurableJobs, spawned : BOOLEAN,
           read : Seq(ResultKinds)]

TypeOK ==
  /\ job \in DurableJobs
  /\ launches \in Nat /\ leaderWakes \in Nat
  /\ start \in {"none", "pending", "real"}
  /\ ready \in {"none", "empty", "real"}
  /\ fence \in BOOLEAN
  /\ checkpoint \in Seq(ResultKinds)
  /\ exit \in {"none"} \cup ExitOutcomes
  /\ runner \in Runners
  /\ sup \in Passes
  /\ sigkillAt \in {"none", "armed", "due"}
  /\ clk \in Clocks
  /\ crashes \in 0..MaxCrashes

Init ==
  /\ job = NewDurableJob
  /\ launches = 0 /\ leaderWakes = 0
  /\ start = "none" /\ ready = "none" /\ fence = FALSE
  /\ checkpoint = <<>> /\ exit = "none"
  /\ runner = [pc |-> "none", cancelled |-> FALSE, hung |-> FALSE,
               last |-> "none", outcome |-> "succeeded"]
  /\ sup = [pc |-> "idle", snap |-> NewDurableJob, spawned |-> FALSE, read |-> <<>>]
  /\ sigkillAt = "none"
  /\ clk = [heartbeat |-> "none", newer |-> FALSE, behind |-> FALSE,
            late |-> FALSE, ahead |-> FALSE]
  /\ crashes = 0

-----------------------------------------------------------------------------
(* Results of steps, as the runner, the validators and the evidence ladder
   read them. *)
Passed(r) == r \in {"ok", "ok-0ms"}
Valid(results) ==
  \A i \in 1..Len(results) : results[i] \notin {"ok-0ms", "fail-0ms"}

(* Mutant: any checkpoint proves an outcome. *)
Covers_Any(results) == TRUE

(* proveOutcomeFromCheckpoint for a checkpoint that covers every step. *)
Covers(results) == Len(results) = NSteps
Proven(results) ==
  LET failing == {i \in 1..Len(results) : ~Passed(results[i])}
  IN IF failing = {} THEN "succeeded"
     ELSE LET first == CHOOSE i \in failing : \A j \in failing : i <= j
          IN IF results[first] = "timeout" THEN "timed-out" ELSE "failed"

-----------------------------------------------------------------------------
(* The process, as the supervisor's process port sees it. *)
Alive == runner.pc \notin {"none", "gone"}

(* signalIfOwned(SIGTERM): the default action kills a runner whose handler is
   not installed (before ready.json is written, after exit.json is), the
   handler sets cancelled, a stuck event loop never runs it. *)
Terminated ==
  CASE runner.hung -> runner
    [] ~runner.hung /\ runner.pc \in {"spawned", "creating", "exiting"} ->
         [runner EXCEPT !.pc = "gone"]
    [] ~runner.hung /\ runner.pc \in {"loop", "stepping", "checkpointing", "finishing"} ->
         [runner EXCEPT !.cancelled = TRUE]
    [] ~Alive /\ ~runner.hung -> runner

Killed == IF Alive THEN [runner EXCEPT !.pc = "gone", !.hung = FALSE] ELSE runner

-----------------------------------------------------------------------------
(* transitionDurableJob(transition, now, wakeup): one transaction, refused when
   the record is already later than the pass (updatedAt moves backwards). *)
Commit(next) ==
  /\ ~clk.ahead
  /\ ValidDurableJobTransition(job, next)
  /\ job' = next
  /\ leaderWakes' = IF IsTerminal(next) /\ ~IsTerminal(job)
                    THEN leaderWakes + 1 ELSE leaderWakes
  /\ UNCHANGED launches

(* updatedAt becomes the time of the pass: the heartbeat file may now be
   earlier than it, unless it was touched since. *)
Stamped(behind) ==
  /\ behind => clk.heartbeat # "none" /\ ~clk.late
  /\ clk.behind => behind

CommitClock ==
  \E b \in BOOLEAN : Stamped(b) /\ clk' = [clk EXCEPT !.behind = b]

Goto(pc) == sup' = [sup EXCEPT !.pc = pc]
At(pc) == sup.pc = pc

(* reconcile(): a pass over an active job takes the record as it is now. *)
BeginPass ==
  /\ At("idle")
  /\ ~IsTerminal(job)
  /\ sup' = [pc |-> job.status, snap |-> job, spawned |-> FALSE, read |-> <<>>]
  /\ clk' = [clk EXCEPT !.late = FALSE, !.ahead = FALSE]
  /\ UNCHANGED <<record, files, runner, sigkillAt, crashes>>

(* A commit refused for its timestamp throws; reconcile reports it and the
   pass over this job is over. *)
CommitPcs == {"adopt", "unknown", "cancel", "attempt", "reject", "receipt",
              "harvest", "settleDead"}
PassThrows ==
  /\ sup.pc \in CommitPcs
  /\ clk.ahead
  /\ Goto("idle")
  /\ UNCHANGED <<record, files, runner, sigkillAt, clk, crashes>>

-----------------------------------------------------------------------------
(* #reconcileQueued *)

(* Mutant: a pending marker counts as evidence of a runner. *)
Spawned_AnyMarker == ready = "real" \/ start # "none"

(* Evidence of a runner: ready.json first, else a start marker with its pid. *)
Spawned == ready = "real" \/ start = "real"

(* Mutant: a requested cancellation is applied before the evidence is read. *)
Ladder_CancelFirst(spawned) ==
  IF sup.snap.cancelRequested THEN "cancel"
  ELSE IF spawned THEN "adopt"
  ELSE IF sup.snap.effect # "none" THEN "unknown" ELSE "authorize"

(* What the pass does with a queued job once cancellation was passed on. A
   marker beside an unattempted operation is the contradiction that throws. *)
Ladder(spawned) ==
  CASE spawned -> "adopt"
    [] ~spawned /\ sup.snap.effect # "none" -> "unknown"
    [] ~spawned /\ sup.snap.effect = "none" /\ sup.snap.cancelRequested -> "cancel"
    [] ~spawned /\ sup.snap.effect = "none" /\ ~sup.snap.cancelRequested ->
         IF start # "none" THEN "idle" ELSE "authorize"

ReadEvidence ==
  /\ At("queued")
  /\ sup' = [sup EXCEPT !.spawned = Spawned,
                        !.pc = IF sup.snap.cancelRequested THEN "fence"
                               ELSE Ladder(Spawned)]
  /\ UNCHANGED <<record, files, runner, sigkillAt, clk, crashes>>

(* writeCancelFence, then SIGTERM when a runner is known. The steps serve the
   queued and the running job alike. *)
WriteCancelFence ==
  /\ At("fence")
  /\ fence' = TRUE
  /\ Goto("signal")
  /\ UNCHANGED <<record, start, ready, checkpoint, exit, runner, sigkillAt, clk,
                 crashes>>

SignalCancel ==
  /\ At("signal")
  /\ runner' = IF sup.spawned THEN Terminated ELSE runner
  /\ Goto(IF sup.snap.status = "running" THEN "liveness" ELSE Ladder(sup.spawned))
  /\ UNCHANGED <<record, files, sigkillAt, clk, crashes>>

(* #adoptAndContinue: startDurableJob, then the exit artifact or liveness. *)
Adopt ==
  /\ At("adopt")
  /\ CanStart(job)
  /\ Commit(StartDurableJob(job))
  /\ \E b \in BOOLEAN, n \in BOOLEAN :
       /\ Stamped(b)
       /\ n => clk.late
       /\ clk' = [clk EXCEPT !.behind = b, !.newer = n]
  /\ Goto("readExit")
  /\ UNCHANGED <<files, runner, sigkillAt, crashes>>

(* A send intent without proof of acceptance: never respawned. *)
MarkUnaccepted ==
  /\ At("unknown")
  /\ CanMarkUnknown(job)
  /\ Commit(MarkDurableJobWakeupNotified(MarkDurableJobUnknown(job)))
  /\ CommitClock
  /\ Goto("idle")
  /\ UNCHANGED <<files, runner, sigkillAt, crashes>>

(* Mutant: the end of the job commits without its wakeup flag. *)
CancelQueued_NotTold ==
  /\ At("cancel")
  /\ CanCancelQueued(job)
  /\ Commit(CancelQueuedDurableJob(job))
  /\ CommitClock
  /\ Goto("idle")
  /\ UNCHANGED <<files, runner, sigkillAt, crashes>>

CancelQueued ==
  /\ At("cancel")
  /\ CanCancelQueued(job)
  /\ Commit(MarkDurableJobWakeupNotified(CancelQueuedDurableJob(job)))
  /\ CommitClock
  /\ Goto("idle")
  /\ UNCHANGED <<files, runner, sigkillAt, crashes>>

-----------------------------------------------------------------------------
(* #startJob *)

(* authorizeStart answers or refuses with a CoreJobError; then spec.json. *)
Authorize ==
  /\ At("authorize")
  /\ \E authorized \in BOOLEAN : Goto(IF authorized THEN "attempt" ELSE "reject")
  /\ UNCHANGED <<record, files, runner, sigkillAt, clk, crashes>>

(* Mutant: the runner is spawned without the durable send intent. *)
CommitAttempt_NoBoundary ==
  /\ At("attempt")
  /\ Goto("pending")
  /\ UNCHANGED <<record, files, runner, sigkillAt, clk, crashes>>

(* The possible-effect boundary, with a second authorization inside the
   transaction. *)
CommitAttempt ==
  /\ At("attempt")
  /\ CanAttempt(job)
  /\ Commit(AttemptDurableJob(job))
  /\ CommitClock
  /\ Goto("pending")
  /\ UNCHANGED <<files, runner, sigkillAt, crashes>>

RefuseAttempt ==
  /\ At("attempt")
  /\ CanAttempt(job)
  /\ Goto("reject")
  /\ UNCHANGED <<record, files, runner, sigkillAt, clk, crashes>>

(* #rejectStart on a domain refusal. *)
RejectStart ==
  /\ At("reject")
  /\ CanReject(job)
  /\ Commit(MarkDurableJobWakeupNotified(RejectQueuedDurableJob(job)))
  /\ CommitClock
  /\ Goto("idle")
  /\ UNCHANGED <<files, runner, sigkillAt, crashes>>

WritePendingMarker ==
  /\ At("pending")
  /\ start' = "pending"
  /\ Goto("spawn")
  /\ UNCHANGED <<record, ready, fence, checkpoint, exit, runner, sigkillAt, clk,
                 crashes>>

SpawnJobRunner ==
  /\ At("spawn")
  /\ launches' = launches + 1
  /\ runner' = [runner EXCEPT !.pc = "spawned"]
  /\ Goto("mark")
  /\ UNCHANGED <<job, leaderWakes, files, sigkillAt, clk, crashes>>

WriteRealMarker ==
  /\ At("mark")
  /\ start' = "real"
  /\ Goto("idle")
  /\ UNCHANGED <<record, ready, fence, checkpoint, exit, runner, sigkillAt, clk,
                 crashes>>

-----------------------------------------------------------------------------
(* #superviseRunning, #harvestExit and #handleDeadProcess *)

(* readExitJson of a running job, and of one just adopted. *)
ReadExitRunning ==
  /\ At("running")
  /\ sup' = [sup EXCEPT !.spawned = TRUE,
                        !.pc = IF exit # "none" THEN "receipt"
                               ELSE IF sup.snap.cancelRequested THEN "fence"
                               ELSE "liveness"]
  /\ UNCHANGED <<record, files, runner, sigkillAt, clk, crashes>>

ReadExitAdopted ==
  /\ At("readExit")
  /\ Goto(IF exit # "none" THEN "receipt" ELSE "liveness")
  /\ UNCHANGED <<record, files, runner, sigkillAt, clk, crashes>>

CheckLiveness ==
  /\ At("liveness")
  /\ Goto(CASE ~Alive -> "dead"
            [] Alive /\ sup.snap.status = "running" -> "heartbeat"
            [] Alive /\ sup.snap.status = "queued" -> "idle")
  /\ UNCHANGED <<record, files, runner, sigkillAt, clk, crashes>>

(* Mutant: a stale heartbeat is answered with SIGTERM only. *)
CheckHeartbeat_TermOnly ==
  LET stale == clk.heartbeat = "stale"
      touch == clk.heartbeat # "none" /\ clk.newer
  IN /\ At("heartbeat")
     /\ runner' = IF stale THEN Terminated ELSE runner
     /\ clk' = IF touch /\ ~clk.behind THEN [clk EXCEPT !.newer = FALSE] ELSE clk
     /\ Goto(IF touch /\ clk.behind THEN "idle" ELSE "sigkill")
     /\ UNCHANGED <<record, files, sigkillAt, crashes>>

(* The heartbeat file: a stale one is answered with SIGTERM and arms the
   SIGKILL deadline; one later than the record's is recorded, with updatedAt
   set to its mtime, which saveDurableJob refuses when the record is later. *)
CheckHeartbeat ==
  LET stale == clk.heartbeat = "stale"
      touch == clk.heartbeat # "none" /\ clk.newer
  IN /\ At("heartbeat")
     /\ runner' = IF stale THEN Terminated ELSE runner
     /\ sigkillAt' = IF stale /\ sigkillAt = "none" THEN "armed" ELSE sigkillAt
     /\ clk' = IF touch /\ ~clk.behind THEN [clk EXCEPT !.newer = FALSE] ELSE clk
     /\ Goto(IF touch /\ clk.behind THEN "idle" ELSE "sigkill")
     /\ UNCHANGED <<record, files, crashes>>

EscalateSigkill ==
  /\ At("sigkill")
  /\ runner' = IF sigkillAt = "due" THEN Killed ELSE runner
  /\ sigkillAt' = IF sigkillAt = "due" THEN "none" ELSE sigkillAt
  /\ Goto("idle")
  /\ UNCHANGED <<record, files, clk, crashes>>

CommitReceipt ==
  /\ At("receipt")
  /\ Commit(RecordExitReceipt(job))
  /\ CommitClock
  /\ Goto("harvest")
  /\ UNCHANGED <<files, runner, sigkillAt, crashes>>

(* The outcome of exit.json, or failed when its steps do not validate. *)
HarvestExit ==
  /\ At("harvest")
  /\ CanComplete(job)
  /\ Commit(MarkDurableJobWakeupNotified(
       IF Valid(checkpoint) THEN CompleteDurableJob(job, exit, "exit-artifact")
                            ELSE CompleteDurableJob(job, "failed", "none")))
  /\ CommitClock
  /\ sigkillAt' = "none"
  /\ Goto("idle")
  /\ UNCHANGED <<files, runner, crashes>>

ReadCheckpoint ==
  /\ At("dead")
  /\ sup' = [sup EXCEPT !.pc = "settleDead", !.read = checkpoint]
  /\ UNCHANGED <<record, files, runner, sigkillAt, clk, crashes>>

(* A dead runner: the outcome its checkpoint proves, else unknown. Steps that
   do not validate make the transition throw. *)
SettleDead ==
  /\ At("settleDead")
  /\ CanMarkUnknown(job)
  /\ Valid(sup.read)
  /\ Commit(MarkDurableJobWakeupNotified(
       IF Covers(sup.read) THEN CompleteDurableJob(job, Proven(sup.read), "checkpoint")
                           ELSE MarkDurableJobUnknown(job)))
  /\ CommitClock
  /\ sigkillAt' = "none"
  /\ Goto("idle")
  /\ UNCHANGED <<files, runner, crashes>>

SettleDeadThrows ==
  /\ At("settleDead")
  /\ ~Valid(sup.read)
  /\ Goto("idle")
  /\ UNCHANGED <<record, files, runner, sigkillAt, clk, crashes>>

(* The Controller dies between any two steps and loses its memory. *)
Crash ==
  /\ ~At("down")
  /\ crashes < MaxCrashes
  /\ crashes' = crashes + 1
  /\ Goto("down")
  /\ sigkillAt' = "none"
  /\ UNCHANGED <<record, files, runner, clk>>

Restart ==
  /\ At("down")
  /\ Goto("idle")
  /\ UNCHANGED <<record, files, runner, sigkillAt, clk, crashes>>

SigkillFallsDue ==
  /\ sigkillAt = "armed"
  /\ sigkillAt' = "due"
  /\ UNCHANGED <<record, files, runner, sup, clk, crashes>>

-----------------------------------------------------------------------------
(* runDurableJobRunner *)

Touched == [clk EXCEPT !.heartbeat = "fresh", !.newer = TRUE, !.behind = FALSE,
                       !.late = TRUE]
RunnerAt(pc) == runner.pc = pc /\ ~runner.hung
RunnerGoto(pc) == runner' = [runner EXCEPT !.pc = pc]

(* The startup handshake: ready.json is created with O_EXCL, then written. *)
RunnerCreateReady ==
  /\ RunnerAt("spawned")
  /\ ready = "none"
  /\ ready' = "empty"
  /\ clk' = Touched
  /\ RunnerGoto("creating")
  /\ UNCHANGED <<record, start, fence, checkpoint, exit, sup, sigkillAt, crashes>>

RunnerWriteReady ==
  /\ RunnerAt("creating")
  /\ ready' = "real"
  /\ RunnerGoto("loop")
  /\ UNCHANGED <<record, start, fence, checkpoint, exit, sup, sigkillAt, clk, crashes>>

(* The heartbeat timer, every HEARTBEAT_INTERVAL_MS until the loop is left. *)
RunnerHeartbeat ==
  /\ RunnerAt("loop") \/ RunnerAt("stepping") \/ RunnerAt("checkpointing")
  /\ clk' = Touched
  /\ UNCHANGED <<record, files, runner, sup, sigkillAt, crashes>>

(* The head of the step loop. *)
RunnerNextStep ==
  /\ RunnerAt("loop")
  /\ IF Len(checkpoint) = NSteps
     THEN /\ runner' = [runner EXCEPT !.pc = "finishing", !.outcome = "succeeded"]
          /\ UNCHANGED clk
     ELSE IF runner.cancelled \/ fence
     THEN /\ runner' = [runner EXCEPT !.pc = "finishing", !.cancelled = TRUE,
                                      !.outcome = "cancelled"]
          /\ UNCHANGED clk
     ELSE /\ RunnerGoto("stepping")
          /\ clk' = Touched
  /\ UNCHANGED <<record, files, sup, sigkillAt, crashes>>

(* The step's process ends; a cancelled runner has signalled its group. *)
RunnerStepEnds ==
  /\ RunnerAt("stepping")
  /\ \E r \in StepResults \cup (IF runner.cancelled THEN {"killed"} ELSE {}) :
       runner' = [runner EXCEPT !.pc = "checkpointing", !.last = r]
  /\ UNCHANGED <<record, files, sup, sigkillAt, clk, crashes>>

(* writeCheckpoint, and how the loop goes on. A step that could not be spawned
   fails the job even when it was cancelled meanwhile. *)
AfterStep(r) ==
  CASE r = "nospawn" -> "failed"
    [] r # "nospawn" /\ runner.cancelled -> "cancelled"
    [] r = "timeout" /\ ~runner.cancelled -> "timed-out"
    [] r \notin {"nospawn", "timeout"} /\ ~runner.cancelled ->
         IF Passed(r) THEN "succeeded" ELSE "failed"

RunnerCheckpoint ==
  /\ RunnerAt("checkpointing")
  /\ checkpoint' = Append(checkpoint, runner.last)
  /\ runner' = [runner EXCEPT
       !.pc = IF AfterStep(runner.last) = "succeeded" THEN "loop" ELSE "finishing",
       !.outcome = AfterStep(runner.last)]
  /\ UNCHANGED <<record, start, ready, fence, exit, sup, sigkillAt, clk, crashes>>

(* Mutant: exit.json is written without an outcome. *)
RunnerWriteExit_NoOutcome ==
  /\ RunnerAt("finishing")
  /\ exit' = "undefined"
  /\ RunnerGoto("exiting")
  /\ UNCHANGED <<record, start, ready, fence, checkpoint, sup, sigkillAt, clk, crashes>>

RunnerWriteExit ==
  /\ RunnerAt("finishing")
  /\ exit' = runner.outcome
  /\ RunnerGoto("exiting")
  /\ UNCHANGED <<record, start, ready, fence, checkpoint, sup, sigkillAt, clk, crashes>>

RunnerExits ==
  /\ RunnerAt("exiting")
  /\ RunnerGoto("gone")
  /\ UNCHANGED <<record, files, sup, sigkillAt, clk, crashes>>

(* The runner is killed from outside (or throws on a failed write), or its
   event loop stops answering. *)
RunnerDies ==
  /\ Alive
  /\ runner' = Killed
  /\ UNCHANGED <<record, files, sup, sigkillAt, clk, crashes>>

RunnerHangs ==
  /\ MayHang
  /\ RunnerAt("loop") \/ RunnerAt("stepping") \/ RunnerAt("checkpointing")
  /\ runner' = [runner EXCEPT !.hung = TRUE]
  /\ UNCHANGED <<record, files, sup, sigkillAt, clk, crashes>>

(* Two minutes pass without a touch: the runner hangs, or the machine slept. *)
HeartbeatAges ==
  /\ clk.heartbeat = "fresh"
  /\ runner.hung
  /\ clk' = [clk EXCEPT !.heartbeat = "stale"]
  /\ UNCHANGED <<record, files, runner, sup, sigkillAt, crashes>>

MachineSleeps ==
  /\ clk.heartbeat = "fresh"
  /\ Alive /\ ~runner.hung
  /\ clk' = [clk EXCEPT !.heartbeat = "stale"]
  /\ UNCHANGED <<record, files, runner, sup, sigkillAt, crashes>>

-----------------------------------------------------------------------------
(* Requests other processes commit to the store. *)

(* cancelJob, and the job part of stopTaskExecutionCommand. The commit is later
   than any heartbeat so far, and may be later than the current pass. *)
CancelJob ==
  /\ RequestDurableJobCancel(job) # job
  /\ job' = RequestDurableJobCancel(job)
  /\ \E b, a \in BOOLEAN :
       /\ b => clk.heartbeat # "none"
       /\ clk.behind => b
       /\ clk.ahead \/ (b /\ clk.late) => a
       /\ clk' = [clk EXCEPT !.behind = b, !.ahead = a]
  /\ UNCHANGED <<launches, leaderWakes, files, runner, sup, sigkillAt, crashes>>

AcknowledgeJob ==
  /\ CanAcknowledge(job)
  /\ ~job.acknowledged
  /\ job' = AcknowledgeUnknownDurableJob(job)
  /\ UNCHANGED <<launches, leaderWakes, files, runner, sup, sigkillAt, clk, crashes>>

-----------------------------------------------------------------------------
Pass ==
  \/ BeginPass \/ PassThrows \/ ReadEvidence \/ WriteCancelFence \/ SignalCancel
  \/ Adopt \/ MarkUnaccepted \/ CancelQueued \/ Authorize \/ CommitAttempt
  \/ RefuseAttempt \/ RejectStart \/ WritePendingMarker \/ SpawnJobRunner
  \/ WriteRealMarker \/ ReadExitRunning \/ ReadExitAdopted \/ CheckLiveness
  \/ CheckHeartbeat \/ EscalateSigkill \/ CommitReceipt \/ HarvestExit
  \/ ReadCheckpoint \/ SettleDead \/ SettleDeadThrows

RunnerStep ==
  \/ RunnerCreateReady \/ RunnerWriteReady \/ RunnerNextStep \/ RunnerStepEnds
  \/ RunnerCheckpoint \/ RunnerWriteExit \/ RunnerExits

Next ==
  \/ Pass
  \/ Crash \/ Restart \/ SigkillFallsDue
  \/ RunnerStep \/ RunnerHeartbeat \/ RunnerDies \/ RunnerHangs
  \/ HeartbeatAges \/ MachineSleeps
  \/ CancelJob \/ AcknowledgeJob

(* Passes recur (spawn and exit wake the Controller, the recovery interval is
   the fallback) and run to their end, a Controller that died is restarted, a
   runner that is not stuck gets on with its steps (each has a timeout), and
   time passes. Nobody owes a cancellation, a crash or a hang. *)
Fairness ==
  /\ WF_vars(Pass) /\ WF_vars(Restart) /\ WF_vars(SigkillFallsDue)
  /\ WF_vars(RunnerStep) /\ WF_vars(HeartbeatAges)

Spec == Init /\ [][Next]_vars /\ Fairness

-----------------------------------------------------------------------------
(* The possible-effect boundary is durable before a runner exists, and no
   crash, retry or late pass launches a second one. *)
LaunchedOnce ==
  /\ launches <= 1
  /\ launches = 1 => job.effect # "none"
  /\ job.status = "queued" /\ job.effect = "none" => start = "none" /\ ready = "none"

(* A job is recorded as succeeded only when every planned step ran and passed,
   whichever evidence it was settled from ("No false pass"). *)
NoFalsePass ==
  job.status = "succeeded" =>
    /\ Len(checkpoint) = NSteps
    /\ \A i \in 1..NSteps : Passed(checkpoint[i])

(* The Leader is told of the end of a job exactly once, by the commit that
   ends it. *)
ToldOnce ==
  /\ leaderWakes = IF IsTerminal(job) THEN 1 ELSE 0
  /\ job.wakeupNotified <=> IsTerminal(job)

(* Only a job that ended unknown can still have a runner executing steps: any
   other outcome is recorded after the last step. *)
OnlyUnknownRunsOn ==
  IsTerminal(job) /\ job.status # "unknown" =>
    runner.pc \in {"none", "exiting", "gone"}

(* Every job ends, whatever crashes, kills, hangs and cancellations come,
   unless the runner hangs on a job somebody cancels (recording its heartbeat
   then throws before the SIGKILL) or a step took 0 ms, whose checkpoint the
   supervisor cannot read back. *)
JobSettles ==
  [](~(runner.hung /\ job.cancelRequested) /\ Valid(checkpoint)) => <>IsTerminal(job)

(* The job refines the lifecycle its Task relies on. *)
Lifecycle == INSTANCE JobLifecycle
ImplementsLifecycle == Lifecycle!Spec
=============================================================================
