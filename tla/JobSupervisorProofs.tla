------------------------ MODULE JobSupervisorProofs ------------------------
(***************************************************************************)
(* The safety of a durable job for any number of steps and of crashes of   *)
(* the Controller, and the proof that JobSupervisor implements             *)
(* JobLifecycle.                                                           *)
(***************************************************************************)
EXTENDS JobSupervisor, TLAPS

-----------------------------------------------------------------------------
(* The inductive invariant. *)

QueuedPcs == {"queued", "adopt", "unknown", "cancel", "authorize", "attempt",
              "reject", "pending", "spawn", "mark"}
RunningPcs == {"running", "readExit", "receipt", "harvest", "liveness", "dead",
               "settleDead", "heartbeat", "sigkill"}

(* A pass is over a job that is still in the status its step expects: the
   other processes only request a cancellation. *)
PassIsCurrent ==
  /\ sup.snap.status \in {"queued", "running"}
  /\ sup.pc \in QueuedPcs => job.status = "queued"
  /\ sup.pc \in RunningPcs => job.status = "running"
  /\ sup.pc \in {"queued", "running", "fence", "signal"} => job.status = sup.snap.status
  /\ sup.pc \in {"queued", "fence", "signal", "adopt", "unknown", "cancel",
                 "authorize", "attempt", "reject"} /\ job.status = "queued" =>
       job.effect = sup.snap.effect
  /\ sup.pc = "cancel" => job.effect = "none"

(* Where the possible-effect boundary stands: nothing of a runner exists before
   it, one launch follows it, and only a launched job is running. *)
Boundary ==
  /\ launches \in {0, 1}
  /\ job.effect = "none" => launches = 0 /\ start = "none"
  /\ launches = 0 => /\ runner.pc = "none" /\ ready = "none" /\ start # "real"
                     /\ checkpoint = <<>> /\ exit = "none"
  /\ launches = 1 => runner.pc # "none"
  /\ sup.pc \in {"pending", "spawn"} => job.effect # "none" /\ launches = 0
  /\ sup.pc \in {"mark", "adopt"} => launches = 1
  /\ sup.pc \in {"fence", "signal"} /\ sup.spawned => launches = 1
  /\ job.status = "running" => launches = 1 /\ job.effect = "confirmed"

AllPassed(results) == \A i \in 1..Len(results) : Passed(results[i])

(* What the runner has written by each point of its loop. *)
RunnerProgress ==
  /\ runner.pc \in {"spawned", "creating"} => checkpoint = <<>>
  /\ runner.pc = "loop" => Len(checkpoint) <= NSteps /\ AllPassed(checkpoint)
  /\ runner.pc \in {"stepping", "checkpointing"} =>
       Len(checkpoint) < NSteps /\ AllPassed(checkpoint)
  /\ runner.pc = "checkpointing" => runner.last # "none"
  /\ runner.pc = "finishing" /\ runner.outcome = "succeeded" =>
       Len(checkpoint) = NSteps /\ AllPassed(checkpoint)
  /\ exit # "none" => runner.pc \in {"exiting", "gone"}
  /\ exit = "succeeded" => Len(checkpoint) = NSteps /\ AllPassed(checkpoint)

(* What a pass has read of a finished or dead runner stays true. *)
EvidenceStable ==
  /\ sup.pc \in {"receipt", "harvest"} => exit # "none"
  /\ sup.pc \in {"dead", "settleDead"} => runner.pc = "gone"
  /\ sup.pc = "settleDead" => sup.read = checkpoint

IInv ==
  /\ TypeOK
  /\ ToldOnce
  /\ PassIsCurrent
  /\ Boundary
  /\ RunnerProgress
  /\ EvidenceStable
  /\ NoFalsePass
  /\ OnlyUnknownRunsOn

-----------------------------------------------------------------------------
(* The steps. Each action is shown to preserve the types, then the rest. *)
USE DEF record, files, Goto, At, RunnerAt, RunnerGoto, IsTerminal, Statuses,
        TerminalStatuses, Effects, Evidence, ExitOutcomes, RunnerPcs,
        SupervisorPcs, ResultKinds

Facts ==
  /\ ToldOnce
  /\ PassIsCurrent
  /\ Boundary
  /\ RunnerProgress
  /\ EvidenceStable
  /\ NoFalsePass
  /\ OnlyUnknownRunsOn

(* Every step of a supervision pass. *)
LEMMA PassKeepsIInv ==
  ASSUME JobAssumption, IInv, Pass
  PROVE  IInv'
<1> USE DEF JobAssumption, IInv, PassIsCurrent, Boundary, QueuedPcs, RunningPcs
<1>1. ASSUME BeginPass PROVE IInv'
  <2>1. TypeOK'
    <3>1. sup' \in Passes
      BY <1>1 DEF TypeOK, Passes, DurableJobs, BeginPass
    <3>2. clk' \in Clocks
      BY <1>1 DEF TypeOK, Clocks, BeginPass
    <3> QED
      BY <3>1, <3>2, <1>1 DEF TypeOK, BeginPass
  <2>2. Facts'
    BY <1>1 DEF TypeOK, DurableJobs, Runners, Passes, Facts, ToldOnce,
        RunnerProgress, EvidenceStable, NoFalsePass, OnlyUnknownRunsOn,
        AllPassed, Passed, BeginPass
  <2> QED
    BY <2>1, <2>2 DEF Facts
<1>2. ASSUME PassThrows PROVE IInv'
  <2>1. TypeOK'
    BY <1>2 DEF TypeOK, Passes, PassThrows, CommitPcs
  <2>2. Facts'
    BY <1>2 DEF TypeOK, DurableJobs, Runners, Passes, Facts, ToldOnce,
        RunnerProgress, EvidenceStable, NoFalsePass, OnlyUnknownRunsOn,
        AllPassed, Passed, PassThrows, CommitPcs
  <2> QED
    BY <2>1, <2>2 DEF Facts
<1>3. ASSUME ReadEvidence PROVE IInv'
  <2>1. TypeOK'
    BY <1>3 DEF TypeOK, Passes, ReadEvidence, Ladder, Spawned
  <2>2. Facts'
    <3>1. CASE sup.snap.cancelRequested
      <4>1. sup'.pc = "fence" /\ sup'.snap = sup.snap /\ sup'.spawned = Spawned
        BY <3>1, <1>3 DEF ReadEvidence, TypeOK, Passes
      <4> QED
        BY <4>1, <1>3 DEF ReadEvidence, TypeOK, DurableJobs, Runners, Passes, Facts,
          ToldOnce, RunnerProgress, EvidenceStable, NoFalsePass,
          OnlyUnknownRunsOn, AllPassed, Passed, Spawned
    <3>2. CASE ~sup.snap.cancelRequested
      <4>1. sup'.pc = Ladder(Spawned) /\ sup'.snap = sup.snap /\ sup'.spawned = Spawned
        BY <3>2, <1>3 DEF ReadEvidence, TypeOK, Passes
      <4> QED
        BY <3>2, <4>1, <1>3 DEF ReadEvidence, TypeOK, DurableJobs, Runners, Passes,
          Facts, ToldOnce, RunnerProgress, EvidenceStable, NoFalsePass,
          OnlyUnknownRunsOn, AllPassed, Passed, Spawned, Ladder
    <3> QED
      BY <3>1, <3>2
  <2> QED
    BY <2>1, <2>2 DEF Facts
<1>4. ASSUME WriteCancelFence PROVE IInv'
  <2>1. TypeOK'
    BY <1>4 DEF TypeOK, Passes, WriteCancelFence
  <2>2. Facts'
    BY <1>4 DEF TypeOK, DurableJobs, Runners, Passes, Facts, ToldOnce,
        RunnerProgress, EvidenceStable, NoFalsePass, OnlyUnknownRunsOn,
        AllPassed, Passed, WriteCancelFence
  <2> QED
    BY <2>1, <2>2 DEF Facts
<1>5. ASSUME SignalCancel PROVE IInv'
  <2>1. TypeOK'
    <3>1. sup' \in Passes
      BY <1>5 DEF TypeOK, Passes, DurableJobs, SignalCancel, Ladder,
          Terminated, Alive
    <3>2. runner' \in Runners
      BY <1>5 DEF TypeOK, Runners, SignalCancel, Ladder, Terminated, Alive
    <3> QED
      BY <3>1, <3>2, <1>5 DEF TypeOK, SignalCancel
  <2>2. Facts'
    BY <1>5 DEF TypeOK, DurableJobs, Runners, Passes, Facts, ToldOnce,
        RunnerProgress, EvidenceStable, NoFalsePass, OnlyUnknownRunsOn,
        AllPassed, Passed, SignalCancel, Ladder, Terminated, Alive
  <2> QED
    BY <2>1, <2>2 DEF Facts
<1>6. ASSUME Adopt PROVE IInv'
  <2>1. TypeOK'
    <3>1. job' \in DurableJobs
      BY <1>6 DEF TypeOK, DurableJobs, Adopt, Commit, CanStart, StartDurableJob
    <3>2. sup' \in Passes
      BY <1>6 DEF TypeOK, Passes, DurableJobs, Adopt, Commit, CanStart,
          StartDurableJob
    <3>3. clk' \in Clocks
      BY <1>6 DEF TypeOK, Clocks, Adopt, Commit, CanStart, StartDurableJob
    <3> QED
      BY <3>1, <3>2, <3>3, <1>6 DEF TypeOK, Adopt, Commit, CommitClock
  <2>2. Facts'
    BY <1>6 DEF TypeOK, DurableJobs, Runners, Passes, Facts, ToldOnce,
        RunnerProgress, EvidenceStable, NoFalsePass, OnlyUnknownRunsOn,
        AllPassed, Passed, Adopt, Commit, CanStart, StartDurableJob
  <2> QED
    BY <2>1, <2>2 DEF Facts
<1>7. ASSUME MarkUnaccepted PROVE IInv'
  <2>1. TypeOK'
    <3>1. job' \in DurableJobs
      BY <1>7 DEF TypeOK, DurableJobs, MarkUnaccepted, Commit, CommitClock,
          CanMarkUnknown, MarkDurableJobUnknown, MarkDurableJobWakeupNotified
    <3>2. sup' \in Passes
      BY <1>7 DEF TypeOK, Passes, DurableJobs, MarkUnaccepted, Commit,
          CommitClock, CanMarkUnknown, MarkDurableJobUnknown,
          MarkDurableJobWakeupNotified
    <3>3. clk' \in Clocks
      BY <1>7 DEF TypeOK, Clocks, MarkUnaccepted, Commit, CommitClock,
          CanMarkUnknown, MarkDurableJobUnknown, MarkDurableJobWakeupNotified
    <3> QED
      BY <3>1, <3>2, <3>3, <1>7 DEF TypeOK, MarkUnaccepted, Commit, CommitClock
  <2>2. Facts'
    BY <1>7 DEF TypeOK, DurableJobs, Runners, Passes, Facts, ToldOnce,
        RunnerProgress, EvidenceStable, NoFalsePass, OnlyUnknownRunsOn,
        AllPassed, Passed, MarkUnaccepted, Commit, CommitClock, CanMarkUnknown,
        MarkDurableJobUnknown, MarkDurableJobWakeupNotified
  <2> QED
    BY <2>1, <2>2 DEF Facts
<1>8. ASSUME CancelQueued PROVE IInv'
  <2>1. TypeOK'
    <3>1. job' \in DurableJobs
      BY <1>8 DEF TypeOK, DurableJobs, CancelQueued, Commit, CommitClock,
          CanCancelQueued, CancelQueuedDurableJob, MarkDurableJobWakeupNotified
    <3>2. sup' \in Passes
      BY <1>8 DEF TypeOK, Passes, DurableJobs, CancelQueued, Commit,
          CommitClock, CanCancelQueued, CancelQueuedDurableJob,
          MarkDurableJobWakeupNotified
    <3>3. clk' \in Clocks
      BY <1>8 DEF TypeOK, Clocks, CancelQueued, Commit, CommitClock,
          CanCancelQueued, CancelQueuedDurableJob, MarkDurableJobWakeupNotified
    <3> QED
      BY <3>1, <3>2, <3>3, <1>8 DEF TypeOK, CancelQueued, Commit, CommitClock
  <2>2. Facts'
    BY <1>8 DEF TypeOK, DurableJobs, Runners, Passes, Facts, ToldOnce,
        RunnerProgress, EvidenceStable, NoFalsePass, OnlyUnknownRunsOn,
        AllPassed, Passed, CancelQueued, Commit, CommitClock, CanCancelQueued,
        CancelQueuedDurableJob, MarkDurableJobWakeupNotified
  <2> QED
    BY <2>1, <2>2 DEF Facts
<1>9. ASSUME Authorize PROVE IInv'
  <2>1. TypeOK'
    BY <1>9 DEF TypeOK, Passes, Authorize
  <2>2. Facts'
    BY <1>9 DEF TypeOK, DurableJobs, Runners, Passes, Facts, ToldOnce,
        RunnerProgress, EvidenceStable, NoFalsePass, OnlyUnknownRunsOn,
        AllPassed, Passed, Authorize
  <2> QED
    BY <2>1, <2>2 DEF Facts
<1>10. ASSUME CommitAttempt PROVE IInv'
  <2>1. TypeOK'
    <3>1. job' \in DurableJobs
      BY <1>10 DEF TypeOK, DurableJobs, CommitAttempt, Commit, CommitClock,
          CanAttempt, AttemptDurableJob
    <3>2. sup' \in Passes
      BY <1>10 DEF TypeOK, Passes, DurableJobs, CommitAttempt, Commit,
          CommitClock, CanAttempt, AttemptDurableJob
    <3>3. clk' \in Clocks
      BY <1>10 DEF TypeOK, Clocks, CommitAttempt, Commit, CommitClock,
          CanAttempt, AttemptDurableJob
    <3> QED
      BY <3>1, <3>2, <3>3, <1>10 DEF TypeOK, CommitAttempt, Commit, CommitClock
  <2>2. Facts'
    BY <1>10 DEF TypeOK, DurableJobs, Runners, Passes, Facts, ToldOnce,
        RunnerProgress, EvidenceStable, NoFalsePass, OnlyUnknownRunsOn,
        AllPassed, Passed, CommitAttempt, Commit, CommitClock, CanAttempt,
        AttemptDurableJob
  <2> QED
    BY <2>1, <2>2 DEF Facts
<1>11. ASSUME RefuseAttempt PROVE IInv'
  <2>1. TypeOK'
    BY <1>11 DEF TypeOK, Passes, RefuseAttempt
  <2>2. Facts'
    BY <1>11 DEF TypeOK, DurableJobs, Runners, Passes, Facts, ToldOnce,
        RunnerProgress, EvidenceStable, NoFalsePass, OnlyUnknownRunsOn,
        AllPassed, Passed, RefuseAttempt
  <2> QED
    BY <2>1, <2>2 DEF Facts
<1>12. ASSUME RejectStart PROVE IInv'
  <2>1. TypeOK'
    <3>1. job' \in DurableJobs
      BY <1>12 DEF TypeOK, DurableJobs, RejectStart, Commit, CommitClock,
          CanReject, RejectQueuedDurableJob, MarkDurableJobWakeupNotified
    <3>2. sup' \in Passes
      BY <1>12 DEF TypeOK, Passes, DurableJobs, RejectStart, Commit,
          CommitClock, CanReject, RejectQueuedDurableJob,
          MarkDurableJobWakeupNotified
    <3>3. clk' \in Clocks
      BY <1>12 DEF TypeOK, Clocks, RejectStart, Commit, CommitClock, CanReject,
          RejectQueuedDurableJob, MarkDurableJobWakeupNotified
    <3> QED
      BY <3>1, <3>2, <3>3, <1>12 DEF TypeOK, RejectStart, Commit, CommitClock
  <2>2. Facts'
    BY <1>12 DEF TypeOK, DurableJobs, Runners, Passes, Facts, ToldOnce,
        RunnerProgress, EvidenceStable, NoFalsePass, OnlyUnknownRunsOn,
        AllPassed, Passed, RejectStart, Commit, CommitClock, CanReject,
        RejectQueuedDurableJob, MarkDurableJobWakeupNotified
  <2> QED
    BY <2>1, <2>2 DEF Facts
<1>13. ASSUME WritePendingMarker PROVE IInv'
  <2>1. TypeOK'
    BY <1>13 DEF TypeOK, Passes, WritePendingMarker
  <2>2. Facts'
    BY <1>13 DEF TypeOK, DurableJobs, Runners, Passes, Facts, ToldOnce,
        RunnerProgress, EvidenceStable, NoFalsePass, OnlyUnknownRunsOn,
        AllPassed, Passed, WritePendingMarker
  <2> QED
    BY <2>1, <2>2 DEF Facts
<1>14. ASSUME SpawnJobRunner PROVE IInv'
  <2>1. TypeOK'
    <3>1. sup' \in Passes
      BY <1>14 DEF TypeOK, Passes, DurableJobs, SpawnJobRunner
    <3>2. runner' \in Runners
      BY <1>14 DEF TypeOK, Runners, SpawnJobRunner
    <3> QED
      BY <3>1, <3>2, <1>14 DEF TypeOK, SpawnJobRunner
  <2>2. Facts'
    BY <1>14 DEF TypeOK, DurableJobs, Runners, Passes, Facts, ToldOnce,
        RunnerProgress, EvidenceStable, NoFalsePass, OnlyUnknownRunsOn,
        AllPassed, Passed, SpawnJobRunner
  <2> QED
    BY <2>1, <2>2 DEF Facts
<1>15. ASSUME WriteRealMarker PROVE IInv'
  <2>1. TypeOK'
    BY <1>15 DEF TypeOK, Passes, WriteRealMarker
  <2>2. Facts'
    BY <1>15 DEF TypeOK, DurableJobs, Runners, Passes, Facts, ToldOnce,
        RunnerProgress, EvidenceStable, NoFalsePass, OnlyUnknownRunsOn,
        AllPassed, Passed, WriteRealMarker
  <2> QED
    BY <2>1, <2>2 DEF Facts
<1>16. ASSUME ReadExitRunning PROVE IInv'
  <2>1. TypeOK'
    BY <1>16 DEF TypeOK, Passes, ReadExitRunning
  <2>2. Facts'
    <3>1. /\ sup'.snap = sup.snap
          /\ sup'.pc \in {"receipt", "fence", "liveness"}
          /\ sup'.pc = "receipt" => exit # "none"
      BY <1>16 DEF ReadExitRunning, TypeOK, Passes
    <3>2. job.status = "running" /\ sup.snap.status = "running"
      BY <1>16 DEF ReadExitRunning
    <3> QED
      BY <3>1, <3>2, <1>16 DEF ReadExitRunning, TypeOK, DurableJobs, Runners, Passes,
        Facts, ToldOnce, RunnerProgress, EvidenceStable, NoFalsePass,
        OnlyUnknownRunsOn, AllPassed, Passed
  <2> QED
    BY <2>1, <2>2 DEF Facts
<1>17. ASSUME ReadExitAdopted PROVE IInv'
  <2>1. TypeOK'
    BY <1>17 DEF TypeOK, Passes, ReadExitAdopted
  <2>2. Facts'
    BY <1>17 DEF TypeOK, DurableJobs, Runners, Passes, Facts, ToldOnce,
        RunnerProgress, EvidenceStable, NoFalsePass, OnlyUnknownRunsOn,
        AllPassed, Passed, ReadExitAdopted
  <2> QED
    BY <2>1, <2>2 DEF Facts
<1>18. ASSUME CheckLiveness PROVE IInv'
  <2>1. TypeOK'
    <3>1. sup' \in Passes
      BY <1>18 DEF TypeOK, Passes, DurableJobs, CheckLiveness, Alive
    <3> QED
      BY <3>1, <1>18 DEF TypeOK, CheckLiveness
  <2>2. Facts'
    BY <1>18 DEF TypeOK, DurableJobs, Runners, Passes, Facts, ToldOnce,
        RunnerProgress, EvidenceStable, NoFalsePass, OnlyUnknownRunsOn,
        AllPassed, Passed, CheckLiveness, Alive
  <2> QED
    BY <2>1, <2>2 DEF Facts
<1>19. ASSUME CheckHeartbeat PROVE IInv'
  <2>1. TypeOK'
    <3>1. sup' \in Passes
      BY <1>19 DEF TypeOK, Passes, DurableJobs, CheckHeartbeat, Terminated,
          Alive
    <3>2. runner' \in Runners
      BY <1>19 DEF TypeOK, Runners, CheckHeartbeat, Terminated, Alive
    <3>3. clk' \in Clocks
      BY <1>19 DEF TypeOK, Clocks, CheckHeartbeat, Terminated, Alive
    <3> QED
      BY <3>1, <3>2, <3>3, <1>19 DEF TypeOK, CheckHeartbeat
  <2>2. Facts'
    BY <1>19 DEF TypeOK, DurableJobs, Runners, Passes, Facts, ToldOnce,
        RunnerProgress, EvidenceStable, NoFalsePass, OnlyUnknownRunsOn,
        AllPassed, Passed, CheckHeartbeat, Terminated, Alive
  <2> QED
    BY <2>1, <2>2 DEF Facts
<1>20. ASSUME EscalateSigkill PROVE IInv'
  <2>1. TypeOK'
    <3>1. Killed \in Runners
      <4>1. [runner EXCEPT !.pc = "gone", !.hung = FALSE] \in Runners
        BY DEF TypeOK, Runners
      <4> QED
        BY <4>1 DEF Killed, TypeOK
    <3>2. sup' \in Passes
      BY <1>20 DEF TypeOK, Passes, EscalateSigkill
    <3> QED
      BY <3>1, <3>2, <1>20 DEF TypeOK, EscalateSigkill
  <2>2. Facts'
    BY <1>20 DEF TypeOK, DurableJobs, Runners, Passes, Facts, ToldOnce,
        RunnerProgress, EvidenceStable, NoFalsePass, OnlyUnknownRunsOn,
        AllPassed, Passed, EscalateSigkill, Killed, Alive
  <2> QED
    BY <2>1, <2>2 DEF Facts
<1>21. ASSUME CommitReceipt PROVE IInv'
  <2>1. TypeOK'
    <3>1. job' \in DurableJobs
      BY <1>21 DEF TypeOK, DurableJobs, CommitReceipt, Commit, CommitClock,
          RecordExitReceipt, MaxEffect, EffectRank
    <3>2. sup' \in Passes
      BY <1>21 DEF TypeOK, Passes, DurableJobs, CommitReceipt, Commit,
          CommitClock, RecordExitReceipt, MaxEffect, EffectRank
    <3>3. clk' \in Clocks
      BY <1>21 DEF TypeOK, Clocks, CommitReceipt, Commit, CommitClock,
          RecordExitReceipt, MaxEffect, EffectRank
    <3> QED
      BY <3>1, <3>2, <3>3, <1>21 DEF TypeOK, CommitReceipt, Commit, CommitClock
  <2>2. Facts'
    BY <1>21 DEF TypeOK, DurableJobs, Runners, Passes, Facts, ToldOnce,
        RunnerProgress, EvidenceStable, NoFalsePass, OnlyUnknownRunsOn,
        AllPassed, Passed, CommitReceipt, Commit, CommitClock,
        RecordExitReceipt, MaxEffect, EffectRank
  <2> QED
    BY <2>1, <2>2 DEF Facts
<1>22. ASSUME HarvestExit PROVE IInv'
  <2>1. TypeOK'
    <3>1. job' \in DurableJobs
      BY <1>22 DEF TypeOK, DurableJobs, HarvestExit, Commit, CommitClock,
          CanComplete, CompleteDurableJob, MarkDurableJobWakeupNotified,
          EvidenceStable
    <3>2. sup' \in Passes
      BY <1>22 DEF TypeOK, Passes, DurableJobs, HarvestExit, Commit,
          CommitClock, CanComplete, CompleteDurableJob,
          MarkDurableJobWakeupNotified, EvidenceStable
    <3>3. clk' \in Clocks
      BY <1>22 DEF TypeOK, Clocks, HarvestExit, Commit, CommitClock,
          CanComplete, CompleteDurableJob, MarkDurableJobWakeupNotified,
          EvidenceStable
    <3> QED
      BY <3>1, <3>2, <3>3, <1>22 DEF TypeOK, HarvestExit, Commit, CommitClock
  <2>2. Facts'
    BY <1>22 DEF TypeOK, DurableJobs, Runners, Passes, Facts, ToldOnce,
        RunnerProgress, EvidenceStable, NoFalsePass, OnlyUnknownRunsOn,
        AllPassed, Passed, HarvestExit, Commit, CommitClock, CanComplete,
        CompleteDurableJob, MarkDurableJobWakeupNotified
  <2> QED
    BY <2>1, <2>2 DEF Facts
<1>23. ASSUME ReadCheckpoint PROVE IInv'
  <2>1. TypeOK'
    BY <1>23 DEF TypeOK, Passes, ReadCheckpoint
  <2>2. Facts'
    BY <1>23 DEF TypeOK, DurableJobs, Runners, Passes, Facts, ToldOnce,
        RunnerProgress, EvidenceStable, NoFalsePass, OnlyUnknownRunsOn,
        AllPassed, Passed, ReadCheckpoint
  <2> QED
    BY <2>1, <2>2 DEF Facts
<1>24. ASSUME SettleDead PROVE IInv'
  <2>1. TypeOK'
    <3>1. job' \in DurableJobs
      BY <1>24 DEF TypeOK, DurableJobs, SettleDead, Commit, CommitClock,
          CompleteDurableJob, MarkDurableJobUnknown,
          MarkDurableJobWakeupNotified, Covers, Proven
    <3>2. sup' \in Passes
      BY <1>24 DEF TypeOK, Passes, DurableJobs, SettleDead, Commit,
          CommitClock, CompleteDurableJob, MarkDurableJobUnknown,
          MarkDurableJobWakeupNotified, Covers, Proven
    <3>3. clk' \in Clocks
      BY <1>24 DEF TypeOK, Clocks, SettleDead, Commit, CommitClock,
          CompleteDurableJob, MarkDurableJobUnknown,
          MarkDurableJobWakeupNotified, Covers, Proven
    <3> QED
      BY <3>1, <3>2, <3>3, <1>24 DEF TypeOK, SettleDead, Commit, CommitClock
  <2>2. Facts'
    <3>1. job.status = "running" /\ sup.read = checkpoint /\ runner.pc = "gone"
      BY <1>24 DEF SettleDead, EvidenceStable
    <3>2. sup' = [sup EXCEPT !.pc = "idle"] /\ sup'.snap = sup.snap /\ sup'.pc = "idle"
      BY <1>24 DEF SettleDead, TypeOK, Passes
    <3>3. /\ Proven(checkpoint) \in {"succeeded", "timed-out", "failed"}
          /\ Proven(checkpoint) = "succeeded" => AllPassed(checkpoint)
      BY DEF Proven, AllPassed
    <3>4. CASE Covers(checkpoint)
      <4>1. job' = [job EXCEPT !.status = Proven(checkpoint),
                               !.evidence = "checkpoint", !.wakeupNotified = TRUE]
        BY <3>1, <3>4, <1>24 DEF SettleDead, Commit, CompleteDurableJob,
          MarkDurableJobWakeupNotified, TypeOK, DurableJobs
      <4>2. /\ job'.status = Proven(checkpoint) /\ job'.effect = job.effect
            /\ job'.wakeupNotified
        BY <4>1 DEF TypeOK, DurableJobs
      <4>3. leaderWakes' = leaderWakes + 1
        BY <3>1, <3>3, <4>2, <1>24 DEF SettleDead, Commit, CompleteDurableJob,
          MarkDurableJobWakeupNotified, TypeOK, DurableJobs
      <4>4. NoFalsePass'
        BY <3>3, <3>4, <4>2, <1>24 DEF SettleDead, NoFalsePass, Covers, AllPassed
      <4> QED
        BY <3>1, <3>2, <3>3, <4>2, <4>3, <4>4, <1>24 DEF SettleDead, Commit, Facts,
          ToldOnce, RunnerProgress, EvidenceStable, OnlyUnknownRunsOn
    <3>5. CASE ~Covers(checkpoint)
      <4>1. job' = [job EXCEPT !.status = "unknown", !.wakeupNotified = TRUE]
        BY <3>1, <3>5, <1>24 DEF SettleDead, Commit, MarkDurableJobUnknown,
          MarkDurableJobWakeupNotified, TypeOK, DurableJobs
      <4>2. /\ job'.status = "unknown" /\ job'.effect = job.effect
            /\ job'.wakeupNotified
        BY <4>1 DEF TypeOK, DurableJobs
      <4>3. leaderWakes' = leaderWakes + 1
        BY <3>1, <4>2, <1>24 DEF SettleDead, Commit
      <4> QED
        BY <3>1, <3>2, <4>2, <4>3, <1>24 DEF SettleDead, Commit, Facts, ToldOnce,
          RunnerProgress, EvidenceStable, NoFalsePass, OnlyUnknownRunsOn
    <3> QED
      BY <3>4, <3>5
  <2> QED
    BY <2>1, <2>2 DEF Facts
<1>25. ASSUME SettleDeadThrows PROVE IInv'
  <2>1. TypeOK'
    BY <1>25 DEF TypeOK, Passes, SettleDeadThrows
  <2>2. Facts'
    BY <1>25 DEF TypeOK, DurableJobs, Runners, Passes, Facts, ToldOnce,
        RunnerProgress, EvidenceStable, NoFalsePass, OnlyUnknownRunsOn,
        AllPassed, Passed, SettleDeadThrows
  <2> QED
    BY <2>1, <2>2 DEF Facts
<1> QED
  BY <1>1, <1>2, <1>3, <1>4, <1>5, <1>6, <1>7, <1>8, <1>9, <1>10, <1>11, <1>12,
      <1>13, <1>14, <1>15, <1>16, <1>17, <1>18, <1>19, <1>20, <1>21, <1>22,
      <1>23, <1>24, <1>25 DEF Pass

(* Crashes, time, the runner and the requests of other processes. *)
LEMMA OthersKeepIInv ==
  ASSUME JobAssumption, IInv, Next, ~Pass
  PROVE  IInv'
<1> USE DEF JobAssumption, IInv, PassIsCurrent, Boundary, QueuedPcs, RunningPcs
<1>1. ASSUME Crash PROVE IInv'
  <2>1. TypeOK'
    BY <1>1 DEF TypeOK, Passes, Crash
  <2>2. Facts'
    BY <1>1 DEF TypeOK, DurableJobs, Runners, Passes, Facts, ToldOnce,
        RunnerProgress, EvidenceStable, NoFalsePass, OnlyUnknownRunsOn,
        AllPassed, Passed, Crash
  <2> QED
    BY <2>1, <2>2 DEF Facts
<1>2. ASSUME Restart PROVE IInv'
  <2>1. TypeOK'
    BY <1>2 DEF TypeOK, Passes, Restart
  <2>2. Facts'
    BY <1>2 DEF TypeOK, DurableJobs, Runners, Passes, Facts, ToldOnce,
        RunnerProgress, EvidenceStable, NoFalsePass, OnlyUnknownRunsOn,
        AllPassed, Passed, Restart
  <2> QED
    BY <2>1, <2>2 DEF Facts
<1>3. ASSUME SigkillFallsDue PROVE IInv'
  <2>1. TypeOK'
    BY <1>3 DEF TypeOK, SigkillFallsDue
  <2>2. Facts'
    BY <1>3 DEF TypeOK, DurableJobs, Runners, Passes, Facts, ToldOnce,
        RunnerProgress, EvidenceStable, NoFalsePass, OnlyUnknownRunsOn,
        AllPassed, Passed, SigkillFallsDue
  <2> QED
    BY <2>1, <2>2 DEF Facts
<1>4. ASSUME RunnerCreateReady PROVE IInv'
  <2>1. TypeOK'
    <3>1. runner' \in Runners
      BY <1>4 DEF TypeOK, Runners, RunnerCreateReady, Touched
    <3>2. clk' \in Clocks
      BY <1>4 DEF TypeOK, Clocks, RunnerCreateReady, Touched
    <3> QED
      BY <3>1, <3>2, <1>4 DEF TypeOK, RunnerCreateReady
  <2>2. Facts'
    BY <1>4 DEF TypeOK, DurableJobs, Runners, Passes, Facts, ToldOnce,
        RunnerProgress, EvidenceStable, NoFalsePass, OnlyUnknownRunsOn,
        AllPassed, Passed, RunnerCreateReady, Touched
  <2> QED
    BY <2>1, <2>2 DEF Facts
<1>5. ASSUME RunnerWriteReady PROVE IInv'
  <2>1. TypeOK'
    BY <1>5 DEF TypeOK, Runners, RunnerWriteReady
  <2>2. Facts'
    BY <1>5 DEF TypeOK, DurableJobs, Runners, Passes, Facts, ToldOnce,
        RunnerProgress, EvidenceStable, NoFalsePass, OnlyUnknownRunsOn,
        AllPassed, Passed, RunnerWriteReady
  <2> QED
    BY <2>1, <2>2 DEF Facts
<1>6. ASSUME RunnerNextStep PROVE IInv'
  <2>1. CASE Len(checkpoint) = NSteps
    <3>1. /\ runner' = [runner EXCEPT !.pc = "finishing", !.outcome = "succeeded"]
          /\ clk' = clk
      BY <2>1, <1>6 DEF RunnerNextStep
    <3>2. TypeOK'
      BY <3>1, <1>6 DEF RunnerNextStep, TypeOK, Runners
    <3>3. runner'.pc = "finishing"
      BY <3>1 DEF TypeOK, Runners
    <3> QED
      BY <2>1, <3>2, <3>3, <1>6 DEF RunnerNextStep, ToldOnce, RunnerProgress,
        EvidenceStable, NoFalsePass, OnlyUnknownRunsOn
  <2>2. CASE Len(checkpoint) # NSteps /\ (runner.cancelled \/ fence)
    <3>1. /\ runner' = [runner EXCEPT !.pc = "finishing", !.cancelled = TRUE,
                                      !.outcome = "cancelled"]
          /\ clk' = clk
      BY <2>2, <1>6 DEF RunnerNextStep
    <3>2. TypeOK'
      BY <3>1, <1>6 DEF RunnerNextStep, TypeOK, Runners
    <3>3. runner'.pc = "finishing" /\ runner'.outcome = "cancelled"
      BY <3>1 DEF TypeOK, Runners
    <3> QED
      BY <2>2, <3>2, <3>3, <1>6 DEF RunnerNextStep, ToldOnce, RunnerProgress,
        EvidenceStable, NoFalsePass, OnlyUnknownRunsOn
  <2>3. CASE Len(checkpoint) # NSteps /\ ~(runner.cancelled \/ fence)
    <3>1. runner' = [runner EXCEPT !.pc = "stepping"] /\ clk' = Touched
      BY <2>3, <1>6 DEF RunnerNextStep
    <3>2. clk' \in Clocks
      BY <3>1 DEF TypeOK, Clocks, Touched
    <3> QED
      BY <2>3, <3>1, <3>2, <1>6 DEF RunnerNextStep, TypeOK, DurableJobs, Runners,
        Passes, ToldOnce, RunnerProgress, EvidenceStable, NoFalsePass,
        OnlyUnknownRunsOn
  <2> QED
    BY <2>1, <2>2, <2>3
<1>7. ASSUME RunnerStepEnds PROVE IInv'
  <2>1. PICK r \in ResultKinds :
          runner' = [runner EXCEPT !.pc = "checkpointing", !.last = r]
    BY <1>7 DEF RunnerStepEnds
  <2>2. TypeOK'
    BY <2>1, <1>7 DEF RunnerStepEnds, TypeOK, Runners
  <2>3. runner'.pc = "checkpointing" /\ runner'.last # "none"
    BY <2>1 DEF TypeOK, Runners
  <2> QED
    BY <2>2, <2>3, <1>7 DEF RunnerStepEnds, ToldOnce, RunnerProgress, EvidenceStable,
      NoFalsePass, OnlyUnknownRunsOn
<1>8. ASSUME RunnerCheckpoint PROVE IInv'
  <2>1. TypeOK'
    <3>1. runner.last \in ResultKinds
      BY <1>8 DEF RunnerCheckpoint, TypeOK, Runners, RunnerProgress
    <3>2. runner' \in Runners
      BY <1>8 DEF RunnerCheckpoint, TypeOK, Runners, AfterStep
    <3> QED
      BY <3>1, <3>2, <1>8 DEF TypeOK, RunnerCheckpoint
  <2>2. Facts'
    BY <1>8 DEF TypeOK, DurableJobs, Runners, Passes, Facts, ToldOnce,
        RunnerProgress, EvidenceStable, NoFalsePass, OnlyUnknownRunsOn,
        AllPassed, Passed, RunnerCheckpoint, AfterStep
  <2> QED
    BY <2>1, <2>2 DEF Facts
<1>9. ASSUME RunnerWriteExit PROVE IInv'
  <2>1. TypeOK'
    BY <1>9 DEF TypeOK, Runners, RunnerWriteExit
  <2>2. Facts'
    BY <1>9 DEF TypeOK, DurableJobs, Runners, Passes, Facts, ToldOnce,
        RunnerProgress, EvidenceStable, NoFalsePass, OnlyUnknownRunsOn,
        AllPassed, Passed, RunnerWriteExit
  <2> QED
    BY <2>1, <2>2 DEF Facts
<1>10. ASSUME RunnerExits PROVE IInv'
  <2>1. TypeOK'
    BY <1>10 DEF TypeOK, Runners, RunnerExits
  <2>2. Facts'
    BY <1>10 DEF TypeOK, DurableJobs, Runners, Passes, Facts, ToldOnce,
        RunnerProgress, EvidenceStable, NoFalsePass, OnlyUnknownRunsOn,
        AllPassed, Passed, RunnerExits
  <2> QED
    BY <2>1, <2>2 DEF Facts
<1>11. ASSUME RunnerHeartbeat PROVE IInv'
  <2>1. TypeOK'
    <3>1. Touched \in Clocks
      BY DEF TypeOK, Clocks, Touched
    <3> QED
      BY <3>1, <1>11 DEF TypeOK, RunnerHeartbeat
  <2>2. Facts'
    BY <1>11 DEF TypeOK, DurableJobs, Runners, Passes, Facts, ToldOnce,
        RunnerProgress, EvidenceStable, NoFalsePass, OnlyUnknownRunsOn,
        AllPassed, Passed, RunnerHeartbeat, Touched
  <2> QED
    BY <2>1, <2>2 DEF Facts
<1>12. ASSUME RunnerDies PROVE IInv'
  <2>1. TypeOK'
    <3>1. runner' \in Runners
      BY <1>12 DEF TypeOK, Runners, RunnerDies, Killed, Alive
    <3> QED
      BY <3>1, <1>12 DEF TypeOK, RunnerDies
  <2>2. Facts'
    BY <1>12 DEF TypeOK, DurableJobs, Runners, Passes, Facts, ToldOnce,
        RunnerProgress, EvidenceStable, NoFalsePass, OnlyUnknownRunsOn,
        AllPassed, Passed, RunnerDies, Killed, Alive
  <2> QED
    BY <2>1, <2>2 DEF Facts
<1>13. ASSUME RunnerHangs PROVE IInv'
  <2>1. TypeOK'
    BY <1>13 DEF TypeOK, Runners, RunnerHangs
  <2>2. Facts'
    BY <1>13 DEF TypeOK, DurableJobs, Runners, Passes, Facts, ToldOnce,
        RunnerProgress, EvidenceStable, NoFalsePass, OnlyUnknownRunsOn,
        AllPassed, Passed, RunnerHangs
  <2> QED
    BY <2>1, <2>2 DEF Facts
<1>14. ASSUME HeartbeatAges PROVE IInv'
  <2>1. TypeOK'
    BY <1>14 DEF TypeOK, Clocks, HeartbeatAges
  <2>2. Facts'
    BY <1>14 DEF TypeOK, DurableJobs, Runners, Passes, Facts, ToldOnce,
        RunnerProgress, EvidenceStable, NoFalsePass, OnlyUnknownRunsOn,
        AllPassed, Passed, HeartbeatAges
  <2> QED
    BY <2>1, <2>2 DEF Facts
<1>15. ASSUME MachineSleeps PROVE IInv'
  <2>1. TypeOK'
    BY <1>15 DEF TypeOK, Clocks, MachineSleeps
  <2>2. Facts'
    BY <1>15 DEF TypeOK, DurableJobs, Runners, Passes, Facts, ToldOnce,
        RunnerProgress, EvidenceStable, NoFalsePass, OnlyUnknownRunsOn,
        AllPassed, Passed, MachineSleeps
  <2> QED
    BY <2>1, <2>2 DEF Facts
<1>16. ASSUME CancelJob PROVE IInv'
  <2>1. TypeOK'
    <3>1. job' \in DurableJobs
      BY <1>16 DEF TypeOK, DurableJobs, CancelJob, RequestDurableJobCancel
    <3>2. clk' \in Clocks
      BY <1>16 DEF TypeOK, Clocks, CancelJob, RequestDurableJobCancel
    <3> QED
      BY <3>1, <3>2, <1>16 DEF TypeOK, CancelJob
  <2>2. Facts'
    BY <1>16 DEF TypeOK, DurableJobs, Runners, Passes, Facts, ToldOnce,
        RunnerProgress, EvidenceStable, NoFalsePass, OnlyUnknownRunsOn,
        AllPassed, Passed, CancelJob, RequestDurableJobCancel
  <2> QED
    BY <2>1, <2>2 DEF Facts
<1>17. ASSUME AcknowledgeJob PROVE IInv'
  <2>1. TypeOK'
    BY <1>17 DEF TypeOK, DurableJobs, AcknowledgeJob, CanAcknowledge,
        AcknowledgeUnknownDurableJob
  <2>2. Facts'
    BY <1>17 DEF TypeOK, DurableJobs, Runners, Passes, Facts, ToldOnce,
        RunnerProgress, EvidenceStable, NoFalsePass, OnlyUnknownRunsOn,
        AllPassed, Passed, AcknowledgeJob, CanAcknowledge,
        AcknowledgeUnknownDurableJob
  <2> QED
    BY <2>1, <2>2 DEF Facts
<1> QED
  BY <1>1, <1>2, <1>3, <1>4, <1>5, <1>6, <1>7, <1>8, <1>9, <1>10, <1>11, <1>12,
      <1>13, <1>14, <1>15, <1>16, <1>17 DEF Next, RunnerStep

-----------------------------------------------------------------------------
LEMMA InitIInv == JobAssumption /\ Init => IInv
<1> SUFFICES ASSUME JobAssumption, Init PROVE IInv
  OBVIOUS
<1>1. job \in DurableJobs /\ sup \in Passes
  BY DEF Init, NewDurableJob, DurableJobs, Passes
<1>2. TypeOK
  <2>1. runner \in Runners
    BY DEF Init, Runners
  <2>2. clk \in Clocks
    BY DEF Init, Clocks
  <2>3. 0 \in 0..MaxCrashes
    BY DEF JobAssumption
  <2>4. checkpoint \in Seq(ResultKinds)
    BY DEF Init
  <2> QED
    BY <1>1, <2>1, <2>2, <2>3, <2>4 DEF Init, TypeOK
<1>3. Facts
  BY DEF Init, NewDurableJob, Facts, ToldOnce, PassIsCurrent, QueuedPcs,
    RunningPcs, Boundary, RunnerProgress, EvidenceStable, NoFalsePass,
    OnlyUnknownRunsOn
<1> QED
  BY <1>2, <1>3 DEF IInv, Facts

LEMMA NextIInv == JobAssumption /\ IInv /\ [Next]_vars => IInv'
<1> SUFFICES ASSUME JobAssumption, IInv, [Next]_vars PROVE IInv'
  OBVIOUS
<1>1. CASE Next
  BY <1>1, PassKeepsIInv, OthersKeepIInv
<1>2. CASE UNCHANGED vars
  BY <1>2 DEF vars, IInv, TypeOK, ToldOnce, PassIsCurrent, Boundary,
    RunnerProgress, EvidenceStable, NoFalsePass, OnlyUnknownRunsOn, AllPassed
<1> QED
  BY <1>1, <1>2

LEMMA Invariance == Spec => []IInv
  BY InitIInv, NextIInv, JobAssumption, PTL DEF Spec

(* However the Controller crashes and its passes are retried, one runner at most
   is launched, and only after the send intent is durable. *)
THEOREM LaunchedOnceTheorem == Spec => []LaunchedOnce
<1>1. IInv => LaunchedOnce
  BY DEF IInv, Boundary, LaunchedOnce
<1> QED
  BY <1>1, Invariance, PTL

(* A job recorded as succeeded ran and passed every planned step. *)
THEOREM NoFalsePassTheorem == Spec => []NoFalsePass
<1>1. IInv => NoFalsePass
  BY DEF IInv
<1> QED
  BY <1>1, Invariance, PTL

(* The records of the job, the runner and the passes keep their shape whatever
   crashes between two writes (DurableJob, ActiveOperation). *)
THEOREM TypeOKTheorem == Spec => []TypeOK
<1>1. IInv => TypeOK
  BY DEF IInv
<1> QED
  BY <1>1, Invariance, PTL

(* The Leader is told of the end of a job exactly once, with the commit that
   ends it. *)
THEOREM ToldOnceTheorem == Spec => []ToldOnce
<1>1. IInv => ToldOnce
  BY DEF IInv
<1> QED
  BY <1>1, Invariance, PTL

(* Once a job has ended its runner has, unless the job ended as unknown. *)
THEOREM OnlyUnknownRunsOnTheorem == Spec => []OnlyUnknownRunsOn
<1>1. IInv => OnlyUnknownRunsOn
  BY DEF IInv
<1> QED
  BY <1>1, Invariance, PTL

-----------------------------------------------------------------------------
(* Refinement: the steps that end a job, then every step. *)

Ends(outcome, source) ==
  /\ ~IsTerminal(job)
  /\ job' = [job EXCEPT !.status = outcome, !.evidence = source,
                         !.wakeupNotified = TRUE]
  /\ leaderWakes' = leaderWakes + 1
  /\ launches' = launches

LEMMA EndsRefines ==
  ASSUME NEW outcome \in Lifecycle!Outcomes, NEW source \in Evidence,
         Ends(outcome, source)
  PROVE  Lifecycle!Next
  BY DEF Ends, Lifecycle!Next, Lifecycle!Finish, Lifecycle!Open,
    Lifecycle!IsTerminal, Lifecycle!TerminalStatuses, Lifecycle!Evidence

LEMMA StepRefines ==
  ASSUME JobAssumption, IInv, Next
  PROVE  [Lifecycle!Next]_Lifecycle!vars
<1> USE DEF JobAssumption, IInv, PassIsCurrent, Boundary, QueuedPcs, RunningPcs
<1>t. job \in DurableJobs
  BY DEF TypeOK
<1>1. ASSUME Adopt PROVE Lifecycle!Next
  BY <1>1 DEF Adopt, Commit, CanStart, StartDurableJob, Lifecycle!Next,
    Lifecycle!Adopt, TypeOK, DurableJobs
<1>2. ASSUME CommitAttempt PROVE Lifecycle!Next
  BY <1>2 DEF CommitAttempt, Commit, CanAttempt, AttemptDurableJob,
    Lifecycle!Next, Lifecycle!Attempt, Lifecycle!Open, Lifecycle!IsTerminal,
    Lifecycle!TerminalStatuses, TypeOK, DurableJobs
<1>3. ASSUME SpawnJobRunner PROVE Lifecycle!Next
  BY <1>3 DEF SpawnJobRunner, Lifecycle!Next, Lifecycle!Launch
<1>4. ASSUME CancelJob PROVE Lifecycle!Next
  BY <1>4 DEF CancelJob, RequestDurableJobCancel, Lifecycle!Next,
    Lifecycle!RequestCancel, Lifecycle!Open, Lifecycle!IsTerminal,
    Lifecycle!TerminalStatuses
<1>5. ASSUME AcknowledgeJob PROVE Lifecycle!Next
  BY <1>5 DEF AcknowledgeJob, CanAcknowledge, AcknowledgeUnknownDurableJob,
    Lifecycle!Next, Lifecycle!Acknowledge
<1>6. ASSUME CommitReceipt PROVE UNCHANGED Lifecycle!vars
  <2>1. job' = job
    BY <1>6 DEF CommitReceipt, Commit, RecordExitReceipt, MaxEffect, EffectRank,
      TypeOK, DurableJobs
  <2> QED
    BY <1>6, <2>1 DEF CommitReceipt, Commit, Lifecycle!vars
<1>7. ASSUME MarkUnaccepted PROVE Lifecycle!Next
  <2>1. Ends("unknown", job.evidence)
    BY <1>7, <1>t DEF MarkUnaccepted, Commit, CanMarkUnknown,
      MarkDurableJobUnknown, MarkDurableJobWakeupNotified, Ends, DurableJobs
  <2>2. "unknown" \in Lifecycle!Outcomes
    BY <1>7 DEF MarkUnaccepted, CanMarkUnknown, Lifecycle!Outcomes,
      Lifecycle!TerminalStatuses
  <2> QED
    BY <2>1, <2>2, <1>t, EndsRefines DEF DurableJobs
<1>8. ASSUME CancelQueued PROVE Lifecycle!Next
  <2>1. Ends("cancelled", job.evidence)
    BY <1>8, <1>t DEF CancelQueued, Commit, CanCancelQueued,
      CancelQueuedDurableJob, MarkDurableJobWakeupNotified, Ends, DurableJobs
  <2>2. "cancelled" \in Lifecycle!Outcomes
    BY <1>8 DEF CancelQueued, CanCancelQueued, Lifecycle!Outcomes
  <2> QED
    BY <2>1, <2>2, <1>t, EndsRefines DEF DurableJobs
<1>9. ASSUME RejectStart PROVE Lifecycle!Next
  <2>1. Ends("failed", job.evidence)
    BY <1>9, <1>t DEF RejectStart, Commit, CanReject, RejectQueuedDurableJob,
      MarkDurableJobWakeupNotified, Ends, DurableJobs
  <2>2. "failed" \in Lifecycle!Outcomes
    BY <1>9 DEF RejectStart, CanReject, Lifecycle!Outcomes
  <2> QED
    BY <2>1, <2>2, <1>t, EndsRefines DEF DurableJobs
<1>10. ASSUME HarvestExit PROVE Lifecycle!Next
  <2>1. job.status = "running" /\ exit \in ExitOutcomes
    BY <1>10 DEF HarvestExit, EvidenceStable, TypeOK
  <2>2. Lifecycle!Outcomes = TerminalStatuses
    BY <2>1 DEF Lifecycle!Outcomes, Lifecycle!TerminalStatuses
  <2>3. CASE Valid(checkpoint)
    <3>1. Ends(exit, "exit-artifact")
      BY <1>10, <1>t, <2>1, <2>3 DEF HarvestExit, Commit, CompleteDurableJob,
        MarkDurableJobWakeupNotified, Ends, DurableJobs
    <3> QED
      BY <2>1, <2>2, <3>1, EndsRefines
  <2>4. CASE ~Valid(checkpoint)
    <3>1. Ends("failed", "none")
      BY <1>10, <1>t, <2>1, <2>4 DEF HarvestExit, Commit, CompleteDurableJob,
        MarkDurableJobWakeupNotified, Ends, DurableJobs
    <3> QED
      BY <2>2, <3>1, EndsRefines
  <2> QED
    BY <2>3, <2>4
<1>11. ASSUME SettleDead PROVE Lifecycle!Next
  <2>1. job.status = "running"
    BY <1>11 DEF SettleDead
  <2>2. Lifecycle!Outcomes = TerminalStatuses
    BY <2>1 DEF Lifecycle!Outcomes, Lifecycle!TerminalStatuses
  <2>3. Proven(sup.read) \in {"succeeded", "timed-out", "failed"}
    BY DEF Proven
  <2>4. CASE Covers(sup.read)
    <3>1. Ends(Proven(sup.read), "checkpoint")
      BY <1>11, <1>t, <2>1, <2>3, <2>4 DEF SettleDead, Commit,
        CompleteDurableJob, MarkDurableJobWakeupNotified, Ends, DurableJobs
    <3> QED
      BY <2>2, <2>3, <3>1, EndsRefines
  <2>5. CASE ~Covers(sup.read)
    <3>1. Ends("unknown", job.evidence)
      BY <1>11, <1>t, <2>1, <2>5 DEF SettleDead, Commit, MarkDurableJobUnknown,
        MarkDurableJobWakeupNotified, Ends, DurableJobs
    <3> QED
      BY <2>2, <3>1, <1>t, EndsRefines DEF DurableJobs
  <2> QED
    BY <2>4, <2>5
<1>12. ASSUME ~Adopt, ~CommitAttempt, ~SpawnJobRunner, ~CancelJob,
              ~AcknowledgeJob, ~CommitReceipt, ~MarkUnaccepted, ~CancelQueued,
              ~RejectStart, ~HarvestExit, ~SettleDead
       PROVE  UNCHANGED Lifecycle!vars
  <2>1. Pass => UNCHANGED record
    BY <1>12 DEF Pass, BeginPass, PassThrows, ReadEvidence, WriteCancelFence,
      SignalCancel, Authorize, RefuseAttempt, WritePendingMarker,
      WriteRealMarker, ReadExitRunning, ReadExitAdopted, CheckLiveness,
      CheckHeartbeat, EscalateSigkill, ReadCheckpoint, SettleDeadThrows
  <2>2. RunnerStep => UNCHANGED record
    BY DEF RunnerStep, RunnerCreateReady, RunnerWriteReady, RunnerNextStep,
      RunnerStepEnds, RunnerCheckpoint, RunnerWriteExit, RunnerExits
  <2>3. UNCHANGED record
    BY <1>12, <2>1, <2>2 DEF Next, Crash, Restart, SigkillFallsDue,
      RunnerHeartbeat, RunnerDies, RunnerHangs, HeartbeatAges, MachineSleeps
  <2> QED
    BY <2>3 DEF Lifecycle!vars
<1> QED
  BY <1>1, <1>2, <1>3, <1>4, <1>5, <1>6, <1>7, <1>8, <1>9, <1>10, <1>11, <1>12

(* Every behaviour of the supervisor, the runner and the crashes between them
   is one the Task may rely on. *)
THEOREM Refinement == Spec => ImplementsLifecycle
<1>1. Init => Lifecycle!Init
  BY DEF Init, Lifecycle!Init, NewDurableJob, Lifecycle!NewDurableJob
<1>2. IInv /\ [Next]_vars => [Lifecycle!Next]_Lifecycle!vars
  <2> SUFFICES ASSUME IInv, [Next]_vars PROVE [Lifecycle!Next]_Lifecycle!vars
    OBVIOUS
  <2>1. CASE Next
    BY <2>1, StepRefines, JobAssumption
  <2>2. CASE UNCHANGED vars
    BY <2>2 DEF vars, Lifecycle!vars
  <2> QED
    BY <2>1, <2>2
<1> QED
  BY <1>1, <1>2, Invariance, PTL DEF Spec, ImplementsLifecycle, Lifecycle!Spec
=============================================================================
