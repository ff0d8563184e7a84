# Yui in TLA+

Yui (the package of the TaskMux repository) is a local control plane for
long-running coding agents. One Controller daemon per home directory owns a
SQLite Task Store. It hands work to agents through durable mailboxes, runs a
scheduler pass whenever a mailbox key is signalled, drives native agent sessions
through Agent Host processes, and supervises long jobs in detached runner
processes. Commands, the dashboard, the Hosts and the runners are other
processes: all of them meet in the store and in a few files.

This directory models the parts of Yui whose correctness depends on
interleavings, crashes, lost answers and retries. TLC checks each model on small
instances, TLAPS proves the main safety properties of eight of them for
every value of their constants. `PROJECT.json` is the machine-readable index:
components, runs, mutants, the map from definitions to source lines, hazards,
findings and theorems.

Paths below are relative to the repository's `src/`.

## 1. Inventory

| Component | State | Operations | Interacts with | What is hard | What makes it correct |
|---|---|---|---|---|---|
| Keyed work queue, `coordination/keyedWorkQueue.ts` | phase of each key, dirty marks, ready FIFO, waiters, stop mode | signal, take, done, drain, shutdown, abortPending | the dirty pass of the Controller | signals during a lease; a stop with open leases | no lost or starved signal, one lease per key, an honest stop |
| Mailbox scheduler, `coordination/mailboxScheduler.ts` | pending keys, window timer, the drain in progress, a drain request | signal, drain, stop | signals in, the Controller's pass out | signals during a batch, handlers that reject, stop during a deferred start | batches never overlap, no stranded key, quiet after stop |
| Controller main lane, `controller/controller.ts` | pending scope, the pass under way, pass and Task retries, interval | start, signal, pump, the coalescing loop, retries, stop | both queues above, runtime inbox, every processor | coalescing of full and dirty passes, partial failure, bounded retries | no dirty key forgotten, retries end, a stop ends |
| Durable job, `job/durableJob.ts` | one record per job | transition functions, save rule | supervisor, runner, commands | evidence of an effect that may have happened | monotone life cycle |
| Job supervisor and runner, `controller/jobSupervisor.ts`, `job/jobRunner.ts` | store record, start, ready, cancel, checkpoint, exit and heartbeat files, the runner process | a supervision pass, adoption, harvest, escalation; the runner's loop | Leader mailbox, process table | crash at every step, races on files, stuck runners | launched once, no false pass, told once, always ends |
| Work mailbox, `coordination/workMailbox.ts` | pending and claimed batch, sequence numbers, window of settled dedupe keys | enqueue, claim, complete, release, consume, validate | every lane of the Controller, commands | merging after a release, dedupe across a claim | nothing lost, the validator never throws |
| Provider turn record, `runtime/providerRuntimeIdentity.ts` | the input a native session is occupied with | begin, accept, settle, end, cancel | Agent Host, observations, session stops | late and repeated facts | one active input, only true outcomes |
| Leader notification, `scheduler/leaderWakeupProcessor.ts`, `controller/fileSchedulerStoreAdapter.ts` | claim, wakes, delivery events | claim, inspect, resubmit, send, settle, resolve | mailbox, provider turn, Agent Host | a crash or a lost answer around an input that cannot be taken back | never lost, never replayed, never silently stalled |
| Agent Host submission, `runtime/agentHost.ts` | the attempt it is occupied with, its snapshot | register, write, publish, resolve, reply | Controller RPC, native session, inbox | the acceptance timer, doubt after the write | honest replies |
| Role dispatch and Run delivery, `scheduler/activeRoleRunDelivery.ts`, `coordination/workMailboxQueue.ts` | the Role's mailbox, its active Run pointer, transport attempts, submit errors, the session | dispatch, prepare, submit, resolve, defer, retire | mailbox, AgentRun, provider turn, Agent Host | a lost reply or a crash around an input that cannot be taken back; two Runs of one Role | an input given once at most, no dispatch dropped, every Run ends or is visibly parked |
| Operator lane, `scheduler/operatorInputNotificationProcessor.ts` | claim of the Operator's mailbox | claim, send, complete, release | mailbox, input requests | receipts derived from the batch | no lost question |
| AgentRun and termination, `agentRun/agentRun.ts`, `lifecycle/exactRunTerminalization.ts` | Run status, result, report to the Leader | start, terminal, cancel, give up | observations, messages, Run delivery | terminals twice, late or for an older turn | one end and one report per Run, and a true one |
| Runtime inbox and observer, `controller/runtimeEventInbox.ts`, `controller/runtimeEventProcessor.ts` | one file per observation, retries, quarantine | enqueue, claim, apply, retire | Hosts, the Controller's pass | out-of-order and repeated observations, crash while applying | every observation applied once in effect |
| Provider authority and sessions, `runtime/providerAuthorityFence.ts`, `controller/sessionOwnerReconciliation.ts` | authority owner and epoch, session owners, cleanup obligations | transfer, reconcile, stop, replace | Host, commands | a stop or replacement during a delivery; human takeover | one writer per Conversation |
| Integration queue, `integration/integrationQueueService.ts`, `integration/gitIntegrationService.ts`, `repository/projectMaintenanceLock.ts` | queue entries, Attempts, the branch, the commit in the Task record, the maintenance fence, candidate worktrees | enqueue, process, continue, resolve, abort, requeue, supersede, reconcile | Git, check jobs, Leader | each command is a process of its own; the branch moves while checks run; copies that overwrite each other | what counts as committed is on the branch, one entry at a time, the branch never stays taken |
| Release workflow, `release/releaseWorkflowEngine.ts`, `release/releaseWorkflowPorts.ts`, `grant/capabilityGrant.ts` | checkpointed steps, idempotency records, uses and reservations of a grant | run, resume, query, authorize, charge, submit, record | outside systems, grants shared by workflows | crash between an effect and its record; a command in doubt; two runs and one use left | effects in order, repeated only after a reported failure and never after a doubt, every use accounted for |
| Release workflow lock, `release/workflowFileLock.ts` | lock directory, receipt, reclaim marker | acquire, release, reclaim | runs of one workflow | several processes reclaim one dead lock | one owner |
| Release handover, `release/releaseHandover.ts` | checkpoint of an update | hand over, roll back | two Controllers | crash between two steps | one live Controller |
| Task, WorkItem, Review rules, `task/`, `workItem/`, `review/` | life cycles and gates | activate, accept, retire, complete | commands | long sequences of legal commands | completion only with every gate met |
| Capabilities, grants, plugins, `kernel/`, `grant/`, `plugins/` | descriptors, instances, grants | resolve, call, drain, dispose | Controller | replacement while calls run | no call on a disposed instance |
| Resources and workspaces, `resources/`, `repository/` | registry, live references, checkouts | register, collect, swap | Git, file system | collection races with a new reference | nothing live collected |
| Verification gates, `verification/` | artifacts | run, reuse | jobs, Integration | reuse for another input | reuse only for the exact input |
| Task Store, RPC, drivers, launch planning, context, commands, web, telemetry, tmux, doctor | data and presentation | | | mostly conversion and I/O | see section 9 |

How the modelled parts interact: a command or a Host signals a mailbox key; the
mailbox scheduler collects keys for a short window and hands them to the
Controller's loop; the loop runs one pass at a time, a dirty one over the
Tasks of the keys (through the keyed work queue) or a full one; inside a pass
the Leader wakeup processor claims a batch of the Leader's mailbox and sends one
notification through the Agent Host, and the Run delivery sends the input of each
Role's active Run the same way; what the native session reports comes back through
the runtime inbox and ends the Run. The job supervisor has its own passes and
reaches the Leader through the same mailbox. The commands of the Integration queue
and of release workflows run outside the Controller: they meet each other in
the store, in Git and in lock directories, and leave long checks to jobs.

## 2. Plan

In order of importance; the first eight are done.

1. `KeyedWorkQueue` and its proofs.
2. `DurableJob`, `JobLifecycle`, `JobSupervisor`, the refinement and the proofs.
3. `MailboxScheduler` and its proofs.
4. `ControllerPump`, which uses what 1 and 3 establish.
5. `WorkMailbox`, `ProviderTurn`, and `LeaderNotification` composed of both.
6. `RunDelivery` over `WorkMailbox` and `ProviderTurn`, with the termination of
   AgentRuns, and the abstract `RunLifecycle` it implements.
7. `ReleaseWorkflow` with grants, the abstract `ReleasePlan` it implements, and
   `ReleaseLock`, whose exclusion it assumes.
8. `IntegrationQueue`.
9. `OperatorLane` over `WorkMailbox`, and the files of the runtime inbox.
10. Authority epochs in `ProviderTurn`, human takeover, `startJob`'s request
    identity.
11. `ResourceCollection`, the release handover, verification gates, the Task gates.

Every invariant and action property of the passing runs is proved (section 8). No
module uses `RECURSIVE`, so each stays within the prover's reach.

## 3. Modules and the code

**`KeyedWorkQueue`** is the class of that name. A key is absent, queued or
processing; `dirty` are the processing keys signalled again. One action per
method and branch: `SignalNew`/`SignalKnown`, `TakeLease`/`TakeEnd`/`TakeWait`,
`DoneReplay`/`DoneForget`, `Drain`, `Shutdown`, `AbortPending`. A resolved promise
is delivered at once; what its owner does next is another action. `owed` is a
history variable: accepted signals that no lease covers yet.

**`MailboxScheduler`** is the class of that name. `Drains` are the promises that
may exist together, `phase` is where each one is. `WindowEnds` is the timer,
`BeginDrain`, `BatchResolves`, `BatchRejects` and `Finally` are the parts of a
drain between awaits.

**`ControllerPump`** is the main lane of `FileTaskController`: `Signal`, `Hand` (the
scheduler's handler), `IntervalTick`, the loop of `#runCoalesced` with a stage for
every await, `TaskBegins`/`TaskPasses`/`TaskFails` inside a dirty pass, `PassThrows`,
and the retry timers. The two queues it uses are abstracted to what modules 1
and 3 establish. What a pass does to the store is outside; delivery retries and
deadlines only call `signal` and are part of `Signal`.

**`DurableJob`** holds the record, its transition functions and the save rule;
**`JobLifecycle`** is the abstract promise: an attempt is recorded before anything
runs, at most one launch, one end, and the Leader's wakeup is part of that end.
**`JobSupervisor`** is one job with all its parties. A pass is a sequence of steps,
one for each file access, signal or transaction (`sup.pc`), on the record it read at
the start (`sup.snap`). The runner is a second process with its own program counter.
Timestamps are kept as the comparisons the code makes on them (`clk`).

**`WorkMailbox`** is the mailbox as operators on a record, with the code's
validator as `Valid`; **`ProviderTurn`** is the record of one input.
**`LeaderNotification`** composes them. `mailbox`, `wakes`, `provider`, `log`,
`accepted`, `resolved`, `retired` and `inbox` are in the store, `pass` is the
Controller's memory and `host` the Agent Host's. Every await of
`processLeaderWakeups` and `submitRun` separates two actions. `carried`,
`delivered` and `reissued` are history: which signals an attempt carried, which
attempts the native session really took, which signals a replacement released.
A refusal by the Host covers its early returns (no live Conversation, stale
fence) as well as a failed registration.

**`RunDelivery`** is the worker's side: the AgentRuns of one Role, from the command
that dispatches a Run to its end. Store state is `runs`, `activeRun`, `mailbox`,
`reports`, `attempts`, `errors`, `provider`, `inbox`, `session` and `cleanup`; `pass` is
the Controller's memory, `host` the Agent Host's, and `taken` is history: the attempts
the native session really took. An accepted but unreported input, a refusal, a
deferral, a doubt, a busy session and a dead Host are separate outcomes, as in
`resolveStatus` and its callers. **`RunLifecycle`** is the promise: one active
Run, one input at most, one end with one report. `LateRegistration` decides
whether a submission may stay unregistered with the Host until a later pass has
given the Run up; the passing run assumes it does not, the run
`run_repeated_submit` lets it happen.

**`ReleaseWorkflow`** is `runReleaseWorkflow` for several workflows that share
grants. `run[w]` is the one process that runs w (the lock's business); `stage` stands
at each await. The kinds of steps matter through what the code asks about them:
`Irreversible`, `Identifiable`, `Derivable`, `Refutable`. `effects` counts how often the
outside systems were made to do each step, and whether the step was reported as
failed since (`disowned`); `orphans` are commands that nobody waits for any more and that
may still take effect. What a failure means depends on the kind (`CommandFails`): a
plain failure of a tag or of the CLI's update comes before the effect or proves that
there is none (`Definite`); everything else can be reported as failed after
the effect came about (a verification script that ends badly, a Controller that was
stopped and started but does not answer, a migrated Project without its receipt), and
a merge, a pull request or a publication may still be carried out by the other side
afterwards (`Remote`). A tag, a merge and a pull request that are there are not made
again, a publication that is there is refused at every retry (`RefusesAgain`), and the
kinds in `RepeatableKinds` run as often as they are started. **`ReleasePlan`** is the promise
that is left: effects in the order of the plan, reported as done only when they are there, and
repeated only for a repeatable kind and only after the step was reported as
failed, never because of a crash or an outcome in doubt. That an effect comes about at most
once is what the documentation says and `release_retry` refutes (section 7).
**`ReleaseLock`** is the lock below it, one step per call to the file system, except
that writing a receipt and renaming it, and a recursive removal, are one step each; a
release reads the receipt in one step and removes in the next.

**`IntegrationQueue`** is one branch of a Task. Every command is a process
(`proc[p]`) with the copy of the Attempt it read (`copy`), the listing it goes through
(`snap`) and the head it saw (`head`); a transaction is one step. Moving the branch is
as many steps as there are Git commands: `MoveRef` is `update-ref`, `SyncCheckout` or
`SyncFails` is the `read-tree` that follows, `VerifyAdvance` the look at both afterwards. `tree`
is the state of the branch's checkout: clean, behind the branch until `read-tree`, or
edited, which stands for a foreign edit as well as for a branch checked out more than once. A process may die between any
two of them. Recovery of a validating Attempt looks at branch and checkout
again before it records the commit (`RecoverConfirm`), and throws when the checkout is
not clean. An error of a process that holds the fence is handled at `HandleError`, and one
of a process that no longer does escapes. A commit is the sequence of changes that lead to it, so the
branch can be compared with what an Attempt started from. `work` is what
exists outside the store for an Attempt: its check job and the cherry-pick its
worktree stopped at. `fence` is the maintenance fence; the paths of `integrate()` that
return a promise without awaiting it run without the fence and without its
error handler, as the code does. Callers' arguments are the small sets `Checked`,
`Reworked` and `Foreign`.

`MC*` modules only give instances for TLC.

## 4. Runs

| Run | Instance | Distinct states | Shows |
|---|---|---|---|
| `keyed_queue` | 3 keys, 2 consumers | 589 | no lost or starved signal, no double lease, no consumer asleep beside work, honest stop |
| `mailbox_scheduler` | 3 keys, 2 drains | 476 | batches never overlap; no signal dropped or stranded although handlers reject; a stopped scheduler rests |
| `job_supervisor` | 2 steps, 5 step results, hangs, 1 crash | 768,867 | one launch, no false pass, one wakeup, the job ends, `JobLifecycle` is implemented |
| `controller_pump` | a Task and the Operator's key, limits 2 | 219k | no dirty key is forgotten; pending work has its retry; every key is attempted; a stop ends; persistent faults of one kind use up their retries and the Controller rests |
| `leader_notification` | 2 signals, 1 dedupe key, window 1, 2 faults | 305k | nothing lost, nothing replayed, recorded outcomes true, no silent stall |
| `run_delivery` | 2 Runs of one Role, window 1, 3 faults | 186k | `RunLifecycle` is implemented; no dispatch dropped; recorded ends true; every Run ends or is visibly parked |
| `release_workflow` | 2 workflows of 2 steps, 2 grants of 3 uses, 2 faults | 314k | `ReleasePlan` is implemented; uses accounted for; a workflow that is resumed ends or is parked |
| `integration_queue` | 2 processes, 2 ChangeSets, 3 entries, 2 Attempts, 1 disturbance | 261k | committed entries are on the branch; one entry at a time, no duplicate; the branch becomes free again, but for the one case `Interrupted` names |
| `controller_chase`, `run_repeated_submit`, `release_lock`, `release_retry` | | | expect a violation: section 7 |

`CHECK_DEADLOCK FALSE` is set everywhere because each of these systems may come to
rest: a stopped queue, an ended job, a mailbox with no signal left.

### Bounds and why they are enough

- Queue: a replayed key has to compete with two others, and one consumer has to
  wait while another holds a lease. Keys and consumers are interchangeable, so
  more of them only repeat these cases; the proofs cover every number.
- Scheduler: two drains suffice because a new one is created only in the
  finally callback of the old.
- Job: two steps distinguish first, middle and last checkpoint; one crash can
  come at every step of a pass, and the restarted pass has no memory of the
  first, so a second crash meets states the first one reached. The proofs cover
  any number of both. Jobs share no state, so one is enough.
- Controller: a Task's key can fail in its own pass or with the whole pass, the
  Operator's key only with the whole pass, so the two can be owed for different
  reasons at once; in `controller_chase` a Task's key and a role's key give scopes that cover
  each other one way. Limits of two make a first retry differ from the last. The
  proofs of the safety properties cover any number of Tasks, among them a
  failing one next to a healthy one.
- Leader: two signals give one that is claimed and one that arrives behind it;
  `RecentLimit = 1` makes the window of settled keys overflow; two faults
  give every pair, such as a lost reply followed by a crash. `MaxSignals` and
  `MaxFaults` are bounds of the model only. Session replacement adds its own signal
  beyond `MaxSignals`.
- Run delivery: two Runs are needed for a late fact about the older one; three
  faults give, for example, a lost reply, a crash and a stop of the session.
- Release: a workflow with a reversible and a repeatable step runs beside one with
  a tag and a publication; four effects and three uses of the first grant make
  it run out, and the second one is there to rebind to. `MaxAttempts` bounds how
  often a refused workflow is resumed, `MaxFaults` failures and interventions.
  `release_retry` has one workflow and one grant; the failure that follows the effect is
  one of its two faults.
- Integration: one entry is queued at the start and the other ChangeSet may be
  enqueued by both processes at once; the third place is for an enqueue after a
  superseded entry, or for the duplicate that must not appear. One of the
  ChangeSets has check commands and is cherry-picked, the other is fast-forwarded. `MaxDisturbances` counts decisions, faults,
  crashes, foreign commits and rework together; one of them can come at every
  step of two commands. `Continuers`, `Reworked` and `Foreign` leave out cases
  that are the same for the other process or ChangeSet.

## 5. Fairness

- Queue: consumers keep calling `take` and complete what they hold. Producers
  and stops owe nothing.
- Scheduler and Controller: due timers fire, microtasks run, every await settles.
  Node's event loop gives this as long as every handler ends; that handlers end
  is assumed of the processors that are not modelled.
- Job: the Controller keeps supervising and is restarted after a crash, the
  runner runs unless it hangs, heartbeats age. Nothing makes a step succeed.
- Leader: passes come again (the interval tick), the Host proceeds, a turn that the
  native session took ends some day, applied observations are not delayed for
  ever. Nothing makes a person act, hence the three exceptions of
  `OnlyNamedStalls`. Only the first, `Reported`, is shown by the passes themselves.
  `Orphaned` is silent: for a turn left `submitting` by a Host that died,
  `claimLeaderNotification` answers `pending` at every pass (line 2014), and
  `leaderWakeupProcessor.ts:57-62` makes an error of `unknown` alone; the role's status
  says that the session has no live pane (`taskRoleRuntimeStatus.ts:542`), and only
  stopping or replacing the session releases the claim. `Occupied` is the same
  with a Host that is alive and holds an input the native session never took.
- Runs: passes and the Host proceed, observations are applied some day, a turn
  that a person typed ends. Nothing makes a turn that was taken report success.
- Release: the operator resumes a workflow until it is done or says what it waits
  for (`Begin`), a live process goes on, and a command without its process
  either takes effect or never will.
- Integration: a live process goes on and check jobs end; the Task's controller
  keeps running `queue process` and continues an Attempt it finds running,
  validating or resolved, as `task/nextAction.ts` and `task/completionReadiness.ts` tell
  it and `skills/yui-leader/references/integration.md` instructs the Leader. These commands are offered only between others, hence strong fairness.
  Preparing the Task's workspace refreshes its commit, which the Controller's
  passes do. Nothing makes a person clean a checkout, hence the exception
  `Interrupted` of `LaneFrees`: a process that dies between `update-ref`
  (`gitIntegrationService.ts:1677`) and `read-tree` (line 1683) leaves the branch at the
  candidate of a validating Attempt and the checkout behind it. Every `continue`
  then throws at line 1020, `abort` refuses a validating Attempt, and `requeue` and `supersede`
  refuse a running entry, so the branch stays taken. The comment at lines 355-357 knows
  of a checkout left "dirty or incomplete after an interrupted CAS application".
  A checkout that somebody edited after the branch moved and before the commit is
  recorded has the same effect. `LaneFrees` says that there is no other such case, and
  that the branch is freed once the checkout is clean. Without the exception TLC
  refutes it: the process dies after `update-ref`, and every `continue` ends at line 1020.

## 6. Mutants

Every property of a passing run has a mutant: a plausible slip in one mapped
definition (a dropped guard, a missing reset, an overwritten field), written next to
it with the suffix of the slip. With it TLC finds the property violated.

## 7. Findings

Each is a run that expects a violation of a statement the repository makes.

- `controller_chase`: the attempts of a Task's retry are counted per set of keys;
  two sets of one failing Task restart each other's count, and the limit is never
  reached.
- `run_repeated_submit`: a submission that was slow to register is taken for one
  that never arrived, and the input is submitted again under a new attempt.
- `release_lock`: a reclaim marker is removed by its path, whoever wrote it by then.
  Two reclaimers of one dead lock can therefore both pass the second reading of
  the receipt, and the slower one removes the lock that was re-acquired.
- `release_retry`: a verification script, a replaced Controller or a migrated
  Project can have had its effect and be reported as failed. The engine submits a
  failed step without an identity again under the same key, and nothing in the port looks
  at that key, so the effect comes about twice.

Schedules that the models reach and no run states, most of them against a comment:

- Jobs. A runner hangs on a job that is cancelled after its last recorded
  heartbeat: recording that heartbeat would move `updatedAt` backwards, so every
  pass throws (`storage/sqliteStore.ts:1491`) before the SIGKILL escalation
  (`controller/jobSupervisor.ts:462`), against the header at line 11. `JobSettles`
  excludes it. A runner that writes `exit.json` and exits between the supervisor's
  read of the file and its liveness check is settled from the checkpoint, or as
  unknown (line 428). A checkpointed step of 0 ms fails validation, and a dead
  runner with one leaves its job running for ever.
- Leader and Runs. An acceptance that is persisted but not folded into the claim is
  released by a session replacement and its signals are sent again
  (`controller/fileSchedulerStoreAdapter.ts:1810`). Quiescence is recorded as
  independently verified while a submission is in flight
  (`controller/sessionOwnerReconciliation.ts:304`). With `LateRegistration` a Run can end as
  failed to start and its input still be taken (`scheduler/activeRoleRunDelivery.ts:317`).
- Release. The retry of a lost grant update reuses the clock sample of the first
  try and can be refused by the `updatedAt` rule (`release/releaseWorkflowEngine.ts:572`).
  An unknown irreversible step the query calls absent is submitted again
  (`release/releaseWorkflowPorts.ts:63`). A publication that landed although its failure
  carried no identity is refused by the registry at every retry, until the uses of
  the grant are spent.
  `recoverRunningStep` opens a new attempt number, so a step that crashed twice
  is charged again.
  A lock directory without a receipt is never reclaimed.
- Integration. (a) While a `continue` works on a resolved Attempt, the stored one is
  still blocked: `requeue` or `supersede` rejects it, `continue` overwrites that and
  lands it, and the entry is queued or superseded behind a committed Attempt,
  against `integration/integrationQueueService.ts:840`; `abort` of a running Attempt has
  the same race. (b) `integrate()` returns three promises without awaiting them, so
  the fence is released before their Git effects and their errors escape, against
  `integration/gitIntegrationService.ts:182`. (c) An Attempt with check commands that was
  blocked and resolved cannot be continued where jobs are used: the job is started,
  binding it throws because the Attempt is not running
  (`integration/integrationAttempt.ts:134`), and the next `continue` fails it because the
  cherry-pick is no longer pending (line 1179 of `gitIntegrationService.ts`).
  (d) `integrate()` reads the Attempt before it waits for the fence, so a copy that is
  old by then can overwrite a committed Attempt with a failed one. (e) A fence
  refused after the claim leaves the branch taken until somebody continues the
  Attempt, although `ProjectMaintenanceLockedError` is documented as "made no
  changes". (f) `#recordCommitted` compares the Task record's commit whatever the
  target, so an Attempt on another branch is recorded as failed after its branch moved. (g) A
  `read-tree` that fails after the branch moved, in a process that holds the fence, ends a
  landed Attempt as failed (lines 343-361).

Observations that contradict no statement of the repository:

- A pass over other keys of a Task, or a failure with another identity, cancels
  or replaces the Task's armed retry. Only the interval's full pass recovers the
  dropped keys (`gaveUp` in `NothingForgotten`).
- `stop` during the loop's `yield` still runs one more pass.
- With passes that throw and Tasks that fail mixed at will, retries need not
  end, since each kind resets the other's counter; `ComesToRest` is therefore
  about one kind of fault at a time.
- A notification the Host refuses, even before it contacts the Provider, completes
  the Leader's claim: the signals count as rejected and the wake stays unconsumed.
- Signals behind a claim of unknown outcome wait with it.

## 8. Proofs

**`KeyedWorkQueueProofs`**, for every set of keys and consumers (assumption: the
null key is not a key). Inductive invariant: type correctness, `ReadyIsQueued`,
`StopIsHonest` and the checked invariants, together with two facts no single one gives: the waiters list holds exactly the waiting
consumers, once each, and dirty keys are processing. `LeaseExclusive` alone is
not inductive: a lease comes from the ready list, so `ReadyIsQueued` is needed;
that list is dispatched to waiters, so the exactness of the list is needed.

**`MailboxSchedulerProofs`**, for every set of keys and drains. `OneBatch` needs that
`#current` names a live drain; `NoLostWakeup` needs that a stopped scheduler
has neither keys nor a timer. `NoBatchAfterStop` is an action property proved from
the same invariant.

**`JobSupervisorProofs`**, for every number of steps, crashes and set of step results
(`JobAssumption`). The invariant adds to the properties: `PassIsCurrent` (what
the pass read still describes the record, since others only request a
cancellation), `Boundary` (nothing of a runner exists before the possible-effect
commit, one launch follows it), `RunnerProgress` (what has been written at each
point of the runner's loop) and `EvidenceStable` (what was read of a finished
or dead runner stays true). `NoFalsePass` rests on the last two, `LaunchedOnce`
on `Boundary`. `Refinement` shows that every step is a step of `JobLifecycle` or
leaves its variables alone.

The same invariant gives `TypeOK`, `ToldOnce` and `OnlyUnknownRunsOn`.

**`ControllerPumpProofs`**, for every set of Tasks and keys and every limit of the
retries (`PumpAssumption`). `NothingForgotten` names only where a key may be; the
invariant behind it (`Kept`) says which pass attends to it: a key that is owed
waits for a later pass, or the pass under way has it in scope and has not begun
it or failed its Task, or a retry is armed. The delicate step is a Task pass that
succeeds, because it clears the Task's retry whatever is owed by then: `OwedLater`
says that what is owed of a running Task was signalled after the pass took it up,
and therefore waits. `LoopOK` ties the stage of the loop to its scope,
`PendingHasRetry` is inductive beside these.

**`ReleaseWorkflowProofs`**, for every set of workflows and grants, every plan over
the ten kinds of steps, every `maxUses` and number of faults
(`ReleaseAssumption`). Each workflow has done the first `d` steps of its plan,
step `d + 1` is at work, and nothing happened beyond it (`InOrder`). `Working`
says what the run knows of that step at each stage; `StartedOnce` is about
the commands that run as often as they are started: a step that is pending or failed has its
way clear (`Clear`), that is, nothing was produced or the step was reported as
failed since, and a step left running or unknown is not
started again, because no query of its kind can refute it; `PaidFor` ties
effects, and commands whose process is gone, to a reservation of an attempt of
that step. A grant is compared with the copy a run took of it, so `GrantOK` holds of
copies too. `Refinement` then maps every step to one of `ReleasePlan` or a stutter,
with `done` mapped to `d`.

**`IntegrationQueueProofs`**, for every set of processes and ChangeSets, any initial
queue without duplicates, and every bound (`QueueAssumption`). Each process
holds copies (the entries it listed, the entry it will write, its Attempt), and
what the invariant says of a stored record it says of the copies (`EntryOK`,
`AttemptOK`, `ProcessOK`). They stay true because the store and the branch only
grow: an entry keeps its ChangeSet, and every swap continues the branch
(`BranchNeverRewound`, an action theorem of its own). `CommittedLanded` rests on the
candidates of Attempts continuing the commit they began from; `QueueExclusive` on
the checks that the transactions of the claim and of enqueue repeat.

**`RunDeliveryProofs`**, for every set of Runs, every number of faults and every
window of settled keys. The invariant has two parts. `KInv` holds in any case: the
mailbox holds the dispatch of the active Run or nothing (`MailboxOK`), what the inbox,
the turn and the Host say of an attempt is true (`EvidenceOK`), what the pass holds
names its own Run (`PassOK`), and a Run whose dispatch is gone was taken
(`NotDropped`). It gives `DispatchKept`. `SInv` is about the fence: an attempt of the
active Run that was taken, or that the Host is about to hand over, occupies the
Provider binding (`Occupied`), what the Host still has to hand over belongs to a Run
of which nothing was taken (`Untaken`), and a pass that prepares the input, or was
refused, knows the same of its Run (`Fenced`). `Occupied` alone is not inductive: a
submission, a refusal and a new attempt each rest on the other two. `HonestEnds`
and `Refinement` follow from both parts under the hypothesis `~LateRegistration`: no
request stays at the Host, unregistered, while a later pass begins. Without it both
are false (with `LateRegistration = TRUE` TLC refutes `HonestEnds` too, and the run
`run_repeated_submit` shows the input given twice, section 7), so the theorems say
exactly how far the stable request ids carry. `AppendUnique` keeps the case of disjoint
arguments apart, where it is a concatenation, because `SelectSeq` is opaque to the provers.

**`LeaderNotificationProofs`**, for every set of dedupe keys, every window of settled
keys and any number of signals and faults. The first lemmas are about the
operations of `WorkMailbox` on any mailbox that is kept (`BoxOK`): what each does to
the batches, their keys and the signals owed. They need more than `Valid` says: the
claimed batch is older than the pending one, and the signals of a batch lie in its
envelope, so a release merges two batches that cannot overlap and a completion takes
exactly the claimed signals.

The invariant has two parts. `MailInv` gives `MailboxValid`, `NothingLost` and
`ConsumedWasTaken`: the claim, its wake and its attempt name the same signals
(`ClaimOK`), whatever a record carries was enqueued before (`Enqueued`), so a later
signal cannot be one that was consumed. `NativeInv` gives `HonestOutcomes` and
`NoReplay`. An attempt is open when it was taken, or while the pass holds it unsent
or the Host has it and has not handed it over (`Open`). Neither property is inductive
by itself, because an answer can be recorded long after it was true; what makes it
safe is that an attempt that is shut stays shut (`AttemptStaysShut`, an action
theorem of its own), so whatever turn, reply or event says that an attempt was not
taken remains true (`Shut`). `Held` says that a signal still owed that an open attempt
carries is in the claim of that attempt, or a replacement released it; so a new
claim, and the resubmission of a deferred one, hand over only signals that no open
attempt has (`OnceOnly`). No hypothesis is needed beyond the assumptions on the
constants: a pass that died leaves its attempt with the Host, and the claim keeps
it from being tried again until the records say it is shut.

Only model-checked: the liveness properties (`SignalServed`, `StopCompletes`,
`StopSettles`, `JobSettles`, `KeyAttempted`, `ComesToRest`, `OnlyNamedStalls`, `RunSettles`,
`WorkflowSettles`, `LaneFrees`: fairness and `ENABLED` are outside the prover), and
`ReleaseLock`, whose run shows a violation.

## 9. Not modelled

`PROJECT.json` lists each part with its reason. In short: planned are the
parts of steps 9 to 11 above. Left out for good are SQLite and the schema upgrades
(a transaction is one step), RPC framing (the models keep answer, refusal or
neither), the agents' protocols (their answers are the native outcomes of
`LeaderNotification`), launch planning and context (pure functions of large
configurations and texts), command-line parsing, the dashboard, telemetry, tmux
and doctor (presentation and I/O).

Simplifications inside what is modelled: job log files and field validation;
reasons, sources and timestamps of signals; the conditions under which a pass
skips a Task; draft planning claims; Review rounds and execution lanes that end
with a Run; references between release parameters and the limit of 100 iterations;
VerificationPlans, upstream and merge strategies, overlap diagnostics,
retiring Tasks, evidence that is reused and finalizes an Attempt without a job
(`gitIntegrationService.ts:459-483`) and a job whose head is not the candidate (line 609) in the
Integration queue, whose branch only grows: rebases onto upstream (lines
1672-1676) and forced moves are left out; human authority; steering and cancelling of a
native turn; Hosts that restart with a recovered terminal.
