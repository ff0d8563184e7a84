---------------------------- MODULE ControllerPump ----------------------------
(***************************************************************************)
(* The main lane of the Controller, class FileTaskController of            *)
(* src/controller/controller.ts: how a signalled mailbox key becomes a     *)
(* scheduler pass, how requests coalesce while a pass runs, how a full     *)
(* pass absorbs dirty work, and what is retried after a failure.           *)
(*                                                                         *)
(* An action is the code between two awaits of the event loop. What a pass *)
(* does to the store is outside; a pass resolves or throws, and a Task may *)
(* be reported as failed by the runtime inbox. The two queues used here    *)
(* are abstracted to what MailboxScheduler and KeyedWorkQueue establish:   *)
(* one batch is handed over at a time, and an aborted queue starts nothing *)
(* more. Delivery retries and deadlines only call signal(): they are part  *)
(* of Signal.                                                              *)
(***************************************************************************)
EXTENDS Naturals, FiniteSets

CONSTANTS
  Tasks,
  Keys,         \* mailbox keys: of Tasks, of their roles, or of neither
  TaskOf,       \* the Task of a key, or None
  TaskKey,      \* the key task:<id>, which stands for every role of the Task
  Concurrency,  \* #taskConcurrency
  PassLimit,    \* #deliveryRetryLimit, as #schedulePassRetry uses it
  TaskLimit,    \* #taskOrchestrationRetryLimit
  QuietModes,   \* the ways the outside may fall silent: see Quiesce
  None

ASSUME PumpAssumption ==
  /\ None \notin Tasks
  /\ TaskOf \in [Keys -> Tasks \cup {None}]
  /\ TaskKey \in [Tasks -> Keys]
  /\ \A t \in Tasks : TaskOf[TaskKey[t]] = t
  /\ Concurrency \in Nat \ {0}
  /\ PassLimit \in Nat /\ TaskLimit \in Nat
  /\ QuietModes \subseteq {"throws", "fails"}

VARIABLES
  stopped,      \* #stopped
  interval,     \* #timer is armed
  sched,        \* keys in #signalScheduler
  handing,      \* its handler awaits #current
  pendingFull,  \* #pendingFull
  pendingKeys,  \* #pendingKeys
  pc,           \* what #runCoalesced awaits; "idle" when #current is undefined
  scope,        \* the scope of the pass under way
  blocked,      \* runtimeFailedTaskIds after the first runtime drain
  work,         \* of each Task, in the dirty queue of the pass
  passTimer,    \* #passRetryTimer is armed
  passAttempt,  \* #passRetryAttempt
  retry,        \* of each Task: #taskPassRetryTimers and #taskPassRetryAttempts
  owed,         \* history: keys signalled, or tried and failed, since a pass served them
  gaveUp,       \* history: Tasks whose retry was exhausted or replaced
  quiet         \* once not "no": nothing comes from outside, only faults of one kind

queueVars == <<stopped, interval, sched, handing>>
loopVars == <<pc, scope, blocked, work>>
retryVars == <<passTimer, passAttempt, retry>>
vars == <<queueVars, pendingFull, pendingKeys, loopVars, retryVars, owed, gaveUp, quiet>>

-----------------------------------------------------------------------------
Stages == {"idle", "drain1", "global", "tasks", "full", "drain2", "yield"}
Scopes == [full : BOOLEAN, keys : SUBSET Keys]
NoScope == [full |-> FALSE, keys |-> {}]
WorkStates == {"none", "queued", "running", "ok", "failed"}
NoWork == [t \in Tasks |-> "none"]

(* A retry that is not armed may still count attempts for its identity. *)
Retries == [armed : BOOLEAN, attempts : 0..TaskLimit, keys : SUBSET Keys]
NoRetry == [armed |-> FALSE, attempts |-> 0, keys |-> {}]

TypeOK ==
  /\ stopped \in BOOLEAN /\ interval \in BOOLEAN
  /\ sched \subseteq Keys /\ handing \in BOOLEAN
  /\ pendingFull \in BOOLEAN /\ pendingKeys \subseteq Keys
  /\ pc \in Stages /\ scope \in Scopes /\ blocked \subseteq Tasks
  /\ work \in [Tasks -> WorkStates]
  /\ passTimer \in BOOLEAN /\ passAttempt \in 0..PassLimit
  /\ retry \in [Tasks -> Retries]
  /\ owed \subseteq Keys /\ gaveUp \subseteq Tasks /\ quiet \in {"no"} \cup QuietModes

Init ==
  /\ stopped = FALSE /\ interval = FALSE
  /\ sched = {} /\ handing = FALSE
  /\ pendingFull = FALSE /\ pendingKeys = {}
  /\ pc = "idle" /\ scope = NoScope /\ blocked = {} /\ work = NoWork
  /\ passTimer = FALSE /\ passAttempt = 0
  /\ retry = [t \in Tasks |-> NoRetry]
  /\ owed = {} /\ gaveUp = {} /\ quiet = "no"

-----------------------------------------------------------------------------
KeysOf(t) == {k \in Keys : TaskOf[k] = t}
Globals == KeysOf(None)

(* The keys a pass over ks attends to: compileReconcileSelection. *)
CoveredBy(ks) == ks \cup {k \in Keys : TaskOf[k] # None /\ TaskKey[TaskOf[k]] \in ks}

(* partitionDirtyScope: the keys of one Task of a dirty scope. *)
ScopeKeys(t) == scope.keys \cap KeysOf(t)

(* queue.abortPending(): what has not started will not. *)
Aborted == [t \in Tasks |-> IF work[t] = "queued" THEN "none" ELSE work[t]]

(* The head of the loop of #runCoalesced. *)
TakeScope(full, keys) ==
  /\ pc' = "drain1"
  /\ scope' = [full |-> full, keys |-> IF full THEN {} ELSE keys]
  /\ pendingFull' = FALSE
  /\ pendingKeys' = {}
  /\ gaveUp' = IF full THEN {} ELSE gaveUp
  /\ blocked' = {}
  /\ work' = NoWork

(* #requestPass for a dirty scope. The loop starts at once when none runs. *)
RequestDirty(keys) ==
  LET merged == IF pendingFull THEN pendingKeys ELSE pendingKeys \cup keys
  IN IF pc # "idle" \/ (~pendingFull /\ merged = {})
     THEN /\ pendingKeys' = merged
          /\ UNCHANGED <<pendingFull, loopVars, gaveUp>>
     ELSE TakeScope(pendingFull, merged)

(* Mutant: with no pass under way only what is pending is looked at. *)
RequestFull_Shallow ==
  /\ retry' = [t \in Tasks |-> NoRetry]
  /\ IF pc # "idle"
     THEN /\ pendingFull' = TRUE
          /\ pendingKeys' = {}
          /\ work' = Aborted
          /\ UNCHANGED <<pc, scope, blocked, gaveUp>>
     ELSE TakeScope(FALSE, pendingKeys)

(* #requestPass for a full scope, which absorbs everything dirty. *)
RequestFull ==
  /\ retry' = [t \in Tasks |-> NoRetry]
  /\ IF pc # "idle"
     THEN /\ pendingFull' = TRUE
          /\ pendingKeys' = {}
          /\ work' = Aborted
          /\ UNCHANGED <<pc, scope, blocked, gaveUp>>
     ELSE TakeScope(TRUE, {})

-----------------------------------------------------------------------------
(* start(): the first full pass and the reconciliation interval. *)
Start ==
  /\ ~interval /\ ~stopped
  /\ interval' = TRUE
  /\ RequestFull
  /\ UNCHANGED <<stopped, sched, handing, passTimer, passAttempt, owed, quiet>>

IntervalTick ==
  /\ interval /\ quiet = "no"
  /\ RequestFull
  /\ UNCHANGED <<queueVars, passTimer, passAttempt, owed, quiet>>

(* signal(key): by a command, the observer, a delivery retry or a deadline. *)
Signal(k) ==
  /\ ~stopped /\ quiet = "no"
  /\ sched' = sched \cup {k}
  /\ owed' = owed \cup {k}
  /\ UNCHANGED <<stopped, interval, handing, pendingFull, pendingKeys, loopVars,
                 retryVars, gaveUp, quiet>>

(* The signal scheduler's batch handler: request a pass and await it. *)
Hand ==
  /\ sched # {} /\ ~handing
  /\ RequestDirty(sched)
  /\ sched' = {}
  /\ handing' = TRUE
  /\ UNCHANGED <<stopped, interval, retryVars, owed, quiet>>

(* The callback of #passRetryTimer: whatever the failed pass left pending. *)
PassRetryFires ==
  /\ passTimer
  /\ passTimer' = FALSE
  /\ RequestDirty({})
  /\ UNCHANGED <<queueVars, passAttempt, retry, owed, quiet>>

(* The callback of a Task's retry timer, which a pending full pass absorbs. *)
TaskRetryFires(t) ==
  /\ retry[t].armed
  /\ retry' = [retry EXCEPT ![t].armed = FALSE]
  /\ IF pendingFull
     THEN UNCHANGED <<pendingFull, pendingKeys, loopVars, gaveUp>>
     ELSE RequestDirty(retry[t].keys)
  /\ UNCHANGED <<queueVars, passTimer, passAttempt, owed, quiet>>

(* The same callback when the Task is no longer active, or cannot be read. *)
TaskRetryLapses(t) ==
  /\ retry[t].armed /\ ~pendingFull
  /\ retry' = [retry EXCEPT ![t] = NoRetry]
  /\ gaveUp' = gaveUp \cup {t}
  /\ UNCHANGED <<queueVars, pendingFull, pendingKeys, loopVars, passTimer, passAttempt,
                 owed, quiet>>

(* stop(): timers are cleared, the scheduler is stopped, the queue aborted. *)
Stop ==
  /\ ~stopped
  /\ stopped' = TRUE
  /\ interval' = FALSE
  /\ sched' = {}
  /\ passTimer' = FALSE
  /\ retry' = [t \in Tasks |-> NoRetry]
  /\ work' = Aborted
  /\ UNCHANGED <<handing, pendingFull, pendingKeys, pc, scope, blocked, passAttempt,
                 owed, gaveUp, quiet>>

-----------------------------------------------------------------------------
(* The loop ends and #current is cleared: the awaiting batch handler resumes. *)
LeaveLoop ==
  /\ pc' = "idle"
  /\ scope' = NoScope
  /\ blocked' = {}
  /\ work' = NoWork
  /\ handing' = FALSE

(* #runDirtySchedulerPass after its global keys: the Tasks are queued unless
   the pass has been overtaken. *)
BeginTasks(b) ==
  LET ts == {t \in Tasks \ b : ScopeKeys(t) # {}}
  IN IF ts = {} \/ stopped \/ pendingFull
     THEN pc' = "drain2" /\ UNCHANGED work
     ELSE pc' = "tasks" /\ work' = [t \in Tasks |-> IF t \in ts THEN "queued" ELSE "none"]

(* The first runtime drain resolves; the pass will leave out the Tasks b. *)
FirstDrain(b) ==
  /\ pc = "drain1"
  /\ blocked' = b
  /\ IF scope.full
     THEN /\ pc' = "full"
          /\ owed' = {k \in owed : TaskOf[k] \in b}
          /\ UNCHANGED work
     ELSE IF scope.keys \cap Globals # {}
     THEN /\ pc' = "global"
          /\ owed' = owed \ (scope.keys \cap Globals)
          /\ UNCHANGED work
     ELSE BeginTasks(b) /\ UNCHANGED owed
  /\ UNCHANGED <<queueVars, pendingFull, pendingKeys, scope, retryVars, gaveUp, quiet>>

GlobalPass ==
  /\ pc = "global"
  /\ BeginTasks(blocked)
  /\ UNCHANGED <<queueVars, pendingFull, pendingKeys, scope, blocked, retryVars, owed,
                 gaveUp, quiet>>

(* A consumer of the dirty queue takes a Task and begins its pass, unless the
   pass has been overtaken. *)
TaskBegins(t) ==
  /\ pc = "tasks" /\ work[t] = "queued"
  /\ Cardinality({u \in Tasks : work[u] = "running"}) < Concurrency
  /\ IF stopped \/ pendingFull
     THEN work' = [work EXCEPT ![t] = "none"] /\ UNCHANGED owed
     ELSE /\ work' = [work EXCEPT ![t] = "running"]
          /\ owed' = owed \ (CoveredBy(ScopeKeys(t)) \cap KeysOf(t))
  /\ UNCHANGED <<queueVars, pendingFull, pendingKeys, pc, scope, blocked, retryVars,
                 gaveUp, quiet>>

(* A Task's retry is dropped by a pass over other keys of the Task. *)
Dropped(t, ks) == retry[t].armed /\ ~(retry[t].keys \subseteq CoveredBy(ks))

TaskPasses(t) ==
  /\ work[t] = "running"
  /\ work' = [work EXCEPT ![t] = "ok"]
  /\ retry' = [retry EXCEPT ![t] = NoRetry]
  /\ gaveUp' = IF Dropped(t, ScopeKeys(t)) THEN gaveUp \cup {t} ELSE gaveUp
  /\ UNCHANGED <<queueVars, pendingFull, pendingKeys, pc, scope, blocked, passTimer,
                 passAttempt, owed, quiet>>

(* Mutant: the scope of a Task that failed is not remembered. *)
TaskFails_Swallowed(t) ==
  /\ work[t] = "running"
  /\ work' = [work EXCEPT ![t] = "ok"]
  /\ owed' = owed \cup ScopeKeys(t)
  /\ UNCHANGED <<queueVars, pendingFull, pendingKeys, pc, scope, blocked, retryVars,
                 gaveUp, quiet>>

TaskFails(t) ==
  /\ work[t] = "running"
  /\ work' = [work EXCEPT ![t] = "failed"]
  /\ owed' = owed \cup ScopeKeys(t)
  /\ UNCHANGED <<queueVars, pendingFull, pendingKeys, pc, scope, blocked, retryVars,
                 gaveUp, quiet>>

(* Every consumer has returned and the queue is shut down. *)
TasksEnd ==
  /\ pc = "tasks"
  /\ \A t \in Tasks : work[t] \notin {"queued", "running"}
  /\ pc' = "drain2"
  /\ UNCHANGED <<queueVars, pendingFull, pendingKeys, scope, blocked, work, retryVars,
                 owed, gaveUp, quiet>>

FullPass ==
  /\ pc = "full"
  /\ pc' = "drain2"
  /\ UNCHANGED <<queueVars, pendingFull, pendingKeys, scope, blocked, work, retryVars,
                 owed, gaveUp, quiet>>

-----------------------------------------------------------------------------
(* Mutant: the attempts are forgotten with the timer. *)
ScheduleTaskRetry_Unbounded(r, ks) ==
  IF r.armed /\ r.keys = ks THEN r ELSE [armed |-> TRUE, attempts |-> 0, keys |-> ks]

(* #scheduleTaskPassRetry: what becomes of r when the scope ks has failed.
   Another identity starts counting again; the limit clears the entry. *)
ScheduleTaskRetry(r, ks) ==
  LET prev == IF r.attempts > 0 /\ r.keys # ks THEN NoRetry ELSE r
  IN IF prev.armed THEN prev
     ELSE IF prev.attempts >= TaskLimit THEN NoRetry
     ELSE [armed |-> TRUE, attempts |-> prev.attempts + 1, keys |-> ks]

(* The retries after a pass that ended: first the failed scopes, then the
   Tasks that the runtime inbox reported. A pending full pass needs none. *)
RetryAfter(t, failed, reported) ==
  LET r0 == IF scope.full THEN NoRetry ELSE retry[t]
      r1 == IF t \in failed THEN ScheduleTaskRetry(r0, ScopeKeys(t)) ELSE r0
  IN IF stopped \/ pendingFull THEN r0
     ELSE IF t \in reported THEN ScheduleTaskRetry(r1, {TaskKey[t]})
     ELSE r1

(* The retry that was armed, or that this pass owed, is not armed any more. *)
RetryGone(t, failed, r) ==
  LET before == (IF retry[t].armed THEN retry[t].keys ELSE {})
                   \cup (IF t \in failed THEN ScopeKeys(t) ELSE {})
  IN ~(before \subseteq IF r.armed THEN CoveredBy(r.keys) ELSE {})

(* Mutant: the loop goes on while there are events, stopped or not. *)
Finish_IgnoresStop(more, lapsed, again) ==
  /\ pc = "drain2"
  /\ passTimer' = FALSE
  /\ passAttempt' = 0
  /\ IF pendingFull \/ pendingKeys # {} \/ again
     THEN /\ pc' = "yield"
          /\ scope' = NoScope /\ blocked' = {} /\ work' = NoWork
          /\ UNCHANGED handing
     ELSE LeaveLoop
  /\ UNCHANGED <<stopped, interval, sched, pendingFull, pendingKeys, retry, owed, gaveUp, quiet>>

(* The second runtime drain resolves, with the Tasks more reported and perhaps
   events left (again): the success path of the loop body. Tasks that are not
   active any more (lapsed) are not retried. *)
Finish(more, lapsed, again) ==
  /\ pc = "drain2"
  /\ passTimer' = FALSE
  /\ passAttempt' = 0
  /\ LET failed == {t \in Tasks : work[t] = "failed"}
         after == [t \in Tasks |->
                     IF t \in lapsed \cap (failed \cup blocked \cup more) /\ ~stopped /\ ~pendingFull
                     THEN NoRetry
                     ELSE RetryAfter(t, failed, blocked \cup more)]
     IN /\ retry' = after
        /\ gaveUp' = gaveUp \cup {t \in failed \cup blocked \cup more : ~after[t].armed}
                            \cup {t \in Tasks : RetryGone(t, failed, after[t])}
  /\ IF ~stopped /\ (pendingFull \/ pendingKeys # {} \/ again)
     THEN /\ pc' = "yield"
          /\ scope' = NoScope /\ blocked' = {} /\ work' = NoWork
          /\ UNCHANGED handing
     ELSE LeaveLoop
  /\ UNCHANGED <<stopped, interval, sched, pendingFull, pendingKeys, owed, quiet>>

(* After eventLoopRun() the loop goes on: a stop meanwhile is not looked at. *)
Yield ==
  /\ pc = "yield"
  /\ TakeScope(pendingFull, pendingKeys)
  /\ UNCHANGED <<queueVars, retryVars, owed, quiet>>

(* Mutant: a throw does not arm the retry of the pass. *)
PassThrows_NoRetry ==
  /\ pc \in {"drain1", "global", "full", "drain2"}
  /\ pendingFull' = (pendingFull \/ scope.full)
  /\ pendingKeys' = IF pendingFull' THEN {} ELSE pendingKeys \cup scope.keys
  /\ owed' = IF pc = "full" THEN Keys ELSE owed \cup scope.keys
  /\ LeaveLoop
  /\ UNCHANGED <<stopped, interval, sched, retryVars, gaveUp, quiet>>

(* An await of the loop body throws: the scope becomes pending again, the
   bounded retry of the pass is armed, the loop is left. *)
PassThrows ==
  /\ pc \in {"drain1", "global", "full", "drain2"}
  /\ pendingFull' = (pendingFull \/ scope.full)
  /\ pendingKeys' = IF scope.full THEN {}
                    ELSE IF pendingFull THEN pendingKeys
                    ELSE pendingKeys \cup scope.keys
  /\ IF stopped \/ passTimer \/ passAttempt >= PassLimit
     THEN UNCHANGED <<passTimer, passAttempt>>
     ELSE passTimer' = TRUE /\ passAttempt' = passAttempt + 1
  /\ owed' = IF pc = "full" THEN Keys ELSE owed \cup scope.keys
  /\ LeaveLoop
  /\ UNCHANGED <<stopped, interval, sched, retry, gaveUp, quiet>>

(* The world outside falls silent: from now on the only faults are passes that
   throw, or only Tasks that fail. *)
Quiesce ==
  /\ quiet = "no"
  /\ quiet' \in QuietModes
  /\ UNCHANGED <<queueVars, pendingFull, pendingKeys, loopVars, retryVars, owed, gaveUp>>

-----------------------------------------------------------------------------
(* Each of these ends one await of the loop. *)
LoopStep ==
  \/ \E b \in SUBSET Tasks : (quiet = "throws" => b = {}) /\ FirstDrain(b)
  \/ GlobalPass \/ FullPass \/ TasksEnd \/ Yield
  \/ quiet # "fails" /\ PassThrows
  \/ \E t \in Tasks : TaskBegins(t) \/ TaskPasses(t) \/ (quiet # "throws" /\ TaskFails(t))
  \/ \E more, lapsed \in SUBSET Tasks, again \in BOOLEAN :
       /\ quiet = "no" \/ (~again /\ more \subseteq blocked)
       /\ Finish(more, lapsed, again)

Next ==
  \/ Start \/ IntervalTick \/ Hand \/ PassRetryFires \/ Stop \/ Quiesce
  \/ \E k \in Keys : Signal(k)
  \/ \E t \in Tasks : TaskRetryFires(t) \/ TaskRetryLapses(t)
  \/ LoopStep

(* Timers fire, the signal window ends, and every await settles. *)
Fairness ==
  /\ WF_vars(Start) /\ WF_vars(IntervalTick) /\ WF_vars(Hand)
  /\ WF_vars(PassRetryFires)
  /\ \A t \in Tasks : WF_vars(TaskRetryFires(t))
  /\ WF_vars(LoopStep)

Spec == Init /\ [][Next]_vars /\ Fairness

-----------------------------------------------------------------------------
(* The pass under way will still serve k, or will see to its retry. *)
InFlight(k) ==
  \/ TaskOf[k] \in blocked
  \/ pc = "drain1" /\ (scope.full \/ k \in CoveredBy(scope.keys))
  \/ pc = "global" /\ k \in CoveredBy(scope.keys) /\ TaskOf[k] # None
  \/ /\ TaskOf[k] # None
     /\ work[TaskOf[k]] \in {"queued", "failed"}
     /\ k \in CoveredBy(scope.keys)

(* Nothing dirty is forgotten: a key that was signalled, or that a pass tried
   and failed, waits in the scheduler, is pending, is absorbed by a pending
   full pass, belongs to the pass under way, or has a retry armed; the only
   exception is a Task whose bounded retry was used up or replaced, which is
   left to the next full pass. *)
NothingForgotten ==
  ~stopped =>
    \A k \in owed :
      \/ k \in sched \/ pendingFull \/ k \in CoveredBy(pendingKeys)
      \/ InFlight(k)
      \/ /\ TaskOf[k] # None
         /\ \/ TaskOf[k] \in gaveUp
            \/ retry[TaskOf[k]].armed /\ k \in CoveredBy(retry[TaskOf[k]].keys)

(* What is pending is never left to itself: while no pass runs, it has the
   timer of the pass retry, or that retry has been tried to its limit. *)
PendingHasRetry ==
  pc = "idle" /\ ~stopped /\ (pendingFull \/ pendingKeys # {})
    => passTimer \/ passAttempt = PassLimit

(* A dirty key is covered by pass after pass until one serves it. *)
KeyAttempted ==
  \A k \in Keys :
    k \in owed ~> \/ k \notin owed \/ stopped \/ quiet # "no"
                  \/ pc # "idle" /\ (scope.full \/ k \in CoveredBy(scope.keys))

(* Retries are bounded: when nothing comes from outside, neither passes that
   keep throwing nor Tasks that keep failing keep the Controller busy. *)
ComesToRest ==
  quiet # "no"
    ~> [](pc = "idle" /\ sched = {} /\ ~passTimer /\ \A t \in Tasks : ~retry[t].armed)

(* shutdownAndDrain() completes: a stopped Controller ends its pass. *)
StopCompletes == stopped ~> [](pc = "idle")
=============================================================================
