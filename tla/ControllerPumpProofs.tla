------------------------- MODULE ControllerPumpProofs -------------------------
(***************************************************************************)
(* The main lane of the Controller for any Tasks, keys and limits: nothing *)
(* dirty is forgotten, and what is pending is never left to itself.        *)
(*                                                                         *)
(* The argument.  A key that is owed waits for a pass, or the pass under   *)
(* way attends to it, or a retry of its Task is armed, unless the Task was *)
(* given up.  A pass that begins takes all that waits; a pass that throws  *)
(* puts its whole scope back; a pass that ends arms a retry for every Task *)
(* it failed or left out.  A Task's pass that succeeds clears the retry:   *)
(* whatever of the Task is owed by then was signalled after the pass began *)
(* and therefore waits.                                                    *)
(***************************************************************************)
EXTENDS ControllerPump, TLAPS

-----------------------------------------------------------------------------
(* The inductive invariant *)

\* Some later pass will take k
Waits(k) == k \in sched \/ pendingFull \/ k \in CoveredBy(pendingKeys)

\* The pass under way has k in its scope and has not begun it, or has failed
\* or left out its Task
Attended(k) ==
  /\ scope.full \/ k \in CoveredBy(scope.keys)
  /\ \/ TaskOf[k] \in blocked
     \/ pc = "drain1"
     \/ TaskOf[k] # None /\ (pc = "global" \/ work[TaskOf[k]] \in {"queued", "failed"})

\* The Task of k has a retry for it, or was given up
Armed(k) ==
  TaskOf[k] # None /\ retry[TaskOf[k]].armed /\ k \in CoveredBy(retry[TaskOf[k]].keys)
RetriedOrNot(k) == TaskOf[k] \in gaveUp \/ Armed(k)

LoopOK ==
  /\ pc \in {"idle", "yield"} => scope = NoScope
  /\ pc \in {"idle", "yield", "drain1"} => blocked = {}
  /\ scope.full \/ pc \in {"idle", "yield", "drain1", "global"} =>
       \A t \in Tasks : work[t] = "none"
  /\ scope.full => scope.keys = {} /\ pc \notin {"global", "tasks"}
  /\ pc = "full" => scope.full
  /\ pc = "drain2" => \A t \in Tasks : work[t] \notin {"queued", "running"}

RetriesOK == \A t \in Tasks : retry[t].armed => retry[t].attempts >= 1

\* What is owed of a Task whose pass runs came after that pass began
OwedLater ==
  ~stopped => \A k \in owed :
    TaskOf[k] # None /\ k \in CoveredBy(scope.keys) /\ work[TaskOf[k]] = "running" => Waits(k)

Kept == ~stopped => \A k \in owed : Waits(k) \/ Attended(k) \/ RetriedOrNot(k)

IInv == TypeOK /\ LoopOK /\ RetriesOK /\ PendingHasRetry /\ OwedLater /\ Kept

-----------------------------------------------------------------------------
(* What a set of keys covers *)

LEMMA CoveredMore ==
  ASSUME NEW A, NEW B, A \subseteq B
  PROVE  CoveredBy(A) \subseteq CoveredBy(B)
BY DEF CoveredBy

LEMMA CoveredTwice ==
  ASSUME NEW A, NEW B \in SUBSET Keys, A \subseteq CoveredBy(B)
  PROVE  CoveredBy(A) \subseteq CoveredBy(B)
<1> SUFFICES ASSUME NEW k \in CoveredBy(A) PROVE k \in CoveredBy(B)
  OBVIOUS
<1>1. CASE k \in A
  BY <1>1
<1>2. CASE k \in Keys /\ TaskOf[k] # None /\ TaskKey[TaskOf[k]] \in A
  <2>1. TaskOf[k] \in Tasks /\ TaskOf[TaskKey[TaskOf[k]]] = TaskOf[k]
    BY <1>2, PumpAssumption DEF PumpAssumption
  <2>2. TaskKey[TaskOf[k]] \in B
    BY <1>2, <2>1 DEF CoveredBy
  <2> QED
    BY <1>2, <2>2 DEF CoveredBy
<1> QED
  BY <1>1, <1>2 DEF CoveredBy

\* Of a Task, what the whole scope covers, the Task's part of it covers
LEMMA CoveredByTask ==
  ASSUME NEW S \in SUBSET Keys, NEW k \in Keys, k \in CoveredBy(S), TaskOf[k] # None
  PROVE  /\ TaskOf[k] \in Tasks /\ k \in CoveredBy(S \cap KeysOf(TaskOf[k]))
         /\ S \cap KeysOf(TaskOf[k]) # {}
<1>1. TaskOf[k] \in Tasks /\ TaskOf[TaskKey[TaskOf[k]]] = TaskOf[k] /\ TaskKey[TaskOf[k]] \in Keys
  BY PumpAssumption DEF PumpAssumption
<1> QED
  BY <1>1 DEF CoveredBy, KeysOf

LEMMA CoveredByTaskKey ==
  ASSUME NEW k \in Keys, TaskOf[k] # None
  PROVE  k \in CoveredBy({TaskKey[TaskOf[k]]})
BY DEF CoveredBy

LEMMA CoveredGlobal ==
  ASSUME NEW S \in SUBSET Keys, NEW k \in CoveredBy(S), TaskOf[k] = None
  PROVE  k \in S \cap Globals
BY DEF CoveredBy, Globals, KeysOf

LEMMA NoneCovered == CoveredBy({}) = {}
BY DEF CoveredBy

\* The parts of the type invariant that the loop moves
LoopTypes ==
  /\ pendingFull \in BOOLEAN /\ pendingKeys \subseteq Keys
  /\ pc \in Stages /\ scope \in Scopes /\ blocked \subseteq Tasks
  /\ work \in [Tasks -> WorkStates] /\ gaveUp \subseteq Tasks

-----------------------------------------------------------------------------
(* Requests *)

\* A pass begins with the scope it takes
LEMMA TakeScopeKeeps ==
  ASSUME IInv, NEW full \in BOOLEAN, NEW keys \in SUBSET Keys, TakeScope(full, keys),
         stopped' = stopped, owed' = owed,
         ~stopped /\ ~full => \A k \in owed :
           k \in sched' \/ k \in CoveredBy(keys) \/ TaskOf[k] \in gaveUp \/ Armed(k)'
  PROVE  LoopTypes' /\ LoopOK' /\ PendingHasRetry' /\ OwedLater' /\ Kept'
<1>1. /\ pc' = "drain1" /\ scope' = [full |-> full, keys |-> IF full THEN {} ELSE keys]
      /\ pendingFull' = FALSE /\ pendingKeys' = {} /\ blocked' = {} /\ work' = NoWork
      /\ gaveUp' = IF full THEN {} ELSE gaveUp
  BY DEF TakeScope
<1>2. /\ scope'.full = full /\ scope'.keys = (IF full THEN {} ELSE keys) /\ scope' \in Scopes
  BY <1>1 DEF Scopes
<1>3. \A t \in Tasks : work'[t] = "none"
  BY <1>1 DEF NoWork
<1>4. LoopTypes'
  BY <1>1, <1>2 DEF LoopTypes, IInv, TypeOK, Stages, WorkStates, NoWork
<1>5. LoopOK'
  BY <1>1, <1>2, <1>3 DEF LoopOK
<1>6. PendingHasRetry'
  BY <1>1 DEF PendingHasRetry
<1>7. \A k \in owed : TaskOf[k] \in Tasks \cup {None}
  BY PumpAssumption DEF PumpAssumption, IInv, TypeOK
<1>8. OwedLater'
  BY <1>3, <1>7 DEF OwedLater
<1>9. Kept'
  <2> SUFFICES ASSUME ~stopped', NEW k \in owed' PROVE (Waits(k) \/ Attended(k) \/ RetriedOrNot(k))'
    BY DEF Kept
  <2>1. CASE full
    BY <1>1, <1>2, <2>1 DEF Attended
  <2>2. CASE ~full
    BY <1>1, <1>2, <2>2 DEF Attended, RetriedOrNot, Waits
  <2> QED
    BY <2>1, <2>2
<1> QED
  BY <1>4, <1>5, <1>6, <1>8, <1>9

LEMMA IdleAttends ==
  ASSUME IInv, pc \in {"idle", "yield"}, NEW k \in owed
  PROVE  ~Attended(k)
<1>1. TaskOf[k] \in Tasks \cup {None}
  BY PumpAssumption DEF PumpAssumption, IInv, TypeOK
<1>2. blocked = {} /\ \A t \in Tasks : work[t] = "none"
  BY DEF IInv, LoopOK
<1> QED
  BY <1>1, <1>2 DEF Attended

LEMMA RequestDirtyKeeps ==
  ASSUME IInv, NEW keys \in SUBSET Keys, RequestDirty(keys),
         stopped' = stopped, owed' = owed,
         \A k \in sched : k \in sched' \/ k \in keys,
         \A k \in owed : Armed(k) => Armed(k)' \/ pendingFull \/ k \in CoveredBy(keys),
         pc # "idle" \/ passTimer' = passTimer \/ passTimer' = FALSE
  PROVE  LoopTypes' /\ LoopOK' /\ PendingHasRetry' /\ OwedLater' /\ Kept'
<1> DEFINE merged == IF pendingFull THEN pendingKeys ELSE pendingKeys \cup keys
<1>1. merged \in SUBSET Keys /\ pendingFull \in BOOLEAN
  BY DEF IInv, TypeOK
<1>2. ASSUME NEW k, ~pendingFull, k \in CoveredBy(pendingKeys) \/ k \in CoveredBy(keys) \/ k \in keys
      PROVE  k \in CoveredBy(merged)
  BY <1>2 DEF CoveredBy
<1>3. CASE pc # "idle" \/ (~pendingFull /\ merged = {})
  <2>1. pendingKeys' = merged /\ UNCHANGED <<pendingFull, pc, scope, blocked, work, gaveUp>>
    BY <1>3 DEF RequestDirty, loopVars
  <2> HIDE DEF merged
  <2>2. LoopTypes'
    BY <1>1, <2>1 DEF LoopTypes, IInv, TypeOK
  <2>3. LoopOK'
    BY <2>1 DEF LoopOK, IInv
  <2>4. PendingHasRetry'
    BY <1>3, <2>1 DEF PendingHasRetry
  <2>5. ASSUME NEW k, Waits(k) PROVE Waits(k)'
    <3>1. CASE pendingFull
      BY <2>1, <3>1 DEF Waits
    <3>2. CASE ~pendingFull
      BY <1>2, <2>1, <2>5, <3>2 DEF Waits
    <3> QED
      BY <3>1, <3>2
  <2>6. OwedLater'
    BY <2>1, <2>5 DEF OwedLater, IInv
  <2>7. Kept'
    <3> SUFFICES ASSUME ~stopped', NEW k \in owed' PROVE (Waits(k) \/ Attended(k) \/ RetriedOrNot(k))'
      BY DEF Kept
    <3>1. CASE Waits(k)
      BY <2>5, <3>1
    <3>2. CASE Attended(k)
      BY <2>1, <3>2 DEF Attended
    <3>3. CASE RetriedOrNot(k)
      <4>1. CASE pendingFull
        BY <2>1, <4>1 DEF Waits
      <4>2. CASE ~pendingFull
        BY <1>2, <2>1, <3>3, <4>2 DEF RetriedOrNot, Waits
      <4> QED
        BY <4>1, <4>2
    <3> QED
      BY <3>1, <3>2, <3>3 DEF Kept, IInv
  <2> QED
    BY <2>2, <2>3, <2>4, <2>6, <2>7
<1>4. CASE ~(pc # "idle" \/ (~pendingFull /\ merged = {}))
  <2>1. TakeScope(pendingFull, merged) /\ pc = "idle"
    BY <1>4 DEF RequestDirty
  <2> HIDE DEF merged
  <2>2. ASSUME ~stopped, ~pendingFull, NEW k \in owed
        PROVE  k \in sched' \/ k \in CoveredBy(merged) \/ TaskOf[k] \in gaveUp \/ Armed(k)'
    <3>1. Waits(k) \/ RetriedOrNot(k)
      BY <2>1, <2>2, IdleAttends DEF Kept, IInv
    <3> QED
      BY <1>2, <2>2, <3>1 DEF Waits, RetriedOrNot
  <2> QED
    BY <1>1, <2>1, <2>2, TakeScopeKeeps
<1> QED
  BY <1>3, <1>4

LEMMA RequestFullKeeps ==
  ASSUME IInv, RequestFull, UNCHANGED <<stopped, sched, passTimer, passAttempt, owed>>
  PROVE  LoopTypes' /\ LoopOK' /\ PendingHasRetry' /\ OwedLater' /\ Kept' /\ RetriesOK'
         /\ retry' \in [Tasks -> Retries]
<1>1. retry' = [t \in Tasks |-> NoRetry]
  BY DEF RequestFull
<1>2. NoRetry \in Retries /\ ~NoRetry.armed
  BY PumpAssumption DEF NoRetry, Retries, PumpAssumption
<1>3. RetriesOK' /\ retry' \in [Tasks -> Retries]
  BY <1>1, <1>2 DEF RetriesOK
<1>4. CASE pc = "idle"
  <2>1. TakeScope(TRUE, {})
    BY <1>4 DEF RequestFull
  <2> QED
    BY <1>3, <2>1, TakeScopeKeeps
<1>5. CASE pc # "idle"
  <2>1. /\ pendingFull' = TRUE /\ pendingKeys' = {} /\ work' = Aborted
        /\ UNCHANGED <<pc, scope, blocked, gaveUp>>
    BY <1>5 DEF RequestFull
  <2>2. work \in [Tasks -> WorkStates]
    BY DEF IInv, TypeOK
  <2>3. /\ work' \in [Tasks -> WorkStates]
        /\ \A t \in Tasks : work'[t] = work[t] \/ work'[t] = "none"
    BY <2>1, <2>2 DEF Aborted, WorkStates
  <2>4. LoopTypes'
    BY <2>1, <2>3 DEF LoopTypes, IInv, TypeOK
  <2>5. LoopOK'
    BY <2>1, <2>3 DEF LoopOK, IInv
  <2>6. PendingHasRetry'
    BY <1>5, <2>1 DEF PendingHasRetry
  <2>7. OwedLater' /\ Kept'
    BY <2>1 DEF OwedLater, Kept, Waits
  <2> QED
    BY <1>3, <2>4, <2>5, <2>6, <2>7
<1> QED
  BY <1>4, <1>5

-----------------------------------------------------------------------------
(* What starts a pass, and what only waits *)

LEMMA StartOrTickKeeps == IInv /\ (Start \/ IntervalTick) => IInv'
<1> SUFFICES ASSUME IInv, Start \/ IntervalTick PROVE IInv'
  OBVIOUS
<1>1. /\ RequestFull /\ UNCHANGED <<stopped, sched, handing, passTimer, passAttempt, owed, quiet>>
      /\ interval' \in {interval, TRUE}
  BY DEF Start, IntervalTick, queueVars
<1>2. /\ LoopTypes' /\ LoopOK' /\ PendingHasRetry' /\ OwedLater' /\ Kept' /\ RetriesOK'
      /\ retry' \in [Tasks -> Retries]
  BY <1>1, RequestFullKeeps
<1>3. TypeOK'
  BY <1>1, <1>2 DEF TypeOK, LoopTypes, IInv
<1> QED
  BY <1>2, <1>3 DEF IInv

LEMMA SignalKeeps ==
  ASSUME IInv, NEW k \in Keys, Signal(k)
  PROVE  IInv'
<1>1. /\ sched' = sched \cup {k} /\ owed' = owed \cup {k}
      /\ UNCHANGED <<stopped, interval, handing, pendingFull, pendingKeys, pc, scope, blocked, work,
                     passTimer, passAttempt, retry, gaveUp, quiet>>
  BY DEF Signal, loopVars, retryVars
<1>2. TypeOK'
  BY <1>1 DEF TypeOK, IInv
<1>3. LoopOK' /\ RetriesOK' /\ PendingHasRetry'
  BY <1>1 DEF LoopOK, RetriesOK, PendingHasRetry, IInv
<1>4. Waits(k)' /\ \A j : Waits(j) => Waits(j)'
  BY <1>1 DEF Waits
<1>5. OwedLater'
  BY <1>1, <1>4 DEF OwedLater, IInv
<1>6. Kept'
  <2>1. ASSUME NEW j \in owed PROVE /\ Attended(j) => Attended(j)'
                                    /\ RetriedOrNot(j) => RetriedOrNot(j)'
    BY <1>1 DEF Attended, RetriedOrNot, Armed
  <2> QED
    BY <1>1, <1>4, <2>1 DEF Kept, IInv
<1> QED
  BY <1>2, <1>3, <1>5, <1>6 DEF IInv

LEMMA HandKeeps == IInv /\ Hand => IInv'
<1> SUFFICES ASSUME IInv, Hand PROVE IInv'
  OBVIOUS
<1>1. /\ RequestDirty(sched) /\ sched' = {} /\ handing' = TRUE
      /\ UNCHANGED <<stopped, interval, passTimer, passAttempt, retry, owed, quiet>>
  BY DEF Hand, retryVars
<1>2. sched \in SUBSET Keys
  BY DEF IInv, TypeOK
<1>3. \A k : Armed(k) => Armed(k)'
  BY <1>1 DEF Armed
<1>4. LoopTypes' /\ LoopOK' /\ PendingHasRetry' /\ OwedLater' /\ Kept'
  BY <1>1, <1>2, <1>3, RequestDirtyKeeps
<1>5. TypeOK'
  BY <1>1, <1>4 DEF TypeOK, LoopTypes, IInv
<1> QED
  BY <1>1, <1>4, <1>5 DEF IInv, RetriesOK

LEMMA PassRetryKeeps == IInv /\ PassRetryFires => IInv'
<1> SUFFICES ASSUME IInv, PassRetryFires PROVE IInv'
  OBVIOUS
<1>1. /\ RequestDirty({}) /\ passTimer' = FALSE
      /\ UNCHANGED <<stopped, interval, sched, handing, passAttempt, retry, owed, quiet>>
  BY DEF PassRetryFires, queueVars
<1>2. \A k : Armed(k) => Armed(k)'
  BY <1>1 DEF Armed
<1>3. LoopTypes' /\ LoopOK' /\ PendingHasRetry' /\ OwedLater' /\ Kept'
  BY <1>1, <1>2, RequestDirtyKeeps
<1>4. TypeOK'
  BY <1>1, <1>3 DEF TypeOK, LoopTypes, IInv
<1> QED
  BY <1>1, <1>3, <1>4 DEF IInv, RetriesOK

LEMMA TaskRetryKeeps ==
  ASSUME IInv, NEW t \in Tasks, TaskRetryFires(t)
  PROVE  IInv'
<1> DEFINE r == [retry[t] EXCEPT !.armed = FALSE]
<1>1. /\ retry' = [retry EXCEPT ![t] = r] /\ retry[t].armed
      /\ UNCHANGED <<stopped, interval, sched, handing, passTimer, passAttempt, owed, quiet>>
  BY DEF TaskRetryFires, queueVars
<1>2. /\ retry \in [Tasks -> Retries] /\ retry[t] \in Retries /\ retry[t].keys \in SUBSET Keys
  BY DEF IInv, TypeOK, Retries
<1>3. r \in Retries /\ ~r.armed
  BY <1>2 DEF Retries
<1> HIDE DEF r
<1>4. /\ retry' \in [Tasks -> Retries] /\ retry'[t] = r
      /\ \A u \in Tasks : u # t => retry'[u] = retry[u]
  BY <1>1, <1>2, <1>3
<1>5. RetriesOK'
  BY <1>3, <1>4 DEF RetriesOK, IInv
<1>6. ASSUME NEW k \in owed, Armed(k)
      PROVE  Armed(k)' \/ k \in CoveredBy(retry[t].keys)
  <2>1. TaskOf[k] \in Tasks
    BY <1>6, PumpAssumption DEF PumpAssumption, Armed, IInv, TypeOK
  <2> QED
    BY <1>4, <1>6, <2>1 DEF Armed
<1>7. CASE pendingFull
  <2>1. UNCHANGED <<pendingFull, pendingKeys, pc, scope, blocked, work, gaveUp>>
    BY <1>7 DEF TaskRetryFires, loopVars
  <2>2. TypeOK'
    BY <1>1, <1>4, <2>1 DEF TypeOK, IInv
  <2>3. LoopOK' /\ PendingHasRetry'
    BY <1>1, <2>1 DEF LoopOK, PendingHasRetry, IInv
  <2>4. OwedLater' /\ Kept'
    BY <1>7, <2>1 DEF OwedLater, Kept, Waits
  <2> QED
    BY <1>5, <2>2, <2>3, <2>4 DEF IInv
<1>8. CASE ~pendingFull
  <2>1. RequestDirty(retry[t].keys)
    BY <1>8 DEF TaskRetryFires
  <2>2. LoopTypes' /\ LoopOK' /\ PendingHasRetry' /\ OwedLater' /\ Kept'
    BY <1>1, <1>2, <1>6, <2>1, RequestDirtyKeeps
  <2>3. TypeOK'
    BY <1>1, <1>4, <2>2 DEF TypeOK, LoopTypes, IInv
  <2> QED
    BY <1>5, <2>2, <2>3 DEF IInv
<1> QED
  BY <1>7, <1>8

\* A key keeps its retry unless it is that of t
LEMMA RetriesOf ==
  ASSUME TypeOK, NEW t \in Tasks, retry' = [retry EXCEPT ![t] = NoRetry], RetriesOK
  PROVE  /\ retry' \in [Tasks -> Retries] /\ RetriesOK'
         /\ \A k \in owed : Armed(k) /\ TaskOf[k] # t => Armed(k)'
<1>1. NoRetry \in Retries /\ ~NoRetry.armed
  BY PumpAssumption DEF NoRetry, Retries, PumpAssumption
<1>2. retry \in [Tasks -> Retries]
  BY DEF TypeOK
<1>3. /\ retry' \in [Tasks -> Retries] /\ retry'[t] = NoRetry
      /\ \A u \in Tasks : u # t => retry'[u] = retry[u]
  BY <1>1, <1>2
<1>4. RetriesOK'
  BY <1>1, <1>3 DEF RetriesOK
<1>5. ASSUME NEW k \in owed, Armed(k), TaskOf[k] # t
      PROVE  Armed(k)'
  <2>1. TaskOf[k] \in Tasks
    BY <1>5, PumpAssumption DEF PumpAssumption, Armed, TypeOK
  <2> QED
    BY <1>3, <1>5, <2>1 DEF Armed
<1> QED
  BY <1>3, <1>4, <1>5

LEMMA TaskRetryLapsesKeeps ==
  ASSUME IInv, NEW t \in Tasks, TaskRetryLapses(t)
  PROVE  IInv'
<1>1. /\ retry' = [retry EXCEPT ![t] = NoRetry] /\ gaveUp' = gaveUp \cup {t}
      /\ UNCHANGED <<stopped, interval, sched, handing, pendingFull, pendingKeys, pc, scope, blocked,
                     work, passTimer, passAttempt, owed, quiet>>
  BY DEF TaskRetryLapses, queueVars, loopVars
<1>2. /\ retry' \in [Tasks -> Retries] /\ RetriesOK'
      /\ \A k \in owed : Armed(k) /\ TaskOf[k] # t => Armed(k)'
  BY <1>1, RetriesOf DEF IInv
<1>3. TypeOK'
  BY <1>1, <1>2 DEF TypeOK, IInv
<1>4. LoopOK' /\ PendingHasRetry'
  BY <1>1 DEF LoopOK, PendingHasRetry, IInv
<1>5. \A k : (Waits(k) => Waits(k)') /\ (Attended(k) => Attended(k)')
  BY <1>1 DEF Waits, Attended
<1>6. OwedLater'
  BY <1>1, <1>5 DEF OwedLater, IInv
<1>7. \A k \in owed : RetriedOrNot(k) => RetriedOrNot(k)'
  BY <1>1, <1>2 DEF RetriedOrNot
<1>8. Kept'
  BY <1>1, <1>5, <1>7 DEF Kept, IInv
<1> QED
  BY <1>2, <1>3, <1>4, <1>6, <1>8 DEF IInv

LEMMA StopKeeps == IInv /\ Stop => IInv'
<1> SUFFICES ASSUME IInv, Stop PROVE IInv'
  OBVIOUS
<1>1. /\ stopped' = TRUE /\ interval' = FALSE /\ sched' = {} /\ passTimer' = FALSE
      /\ retry' = [t \in Tasks |-> NoRetry] /\ work' = Aborted
      /\ UNCHANGED <<handing, pendingFull, pendingKeys, pc, scope, blocked, passAttempt,
                     owed, gaveUp, quiet>>
  BY DEF Stop
<1>2. NoRetry \in Retries /\ ~NoRetry.armed
  BY PumpAssumption DEF NoRetry, Retries, PumpAssumption
<1>3. RetriesOK' /\ retry' \in [Tasks -> Retries]
  BY <1>1, <1>2 DEF RetriesOK
<1>4. work \in [Tasks -> WorkStates]
  BY DEF IInv, TypeOK
<1>5. /\ work' \in [Tasks -> WorkStates]
      /\ \A t \in Tasks : work'[t] = work[t] \/ work'[t] = "none"
  BY <1>1, <1>4 DEF Aborted, WorkStates
<1>6. TypeOK'
  BY <1>1, <1>3, <1>5 DEF TypeOK, IInv
<1>7. LoopOK'
  BY <1>1, <1>5 DEF LoopOK, IInv
<1> QED
  BY <1>1, <1>3, <1>6, <1>7 DEF IInv, PendingHasRetry, OwedLater, Kept

LEMMA QuiesceKeeps == IInv /\ Quiesce => IInv'
<1> SUFFICES ASSUME IInv, Quiesce PROVE IInv'
  OBVIOUS
<1>1. /\ quiet' \in QuietModes
      /\ UNCHANGED <<stopped, interval, sched, handing, pendingFull, pendingKeys, pc, scope, blocked,
                     work, passTimer, passAttempt, retry, owed, gaveUp>>
  BY DEF Quiesce, queueVars, loopVars, retryVars
<1>2. TypeOK'
  BY <1>1 DEF TypeOK, IInv
<1>3. LoopOK' /\ RetriesOK' /\ PendingHasRetry'
  BY <1>1 DEF LoopOK, RetriesOK, PendingHasRetry, IInv
<1>4. \A k : (Waits(k) => Waits(k)') /\ (Attended(k) => Attended(k)')
             /\ (RetriedOrNot(k) => RetriedOrNot(k)')
  BY <1>1 DEF Waits, Attended, RetriedOrNot, Armed
<1>5. OwedLater' /\ Kept'
  BY <1>1, <1>4 DEF OwedLater, Kept, IInv
<1> QED
  BY <1>2, <1>3, <1>5 DEF IInv

-----------------------------------------------------------------------------
(* The steps of the loop *)

\* The Tasks of a dirty pass are queued, or the pass has been overtaken
LEMMA BeginTasksFacts ==
  ASSUME TypeOK, NEW b \in SUBSET Tasks, BeginTasks(b), ~scope.full,
         \A t \in Tasks : work[t] = "none"
  PROVE  /\ pc' \in {"drain2", "tasks"} /\ work' \in [Tasks -> WorkStates]
         /\ pc' = "drain2" => \A t \in Tasks : work'[t] = "none"
         /\ \A t \in Tasks : work'[t] \in {"none", "queued"}
         /\ \A t \in Tasks \ b :
              ScopeKeys(t) # {} /\ ~stopped /\ ~pendingFull => work'[t] = "queued"
<1> DEFINE ts == {t \in Tasks \ b : ScopeKeys(t) # {}}
<1>1. CASE ts = {} \/ stopped \/ pendingFull
  <2>1. pc' = "drain2" /\ work' = work
    BY <1>1 DEF BeginTasks
  <2> QED
    BY <1>1, <2>1 DEF TypeOK
<1>2. CASE ~(ts = {} \/ stopped \/ pendingFull)
  <2>1. pc' = "tasks" /\ work' = [t \in Tasks |-> IF t \in ts THEN "queued" ELSE "none"]
    BY <1>2 DEF BeginTasks
  <2> QED
    BY <2>1 DEF WorkStates
<1> QED
  BY <1>1, <1>2

\* What an unfinished scope covers is attended to once the Tasks are queued
LEMMA BeginTasksAttends ==
  ASSUME TypeOK, NEW b \in SUBSET Tasks, BeginTasks(b), ~scope.full, blocked' = b,
         scope' = scope, \A t \in Tasks : work[t] = "none",
         ~stopped, ~pendingFull, NEW k \in Keys, TaskOf[k] # None, k \in CoveredBy(scope.keys)
  PROVE  Attended(k)'
<1>1. scope.keys \in SUBSET Keys
  BY DEF TypeOK, Scopes
<1>2. TaskOf[k] \in Tasks /\ ScopeKeys(TaskOf[k]) # {}
  BY <1>1, CoveredByTask DEF ScopeKeys
<1>3. TaskOf[k] \in b \/ work'[TaskOf[k]] = "queued"
  BY <1>2, BeginTasksFacts
<1> QED
  BY <1>3 DEF Attended

LEMMA FirstDrainKeeps ==
  ASSUME IInv, NEW b \in SUBSET Tasks, FirstDrain(b)
  PROVE  IInv'
<1>1. /\ pc = "drain1" /\ blocked' = b
      /\ UNCHANGED <<stopped, interval, sched, handing, pendingFull, pendingKeys, scope, passTimer,
                     passAttempt, retry, gaveUp, quiet>>
  BY DEF FirstDrain, queueVars, retryVars
<1>2. /\ \A t \in Tasks : work[t] = "none"
      /\ scope \in Scopes /\ scope.full \in BOOLEAN /\ scope.keys \in SUBSET Keys
      /\ owed \subseteq Keys /\ work \in [Tasks -> WorkStates]
      /\ scope.full => scope.keys = {}
  BY <1>1 DEF IInv, TypeOK, LoopOK, Scopes
<1>3. \A k : (Waits(k) => Waits(k)') /\ (RetriedOrNot(k) => RetriedOrNot(k)')
  BY <1>1 DEF Waits, RetriedOrNot, Armed
<1>4. RetriesOK'
  BY <1>1 DEF RetriesOK, IInv
<1>5. CASE scope.full
  <2>1. pc' = "full" /\ owed' = {k \in owed : TaskOf[k] \in b} /\ work' = work
    BY <1>5 DEF FirstDrain
  <2>2. TypeOK'
    BY <1>1, <2>1 DEF TypeOK, IInv, Stages
  <2>3. LoopOK' /\ PendingHasRetry'
    BY <1>1, <1>2, <1>5, <2>1 DEF LoopOK, PendingHasRetry
  <2>4. OwedLater'
    <3>1. CoveredBy(scope'.keys) = {}
      BY <1>1, <1>2, <1>5, NoneCovered
    <3> QED
      BY <3>1 DEF OwedLater
  <2>5. Kept'
    BY <1>1, <1>5, <2>1 DEF Kept, Attended
  <2> QED
    BY <1>4, <2>2, <2>3, <2>4, <2>5 DEF IInv
<1>6. CASE ~scope.full /\ scope.keys \cap Globals # {}
  <2>1. pc' = "global" /\ owed' = owed \ (scope.keys \cap Globals) /\ work' = work
    BY <1>6 DEF FirstDrain
  <2>2. TypeOK'
    BY <1>1, <2>1 DEF TypeOK, IInv, Stages
  <2>3. LoopOK' /\ PendingHasRetry'
    BY <1>1, <1>2, <1>6, <2>1 DEF LoopOK, PendingHasRetry
  <2>4. OwedLater'
    <3>1. \A k \in owed : TaskOf[k] # None => work[TaskOf[k]] = "none"
      BY <1>2, PumpAssumption DEF PumpAssumption
    <3> QED
      BY <2>1, <3>1 DEF OwedLater
  <2>5. Kept'
    <3> SUFFICES ASSUME ~stopped', NEW k \in owed' PROVE (Waits(k) \/ Attended(k) \/ RetriedOrNot(k))'
      BY DEF Kept
    <3>1. CASE Waits(k) \/ RetriedOrNot(k)
      BY <1>3, <3>1
    <3>2. CASE Attended(k)
      <4>1. k \in CoveredBy(scope.keys)
        BY <1>6, <3>2 DEF Attended
      <4>2. TaskOf[k] # None
        BY <1>2, <2>1, <4>1, CoveredGlobal
      <4> QED
        BY <1>1, <2>1, <4>1, <4>2 DEF Attended
    <3> QED
      BY <1>1, <2>1, <3>1, <3>2 DEF Kept, IInv
  <2> QED
    BY <1>4, <2>2, <2>3, <2>4, <2>5 DEF IInv
<1>7. CASE ~scope.full /\ scope.keys \cap Globals = {}
  <2>1. BeginTasks(b) /\ owed' = owed
    BY <1>7 DEF FirstDrain
  <2>2. /\ pc' \in {"drain2", "tasks"} /\ work' \in [Tasks -> WorkStates]
        /\ pc' = "drain2" => \A t \in Tasks : work'[t] = "none"
        /\ \A t \in Tasks : work'[t] \in {"none", "queued"}
    BY <1>2, <1>7, <2>1, BeginTasksFacts DEF IInv
  <2>3. TypeOK'
    BY <1>1, <2>1, <2>2 DEF TypeOK, IInv, Stages
  <2>4. LoopOK' /\ PendingHasRetry'
    BY <1>1, <1>7, <2>2 DEF LoopOK, PendingHasRetry
  <2>5. OwedLater'
    <3>1. \A k \in owed : TaskOf[k] # None => work'[TaskOf[k]] # "running"
      BY <1>2, <2>2, PumpAssumption DEF PumpAssumption
    <3> QED
      BY <2>1, <3>1 DEF OwedLater
  <2>6. Kept'
    <3> SUFFICES ASSUME ~stopped', NEW k \in owed' PROVE (Waits(k) \/ Attended(k) \/ RetriedOrNot(k))'
      BY DEF Kept
    <3>1. CASE Waits(k) \/ RetriedOrNot(k)
      BY <1>3, <3>1
    <3>2. CASE Attended(k) /\ ~pendingFull
      <4>1. k \in CoveredBy(scope.keys)
        BY <1>7, <3>2 DEF Attended
      <4>2. TaskOf[k] # None
        BY <1>2, <1>7, <4>1, CoveredGlobal
      <4> QED
        BY <1>1, <1>2, <1>7, <2>1, <3>2, <4>1, <4>2, BeginTasksAttends DEF IInv
    <3> QED
      BY <1>1, <2>1, <3>1, <3>2 DEF Kept, IInv, Waits
  <2> QED
    BY <1>4, <2>3, <2>4, <2>5, <2>6 DEF IInv
<1> QED
  BY <1>2, <1>5, <1>6, <1>7

LEMMA GlobalPassKeeps == IInv /\ GlobalPass => IInv'
<1> SUFFICES ASSUME IInv, GlobalPass PROVE IInv'
  OBVIOUS
<1>1. /\ pc = "global" /\ BeginTasks(blocked)
      /\ UNCHANGED <<stopped, interval, sched, handing, pendingFull, pendingKeys, scope, blocked,
                     passTimer, passAttempt, retry, owed, gaveUp, quiet>>
  BY DEF GlobalPass, queueVars, retryVars
<1>2. ~scope.full /\ \A t \in Tasks : work[t] = "none"
  BY <1>1 DEF IInv, LoopOK
<1>3. /\ pc' \in {"drain2", "tasks"} /\ work' \in [Tasks -> WorkStates]
      /\ pc' = "drain2" => \A t \in Tasks : work'[t] = "none"
      /\ \A t \in Tasks : work'[t] \in {"none", "queued"}
  BY <1>1, <1>2, BeginTasksFacts DEF IInv, TypeOK
<1>4. TypeOK'
  BY <1>1, <1>3 DEF TypeOK, IInv, Stages
<1>5. LoopOK' /\ PendingHasRetry' /\ RetriesOK'
  BY <1>1, <1>2, <1>3 DEF LoopOK, PendingHasRetry, IInv, RetriesOK
<1>6. OwedLater'
  <2>1. \A k \in owed : TaskOf[k] # None => work'[TaskOf[k]] # "running"
    BY <1>3, PumpAssumption DEF PumpAssumption, IInv, TypeOK
  <2> QED
    BY <1>1, <2>1 DEF OwedLater
<1>7. Kept'
  <2> SUFFICES ASSUME ~stopped', NEW k \in owed' PROVE (Waits(k) \/ Attended(k) \/ RetriedOrNot(k))'
    BY DEF Kept
  <2>1. CASE Waits(k) \/ RetriedOrNot(k)
    BY <1>1, <2>1 DEF Waits, RetriedOrNot, Armed
  <2>2. CASE Attended(k) /\ ~pendingFull
    <3>1. k \in CoveredBy(scope.keys) /\ k \in Keys
      BY <1>1, <1>2, <2>2 DEF Attended, IInv, TypeOK
    <3>2. CASE TaskOf[k] = None
      <4>1. TaskOf[k] \in blocked
        BY <1>1, <2>2, <3>2 DEF Attended
      <4> QED
        BY <1>1, <3>1, <4>1 DEF Attended
    <3>3. CASE TaskOf[k] # None
      BY <1>1, <1>2, <2>2, <3>1, <3>3, BeginTasksAttends DEF IInv, TypeOK
    <3> QED
      BY <3>2, <3>3
  <2> QED
    BY <1>1, <2>1, <2>2 DEF Kept, IInv, Waits
<1> QED
  BY <1>4, <1>5, <1>6, <1>7 DEF IInv

\* One Task's work moves on: what holds of the others stays
LEMMA WorkMoves ==
  ASSUME IInv, NEW t \in Tasks, NEW x \in WorkStates, work' = [work EXCEPT ![t] = x],
         pc = "tasks"
  PROVE  /\ work' \in [Tasks -> WorkStates] /\ work'[t] = x
         /\ \A u \in Tasks : u # t => work'[u] = work[u]
         /\ ~scope.full
BY DEF IInv, TypeOK, LoopOK

LEMMA RunningMeansTasks ==
  ASSUME IInv, NEW t \in Tasks, work[t] = "running"
  PROVE  pc = "tasks"
BY DEF IInv, TypeOK, LoopOK, Stages

LEMMA TaskBeginsKeeps ==
  ASSUME IInv, NEW t \in Tasks, TaskBegins(t)
  PROVE  IInv'
<1>1. /\ pc = "tasks" /\ work[t] = "queued"
      /\ UNCHANGED <<stopped, interval, sched, handing, pendingFull, pendingKeys, pc, scope, blocked,
                     passTimer, passAttempt, retry, gaveUp, quiet>>
  BY DEF TaskBegins, queueVars, retryVars
<1>2. PICK x \in {"none", "running"} :
        /\ work' = [work EXCEPT ![t] = x] /\ (x = "none" <=> (stopped \/ pendingFull))
        /\ owed' = IF x = "none" THEN owed ELSE owed \ (CoveredBy(ScopeKeys(t)) \cap KeysOf(t))
  <2>1. CASE stopped \/ pendingFull
    BY <2>1 DEF TaskBegins
  <2>2. CASE ~(stopped \/ pendingFull)
    BY <2>2 DEF TaskBegins
  <2> QED
    BY <2>1, <2>2
<1>3. /\ work' \in [Tasks -> WorkStates] /\ work'[t] = x
      /\ \A u \in Tasks : u # t => work'[u] = work[u]
      /\ ~scope.full
  BY <1>1, <1>2, WorkMoves DEF WorkStates
<1>4. owed' \subseteq owed /\ owed \subseteq Keys /\ scope.keys \in SUBSET Keys
  BY <1>2 DEF IInv, TypeOK, Scopes
<1>5. TypeOK'
  BY <1>1, <1>3, <1>4 DEF TypeOK, IInv
<1>6. LoopOK' /\ PendingHasRetry' /\ RetriesOK'
  BY <1>1, <1>3 DEF LoopOK, PendingHasRetry, RetriesOK, IInv
<1>7. \A k : (Waits(k) => Waits(k)') /\ (RetriedOrNot(k) => RetriedOrNot(k)')
  BY <1>1 DEF Waits, RetriedOrNot, Armed
<1>8. CASE stopped \/ pendingFull
  BY <1>1, <1>5, <1>6, <1>8 DEF IInv, OwedLater, Kept, Waits
<1>9. CASE ~(stopped \/ pendingFull)
  <2>1. x = "running" /\ owed' = owed \ (CoveredBy(ScopeKeys(t)) \cap KeysOf(t))
    BY <1>2, <1>9
  <2>2. ASSUME NEW k \in owed', k \in CoveredBy(scope.keys)
        PROVE  TaskOf[k] # t
    <3>1. SUFFICES ASSUME TaskOf[k] = t PROVE FALSE
      OBVIOUS
    <3>2. k \in Keys /\ TaskOf[k] # None
      BY <1>4, <3>1, PumpAssumption DEF PumpAssumption
    <3>3. k \in CoveredBy(scope.keys \cap KeysOf(t))
      BY <1>4, <2>2, <3>1, <3>2, CoveredByTask
    <3> QED
      BY <2>1, <3>1, <3>2, <3>3 DEF ScopeKeys, KeysOf
  <2>3. \A k \in owed' : TaskOf[k] # None => TaskOf[k] \in Tasks
    BY <1>4, PumpAssumption DEF PumpAssumption
  <2>4. OwedLater'
    BY <1>1, <1>3, <1>4, <1>7, <2>2, <2>3 DEF OwedLater, IInv
  <2>5. ASSUME NEW k \in owed', Attended(k) PROVE Attended(k)'
    BY <1>1, <1>3, <2>2, <2>3, <2>5 DEF Attended
  <2>6. Kept'
    BY <1>1, <1>4, <1>7, <2>5 DEF Kept, IInv
  <2> QED
    BY <1>5, <1>6, <2>4, <2>6 DEF IInv
<1> QED
  BY <1>8, <1>9

LEMMA TaskPassesKeeps ==
  ASSUME IInv, NEW t \in Tasks, TaskPasses(t)
  PROVE  IInv'
<1>1. /\ work[t] = "running" /\ work' = [work EXCEPT ![t] = "ok"]
      /\ retry' = [retry EXCEPT ![t] = NoRetry]
      /\ gaveUp' = IF Dropped(t, ScopeKeys(t)) THEN gaveUp \cup {t} ELSE gaveUp
      /\ UNCHANGED <<stopped, interval, sched, handing, pendingFull, pendingKeys, pc, scope, blocked,
                     passTimer, passAttempt, owed, quiet>>
  BY DEF TaskPasses, queueVars
<1>2. /\ work' \in [Tasks -> WorkStates] /\ work'[t] = "ok"
      /\ \A u \in Tasks : u # t => work'[u] = work[u]
      /\ ~scope.full /\ pc = "tasks"
  BY <1>1, RunningMeansTasks, WorkMoves DEF WorkStates
<1>3. /\ retry' \in [Tasks -> Retries] /\ RetriesOK'
      /\ \A k \in owed : Armed(k) /\ TaskOf[k] # t => Armed(k)'
  BY <1>1, RetriesOf DEF IInv
<1>4. TypeOK'
  BY <1>1, <1>2, <1>3 DEF TypeOK, IInv
<1>5. LoopOK' /\ PendingHasRetry'
  BY <1>1, <1>2 DEF LoopOK, PendingHasRetry, IInv
<1>6. \A k : Waits(k) => Waits(k)'
  BY <1>1 DEF Waits
<1>7. \A k \in owed : k \in Keys /\ (TaskOf[k] # None => TaskOf[k] \in Tasks)
  BY PumpAssumption DEF PumpAssumption, IInv, TypeOK
<1>8. OwedLater'
  BY <1>1, <1>2, <1>6, <1>7 DEF OwedLater, IInv
<1>9. Kept'
  <2> SUFFICES ASSUME ~stopped', NEW k \in owed' PROVE (Waits(k) \/ Attended(k) \/ RetriedOrNot(k))'
    BY DEF Kept
  <2>1. CASE Waits(k)
    BY <1>6, <2>1
  <2>2. CASE Attended(k)
    <3>1. TaskOf[k] \in blocked \/ (TaskOf[k] # t /\ TaskOf[k] # None)
      BY <1>1, <1>2, <2>2 DEF Attended
    <3> QED
      BY <1>1, <1>2, <1>7, <2>2, <3>1 DEF Attended
  <2>3. CASE TaskOf[k] \in gaveUp
    BY <1>1, <2>3 DEF RetriedOrNot
  <2>4. CASE Armed(k) /\ TaskOf[k] # t
    BY <1>1, <1>3, <2>4 DEF RetriedOrNot
  <2>5. CASE Armed(k) /\ TaskOf[k] = t
    <3>1. CASE Dropped(t, ScopeKeys(t))
      BY <1>1, <2>5, <3>1 DEF RetriedOrNot
    <3>2. CASE ~Dropped(t, ScopeKeys(t))
      <4>1. retry[t].keys \subseteq CoveredBy(ScopeKeys(t))
        BY <2>5, <3>2 DEF Dropped, Armed
      <4>2. /\ ScopeKeys(t) \in SUBSET Keys /\ ScopeKeys(t) \subseteq scope.keys
        BY DEF ScopeKeys, KeysOf
      <4>3. CoveredBy(retry[t].keys) \subseteq CoveredBy(ScopeKeys(t))
        BY <4>1, <4>2, CoveredTwice
      <4>4. CoveredBy(ScopeKeys(t)) \subseteq CoveredBy(scope.keys)
        BY <4>2, CoveredMore
      <4>5. k \in CoveredBy(scope.keys) /\ TaskOf[k] # None
        BY <2>5, <4>3, <4>4 DEF Armed
      <4>6. Waits(k)
        BY <1>1, <2>5, <4>5 DEF OwedLater, IInv
      <4> QED
        BY <1>6, <4>6
    <3> QED
      BY <3>1, <3>2
  <2> QED
    BY <1>1, <2>1, <2>2, <2>3, <2>4, <2>5 DEF Kept, IInv, RetriedOrNot
<1> QED
  BY <1>3, <1>4, <1>5, <1>8, <1>9 DEF IInv

LEMMA TaskFailsKeeps ==
  ASSUME IInv, NEW t \in Tasks, TaskFails(t)
  PROVE  IInv'
<1>1. /\ work[t] = "running" /\ work' = [work EXCEPT ![t] = "failed"]
      /\ owed' = owed \cup ScopeKeys(t)
      /\ UNCHANGED <<stopped, interval, sched, handing, pendingFull, pendingKeys, pc, scope, blocked,
                     passTimer, passAttempt, retry, gaveUp, quiet>>
  BY DEF TaskFails, queueVars, retryVars
<1>2. /\ work' \in [Tasks -> WorkStates] /\ work'[t] = "failed"
      /\ \A u \in Tasks : u # t => work'[u] = work[u]
      /\ ~scope.full /\ pc = "tasks"
  BY <1>1, RunningMeansTasks, WorkMoves DEF WorkStates
<1>3. /\ \A k \in ScopeKeys(t) : k \in Keys /\ k \in CoveredBy(scope.keys) /\ TaskOf[k] = t
      /\ None # t
  BY PumpAssumption DEF PumpAssumption, ScopeKeys, KeysOf, CoveredBy
<1>4. TypeOK'
  BY <1>1, <1>2, <1>3 DEF TypeOK, IInv
<1>5. LoopOK' /\ PendingHasRetry' /\ RetriesOK'
  BY <1>1, <1>2 DEF LoopOK, PendingHasRetry, RetriesOK, IInv
<1>6. \A k : (Waits(k) => Waits(k)') /\ (RetriedOrNot(k) => RetriedOrNot(k)')
  BY <1>1 DEF Waits, RetriedOrNot, Armed
<1>7. \A k \in owed : k \in Keys /\ (TaskOf[k] # None => TaskOf[k] \in Tasks)
  BY PumpAssumption DEF PumpAssumption, IInv, TypeOK
<1>8. OwedLater'
  BY <1>1, <1>2, <1>3, <1>6, <1>7 DEF OwedLater, IInv
<1>9. \A k \in owed : Attended(k) => Attended(k)'
  BY <1>1, <1>2, <1>7 DEF Attended
<1>10. \A k \in ScopeKeys(t) : Attended(k)'
  BY <1>1, <1>2, <1>3 DEF Attended
<1>11. Kept'
  BY <1>1, <1>6, <1>9, <1>10 DEF Kept, IInv
<1> QED
  BY <1>4, <1>5, <1>8, <1>11 DEF IInv

LEMMA PassEndsKeeps == IInv /\ (TasksEnd \/ FullPass) => IInv'
<1> SUFFICES ASSUME IInv, TasksEnd \/ FullPass PROVE IInv'
  OBVIOUS
<1>1. /\ pc \in {"tasks", "full"} /\ pc' = "drain2"
      /\ UNCHANGED <<stopped, interval, sched, handing, pendingFull, pendingKeys, scope, blocked, work,
                     passTimer, passAttempt, retry, owed, gaveUp, quiet>>
  BY DEF TasksEnd, FullPass, queueVars, retryVars
<1>2. \A t \in Tasks : work[t] \notin {"queued", "running"}
  BY DEF TasksEnd, FullPass, IInv, LoopOK
<1>3. TypeOK'
  BY <1>1 DEF TypeOK, IInv, Stages
<1>4. LoopOK' /\ PendingHasRetry' /\ RetriesOK'
  BY <1>1, <1>2 DEF LoopOK, PendingHasRetry, RetriesOK, IInv
<1>5. \A k : (Waits(k) => Waits(k)') /\ (RetriedOrNot(k) => RetriedOrNot(k)')
             /\ (Attended(k) => Attended(k)')
  BY <1>1 DEF Waits, RetriedOrNot, Armed, Attended
<1>6. OwedLater' /\ Kept'
  BY <1>1, <1>5 DEF OwedLater, Kept, IInv
<1> QED
  BY <1>3, <1>4, <1>6 DEF IInv

LEMMA YieldKeeps == IInv /\ Yield => IInv'
<1> SUFFICES ASSUME IInv, Yield PROVE IInv'
  OBVIOUS
<1>1. /\ pc = "yield" /\ TakeScope(pendingFull, pendingKeys)
      /\ UNCHANGED <<stopped, interval, sched, handing, passTimer, passAttempt, retry, owed, quiet>>
  BY DEF Yield, queueVars, retryVars
<1>2. pendingFull \in BOOLEAN /\ pendingKeys \in SUBSET Keys
  BY DEF IInv, TypeOK
<1>3. ASSUME ~stopped, ~pendingFull, NEW k \in owed
      PROVE  k \in sched' \/ k \in CoveredBy(pendingKeys) \/ TaskOf[k] \in gaveUp \/ Armed(k)'
  <2>1. Waits(k) \/ RetriedOrNot(k)
    BY <1>1, <1>3, IdleAttends DEF Kept, IInv
  <2> QED
    BY <1>1, <1>3, <2>1 DEF Waits, RetriedOrNot, Armed
<1>4. LoopTypes' /\ LoopOK' /\ PendingHasRetry' /\ OwedLater' /\ Kept'
  BY <1>1, <1>2, <1>3, TakeScopeKeeps
<1>5. TypeOK'
  BY <1>1, <1>4 DEF TypeOK, LoopTypes, IInv
<1> QED
  BY <1>1, <1>4, <1>5 DEF IInv, RetriesOK

\* The loop is left with nothing under way
LEMMA LoopLeft ==
  ASSUME TypeOK, pc' \in {"idle", "yield"}, scope' = NoScope, blocked' = {}, work' = NoWork
  PROVE  /\ LoopOK' /\ pc' \in Stages /\ scope' \in Scopes /\ work' \in [Tasks -> WorkStates]
         /\ owed' \subseteq Keys => OwedLater'
<1>1. /\ scope' \in Scopes /\ ~scope'.full /\ scope'.keys = {}
  BY DEF NoScope, Scopes
<1>2. /\ work' \in [Tasks -> WorkStates] /\ \A t \in Tasks : work'[t] = "none"
  BY DEF NoWork, WorkStates
<1>3. LoopOK'
  BY <1>1, <1>2 DEF LoopOK
<1>4. OwedLater'
  BY <1>1, NoneCovered DEF OwedLater
<1> QED
  BY <1>1, <1>2, <1>3, <1>4 DEF Stages

LEMMA PassThrowsKeeps == IInv /\ PassThrows => IInv'
<1> SUFFICES ASSUME IInv, PassThrows PROVE IInv'
  OBVIOUS
<1>1. /\ pc \in {"drain1", "global", "full", "drain2"}
      /\ pendingFull' = (pendingFull \/ scope.full)
      /\ pendingKeys' = IF scope.full THEN {}
                        ELSE IF pendingFull THEN pendingKeys
                        ELSE pendingKeys \cup scope.keys
      /\ owed' = IF pc = "full" THEN Keys ELSE owed \cup scope.keys
      /\ pc' = "idle" /\ scope' = NoScope /\ blocked' = {} /\ work' = NoWork /\ handing' = FALSE
      /\ UNCHANGED <<stopped, interval, sched, retry, gaveUp, quiet>>
  BY DEF PassThrows, LeaveLoop
<1>2. /\ scope.full \in BOOLEAN /\ scope.keys \in SUBSET Keys /\ pendingFull \in BOOLEAN
      /\ pendingKeys \subseteq Keys /\ owed \subseteq Keys
      /\ passTimer \in BOOLEAN /\ passAttempt \in 0..PassLimit /\ PassLimit \in Nat
      /\ pc = "full" => scope.full
  BY PumpAssumption DEF IInv, TypeOK, Scopes, LoopOK, PumpAssumption
<1>3. /\ passTimer' \in BOOLEAN /\ passAttempt' \in 0..PassLimit
      /\ stopped \/ passTimer' \/ passAttempt' = PassLimit
  <2>1. CASE stopped \/ passTimer \/ passAttempt >= PassLimit
    <3>1. passTimer' = passTimer /\ passAttempt' = passAttempt
      BY <2>1 DEF PassThrows
    <3> QED
      BY <1>2, <2>1, <3>1
  <2>2. CASE ~(stopped \/ passTimer \/ passAttempt >= PassLimit)
    <3>1. passTimer' = TRUE /\ passAttempt' = passAttempt + 1
      BY <2>2 DEF PassThrows
    <3> QED
      BY <1>2, <2>2, <3>1
  <2> QED
    BY <2>1, <2>2
<1>4. owed' \subseteq Keys /\ pendingFull' \in BOOLEAN /\ pendingKeys' \subseteq Keys
  BY <1>1, <1>2
<1>5. /\ LoopOK' /\ pc' \in Stages /\ scope' \in Scopes /\ work' \in [Tasks -> WorkStates]
      /\ OwedLater'
  BY <1>1, <1>4, LoopLeft DEF IInv
<1>6. TypeOK'
  BY <1>1, <1>3, <1>4, <1>5 DEF TypeOK, IInv
<1>7. PendingHasRetry' /\ RetriesOK'
  BY <1>1, <1>3 DEF PendingHasRetry, RetriesOK, IInv
<1>8. Kept'
  <2> SUFFICES ASSUME ~stopped', NEW k \in owed' PROVE (Waits(k) \/ Attended(k) \/ RetriedOrNot(k))'
    BY DEF Kept
  <2>1. CASE scope.full \/ pendingFull
    BY <1>1, <2>1 DEF Waits
  <2>2. CASE ~scope.full /\ ~pendingFull
    <3>1. pendingKeys' = pendingKeys \cup scope.keys /\ owed' = owed \cup scope.keys
      BY <1>1, <1>2, <2>2
    <3>2. /\ CoveredBy(pendingKeys) \subseteq CoveredBy(pendingKeys')
          /\ CoveredBy(scope.keys) \subseteq CoveredBy(pendingKeys')
      BY <3>1, CoveredMore
    <3>3. CASE k \in scope.keys
      BY <3>1, <3>3 DEF Waits, CoveredBy
    <3>4. CASE k \in owed /\ Waits(k)
      BY <1>1, <2>2, <3>2, <3>4 DEF Waits
    <3>5. CASE k \in owed /\ Attended(k)
      BY <2>2, <3>2, <3>5 DEF Waits, Attended
    <3>6. CASE k \in owed /\ RetriedOrNot(k)
      BY <1>1, <3>6 DEF RetriedOrNot, Armed
    <3> QED
      BY <1>1, <3>1, <3>3, <3>4, <3>5, <3>6 DEF Kept, IInv
  <2> QED
    BY <2>1, <2>2
<1> QED
  BY <1>5, <1>6, <1>7, <1>8 DEF IInv

-----------------------------------------------------------------------------
(* The end of a pass *)

Counted(r) == r \in Retries /\ (r.armed => r.attempts >= 1)

\* A retry that is armed for ks, or none
LEMMA ScheduleFacts ==
  ASSUME NEW r, Counted(r), NEW ks \in SUBSET Keys
  PROVE  /\ Counted(ScheduleTaskRetry(r, ks))
         /\ ScheduleTaskRetry(r, ks).armed => ScheduleTaskRetry(r, ks).keys = ks
<1> DEFINE prev == IF r.attempts > 0 /\ r.keys # ks THEN NoRetry ELSE r
           new == [armed |-> TRUE, attempts |-> prev.attempts + 1, keys |-> ks]
<1>1. /\ NoRetry \in Retries /\ ~NoRetry.armed /\ NoRetry.attempts = 0 /\ TaskLimit \in Nat
  BY PumpAssumption DEF NoRetry, Retries, PumpAssumption
<1>2. /\ prev \in Retries /\ prev.attempts \in 0..TaskLimit
      /\ prev.armed => prev.attempts >= 1 /\ prev.keys = ks
  <2>1. CASE r.attempts > 0 /\ r.keys # ks
    BY <1>1, <2>1 DEF Retries
  <2>2. CASE ~(r.attempts > 0 /\ r.keys # ks)
    BY <1>1, <2>2 DEF Retries, Counted
  <2> QED
    BY <2>1, <2>2
<1>3. ScheduleTaskRetry(r, ks) = IF prev.armed THEN prev
                                 ELSE IF prev.attempts >= TaskLimit THEN NoRetry ELSE new
  BY DEF ScheduleTaskRetry
<1> HIDE DEF prev
<1>4. prev.attempts < TaskLimit => /\ new \in Retries /\ new.attempts >= 1 /\ new.keys = ks
  <2>1. prev.attempts < TaskLimit => prev.attempts + 1 \in 0..TaskLimit /\ prev.attempts + 1 >= 1
    BY <1>1, <1>2
  <2> QED
    BY <2>1 DEF Retries
<1> HIDE DEF new
<1>5. CASE prev.armed
  BY <1>2, <1>3, <1>5 DEF Counted
<1>6. CASE ~prev.armed /\ prev.attempts >= TaskLimit
  BY <1>1, <1>3, <1>6 DEF Counted
<1>7. CASE ~prev.armed /\ prev.attempts < TaskLimit
  <2>1. ~(prev.attempts >= TaskLimit)
    BY <1>1, <1>2, <1>7
  <2>2. ScheduleTaskRetry(r, ks) = new
    BY <1>3, <1>7, <2>1
  <2> QED
    BY <1>4, <1>7, <2>2 DEF Counted
<1> QED
  BY <1>1, <1>2, <1>5, <1>6, <1>7

\* A Task that the runtime reported has a retry of the whole Task, or none
LEMMA RetryAfterFacts ==
  ASSUME IInv, NEW t \in Tasks, NEW failed, NEW reported
  PROVE  /\ Counted(RetryAfter(t, failed, reported))
         /\ t \in reported /\ ~stopped /\ ~pendingFull /\ RetryAfter(t, failed, reported).armed =>
              RetryAfter(t, failed, reported).keys = {TaskKey[t]}
<1> DEFINE r0 == IF scope.full THEN NoRetry ELSE retry[t]
           r1 == IF t \in failed THEN ScheduleTaskRetry(r0, ScopeKeys(t)) ELSE r0
           r2 == ScheduleTaskRetry(r1, {TaskKey[t]})
<1>1. Counted(r0)
  <2>1. NoRetry \in Retries /\ ~NoRetry.armed
    BY PumpAssumption DEF NoRetry, Retries, PumpAssumption
  <2>2. Counted(retry[t])
    BY DEF IInv, TypeOK, RetriesOK, Counted
  <2> QED
    BY <2>1, <2>2 DEF Counted
<1>2. ScopeKeys(t) \in SUBSET Keys /\ {TaskKey[t]} \in SUBSET Keys
  BY PumpAssumption DEF ScopeKeys, KeysOf, PumpAssumption
<1> HIDE DEF r0
<1>3. Counted(r1)
  BY <1>1, <1>2, ScheduleFacts
<1> HIDE DEF r1
<1>4. Counted(r2) /\ (r2.armed => r2.keys = {TaskKey[t]})
  BY <1>2, <1>3, ScheduleFacts
<1>5. RetryAfter(t, failed, reported) = IF stopped \/ pendingFull THEN r0
                                        ELSE IF t \in reported THEN r2 ELSE r1
  BY DEF RetryAfter, r0, r1
<1> HIDE DEF r2
<1> QED
  BY <1>1, <1>3, <1>4, <1>5

LEMMA FinishKeeps ==
  ASSUME IInv, NEW more \in SUBSET Tasks, NEW lapsed \in SUBSET Tasks, NEW again \in BOOLEAN,
         Finish(more, lapsed, again)
  PROVE  IInv'
<1> DEFINE failed == {t \in Tasks : work[t] = "failed"}
           lapses(t) == t \in lapsed \cap (failed \cup blocked \cup more) /\ ~stopped /\ ~pendingFull
           after == [t \in Tasks |-> IF lapses(t) THEN NoRetry
                                     ELSE RetryAfter(t, failed, blocked \cup more)]
<1>1. /\ pc = "drain2" /\ passTimer' = FALSE /\ passAttempt' = 0 /\ retry' = after
      /\ gaveUp' = gaveUp \cup {t \in failed \cup blocked \cup more : ~after[t].armed}
                          \cup {t \in Tasks : RetryGone(t, failed, after[t])}
      /\ UNCHANGED <<stopped, interval, sched, pendingFull, pendingKeys, owed, quiet>>
  BY DEF Finish
<1>2. /\ pc' \in {"idle", "yield"} /\ scope' = NoScope /\ blocked' = {} /\ work' = NoWork
      /\ handing' \in {handing, FALSE}
      /\ pc' = "idle" => stopped \/ (~pendingFull /\ pendingKeys = {})
  BY DEF Finish, LeaveLoop
<1>3. /\ blocked \subseteq Tasks /\ gaveUp \subseteq Tasks /\ owed \subseteq Keys
      /\ PassLimit \in Nat /\ scope.keys \in SUBSET Keys
  BY PumpAssumption DEF IInv, TypeOK, PumpAssumption, Scopes
<1>4. /\ LoopOK' /\ pc' \in Stages /\ scope' \in Scopes /\ work' \in [Tasks -> WorkStates]
      /\ OwedLater'
  BY <1>1, <1>2, <1>3, LoopLeft DEF IInv
<1>5. NoRetry \in Retries /\ ~NoRetry.armed
  BY PumpAssumption DEF NoRetry, Retries, PumpAssumption
<1>6. \A t \in Tasks : Counted(after[t])
  BY <1>5, RetryAfterFacts DEF Counted
<1>7. retry' \in [Tasks -> Retries] /\ RetriesOK'
  <2> HIDE DEF lapses
  <2>1. after = [t \in Tasks |-> after[t]]
    OBVIOUS
  <2> HIDE DEF after
  <2> QED
    BY <1>1, <1>6, <2>1 DEF RetriesOK, Counted
<1>8. ASSUME NEW t \in blocked, ~stopped, ~pendingFull, after[t].armed
      PROVE  after[t].keys = {TaskKey[t]}
  <2>1. t \in Tasks /\ after[t] = RetryAfter(t, failed, blocked \cup more)
    BY <1>3, <1>5, <1>8
  <2> QED
    BY <1>8, <2>1, RetryAfterFacts
<1>9. \A t \in Tasks : after[t].keys \in SUBSET Keys
  BY <1>6 DEF Counted, Retries
<1> HIDE DEF after, lapses
<1>10. gaveUp' \subseteq Tasks
  BY <1>1, <1>3
<1>11. TypeOK'
  <2>1. passTimer' \in BOOLEAN /\ passAttempt' \in 0..PassLimit /\ handing' \in BOOLEAN
    <3>1. passAttempt' \in 0..PassLimit
      BY <1>1, <1>3
    <3>2. handing \in BOOLEAN
      BY DEF TypeOK, IInv
    <3>3. handing' \in BOOLEAN
      BY <1>2, <3>2
    <3>4. passTimer' \in BOOLEAN
      BY <1>1
    <3> QED
      BY <3>1, <3>3, <3>4
  <2>2. /\ stopped' \in BOOLEAN /\ interval' \in BOOLEAN /\ sched' \subseteq Keys
        /\ pendingFull' \in BOOLEAN /\ pendingKeys' \subseteq Keys /\ owed' \subseteq Keys
        /\ quiet' \in {"no"} \cup QuietModes
    BY <1>1 DEF TypeOK, IInv
  <2>3. blocked' \subseteq Tasks
    BY <1>2
  <2> QED
    BY <1>4, <1>7, <1>10, <2>1, <2>2, <2>3 DEF TypeOK
<1>12. PendingHasRetry'
  BY <1>1, <1>2 DEF PendingHasRetry
<1>13. Kept'
  <2> SUFFICES ASSUME ~stopped', NEW k \in owed' PROVE (Waits(k) \/ Attended(k) \/ RetriedOrNot(k))'
    BY DEF Kept
  <2> DEFINE t == TaskOf[k]
  <2>1. k \in owed /\ k \in Keys /\ ~stopped /\ (t # None => t \in Tasks)
    BY <1>1, <1>3, PumpAssumption DEF PumpAssumption
  <2>2. CASE Waits(k)
    BY <1>1, <2>2 DEF Waits
  <2>3. CASE t \in blocked /\ ~pendingFull
    <3>1. t # None /\ t \in Tasks
      BY <1>3, <2>3, PumpAssumption DEF PumpAssumption
    <3>2. CASE ~after[t].armed
      BY <1>1, <2>3, <3>2 DEF RetriedOrNot
    <3>3. CASE after[t].armed
      <4>1. k \in CoveredBy(after[t].keys)
        BY <1>8, <2>1, <2>3, <3>1, <3>3, CoveredByTaskKey
      <4> QED
        BY <1>1, <3>1, <3>3, <4>1 DEF RetriedOrNot, Armed
    <3> QED
      BY <3>2, <3>3
  <2>4. CASE t # None /\ t \in failed /\ k \in CoveredBy(scope.keys)
    <3>1. CASE RetryGone(t, failed, after[t]) \/ ~after[t].armed
      BY <1>1, <2>1, <2>4, <3>1 DEF RetriedOrNot
    <3>2. CASE ~RetryGone(t, failed, after[t]) /\ after[t].armed
      <4>1. k \in CoveredBy(ScopeKeys(t)) /\ ScopeKeys(t) \in SUBSET Keys
        BY <1>3, <2>1, <2>4, CoveredByTask DEF ScopeKeys
      <4>2. ScopeKeys(t) \subseteq CoveredBy(after[t].keys)
        BY <2>4, <3>2 DEF RetryGone
      <4>3. CoveredBy(ScopeKeys(t)) \subseteq CoveredBy(after[t].keys)
        BY <1>9, <2>1, <2>4, <4>2, CoveredTwice
      <4> QED
        BY <1>1, <2>1, <2>4, <3>2, <4>1, <4>3 DEF RetriedOrNot, Armed
    <3> QED
      BY <3>1, <3>2
  <2>5. CASE Armed(k)
    <3>1. t # None /\ retry[t].armed /\ k \in CoveredBy(retry[t].keys)
      BY <2>5 DEF Armed
    <3>2. CASE RetryGone(t, failed, after[t])
      BY <1>1, <2>1, <3>1, <3>2 DEF RetriedOrNot
    <3>3. CASE ~RetryGone(t, failed, after[t])
      <4>1. retry[t].keys \subseteq IF after[t].armed THEN CoveredBy(after[t].keys) ELSE {}
        BY <3>1, <3>3 DEF RetryGone
      <4>2. after[t].armed
        <5>1. SUFFICES ASSUME ~after[t].armed PROVE FALSE
          OBVIOUS
        <5>2. retry[t].keys = {}
          BY <4>1, <5>1
        <5> QED
          BY <3>1, <5>2, NoneCovered
      <4>3. CoveredBy(retry[t].keys) \subseteq CoveredBy(after[t].keys)
        BY <1>9, <2>1, <3>1, <4>1, <4>2, CoveredTwice
      <4> QED
        BY <1>1, <2>1, <3>1, <4>2, <4>3 DEF RetriedOrNot, Armed
    <3> QED
      BY <3>2, <3>3
  <2>6. CASE t \in gaveUp
    BY <1>1, <2>6 DEF RetriedOrNot
  <2>7. CASE Attended(k)
    <3>1. t \in blocked \/ (t # None /\ work[t] = "failed")
      BY <1>1, <2>1, <2>7 DEF Attended, IInv, LoopOK
    <3>2. CASE pendingFull
      BY <1>1, <3>2 DEF Waits
    <3>3. CASE t # None /\ work[t] = "failed"
      <4>1. k \in CoveredBy(scope.keys)
        BY <2>1, <2>7, <3>3 DEF Attended, IInv, LoopOK
      <4> QED
        BY <2>1, <2>4, <3>3, <4>1
    <3> QED
      BY <2>3, <3>1, <3>2, <3>3
  <2> QED
    BY <2>1, <2>2, <2>5, <2>6, <2>7 DEF Kept, IInv, RetriedOrNot
<1> QED
  BY <1>4, <1>7, <1>11, <1>12, <1>13 DEF IInv

-----------------------------------------------------------------------------
(* The theorems *)

LEMMA InitIInv == Init => IInv
<1> SUFFICES ASSUME Init PROVE IInv
  OBVIOUS
<1>1. NoRetry \in Retries /\ ~NoRetry.armed /\ PassLimit \in Nat
  BY PumpAssumption DEF NoRetry, Retries, PumpAssumption
<1>2. NoScope \in Scopes /\ ~NoScope.full
  BY DEF NoScope, Scopes
<1>3. TypeOK
  <2>1. passAttempt \in 0..PassLimit
    BY <1>1 DEF Init
  <2>2. work \in [Tasks -> WorkStates] /\ pc \in Stages
    BY DEF Init, Stages, NoWork, WorkStates
  <2>3. retry \in [Tasks -> Retries]
    BY <1>1 DEF Init
  <2> QED
    BY <1>2, <2>1, <2>2, <2>3 DEF Init, TypeOK
<1>4. LoopOK
  BY <1>2 DEF Init, LoopOK, NoWork
<1>5. RetriesOK
  BY <1>1 DEF Init, RetriesOK
<1> QED
  BY <1>3, <1>4, <1>5 DEF IInv, Init, PendingHasRetry, OwedLater, Kept

LEMMA NextIInv == IInv /\ [Next]_vars => IInv'
<1> SUFFICES ASSUME IInv, [Next]_vars PROVE IInv'
  OBVIOUS
<1>1. CASE Start \/ IntervalTick
  BY <1>1, StartOrTickKeeps
<1>2. CASE Hand \/ PassRetryFires \/ Stop \/ Quiesce
  BY <1>2, HandKeeps, PassRetryKeeps, StopKeeps, QuiesceKeeps
<1>3. CASE \E k \in Keys : Signal(k)
  BY <1>3, SignalKeeps
<1>4. CASE \E t \in Tasks : TaskRetryFires(t) \/ TaskRetryLapses(t)
  BY <1>4, TaskRetryKeeps, TaskRetryLapsesKeeps
<1>5. CASE LoopStep
  <2>1. CASE \E b \in SUBSET Tasks : FirstDrain(b)
    BY <2>1, FirstDrainKeeps
  <2>2. CASE GlobalPass \/ FullPass \/ TasksEnd \/ Yield \/ PassThrows
    BY <2>2, GlobalPassKeeps, PassEndsKeeps, YieldKeeps, PassThrowsKeeps
  <2>3. CASE \E t \in Tasks : TaskBegins(t) \/ TaskPasses(t) \/ TaskFails(t)
    BY <2>3, TaskBeginsKeeps, TaskPassesKeeps, TaskFailsKeeps
  <2>4. CASE \E more, lapsed \in SUBSET Tasks, again \in BOOLEAN : Finish(more, lapsed, again)
    BY <2>4, FinishKeeps
  <2> QED
    BY <1>5, <2>1, <2>2, <2>3, <2>4 DEF LoopStep
<1>6. CASE UNCHANGED vars
  <2>1. UNCHANGED <<stopped, interval, sched, handing, pendingFull, pendingKeys, pc, scope, blocked,
                    work, passTimer, passAttempt, retry, owed, gaveUp, quiet>>
    BY <1>6 DEF vars, queueVars, loopVars, retryVars
  <2>2. TypeOK' /\ LoopOK' /\ RetriesOK' /\ PendingHasRetry'
    BY <2>1 DEF TypeOK, LoopOK, RetriesOK, PendingHasRetry, IInv
  <2>3. \A k : (Waits(k) => Waits(k)') /\ (RetriedOrNot(k) => RetriedOrNot(k)')
               /\ (Attended(k) => Attended(k)')
    BY <2>1 DEF Waits, RetriedOrNot, Armed, Attended
  <2>4. OwedLater' /\ Kept'
    BY <2>1, <2>3 DEF OwedLater, Kept, IInv
  <2> QED
    BY <2>2, <2>4 DEF IInv
<1> QED
  BY <1>1, <1>2, <1>3, <1>4, <1>5, <1>6 DEF Next

LEMMA Invariance == Spec => []IInv
BY InitIInv, NextIInv, PTL DEF Spec

\* For any Tasks, roles, limits and concurrency: a key that was signalled, or
\* that a pass tried and failed, is in the scheduler, pending, absorbed by a full
\* pass, part of the pass under way or armed for a retry, unless the bounded
\* retry of its Task was used up or replaced (#requestPass, #runCoalesced,
\* #runDirtySchedulerPass, #scheduleTaskPassRetry).
THEOREM NothingForgottenTheorem == Spec => []NothingForgotten
<1>1. IInv => NothingForgotten
  <2> SUFFICES ASSUME IInv, ~stopped, NEW k \in owed
               PROVE  \/ k \in sched \/ pendingFull \/ k \in CoveredBy(pendingKeys)
                      \/ InFlight(k)
                      \/ /\ TaskOf[k] # None
                         /\ \/ TaskOf[k] \in gaveUp
                            \/ retry[TaskOf[k]].armed /\ k \in CoveredBy(retry[TaskOf[k]].keys)
    BY DEF NothingForgotten
  <2>1. CASE Waits(k)
    BY <2>1 DEF Waits
  <2>2. CASE Attended(k)
    <3>1. TaskOf[k] # None => TaskOf[k] \in Tasks
      BY PumpAssumption DEF PumpAssumption, IInv, TypeOK
    <3>2. scope.full => pc # "global" /\ \A t \in Tasks : work[t] = "none"
      BY DEF IInv, LoopOK
    <3> QED
      BY <2>2, <3>1, <3>2 DEF Attended, InFlight
  <2>3. CASE RetriedOrNot(k)
    <3>1. gaveUp \subseteq Tasks /\ None \notin Tasks
      BY PumpAssumption DEF PumpAssumption, IInv, TypeOK
    <3> QED
      BY <2>3, <3>1 DEF RetriedOrNot, Armed
  <2> QED
    BY <2>1, <2>2, <2>3 DEF IInv, Kept
<1> QED
  BY <1>1, Invariance, PTL

\* For any limit of the retries: what a failed pass left pending has its timer
\* armed, or the retry was tried to its limit (#schedulePassRetry).
THEOREM PendingHasRetryTheorem == Spec => []PendingHasRetry
<1>1. IInv => PendingHasRetry
  BY DEF IInv
<1> QED
  BY <1>1, Invariance, PTL
===============================================================================
