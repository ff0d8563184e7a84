---------------------- MODULE MailboxSchedulerProofs ----------------------
(***************************************************************************)
(* Safety of the coalescing scheduler for every set of keys and drains.    *)
(* OneBatch is inductive only with its converse, that #current names a     *)
(* drain under way; NoLostWakeup needs it too, because a drain that no     *)
(* longer runs would never come back for the pending keys.                 *)
(***************************************************************************)
EXTENDS MailboxScheduler, TLAPS

(* #current is a drain whose finally callback is still due. *)
CurrentIsLive == \A d \in Drains : current = d => phase[d] # "idle"

(* A stopped scheduler holds no keys and no timer. *)
StoppedIsEmpty == stopped => pendingKeys = {} /\ ~timer

IInv == TypeOK /\ OneBatch /\ CurrentIsLive /\ SignalKept /\ NoLostWakeup /\ StoppedIsEmpty

(* The scheduler's constructor establishes the invariant. *)
LEMMA InitIInv == Init => IInv
BY SchedulerAssumption
DEF Init, IInv, TypeOK, OneBatch, CurrentIsLive, SignalKept, NoLostWakeup, StoppedIsEmpty, Phases

(* What drain() does to #current and the drains, from any state where the
   drain that is over has released #current. *)
LEMMA DrainNowKeeps ==
  ASSUME IInv, DrainNow, timer' = FALSE, UNCHANGED <<pendingKeys, stopped, batch, owed>>
  PROVE  IInv'
<1>1. CASE current # None /\ drainRequested' = TRUE /\ UNCHANGED <<current, phase>>
  BY <1>1 DEF IInv, TypeOK, OneBatch, CurrentIsLive, SignalKept, NoLostWakeup, StoppedIsEmpty
<1>2. CASE /\ current = None /\ pendingKeys # {}
           /\ \E d \in Drains : NewDrain(d, phase)
           /\ UNCHANGED drainRequested
  <2>1. PICK d \in Drains : NewDrain(d, phase)
    BY <1>2
  <2> QED
    BY <1>2, <2>1, SchedulerAssumption
    DEF IInv, TypeOK, OneBatch, CurrentIsLive, SignalKept, NoLostWakeup, StoppedIsEmpty, NewDrain, Phases
<1>3. CASE current = None /\ pendingKeys = {} /\ UNCHANGED <<current, drainRequested, phase>>
  BY <1>3 DEF IInv, TypeOK, OneBatch, CurrentIsLive, SignalKept, NoLostWakeup, StoppedIsEmpty
<1> QED
  BY <1>1, <1>2, <1>3 DEF DrainNow

(* One turn of the drain loop, by the drain that is #current. *)
LEMMA NextBatchKeeps ==
  ASSUME IInv, NEW d \in Drains, phase[d] # "idle", NextBatch(d),
         UNCHANGED <<timer, current, stopped>>
  PROVE  IInv'
BY DEF IInv, TypeOK, OneBatch, CurrentIsLive, SignalKept, NoLostWakeup, StoppedIsEmpty, NextBatch, Phases

(* The loop is left: the handler resolved with nothing asked for, or rejected. *)
LEMMA LeaveLoopKeeps ==
  ASSUME IInv, NEW d \in Drains, phase[d] = "processing",
         phase' = [phase EXCEPT ![d] = "settled"],
         batch' = [batch EXCEPT ![d] = {}],
         UNCHANGED <<pendingKeys, timer, current, drainRequested, stopped, owed>>
  PROVE  IInv'
BY DEF IInv, TypeOK, OneBatch, CurrentIsLive, SignalKept, NoLostWakeup, StoppedIsEmpty, Phases

(* The finally callback of a drain. *)
LEMMA FinallyKeeps ==
  ASSUME IInv, NEW d \in Drains, Finally(d)
  PROVE  IInv'
<1>1. current = d /\ phase[d] = "settled" /\ UNCHANGED <<pendingKeys, stopped, batch, owed>>
  BY DEF IInv, OneBatch, Finally
<1>2. CASE stopped \/ pendingKeys = {}
  BY <1>1, <1>2, SchedulerAssumption
  DEF IInv, TypeOK, OneBatch, CurrentIsLive, SignalKept, NoLostWakeup, StoppedIsEmpty, Finally, Phases
<1>3. CASE ~(stopped \/ pendingKeys = {}) /\ drainRequested
  <2>1. PICK e \in Drains : NewDrain(e, [phase EXCEPT ![d] = "idle"])
    BY <1>1, <1>3 DEF Finally
  <2>2. timer' = FALSE /\ drainRequested' = FALSE
    BY <1>1, <1>3 DEF Finally
  <2> QED
    BY <1>1, <1>3, <2>1, <2>2, SchedulerAssumption
    DEF IInv, TypeOK, OneBatch, CurrentIsLive, SignalKept, NoLostWakeup, StoppedIsEmpty, NewDrain, Phases
<1>4. CASE ~(stopped \/ pendingKeys = {}) /\ ~drainRequested
  BY <1>1, <1>4, SchedulerAssumption
  DEF IInv, TypeOK, OneBatch, CurrentIsLive, SignalKept, NoLostWakeup, StoppedIsEmpty, Finally, Phases
<1> QED
  BY <1>2, <1>3, <1>4

(* Every step of the event loop preserves the invariant. *)
LEMMA NextIInv == IInv /\ [Next]_vars => IInv'
<1> SUFFICES ASSUME IInv, [Next]_vars PROVE IInv'
  OBVIOUS
<1>1. ASSUME NEW k \in Keys, Signal(k) PROVE IInv'
  BY <1>1 DEF IInv, TypeOK, OneBatch, CurrentIsLive, SignalKept, NoLostWakeup, StoppedIsEmpty, Signal
<1>2. CASE WindowEnds
  BY <1>2, DrainNowKeeps DEF WindowEnds
<1>3. CASE Drain
  BY <1>3, DrainNowKeeps DEF Drain
<1>4. CASE Stop
  BY <1>4 DEF IInv, TypeOK, OneBatch, CurrentIsLive, SignalKept, NoLostWakeup, StoppedIsEmpty, Stop
<1>5. ASSUME NEW d \in Drains, BeginDrain(d) PROVE IInv'
  BY <1>5, NextBatchKeeps DEF BeginDrain
<1>6. ASSUME NEW d \in Drains, BatchResolves(d) PROVE IInv'
  <2>1. CASE ~stopped /\ drainRequested /\ pendingKeys # {}
    BY <1>6, <2>1, NextBatchKeeps DEF BatchResolves
  <2>2. CASE ~(~stopped /\ drainRequested /\ pendingKeys # {})
    BY <1>6, <2>2, LeaveLoopKeeps DEF BatchResolves
  <2> QED
    BY <2>1, <2>2
<1>7. ASSUME NEW d \in Drains, BatchRejects(d) PROVE IInv'
  BY <1>7, LeaveLoopKeeps DEF BatchRejects
<1>8. ASSUME NEW d \in Drains, Finally(d) PROVE IInv'
  BY <1>8, FinallyKeeps
<1>9. CASE UNCHANGED vars
  BY <1>9 DEF IInv, TypeOK, OneBatch, CurrentIsLive, SignalKept, NoLostWakeup, StoppedIsEmpty, vars
<1> QED
  BY <1>1, <1>2, <1>3, <1>4, <1>5, <1>6, <1>7, <1>8, <1>9 DEF Next, DrainStep

(* The invariant holds of every reachable state. *)
LEMMA Invariance == Spec => []IInv
BY InitIInv, NextIInv, PTL DEF Spec

(* Batches never overlap: the drain under way is unique and is #current. *)
THEOREM OneBatchTheorem == Spec => []OneBatch
BY Invariance, PTL DEF IInv

(* Keys that are pending always have an armed window or a drain in progress. *)
THEOREM NoLostWakeupTheorem == Spec => []NoLostWakeup
BY Invariance, PTL DEF IInv

(* A signal stays in the scheduler until a handler gets it. *)
THEOREM SignalKeptTheorem == Spec => []SignalKept
BY Invariance, PTL DEF IInv

(* No step of a stopped scheduler gives keys to a handler: stop() emptied the
   set that a drain already promised will read. *)
THEOREM NoBatchAfterStopTheorem == Spec => NoBatchAfterStop
<1>1. ASSUME IInv, [Next]_vars
      PROVE  [\A d \in Drains : stopped /\ batch'[d] # batch[d] => batch'[d] = {}]_vars
  <2> SUFFICES ASSUME NEW d \in Drains, stopped, batch'[d] # batch[d] PROVE batch'[d] = {}
    OBVIOUS
  <2>1. pendingKeys = {} /\ batch \in [Drains -> SUBSET Keys]
    BY <1>1 DEF IInv, StoppedIsEmpty, TypeOK
  <2>2. batch' # batch
    OBVIOUS
  <2>3. PICK e \in Drains : BeginDrain(e) \/ BatchResolves(e) \/ BatchRejects(e)
    BY <1>1, <2>2 DEF Next, vars, Signal, WindowEnds, Drain, Stop, DrainStep, Finally
  <2>4. batch' = [batch EXCEPT ![e] = {}]
    BY <2>1, <2>3 DEF BeginDrain, BatchResolves, BatchRejects, NextBatch
  <2> QED
    BY <2>1, <2>4
<1>2. QED
  BY <1>1, Invariance, PTL DEF Spec, NoBatchAfterStop
=============================================================================
