-------------------------- MODULE MailboxScheduler --------------------------
(***************************************************************************)
(* The coalescing scheduler in front of the Controller's passes,           *)
(* src/coordination/mailboxScheduler.ts: dirty keys gather over a fixed    *)
(* window, then go to one asynchronous batch handler.                      *)
(*                                                                         *)
(* One event loop runs everything, so an action is the code between two    *)
(* awaits: a call, a timer callback, the deferred start of a drain, the    *)
(* settlement of the handler's promise, the finally callback. A drain is   *)
(* the promise drain() installs in #current; its identity matters to the   *)
(* finally callback, so drains are named.                                  *)
(***************************************************************************)
EXTENDS Naturals, FiniteSets

CONSTANTS
  Keys,    \* mailbox keys
  Drains,  \* names for the promises of drain(), reused once settled
  None

ASSUME SchedulerAssumption == None \notin Drains

VARIABLES
  pendingKeys,     \* #pendingKeys
  timer,           \* #timer is armed
  current,         \* #current: a drain, or None
  drainRequested,  \* #drainRequested
  stopped,         \* #stopped
  phase,           \* of each drain: see Phases
  batch,           \* the keys each drain's handler is working on
  owed             \* history: keys signalled since a handler last got them

vars == <<pendingKeys, timer, current, drainRequested, stopped, phase, batch, owed>>

(* A deferred drain has been promised but not begun; a settled one has left its
   loop and its finally callback is due. *)
Phases == {"idle", "deferred", "processing", "settled"}

TypeOK ==
  /\ pendingKeys \subseteq Keys
  /\ timer \in BOOLEAN
  /\ current \in Drains \cup {None}
  /\ drainRequested \in BOOLEAN
  /\ stopped \in BOOLEAN
  /\ phase \in [Drains -> Phases]
  /\ batch \in [Drains -> SUBSET Keys]
  /\ owed \subseteq Keys

Init ==
  /\ pendingKeys = {}
  /\ timer = FALSE
  /\ current = None
  /\ drainRequested = FALSE
  /\ stopped = FALSE
  /\ phase = [d \in Drains |-> "idle"]
  /\ batch = [d \in Drains |-> {}]
  /\ owed = {}

-----------------------------------------------------------------------------
(* drain() on a scheduler that is not stopped, with its timer cancelled. The
   handler's start is deferred until #current is installed. *)
NewDrain(d, ph) ==
  /\ ph[d] = "idle"
  /\ current' = d
  /\ phase' = [ph EXCEPT ![d] = "deferred"]

(* Mutant: signal() does not arm the window. *)
Signal_NoWindow(k) ==
  /\ ~stopped
  /\ pendingKeys' = pendingKeys \cup {k}
  /\ owed' = owed \cup {k}
  /\ UNCHANGED <<timer, current, drainRequested, stopped, phase, batch>>

(* signal(key), and schedule() behind it: the first signal starts the window,
   later ones find it running. *)
Signal(k) ==
  /\ ~stopped
  /\ pendingKeys' = pendingKeys \cup {k}
  /\ timer' = TRUE
  /\ owed' = owed \cup {k}
  /\ UNCHANGED <<current, drainRequested, stopped, phase, batch>>

(* Mutant: drain() does not look for a drain in progress. *)
DrainNow_Reentrant ==
  \/ /\ pendingKeys # {}
     /\ \E d \in Drains : NewDrain(d, phase)
     /\ UNCHANGED drainRequested
  \/ /\ pendingKeys = {}
     /\ UNCHANGED <<current, drainRequested, phase>>

(* What drain() does besides cancelling the timer. *)
DrainNow ==
  \/ /\ current # None
     /\ drainRequested' = TRUE
     /\ UNCHANGED <<current, phase>>
  \/ /\ current = None /\ pendingKeys # {}
     /\ \E d \in Drains : NewDrain(d, phase)
     /\ UNCHANGED drainRequested
  \/ /\ current = None /\ pendingKeys = {}
     /\ UNCHANGED <<current, drainRequested, phase>>

(* The window ends: a batch in progress is asked to go on, else drain(). *)
WindowEnds ==
  /\ timer
  /\ timer' = FALSE
  /\ DrainNow
  /\ UNCHANGED <<pendingKeys, stopped, batch, owed>>

(* drain() called by a deadline of the Controller. *)
Drain ==
  /\ ~stopped
  /\ timer' = FALSE
  /\ DrainNow
  /\ UNCHANGED <<pendingKeys, stopped, batch, owed>>

(* Mutant: stop() leaves the pending keys. *)
Stop_KeepsKeys ==
  /\ ~stopped
  /\ stopped' = TRUE
  /\ timer' = FALSE
  /\ drainRequested' = FALSE
  /\ owed' = {}
  /\ UNCHANGED <<pendingKeys, current, phase, batch>>

Stop ==
  /\ ~stopped
  /\ stopped' = TRUE
  /\ timer' = FALSE
  /\ pendingKeys' = {}
  /\ drainRequested' = FALSE
  /\ owed' = {}
  /\ UNCHANGED <<current, phase, batch>>

-----------------------------------------------------------------------------
(* One turn of the loop of #drainDueBatches. A turn that finds no keys (they
   were cleared by stop()) leaves the loop. *)
NextBatch(d) ==
  /\ drainRequested' = FALSE
  /\ batch' = [batch EXCEPT ![d] = pendingKeys]
  /\ pendingKeys' = {}
  /\ owed' = owed \ pendingKeys
  /\ phase' = [phase EXCEPT ![d] = IF pendingKeys = {} THEN "settled" ELSE "processing"]

BeginDrain(d) ==
  /\ phase[d] = "deferred"
  /\ NextBatch(d)
  /\ UNCHANGED <<timer, current, stopped>>

(* Mutant: the loop is left with a clean slate. *)
BatchResolves_Clears(d) ==
  /\ phase[d] = "processing"
  /\ phase' = [phase EXCEPT ![d] = "settled"]
  /\ batch' = [batch EXCEPT ![d] = {}]
  /\ pendingKeys' = {}
  /\ UNCHANGED <<timer, current, drainRequested, stopped, owed>>

(* The handler resolves: another turn when a drain was asked for meanwhile. *)
BatchResolves(d) ==
  /\ phase[d] = "processing"
  /\ IF ~stopped /\ drainRequested /\ pendingKeys # {}
     THEN NextBatch(d)
     ELSE /\ phase' = [phase EXCEPT ![d] = "settled"]
          /\ batch' = [batch EXCEPT ![d] = {}]
          /\ UNCHANGED <<pendingKeys, drainRequested, owed>>
  /\ UNCHANGED <<timer, current, stopped>>

(* The handler rejects: the loop is left, whatever was asked for. *)
BatchRejects(d) ==
  /\ phase[d] = "processing"
  /\ phase' = [phase EXCEPT ![d] = "settled"]
  /\ batch' = [batch EXCEPT ![d] = {}]
  /\ UNCHANGED <<pendingKeys, timer, current, drainRequested, stopped, owed>>

(* Mutant: the finally callback forgets what arrived during the batch. *)
Finally_Forgets(d) ==
  /\ phase[d] = "settled"
  /\ current' = IF current = d THEN None ELSE current
  /\ phase' = [phase EXCEPT ![d] = "idle"]
  /\ UNCHANGED <<pendingKeys, timer, drainRequested, stopped, batch, owed>>

(* Mutant: the finally callback returns before it releases #current. *)
Finally_KeepsCurrent(d) ==
  /\ phase[d] = "settled"
  /\ phase' = [phase EXCEPT ![d] = "idle"]
  /\ timer' = (~stopped /\ pendingKeys # {})
  /\ current' = IF stopped \/ pendingKeys = {} THEN current ELSE None
  /\ UNCHANGED <<pendingKeys, drainRequested, stopped, batch, owed>>

(* The finally callback of the promise: release #current, then drain again,
   open a new window, or rest. *)
Finally(d) ==
  /\ phase[d] = "settled"
  /\ IF current # d
     THEN /\ phase' = [phase EXCEPT ![d] = "idle"]
          /\ UNCHANGED <<current, timer, drainRequested>>
     ELSE IF stopped \/ pendingKeys = {}
     THEN /\ phase' = [phase EXCEPT ![d] = "idle"]
          /\ current' = None
          /\ UNCHANGED <<timer, drainRequested>>
     ELSE IF drainRequested
     THEN /\ drainRequested' = FALSE
          /\ timer' = FALSE
          /\ \E e \in Drains : NewDrain(e, [phase EXCEPT ![d] = "idle"])
     ELSE /\ phase' = [phase EXCEPT ![d] = "idle"]
          /\ current' = None
          /\ timer' = TRUE
          /\ UNCHANGED drainRequested
  /\ UNCHANGED <<pendingKeys, stopped, batch, owed>>

-----------------------------------------------------------------------------
DrainStep(d) == BeginDrain(d) \/ BatchResolves(d) \/ Finally(d)

Next ==
  \/ \E k \in Keys : Signal(k)
  \/ WindowEnds \/ Drain \/ Stop
  \/ \E d \in Drains : DrainStep(d) \/ BatchRejects(d)

(* The event loop runs due timers and microtasks, and every handler ends one
   way or the other. *)
Fairness ==
  /\ WF_vars(WindowEnds)
  /\ \A d \in Drains : WF_vars(DrainStep(d))

Spec == Init /\ [][Next]_vars /\ Fairness

-----------------------------------------------------------------------------
(* Batches are never processed concurrently: one drain at most is between its
   creation and its finally callback, and it is #current. *)
OneBatch ==
  \A d \in Drains : phase[d] # "idle" => current = d

(* A signal is in the scheduler until a handler gets it; one received during
   a batch belongs to a later batch. *)
SignalKept == owed \subseteq pendingKeys

(* Pending keys always have somebody to come back for them: the window, or the
   drain in progress. *)
NoLostWakeup == pendingKeys # {} => timer \/ current # None

(* Once stopped no handler is started: one that was promised finds nothing. *)
NoBatchAfterStop ==
  [][\A d \in Drains : stopped /\ batch'[d] # batch[d] => batch'[d] = {}]_vars

(* Every signal reaches a handler, though handlers fail, unless the scheduler
   is stopped. *)
SignalServed == \A k \in Keys : k \in owed ~> k \notin owed

(* A stopped scheduler comes to rest. *)
StopSettles == stopped ~> [](current = None /\ ~timer)
=============================================================================
