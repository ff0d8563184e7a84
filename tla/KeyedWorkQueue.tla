--------------------------- MODULE KeyedWorkQueue ---------------------------
(***************************************************************************)
(* The Controller's in-process work queue, class KeyedWorkQueue of         *)
(* src/coordination/keyedWorkQueue.ts: a FIFO of keys that coalesces the   *)
(* signals of one key, leases a key to at most one consumer at a time and  *)
(* replays a key once when it was signalled during its lease.              *)
(*                                                                         *)
(* Every method runs to completion on the JavaScript event loop, so each   *)
(* is one action; what interleaves is the methods of different callers:    *)
(* producers calling signal, the Consumers' loops calling take and done,   *)
(* one caller of drain, and one caller of shutdown and abortPending.       *)
(***************************************************************************)
EXTENDS Naturals, Sequences

CONSTANTS Keys,        \* task ids and the Controller's own channels
          Consumers    \* the worker loops that take and complete items

VARIABLES
  phase,         \* #states: "absent", "queued" or "processing" per key
  dirty,         \* the keys whose processing state has dirty = true
  ready,         \* #ready from #readyHead on
  takeWaiters,   \* #takeWaiters from #takeWaiterHead on
  lease,         \* the key a consumer holds: the token of its open item
  consumer,      \* what each consumer is doing
  drainer,       \* the caller of drain
  mode,          \* #closed and #aborted
  closed,        \* #closeCompletion: "none", "pending" or "resolved"
  owed           \* history: keys signalled (and accepted) since last leased

vars == <<phase, dirty, ready, takeWaiters, lease, consumer, drainer, mode,
          closed, owed>>

NoKey == "no key"

ASSUME KeysAssumption == NoKey \notin Keys

Phases == {"absent", "queued", "processing"}
ConsumerStates == {"idle", "waiting", "leased", "ended"}

TypeOK ==
  /\ phase \in [Keys -> Phases]
  /\ dirty \subseteq Keys
  /\ ready \in Seq(Keys)
  /\ takeWaiters \in Seq(Consumers)
  /\ lease \in [Consumers -> Keys \cup {NoKey}]
  /\ consumer \in [Consumers -> ConsumerStates]
  /\ drainer \in {"idle", "waiting"}
  /\ mode \in {"open", "closing", "aborting"}
  /\ closed \in {"none", "pending", "resolved"}
  /\ owed \subseteq Keys

Init ==
  /\ phase = [k \in Keys |-> "absent"]
  /\ dirty = {}
  /\ ready = <<>>
  /\ takeWaiters = <<>>
  /\ lease = [c \in Consumers |-> NoKey]
  /\ consumer = [c \in Consumers |-> "idle"]
  /\ drainer = "idle"
  /\ mode = "open"
  /\ closed = "none"
  /\ owed = {}

-----------------------------------------------------------------------------
(* #states.size = 0 once the phases are p. *)
Idle(p) == \A k \in Keys : p[k] = "absent"

(* The loop of #dispatchReadyWork, entered with the phases p, the ready keys r,
   the leases l, the consumers s and the owed keys o: it hands the ready keys,
   in order, to the waiting consumers, in order, until either runs out. *)
Handed(r) == IF Len(r) < Len(takeWaiters) THEN Len(r) ELSE Len(takeWaiters)

DispatchReadyWork(p, r, l, s, o) ==
  LET n == Handed(r)
      Served == {r[i] : i \in 1..n}
      Item(c) == {i \in 1..n : takeWaiters[i] = c}
  IN /\ phase' = [k \in Keys |-> IF k \in Served THEN "processing" ELSE p[k]]
     /\ ready' = SubSeq(r, n + 1, Len(r))
     /\ takeWaiters' = SubSeq(takeWaiters, n + 1, Len(takeWaiters))
     /\ lease' = [c \in Consumers |->
                    IF Item(c) # {} THEN r[CHOOSE i \in Item(c) : TRUE]
                                    ELSE l[c]]
     /\ consumer' = [c \in Consumers |->
                    IF Item(c) # {} THEN "leased" ELSE s[c]]
     /\ owed' = o \ Served

(* #resolveTakeWaiters: every waiting take() receives undefined, which ends
   the loop of its consumer. s is the consumers' states on entry. *)
ResolveTakeWaiters(s) ==
  /\ takeWaiters' = <<>>
  /\ consumer' = [c \in Consumers |->
                    IF \E i \in DOMAIN takeWaiters : takeWaiters[i] = c
                    THEN "ended" ELSE s[c]]

(* #settleIdleWaiters, entered with the phases p, the mode m and the consumers
   s: an idle queue resolves its drain waiters and, once closed, its take
   waiters and the promise of shutdown and abortPending. *)
SettleIdleWaiters(p, m, s) ==
  /\ drainer' = IF Idle(p) THEN "idle" ELSE drainer
  /\ closed' = CASE m = "open" -> closed
                 [] m # "open" /\ Idle(p) -> "resolved"
                 [] m # "open" /\ ~Idle(p) -> IF closed = "none" THEN "pending"
                                                                 ELSE closed
  /\ IF Idle(p) /\ m # "open"
     THEN ResolveTakeWaiters(s)
     ELSE takeWaiters' = takeWaiters /\ consumer' = s

-----------------------------------------------------------------------------
(* Mutant: signal() without its trailing #dispatchReadyWork. *)
SignalNew_NoDispatch(k) ==
  /\ mode = "open"
  /\ phase[k] = "absent"
  /\ phase' = [phase EXCEPT ![k] = "queued"]
  /\ ready' = Append(ready, k)
  /\ owed' = owed \cup {k}
  /\ UNCHANGED <<takeWaiters, lease, consumer, dirty, drainer, mode, closed>>

(* signal(key) while the queue is open; a closed queue refuses it and changes
   nothing. *)
SignalNew(k) ==
  /\ mode = "open"
  /\ phase[k] = "absent"
  /\ DispatchReadyWork([phase EXCEPT ![k] = "queued"], Append(ready, k),
                       lease, consumer, owed \cup {k})
  /\ UNCHANGED <<dirty, drainer, mode, closed>>

(* Mutant: the dirty mark is not set. *)
SignalKnown_NotDirty(k) ==
  /\ mode = "open"
  /\ phase[k] # "absent"
  /\ owed' = owed \cup {k}
  /\ UNCHANGED <<phase, dirty, ready, takeWaiters, lease, consumer, drainer,
                 mode, closed>>

(* Mutant: a signal during a lease queues the key again at once. *)
SignalKnown_Requeues(k) ==
  /\ mode = "open"
  /\ phase[k] = "processing"
  /\ DispatchReadyWork([phase EXCEPT ![k] = "queued"], Append(ready, k),
                       lease, consumer, owed \cup {k})
  /\ UNCHANGED <<dirty, drainer, mode, closed>>

SignalKnown(k) ==
  /\ mode = "open"
  /\ phase[k] # "absent"
  /\ dirty' = IF phase[k] = "processing" THEN dirty \cup {k} ELSE dirty
  /\ owed' = owed \cup {k}
  /\ UNCHANGED <<phase, ready, takeWaiters, lease, consumer, drainer, mode,
                 closed>>

(* take() by a consumer whose loop is between two items: a lease when a key is
   ready (#leaseReadyWork), undefined when the queue has stopped, else a place
   among the take waiters. *)
TakeLease(c) ==
  /\ consumer[c] = "idle"
  /\ mode # "aborting"
  /\ ready # <<>>
  /\ LET k == Head(ready) IN
       /\ ready' = Tail(ready)
       /\ phase' = [phase EXCEPT ![k] = "processing"]
       /\ dirty' = dirty \ {k}
       /\ lease' = [lease EXCEPT ![c] = k]
       /\ owed' = owed \ {k}
  /\ consumer' = [consumer EXCEPT ![c] = "leased"]
  /\ UNCHANGED <<takeWaiters, drainer, mode, closed>>

TakeEnd(c) ==
  /\ consumer[c] = "idle"
  /\ \/ mode = "aborting"
     \/ mode = "closing" /\ ready = <<>> /\ Idle(phase)
  /\ consumer' = [consumer EXCEPT ![c] = "ended"]
  /\ UNCHANGED <<phase, dirty, ready, takeWaiters, lease, drainer, mode, closed,
                 owed>>

TakeWait(c) ==
  /\ consumer[c] = "idle"
  /\ mode # "aborting"
  /\ ready = <<>>
  /\ mode = "open" \/ ~Idle(phase)
  /\ takeWaiters' = Append(takeWaiters, c)
  /\ consumer' = [consumer EXCEPT ![c] = "waiting"]
  /\ UNCHANGED <<phase, dirty, ready, lease, drainer, mode, closed, owed>>

(* Mutant: the replay goes to the head of the queue. *)
DoneReplay_AtHead(c) ==
  /\ consumer[c] = "leased"
  /\ lease[c] \in dirty
  /\ mode # "aborting"
  /\ DispatchReadyWork([phase EXCEPT ![lease[c]] = "queued"],
                       <<lease[c]>> \o ready,
                       [lease EXCEPT ![c] = NoKey],
                       [consumer EXCEPT ![c] = "idle"], owed)
  /\ dirty' = dirty \ {lease[c]}
  /\ UNCHANGED <<drainer, mode, closed>>

(* item.done() of the lease c holds, which is #complete(key, token): a key
   signalled during its lease goes back to the tail of the queue. *)
DoneReplay(c) ==
  /\ consumer[c] = "leased"
  /\ lease[c] \in dirty
  /\ mode # "aborting"
  /\ DispatchReadyWork([phase EXCEPT ![lease[c]] = "queued"],
                       Append(ready, lease[c]),
                       [lease EXCEPT ![c] = NoKey],
                       [consumer EXCEPT ![c] = "idle"], owed)
  /\ dirty' = dirty \ {lease[c]}
  /\ UNCHANGED <<drainer, mode, closed>>

DoneForget(c) ==
  /\ consumer[c] = "leased"
  /\ lease[c] \notin dirty \/ mode = "aborting"
  /\ phase' = [phase EXCEPT ![lease[c]] = "absent"]
  /\ dirty' = dirty \ {lease[c]}
  /\ lease' = [lease EXCEPT ![c] = NoKey]
  /\ SettleIdleWaiters(phase', mode, [consumer EXCEPT ![c] = "idle"])
  /\ UNCHANGED <<ready, mode, owed>>

(* drain() of a queue that is not idle; on an idle one it resolves at once. *)
Drain ==
  /\ drainer = "idle"
  /\ ~Idle(phase)
  /\ drainer' = "waiting"
  /\ UNCHANGED <<phase, dirty, ready, takeWaiters, lease, consumer, mode, closed,
                 owed>>

(* Mutant: shutdown() without #settleIdleWaiters: an idle queue never resolves. *)
Shutdown_NoSettle ==
  /\ mode = "open"
  /\ mode' = "closing"
  /\ closed' = "pending"
  /\ UNCHANGED <<phase, dirty, ready, takeWaiters, lease, consumer, drainer, owed>>

(* shutdown(): #beginClose, then #settleIdleWaiters. A repeated call changes
   nothing. *)
Shutdown ==
  /\ mode = "open"
  /\ mode' = "closing"
  /\ SettleIdleWaiters(phase, "closing", consumer)
  /\ UNCHANGED <<phase, dirty, ready, lease, owed>>

(* abortPending(), also after shutdown(): drops the queued keys and the dirty
   marks, answers every take waiter with undefined. *)
AbortPending ==
  /\ mode # "aborting"
  /\ mode' = "aborting"
  /\ phase' = [k \in Keys |-> IF phase[k] = "queued" THEN "absent" ELSE phase[k]]
  /\ dirty' = {}
  /\ ready' = <<>>
  /\ owed' = {}
  /\ ResolveTakeWaiters(consumer)
  /\ drainer' = IF Idle(phase') THEN "idle" ELSE drainer
  /\ closed' = IF Idle(phase') THEN "resolved"
               ELSE IF closed = "none" THEN "pending" ELSE closed
  /\ UNCHANGED lease

Next ==
  \/ \E k \in Keys : SignalNew(k) \/ SignalKnown(k)
  \/ \E c \in Consumers : \/ TakeLease(c) \/ TakeEnd(c) \/ TakeWait(c)
                          \/ DoneReplay(c) \/ DoneForget(c)
  \/ Drain
  \/ Shutdown
  \/ AbortPending

(* A consumer keeps running: it calls take again after an item, and completes
   the items it holds. Producers, drain and shutdown owe nothing. *)
Fairness ==
  \A c \in Consumers :
    /\ WF_vars(TakeLease(c) \/ TakeEnd(c) \/ TakeWait(c))
    /\ WF_vars(DoneReplay(c) \/ DoneForget(c))

Spec == Init /\ [][Next]_vars /\ Fairness

-----------------------------------------------------------------------------
(* The ready list holds each queued key exactly once: the check of
   #leaseReadyWork ("ready key was not queued") never throws and no key is
   leased twice from one queueing. *)
ReadyIsQueued ==
  /\ \A i \in 1..Len(ready) : phase[ready[i]] = "queued"
  /\ \A i, j \in 1..Len(ready) : ready[i] = ready[j] => i = j
  /\ \A k \in Keys : phase[k] = "queued" => \E i \in 1..Len(ready) : ready[i] = k

(* At most one item for a key is processing (class comment, lines 28-29), and
   a processing key has a holder whose done() will find its own lease active:
   the check of #complete never throws. *)
LeaseExclusive ==
  /\ \A c, d \in Consumers : lease[c] # NoKey /\ lease[c] = lease[d] => c = d
  /\ \A c \in Consumers :
       /\ consumer[c] = "leased" <=> lease[c] # NoKey
       /\ lease[c] # NoKey => phase[lease[c]] = "processing"
  /\ \A k \in Keys : phase[k] = "processing" => \E c \in Consumers : lease[c] = k

(* No consumer sleeps in take() while a key is ready, and none sleeps on a
   queue that will never hand it anything again. *)
NoLostWakeup ==
  /\ takeWaiters # <<>> => ready = <<>> /\ mode # "aborting"
  /\ mode # "open" /\ Idle(phase) => takeWaiters = <<>>

(* Every accepted signal not yet leased is still going to be served: its key
   is queued, or its current lease is marked dirty and will be replayed. *)
AcceptedSignalKept ==
  \A k \in owed : phase[k] = "queued" \/ (phase[k] = "processing" /\ k \in dirty)

(* shutdown and abortPending resolve when, and only when, no key is queued or
   processing, and a resolved stop is final. *)
StopIsHonest ==
  /\ closed = "resolved" <=> mode # "open" /\ Idle(phase)
  /\ closed = "none" <=> mode = "open"
  /\ drainer = "waiting" => ~Idle(phase)

(* An accepted signal is leased after it was made, or dropped by abortPending,
   whatever the other keys do. *)
SignalServed == \A k \in Keys : k \in owed ~> k \notin owed

(* A stop that was asked for completes, and no consumer stays behind. *)
StopCompletes ==
  mode # "open" ~> closed = "resolved" /\ \A c \in Consumers : consumer[c] = "ended"
=============================================================================
