----------------------- MODULE KeyedWorkQueueProofs -----------------------
(***************************************************************************)
(* The safety properties of KeyedWorkQueue for every set of keys and of    *)
(* consumers.                                                              *)
(***************************************************************************)
EXTENDS KeyedWorkQueue, SequenceTheorems, TLAPS

(* The take waiters are exactly the consumers waiting in take(), once each,
   only a processing key carries a dirty mark, and an aborted queue owes
   nothing: what the properties need of the state they do not mention. *)
WaitersExact ==
  /\ \A i \in 1..Len(takeWaiters) : consumer[takeWaiters[i]] = "waiting"
  /\ \A i, j \in 1..Len(takeWaiters) : takeWaiters[i] = takeWaiters[j] => i = j
DirtyIsProcessing ==
  /\ \A k \in dirty : phase[k] = "processing"
  /\ mode = "aborting" => owed = {}

IInv ==
  /\ TypeOK
  /\ ReadyIsQueued
  /\ LeaseExclusive
  /\ NoLostWakeup
  /\ AcceptedSignalKept
  /\ StopIsHonest
  /\ WaitersExact
  /\ DirtyIsProcessing

(* What #dispatchReadyWork does after one key was pushed: nothing when nobody
   waits, else the pushed key, alone in the ready list, goes to the waiter
   that came first. *)
LEMMA DispatchNoWaiter ==
  ASSUME TypeOK, takeWaiters = <<>>,
         NEW p \in [Keys -> Phases], NEW r \in Seq(Keys),
         NEW l \in [Consumers -> Keys \cup {NoKey}],
         NEW s \in [Consumers -> ConsumerStates], NEW o \in SUBSET Keys,
         DispatchReadyWork(p, r, l, s, o)
  PROVE  /\ phase' = p
         /\ ready' = r
         /\ takeWaiters' = <<>>
         /\ lease' = l
         /\ consumer' = s
         /\ owed' = o
<1>1. Handed(r) = 0
  BY DEF Handed
<1>2. 1..Handed(r) = {}
  BY <1>1
<1>3. SubSeq(r, 1, Len(r)) = r /\ SubSeq(<<>>, 1, 0) = <<>>
  OBVIOUS
<1> QED
  BY <1>1, <1>2, <1>3 DEF DispatchReadyWork

LEMMA FirstOfOne ==
  ASSUME NEW S, NEW r \in Seq(S), Len(r) = 1
  PROVE  r[1] \in S
<1>1. 1 \in 1..Len(r)
  OBVIOUS
<1> QED
  BY <1>1, ElementOfSeq

LEMMA DispatchOneWaiter ==
  ASSUME TypeOK, takeWaiters # <<>>,
         NEW p \in [Keys -> Phases], NEW r \in Seq(Keys), Len(r) = 1,
         NEW l \in [Consumers -> Keys \cup {NoKey}],
         NEW s \in [Consumers -> ConsumerStates], NEW o \in SUBSET Keys,
         DispatchReadyWork(p, r, l, s, o)
  PROVE  /\ phase' = [p EXCEPT ![r[1]] = "processing"]
         /\ ready' = <<>>
         /\ takeWaiters' = Tail(takeWaiters)
         /\ lease' = [l EXCEPT ![Head(takeWaiters)] = r[1]]
         /\ consumer' = [s EXCEPT ![Head(takeWaiters)] = "leased"]
         /\ owed' = o \ {r[1]}
<1> DEFINE w == Head(takeWaiters)
           Item(c) == {i \in 1..1 : takeWaiters[i] = c}
<1>1. /\ r[1] \in Keys
      /\ Len(takeWaiters) \in Nat /\ Len(takeWaiters) >= 1
      /\ w = takeWaiters[1] /\ w \in Consumers
  <2>1. r[1] \in Keys
    BY FirstOfOne
  <2>2. Len(takeWaiters) \in Nat \ {0}
    BY EmptySeq DEF TypeOK
  <2>3. takeWaiters[1] \in Consumers
    BY <2>2, ElementOfSeq DEF TypeOK
  <2> QED
    BY <2>1, <2>2, <2>3
<1>2. Handed(r) = 1
  BY <1>1 DEF Handed, TypeOK
<1>3. 1..1 = {1}
  OBVIOUS
<1>4. {r[i] : i \in 1..1} = {r[1]}
  BY <1>1, <1>3
<1>5. \A c \in Consumers : IF c = w THEN Item(c) = {1} ELSE Item(c) = {}
  BY <1>1, <1>3
<1>6. /\ SubSeq(r, 2, Len(r)) = <<>>
      /\ SubSeq(takeWaiters, 2, Len(takeWaiters)) = Tail(takeWaiters)
  BY <1>1 DEF TypeOK
<1>7. \A c \in Consumers : Item(c) # {} => r[CHOOSE i \in Item(c) : TRUE] = r[1]
  BY <1>1, <1>5
<1>8. phase' = [p EXCEPT ![r[1]] = "processing"]
  BY <1>1, <1>2, <1>4 DEF DispatchReadyWork
<1>9. ready' = <<>> /\ takeWaiters' = Tail(takeWaiters)
  BY <1>1, <1>2, <1>6 DEF DispatchReadyWork
<1>10. lease' = [l EXCEPT ![w] = r[1]]
  <2>1. lease' = [c \in Consumers |->
                    IF Item(c) # {} THEN r[CHOOSE i \in Item(c) : TRUE]
                                    ELSE l[c]]
    BY <1>2 DEF DispatchReadyWork
  <2>2. lease' = [c \in Consumers |-> IF c = w THEN r[1] ELSE l[c]]
    <3>1. \A c \in Consumers : lease'[c] = IF c = w THEN r[1] ELSE l[c]
      <4> SUFFICES ASSUME NEW c \in Consumers
                   PROVE  lease'[c] = IF c = w THEN r[1] ELSE l[c]
        OBVIOUS
      <4>1. lease'[c] = IF Item(c) # {} THEN r[CHOOSE i \in Item(c) : TRUE]
                                         ELSE l[c]
        BY <2>1, Zenon
      <4> HIDE DEF Item, w
      <4> QED
        BY <4>1, <1>5, <1>7
    <3> QED
      BY <2>1, <3>1
  <2> QED
    BY <2>2, <1>1
<1>11. consumer' = [s EXCEPT ![w] = "leased"]
  <2>1. consumer' = [c \in Consumers |-> IF Item(c) # {} THEN "leased" ELSE s[c]]
    BY <1>2 DEF DispatchReadyWork
  <2>2. consumer' = [c \in Consumers |-> IF c = w THEN "leased" ELSE s[c]]
    BY <2>1, <1>5
  <2> QED
    BY <2>2, <1>1
<1>12. owed' = o \ {r[1]}
  BY <1>2, <1>4 DEF DispatchReadyWork
<1> QED
  BY <1>8, <1>9, <1>10, <1>11, <1>12

-----------------------------------------------------------------------------
(* Every step of the queue preserves the inductive invariant. *)
LEMMA InitIInv == Init => IInv
  BY DEF Init, IInv, TypeOK, ReadyIsQueued, LeaseExclusive, NoLostWakeup,
         AcceptedSignalKept, StopIsHonest, WaitersExact, DirtyIsProcessing,
         Phases, ConsumerStates, Idle

(* Pushing a key that is neither queued nor processing and dispatching it. The
   callers are signal() on a new key and done() on a dirty one; both enter with
   the key k held by nobody. *)
LEMMA PushPreserves ==
  ASSUME IInv, NEW k \in Keys, NEW p, NEW l, NEW s, NEW o,
         p \in [Keys -> Phases], l \in [Consumers -> Keys \cup {NoKey}],
         s \in [Consumers -> ConsumerStates], o \subseteq Keys,
         \A j \in Keys : j # k => p[j] = phase[j],
         p[k] = "queued", phase[k] # "queued",
         mode = "open" \/ phase[k] # "absent",
         \A c \in Consumers : l[c] = IF lease[c] = k THEN NoKey ELSE lease[c],
         \A c \in Consumers : s[c] = IF lease[c] = k THEN "idle" ELSE consumer[c],
         \A j \in o : j # k => j \in owed,
         DispatchReadyWork(p, Append(ready, k), l, s, o),
         dirty' = dirty \ {k},
         mode # "aborting",
         UNCHANGED <<drainer, mode, closed>>
  PROVE  IInv'
<1> DEFINE r == Append(ready, k)
<1>1. r \in Seq(Keys) /\ Len(r) = Len(ready) + 1 /\ r[Len(r)] = k
      /\ \A i \in 1..Len(ready) : r[i] = ready[i]
  BY DEF IInv, TypeOK
<1>2. CASE takeWaiters = <<>>
  <2>1. /\ phase' = p /\ ready' = r /\ takeWaiters' = <<>>
        /\ lease' = l /\ consumer' = s /\ owed' = o
    BY <1>1, <1>2, DispatchNoWaiter DEF IInv
  <2>2. TypeOK'
    BY <1>1, <2>1 DEF IInv, TypeOK
  <2>3. ReadyIsQueued'
    <3>1. \A i \in 1..Len(r) : i \in 1..Len(ready) \/ i = Len(r)
      BY <1>1 DEF IInv, TypeOK
    <3>2. \A i \in 1..Len(ready) : ready[i] \in Keys /\ ready[i] # k
      BY DEF IInv, TypeOK, ReadyIsQueued
    <3>3. \A i \in 1..Len(ready) : i \in 1..Len(r)
      BY <1>1 DEF IInv, TypeOK
    <3>4. Len(r) \in 1..Len(r)
      BY <1>1 DEF IInv, TypeOK
    <3> HIDE DEF r
    <3>5. \A i \in 1..Len(r) : p[r[i]] = "queued"
      BY <1>1, <3>1, <3>2 DEF IInv, ReadyIsQueued
    <3>6. \A i, j \in 1..Len(r) : r[i] = r[j] => i = j
      BY <1>1, <3>1, <3>2 DEF IInv, ReadyIsQueued
    <3>7. \A j \in Keys : p[j] = "queued" => \E i \in 1..Len(r) : r[i] = j
      BY <1>1, <3>3, <3>4 DEF IInv, ReadyIsQueued
    <3> QED
      BY <2>1, <3>5, <3>6, <3>7 DEF ReadyIsQueued
  <2>4. LeaseExclusive'
    <3>1. \A c, d \in Consumers :
            lease'[c] # NoKey /\ lease'[c] = lease'[d] => c = d
      BY <2>1 DEF IInv, LeaseExclusive
    <3>2. \A c \in Consumers :
            /\ consumer'[c] = "leased" <=> lease'[c] # NoKey
            /\ lease'[c] # NoKey => phase'[lease'[c]] = "processing"
      BY <2>1, KeysAssumption DEF IInv, TypeOK, LeaseExclusive
    <3>3. \A j \in Keys :
            phase'[j] = "processing" => \E c \in Consumers : lease'[c] = j
      BY <2>1 DEF IInv, LeaseExclusive
    <3> QED
      BY <3>1, <3>2, <3>3 DEF LeaseExclusive
  <2>5. NoLostWakeup'
    BY <2>1 DEF NoLostWakeup
  <2>6. AcceptedSignalKept'
    BY <2>1 DEF IInv, TypeOK, AcceptedSignalKept
  <2>7. StopIsHonest'
    BY <2>1 DEF IInv, TypeOK, StopIsHonest, Idle
  <2>8. WaitersExact' /\ DirtyIsProcessing'
    BY <2>1 DEF IInv, TypeOK, WaitersExact, DirtyIsProcessing
  <2> QED
    BY <2>2, <2>3, <2>4, <2>5, <2>6, <2>7, <2>8 DEF IInv
<1>3. CASE takeWaiters # <<>>
  <2> DEFINE w == Head(takeWaiters)
  <2>1. ready = <<>> /\ Len(r) = 1 /\ r[1] = k
    BY <1>1, <1>3 DEF IInv, NoLostWakeup
  <2>2. /\ phase' = [p EXCEPT ![k] = "processing"]
        /\ ready' = <<>> /\ takeWaiters' = Tail(takeWaiters)
        /\ lease' = [l EXCEPT ![w] = k]
        /\ consumer' = [s EXCEPT ![w] = "leased"]
        /\ owed' = o \ {k}
    <3>1. /\ phase' = [p EXCEPT ![r[1]] = "processing"]
          /\ ready' = <<>> /\ takeWaiters' = Tail(takeWaiters)
          /\ lease' = [l EXCEPT ![w] = r[1]]
          /\ consumer' = [s EXCEPT ![w] = "leased"]
          /\ owed' = o \ {r[1]}
      <4> HIDE DEF r
      <4>1. DispatchReadyWork(p, r, l, s, o)
        BY DEF r
      <4> QED
        BY <1>1, <1>3, <2>1, <4>1, DispatchOneWaiter DEF IInv
    <3> HIDE DEF r
    <3> QED
      BY <3>1, <2>1
  <2>3. /\ w \in Consumers /\ consumer[w] = "waiting" /\ lease[w] = NoKey
        /\ s[w] = "waiting" /\ l[w] = NoKey
        /\ Tail(takeWaiters) \in Seq(Consumers)
        /\ Len(Tail(takeWaiters)) = Len(takeWaiters) - 1
        /\ \A i \in 1..Len(Tail(takeWaiters)) :
              /\ Tail(takeWaiters)[i] = takeWaiters[i+1]
              /\ i + 1 \in 1..Len(takeWaiters)
              /\ Tail(takeWaiters)[i] # w
    BY <1>3, HeadTailProperties, KeysAssumption
       DEF IInv, TypeOK, WaitersExact, LeaseExclusive
  <2>4. TypeOK'
    BY <2>2, <2>3 DEF IInv, TypeOK, Phases, ConsumerStates
  <2>5. ReadyIsQueued'
    BY <2>1, <2>2 DEF IInv, TypeOK, ReadyIsQueued
  <2>6. LeaseExclusive'
    <3>1. \A c \in Consumers :
            /\ lease'[c] = IF c = w THEN k ELSE l[c]
            /\ consumer'[c] = IF c = w THEN "leased" ELSE s[c]
      BY <2>2
    <3>2. \A j \in Keys : phase'[j] = IF j = k THEN "processing" ELSE phase[j]
      BY <2>2
    <3> HIDE DEF w
    <3>3. \A c, d \in Consumers :
            lease'[c] # NoKey /\ lease'[c] = lease'[d] => c = d
      BY <3>1, KeysAssumption DEF IInv, LeaseExclusive
    <3>4. \A c \in Consumers :
            /\ consumer'[c] = "leased" <=> lease'[c] # NoKey
            /\ lease'[c] # NoKey => phase'[lease'[c]] = "processing"
      BY <3>1, <3>2, KeysAssumption DEF IInv, TypeOK, LeaseExclusive
    <3>5. \A j \in Keys :
            phase'[j] = "processing" => \E c \in Consumers : lease'[c] = j
      <4> SUFFICES ASSUME NEW j \in Keys, phase'[j] = "processing", j # k
                   PROVE  \E c \in Consumers : lease'[c] = j
        BY <3>1, <2>3
      <4>1. PICK c \in Consumers : lease[c] = j
        BY <3>2 DEF IInv, LeaseExclusive
      <4>2. c # w
        BY <4>1, <2>3, KeysAssumption
      <4> QED
        BY <4>1, <4>2, <3>1
    <3> QED
      BY <3>3, <3>4, <3>5 DEF LeaseExclusive
  <2>7. NoLostWakeup'
    BY <2>2 DEF IInv, TypeOK, NoLostWakeup, Idle
  <2>8. AcceptedSignalKept'
    BY <2>2 DEF IInv, TypeOK, AcceptedSignalKept
  <2>9. StopIsHonest'
    BY <2>2 DEF IInv, TypeOK, StopIsHonest, Idle
  <2>10. DirtyIsProcessing'
    BY <2>2 DEF IInv, TypeOK, DirtyIsProcessing
  <2>11. WaitersExact'
    <3> DEFINE t == Tail(takeWaiters)
    <3>1. takeWaiters' = t /\ Len(t) \in Nat
      BY <2>2, <2>3
    <3>2. \A i \in 1..Len(t) : t[i] \in Consumers /\ s[t[i]] = "waiting"
      <4> SUFFICES ASSUME NEW i \in 1..Len(t)
                   PROVE  t[i] \in Consumers /\ s[t[i]] = "waiting"
        OBVIOUS
      <4>1. t[i] = takeWaiters[i+1] /\ i + 1 \in 1..Len(takeWaiters)
        BY <2>3
      <4>2. t[i] \in Consumers /\ consumer[t[i]] = "waiting"
        BY <4>1, ElementOfSeq DEF IInv, TypeOK, WaitersExact
      <4>3. lease[t[i]] = NoKey
        BY <4>2 DEF IInv, LeaseExclusive
      <4> QED
        BY <4>2, <4>3, KeysAssumption
    <3>3. \A i, j \in 1..Len(t) : t[i] = t[j] => i = j
      <4> SUFFICES ASSUME NEW i \in 1..Len(t), NEW j \in 1..Len(t), t[i] = t[j]
                   PROVE  i = j
        OBVIOUS
      <4>1. /\ i + 1 \in 1..Len(takeWaiters) /\ j + 1 \in 1..Len(takeWaiters)
            /\ takeWaiters[i+1] = takeWaiters[j+1]
        BY <2>3
      <4>2. i + 1 = j + 1
        BY <4>1 DEF IInv, WaitersExact
      <4> QED
        BY <4>2
    <3>4. \A i \in 1..Len(t) : t[i] # w
      BY <2>3
    <3> HIDE DEF t, w
    <3>5. \A i \in 1..Len(t) : consumer'[t[i]] = "waiting"
      BY <2>2, <3>2, <3>4
    <3> QED
      BY <3>1, <3>3, <3>5 DEF WaitersExact
  <2> QED
    BY <2>4, <2>5, <2>6, <2>7, <2>8, <2>9, <2>10, <2>11 DEF IInv
<1> QED
  BY <1>2, <1>3

(* #resolveTakeWaiters answers waiters only: it ends no open lease. *)
LEMMA ResolveKeepsLeases ==
  ASSUME TypeOK, WaitersExact, ResolveTakeWaiters(consumer)
  PROVE  /\ takeWaiters' = <<>>
         /\ consumer' \in [Consumers -> ConsumerStates]
         /\ \A d \in Consumers : consumer'[d] = "leased" <=> consumer[d] = "leased"
<1>1. \A i \in DOMAIN takeWaiters : consumer[takeWaiters[i]] = "waiting"
  BY DEF TypeOK, WaitersExact
<1>2. /\ takeWaiters' = <<>>
      /\ consumer' = [d \in Consumers |->
                        IF \E i \in DOMAIN takeWaiters : takeWaiters[i] = d
                        THEN "ended" ELSE consumer[d]]
  BY DEF ResolveTakeWaiters
<1> QED
  BY <1>1, <1>2 DEF TypeOK, ConsumerStates

LEMMA NextIInv == IInv /\ [Next]_vars => IInv'
<1> SUFFICES ASSUME IInv, [Next]_vars PROVE IInv'
  OBVIOUS
<1> USE DEF IInv
<1>1. ASSUME NEW k \in Keys, SignalNew(k) PROVE IInv'
  <2> DEFINE p == [phase EXCEPT ![k] = "queued"]
  <2>1. k \notin dirty
    BY <1>1 DEF SignalNew, DirtyIsProcessing
  <2>2. \A c \in Consumers : lease[c] # k
    BY <1>1, KeysAssumption DEF SignalNew, LeaseExclusive
  <2>3. p \in [Keys -> Phases] /\ p[k] = "queued"
        /\ \A j \in Keys : j # k => p[j] = phase[j]
    BY <1>1 DEF TypeOK, Phases
  <2>4. DispatchReadyWork(p, Append(ready, k), lease, consumer, owed \cup {k})
        /\ UNCHANGED <<dirty, drainer, mode, closed>> /\ mode = "open"
        /\ phase[k] = "absent"
    BY <1>1 DEF SignalNew
  <2>5. dirty' = dirty \ {k}
    BY <2>1, <2>4 DEF TypeOK
  <2> HIDE DEF p
  <2> QED
    BY <2>2, <2>3, <2>4, <2>5, PushPreserves DEF TypeOK
<1>2. ASSUME NEW k \in Keys, SignalKnown(k) PROVE IInv'
  BY <1>2 DEF SignalKnown, TypeOK, ReadyIsQueued, LeaseExclusive, NoLostWakeup,
              AcceptedSignalKept, StopIsHonest, WaitersExact, DirtyIsProcessing,
              Phases, Idle
<1>3. ASSUME NEW c \in Consumers, TakeLease(c) PROVE IInv'
  <2> DEFINE k == Head(ready)
             t == Tail(ready)
  <2>1. /\ k \in Keys /\ t \in Seq(Keys)
        /\ Len(ready) \in Nat \ {0} /\ k = ready[1]
        /\ Len(t) \in Nat
        /\ Len(t) = Len(ready) - 1
        /\ \A i \in 1..Len(t) : t[i] = ready[i+1]
    BY <1>3, HeadTailProperties, EmptySeq DEF TakeLease, TypeOK
  <2>2. phase[k] = "queued"
    BY <2>1 DEF ReadyIsQueued
  <2>3. /\ phase' = [phase EXCEPT ![k] = "processing"]
        /\ ready' = t
        /\ dirty' = dirty \ {k} /\ owed' = owed \ {k}
        /\ lease' = [lease EXCEPT ![c] = k]
        /\ consumer' = [consumer EXCEPT ![c] = "leased"]
        /\ consumer[c] = "idle" /\ mode # "aborting"
        /\ UNCHANGED <<takeWaiters, drainer, mode, closed>>
        /\ takeWaiters = <<>> /\ lease[c] = NoKey
    BY <1>3 DEF TakeLease, NoLostWakeup, LeaseExclusive
  <2>4. \A i \in 1..Len(t) : i + 1 \in 1..Len(ready) /\ t[i] \in Keys /\ t[i] # k
    BY <2>1 DEF ReadyIsQueued, TypeOK
  <2>5. \A j \in Keys : j # k /\ phase[j] = "queued" => \E i \in 1..Len(t) : t[i] = j
    <3> SUFFICES ASSUME NEW j \in Keys, j # k, phase[j] = "queued"
                 PROVE  \E i \in 1..Len(t) : t[i] = j
      OBVIOUS
    <3>1. PICK i \in 1..Len(ready) : ready[i] = j
      BY DEF ReadyIsQueued
    <3>2. i - 1 \in 1..Len(t) /\ t[i - 1] = ready[i]
      BY <2>1, <3>1
    <3> QED
      BY <3>1, <3>2
  <2>6. \A i, j \in 1..Len(t) : t[i] = t[j] => i = j
    <3> SUFFICES ASSUME NEW i \in 1..Len(t), NEW j \in 1..Len(t), t[i] = t[j]
                 PROVE  i = j
      OBVIOUS
    <3>1. i + 1 = j + 1
      BY <2>1, <2>4 DEF ReadyIsQueued
    <3> QED
      BY <3>1
  <2>7. \A i \in 1..Len(t) : phase[t[i]] = "queued"
    BY <2>1, <2>4 DEF ReadyIsQueued
  <2> HIDE DEF k, t
  <2>8. TypeOK'
    BY <2>1, <2>3 DEF TypeOK, Phases, ConsumerStates
  <2>9. ReadyIsQueued'
    BY <2>1, <2>3, <2>4, <2>5, <2>6, <2>7 DEF ReadyIsQueued, TypeOK
  <2>10. LeaseExclusive'
    <3>1. \A d \in Consumers : lease'[d] = (IF d = c THEN k ELSE lease[d])
                               /\ consumer'[d] = (IF d = c THEN "leased" ELSE consumer[d])
      BY <2>3 DEF TypeOK
    <3>2. \A j \in Keys : phase'[j] = IF j = k THEN "processing" ELSE phase[j]
      BY <2>3 DEF TypeOK
    <3>3. \A d \in Consumers : lease[d] # k
      BY <2>1, <2>2, KeysAssumption DEF LeaseExclusive
    <3>4. \A d, e \in Consumers :
            lease'[d] # NoKey /\ lease'[d] = lease'[e] => d = e
      BY <3>1, <3>3 DEF LeaseExclusive
    <3>5. \A d \in Consumers :
            /\ consumer'[d] = "leased" <=> lease'[d] # NoKey
            /\ lease'[d] # NoKey => phase'[lease'[d]] = "processing"
      BY <2>1, <3>1, <3>2, <3>3, KeysAssumption DEF LeaseExclusive, TypeOK
    <3>6. \A j \in Keys : phase'[j] = "processing" => \E d \in Consumers : lease'[d] = j
      BY <2>1, <2>3, <3>1, <3>2, KeysAssumption DEF LeaseExclusive
    <3> QED
      BY <3>4, <3>5, <3>6 DEF LeaseExclusive
  <2>11. NoLostWakeup' /\ WaitersExact'
    BY <2>3 DEF NoLostWakeup, WaitersExact
  <2>12. AcceptedSignalKept' /\ DirtyIsProcessing'
    BY <2>1, <2>3 DEF AcceptedSignalKept, DirtyIsProcessing, TypeOK
  <2>13. StopIsHonest'
    BY <2>1, <2>2, <2>3 DEF StopIsHonest, Idle, TypeOK
  <2> QED
    BY <2>8, <2>9, <2>10, <2>11, <2>12, <2>13
<1>4. ASSUME NEW c \in Consumers, TakeEnd(c) PROVE IInv'
  <2>1. TypeOK'
    BY <1>4 DEF TakeEnd, TypeOK, ConsumerStates
  <2>2. LeaseExclusive' /\ WaitersExact'
    BY <1>4 DEF TakeEnd, TypeOK, LeaseExclusive, WaitersExact
  <2> QED
    BY <1>4, <2>1, <2>2 DEF TakeEnd, ReadyIsQueued, NoLostWakeup,
       AcceptedSignalKept, StopIsHonest, DirtyIsProcessing, Idle
<1>5. ASSUME NEW c \in Consumers, TakeWait(c) PROVE IInv'
  <2> DEFINE t == Append(takeWaiters, c)
  <2>1. /\ takeWaiters' = t /\ t \in Seq(Consumers)
        /\ Len(t) = Len(takeWaiters) + 1 /\ t[Len(t)] = c
        /\ \A i \in 1..Len(takeWaiters) : t[i] = takeWaiters[i]
        /\ \A i \in 1..Len(t) : i \in 1..Len(takeWaiters) \/ i = Len(t)
    BY <1>5 DEF TakeWait, TypeOK
  <2>2. \A i \in 1..Len(takeWaiters) : takeWaiters[i] # c /\ takeWaiters[i] \in Consumers
    BY <1>5 DEF TakeWait, TypeOK, WaitersExact
  <2> HIDE DEF t
  <2>3. TypeOK'
    BY <1>5, <2>1 DEF TakeWait, TypeOK, ConsumerStates
  <2>4. WaitersExact'
    <3>1. \A i \in 1..Len(t) : consumer'[t[i]] = "waiting"
      BY <1>5, <2>1, <2>2 DEF TakeWait, TypeOK, WaitersExact
    <3>2. \A i, j \in 1..Len(t) : t[i] = t[j] => i = j
      BY <2>1, <2>2 DEF WaitersExact
    <3> QED
      BY <2>1, <3>1, <3>2 DEF WaitersExact
  <2>5. LeaseExclusive'
    BY <1>5 DEF TakeWait, TypeOK, LeaseExclusive
  <2>6. NoLostWakeup'
    BY <1>5 DEF TakeWait, NoLostWakeup, Idle
  <2> QED
    BY <1>5, <2>3, <2>4, <2>5, <2>6 DEF TakeWait, ReadyIsQueued,
       AcceptedSignalKept, StopIsHonest, DirtyIsProcessing, Idle
<1>6. ASSUME NEW c \in Consumers, DoneReplay(c) PROVE IInv'
  <2> DEFINE k == lease[c]
             p == [phase EXCEPT ![k] = "queued"]
             l == [lease EXCEPT ![c] = NoKey]
             s == [consumer EXCEPT ![c] = "idle"]
  <2>1. k \in Keys /\ phase[k] = "processing"
    BY <1>6, KeysAssumption DEF DoneReplay, LeaseExclusive, TypeOK
  <2>2. \A d \in Consumers : lease[d] = k => d = c
    BY <2>1, KeysAssumption DEF LeaseExclusive
  <2>3. p \in [Keys -> Phases] /\ p[k] = "queued"
        /\ \A j \in Keys : j # k => p[j] = phase[j]
    BY <2>1 DEF TypeOK, Phases
  <2>4. /\ l \in [Consumers -> Keys \cup {NoKey}]
        /\ s \in [Consumers -> ConsumerStates]
        /\ \A d \in Consumers : l[d] = IF lease[d] = k THEN NoKey ELSE lease[d]
        /\ \A d \in Consumers : s[d] = IF lease[d] = k THEN "idle" ELSE consumer[d]
    BY <2>2 DEF TypeOK, ConsumerStates
  <2>5. /\ DispatchReadyWork(p, Append(ready, k), l, s, owed)
        /\ UNCHANGED <<drainer, mode, closed>> /\ mode # "aborting"
        /\ dirty' = dirty \ {k}
    BY <1>6 DEF DoneReplay
  <2>6. /\ IInv /\ owed \subseteq Keys /\ (\A j \in owed : j # k => j \in owed)
        /\ phase[k] # "queued" /\ (mode = "open" \/ phase[k] # "absent")
    BY <2>1 DEF TypeOK
  <2> HIDE DEF p, l, s, k, IInv
  <2> QED
    BY <2>1, <2>3, <2>4, <2>5, <2>6, PushPreserves
<1>7. ASSUME NEW c \in Consumers, DoneForget(c) PROVE IInv'
  <2> DEFINE k == lease[c]
             p == [phase EXCEPT ![k] = "absent"]
             s == [consumer EXCEPT ![c] = "idle"]
  <2>1. k \in Keys /\ phase[k] = "processing" /\ consumer[c] = "leased"
    BY <1>7, KeysAssumption DEF DoneForget, LeaseExclusive, TypeOK
  <2>2. \A d \in Consumers : lease[d] = k => d = c
    BY <2>1, KeysAssumption DEF LeaseExclusive
  <2>3. /\ phase' = p /\ dirty' = dirty \ {k}
        /\ lease' = [lease EXCEPT ![c] = NoKey]
        /\ UNCHANGED <<ready, mode, owed>>
        /\ (k \notin dirty \/ mode = "aborting")
        /\ SettleIdleWaiters(p, mode, s)
    BY <1>7 DEF DoneForget
  <2>4. /\ p \in [Keys -> Phases]
        /\ \A j \in Keys : p[j] = IF j = k THEN "absent" ELSE phase[j]
    BY <2>1 DEF TypeOK, Phases
  <2>5. s \in [Consumers -> ConsumerStates]
        /\ \A d \in Consumers : s[d] = IF d = c THEN "idle" ELSE consumer[d]
    BY DEF TypeOK, ConsumerStates
  <2>6. \A d \in Consumers : lease'[d] = IF d = c THEN NoKey ELSE lease[d]
    BY <2>3 DEF TypeOK
  <2>7. \A i \in 1..Len(takeWaiters) :
          takeWaiters[i] \in Consumers /\ takeWaiters[i] # c
          /\ s[takeWaiters[i]] = "waiting"
    BY <2>1, <2>5 DEF WaitersExact, TypeOK
  <2>8. /\ drainer' = IF Idle(p) THEN "idle" ELSE drainer
        /\ closed' = IF mode = "open" THEN closed
                     ELSE IF Idle(p) THEN "resolved"
                     ELSE IF closed = "none" THEN "pending" ELSE closed
    BY <2>3 DEF SettleIdleWaiters
  <2>9. /\ takeWaiters' \in Seq(Consumers) /\ consumer' \in [Consumers -> ConsumerStates]
        /\ \A d \in Consumers : consumer'[d] = "leased" <=> s[d] = "leased"
        /\ (takeWaiters' = takeWaiters /\ consumer' = s) \/ takeWaiters' = <<>>
        /\ mode # "open" /\ Idle(p) => takeWaiters' = <<>>
    <3>1. CASE Idle(p) /\ mode # "open"
      <4>1. /\ takeWaiters' = <<>>
            /\ consumer' = [d \in Consumers |->
                              IF \E i \in DOMAIN takeWaiters : takeWaiters[i] = d
                              THEN "ended" ELSE s[d]]
        BY <3>1, <2>3 DEF SettleIdleWaiters, ResolveTakeWaiters
      <4>2. \A i \in DOMAIN takeWaiters : s[takeWaiters[i]] = "waiting"
        BY <2>7 DEF TypeOK
      <4> HIDE DEF s
      <4>3. \A d \in Consumers : consumer'[d] = "leased" <=> s[d] = "leased"
        BY <4>1, <4>2
      <4>4. consumer' \in [Consumers -> ConsumerStates]
        BY <4>1, <2>5 DEF ConsumerStates
      <4> QED
        BY <4>1, <4>3, <4>4
    <3>2. CASE ~(Idle(p) /\ mode # "open")
      BY <3>2, <2>3, <2>5 DEF SettleIdleWaiters, TypeOK
    <3> QED
      BY <3>1, <3>2
  <2> HIDE DEF k, p, s
  <2>10. TypeOK'
    BY <2>3, <2>4, <2>6, <2>8, <2>9 DEF TypeOK
  <2>11. ReadyIsQueued'
    BY <2>1, <2>3, <2>4 DEF ReadyIsQueued, TypeOK
  <2>12. LeaseExclusive'
    BY <2>1, <2>2, <2>3, <2>4, <2>5, <2>6, <2>9 DEF LeaseExclusive, TypeOK
  <2>13. NoLostWakeup'
    BY <2>3, <2>9 DEF NoLostWakeup
  <2>14. AcceptedSignalKept' /\ DirtyIsProcessing'
    BY <2>1, <2>3, <2>4 DEF AcceptedSignalKept, DirtyIsProcessing, TypeOK
  <2>15. StopIsHonest'
    BY <2>1, <2>3, <2>8 DEF StopIsHonest, TypeOK, Idle
  <2>16. WaitersExact'
    BY <2>7, <2>9 DEF WaitersExact, TypeOK
  <2> QED
    BY <2>10, <2>11, <2>12, <2>13, <2>14, <2>15, <2>16
<1>8. ASSUME Drain PROVE IInv'
  BY <1>8 DEF Drain, TypeOK, ReadyIsQueued, LeaseExclusive, NoLostWakeup,
              AcceptedSignalKept, StopIsHonest, WaitersExact, DirtyIsProcessing,
              Idle
<1>9. ASSUME Shutdown PROVE IInv'
  <2>1. /\ mode = "open" /\ mode' = "closing"
        /\ UNCHANGED <<phase, dirty, ready, lease, owed>>
        /\ drainer' = IF Idle(phase) THEN "idle" ELSE drainer
        /\ closed' = IF Idle(phase) THEN "resolved"
                     ELSE IF closed = "none" THEN "pending" ELSE closed
    BY <1>9 DEF Shutdown, SettleIdleWaiters
  <2>2. IF Idle(phase) THEN ResolveTakeWaiters(consumer)
                       ELSE UNCHANGED <<takeWaiters, consumer>>
    BY <1>9 DEF Shutdown, SettleIdleWaiters
  <2>3. /\ takeWaiters' \in Seq(Consumers)
        /\ consumer' \in [Consumers -> ConsumerStates]
        /\ \A d \in Consumers : consumer'[d] = "leased" <=> consumer[d] = "leased"
        /\ UNCHANGED <<takeWaiters, consumer>> \/ takeWaiters' = <<>>
        /\ Idle(phase) => takeWaiters' = <<>>
    <3>1. CASE Idle(phase)
      BY <3>1, <2>2, ResolveKeepsLeases
    <3>2. CASE ~Idle(phase)
      BY <3>2, <2>2 DEF TypeOK
    <3> QED
      BY <3>1, <3>2
  <2>4. TypeOK' /\ LeaseExclusive'
    BY <2>1, <2>3 DEF TypeOK, LeaseExclusive
  <2>5. NoLostWakeup' /\ WaitersExact'
    BY <2>1, <2>3 DEF NoLostWakeup, WaitersExact
  <2>6. StopIsHonest'
    BY <2>1 DEF StopIsHonest, Idle, TypeOK
  <2> QED
    BY <2>1, <2>4, <2>5, <2>6 DEF ReadyIsQueued, AcceptedSignalKept, DirtyIsProcessing
<1>10. ASSUME AbortPending PROVE IInv'
  <2>1. /\ mode' = "aborting" /\ dirty' = {} /\ ready' = <<>> /\ owed' = {}
        /\ phase' = [k \in Keys |-> IF phase[k] = "queued" THEN "absent" ELSE phase[k]]
        /\ drainer' = IF Idle(phase') THEN "idle" ELSE drainer
        /\ closed' = IF Idle(phase') THEN "resolved"
                     ELSE IF closed = "none" THEN "pending" ELSE closed
        /\ UNCHANGED lease
        /\ ResolveTakeWaiters(consumer)
    BY <1>10 DEF AbortPending
  <2>2. /\ takeWaiters' = <<>>
        /\ consumer' \in [Consumers -> ConsumerStates]
        /\ \A d \in Consumers : consumer'[d] = "leased" <=> consumer[d] = "leased"
    BY <2>1, ResolveKeepsLeases DEF TypeOK
  <2>3. phase' \in [Keys -> Phases]
    BY <2>1 DEF TypeOK, Phases
  <2>4. TypeOK'
    BY <2>1, <2>2, <2>3 DEF TypeOK
  <2>5. ReadyIsQueued' /\ NoLostWakeup' /\ WaitersExact'
        /\ AcceptedSignalKept' /\ DirtyIsProcessing'
    BY <2>1, <2>2 DEF ReadyIsQueued, NoLostWakeup, WaitersExact,
       AcceptedSignalKept, DirtyIsProcessing
  <2>6. LeaseExclusive'
    BY <2>1, <2>2 DEF LeaseExclusive, TypeOK
  <2>7. StopIsHonest'
    <3>1. Idle(phase)' <=> Idle(phase')
      BY DEF Idle
    <3>2. closed' # "none"
      BY <2>1
    <3>3. closed = "resolved" => Idle(phase')
      BY <2>1 DEF StopIsHonest, Idle
    <3> QED
      BY <2>1, <3>1, <3>2, <3>3 DEF StopIsHonest, TypeOK
  <2> QED
    BY <2>4, <2>5, <2>6, <2>7
<1>11. CASE UNCHANGED vars
  BY <1>11 DEF vars, TypeOK, ReadyIsQueued, LeaseExclusive, NoLostWakeup,
               AcceptedSignalKept, StopIsHonest, WaitersExact, DirtyIsProcessing,
               Idle
<1> QED
  BY <1>1, <1>2, <1>3, <1>4, <1>5, <1>6, <1>7, <1>8, <1>9, <1>10, <1>11 DEF Next

LEMMA SpecIInv == Spec => []IInv
  BY InitIInv, NextIInv, PTL DEF Spec

(* Every accepted signal stays owed a lease, whatever interleaving of signal,
   take, done, drain, shutdown and abortPending the callers choose. *)
THEOREM AcceptedSignalKeptTheorem == Spec => []AcceptedSignalKept
  BY SpecIInv, PTL DEF IInv

(* At most one consumer processes a key and every completion finds its own
   lease: the two "invariant failed" errors of the class are unreachable. *)
THEOREM LeaseExclusiveTheorem == Spec => [](LeaseExclusive /\ ReadyIsQueued)
  BY SpecIInv, PTL DEF IInv

(* No take() sleeps while work is ready or after the queue has stopped, and
   the stop promises resolve exactly when the queue is idle. *)
THEOREM NoLostWakeupTheorem == Spec => [](TypeOK /\ NoLostWakeup /\ StopIsHonest)
  BY SpecIInv, PTL DEF IInv
=============================================================================
