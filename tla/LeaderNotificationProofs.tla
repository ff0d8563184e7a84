------------------------ MODULE LeaderNotificationProofs ------------------------
(***************************************************************************)
(* The notification of a Leader for any dedupe keys, any window of settled *)
(* keys and any number of signals and faults: the mailbox stays valid, no  *)
(* signal is lost or given to the native session twice, and what is        *)
(* recorded of an attempt is true.                                         *)
(*                                                                         *)
(* The argument.  An attempt is open while it was taken or may still be:   *)
(* the pass holds it unsent, or the Host has it and has not submitted it.  *)
(* No step opens an attempt again once it is shut, so what is recorded as  *)
(* refused or deferred stays untaken.  A signal the mailbox owes and an    *)
(* open attempt carries is in the claim of that very attempt, unless a     *)
(* replacement of the session released it: a new attempt for it is made    *)
(* only after the earlier one is shut.                                     *)
(***************************************************************************)
EXTENDS LeaderNotification, TLAPS

----------------------------------------------------------------------------
(* The inductive invariant.  The mailbox: *)

DedupeKeys == Keys \cup Nat
Batches == [from : Nat, to : Nat, count : Nat, keys : Seq(DedupeKeys), refs : SUBSET Nat]
Claims == [id : Nat, wake : Nat, batch : Batches]
Boxes == [next : Nat \ {0}, processing : Claims, pending : Batches, recent : Seq(DedupeKeys)]

\* The batch b of a mailbox whose next signal is n
BatchOK(b, n) ==
  \/ b = NoBatch
  \/ /\ 1 <= b.from /\ b.from <= b.to /\ b.to < n
     /\ 1 <= b.count /\ b.count <= b.to - b.from + 1
     /\ b.refs \subseteq b.from..b.to

\* The claimed batch is older than the pending one
Older(b, c) == b = NoBatch \/ c = NoBatch \/ b.to < c.from

KeysApart(m) ==
  /\ ToSet(m.processing.batch.keys) \cap ToSet(m.recent) = {}
  /\ ToSet(m.pending.keys) \cap ToSet(m.recent) = {}
  /\ ToSet(m.processing.batch.keys) \cap ToSet(m.pending.keys) = {}

BoxOK(m) ==
  /\ m \in Boxes
  /\ BatchOK(m.processing.batch, m.next) /\ BatchOK(m.pending, m.next)
  /\ Older(m.processing.batch, m.pending)
  /\ m.processing = NoClaim \/ m.processing.batch # NoBatch
  /\ Len(m.recent) <= RecentLimit
  /\ KeysApart(m)

----------------------------------------------------------------------------
(* The claim, the wakes and the attempts: *)

StoreTypes ==
  /\ wakes \in Seq([refs : SUBSET Nat, consumed : BOOLEAN])
  /\ log \in Seq(Seq(Outcomes))
  /\ carried \in Seq(SUBSET Nat) /\ Len(carried) = Len(log)

\* What the records carry was enqueued
Enqueued ==
  /\ \A w \in 1..Len(wakes) : wakes[w].refs \subseteq 1..(mailbox.next - 1)
  /\ \A a \in 1..Len(log) : carried[a] \subseteq 1..(mailbox.next - 1)

ClaimOK ==
  Claim # NoClaim =>
    /\ Claim.id \in 1..Len(log) /\ Claim.wake \in 1..Len(wakes)
    /\ carried[Claim.id] = Claim.batch.refs
    /\ wakes[Claim.wake].refs = Claim.batch.refs

\* Why signal s is no longer owed
Excused(s) ==
  \/ s \in retired
  \/ \E w \in 1..Len(wakes) : wakes[w].consumed /\ s \in wakes[w].refs
  \/ \E a \in 1..Len(log) : /\ s \in carried[a]
                            /\ "rejected" \in ToSet(log[a]) \/ a \in resolved

Kept == \A s \in 1..(mailbox.next - 1) : s \in Owed(mailbox) \/ Excused(s)

Consumed ==
  \A w \in 1..Len(wakes) : wakes[w].consumed =>
    /\ \E a \in delivered : carried[a] = wakes[w].refs
    /\ wakes[w].refs \cap Owed(mailbox) = {}

MailInv == BoxOK(mailbox) /\ StoreTypes /\ Enqueued /\ ClaimOK /\ Kept /\ Consumed

----------------------------------------------------------------------------
(* The native session: *)

Turns(n) == [attempt : 0..n, status : TurnStatuses]
Observations(n) == [attempt : 1..n, kind : {"accepted", "terminal"}]
Hosts(n) == [stage : HostStages, attempt : 0..n]
Passes(n) == [stage : PassStages, attempt : 0..n, reply : Replies]

NativeTypes ==
  /\ provider \in Turns(Len(log))
  /\ inbox \subseteq Observations(Len(log))
  /\ host \in Hosts(Len(log))
  /\ pass \in Passes(Len(log))
  /\ delivered \subseteq 1..Len(log)
  /\ host.stage # "idle" => host.attempt # 0
  /\ pass.stage # "idle" => pass.attempt # 0

\* What is said of an attempt that was taken is true
Evidence ==
  /\ accepted \subseteq delivered
  /\ \A o \in inbox : o.attempt \in delivered
  /\ provider.status = "accepted" => provider.attempt \in delivered \cup {0}
  /\ host.stage \in {"receipt", "transport"} => host.attempt \in delivered
  /\ pass.stage = "replied" /\ pass.reply = "delivered" => pass.attempt \in delivered
  /\ \A a \in 1..Len(log) : "accepted" \in ToSet(log[a]) => a \in delivered

\* Neither the pass nor the Host has given its attempt away yet
Fresh ==
  /\ pass.stage = "claimed" =>
       /\ pass.attempt \notin delivered
       /\ host.stage # "idle" => host.attempt # pass.attempt
  /\ host.stage \in {"asked", "registered", "refused", "deferring"} =>
       host.attempt \notin delivered

\* Attempt a was taken, or may still be
Open(a) ==
  \/ a \in delivered
  \/ host.stage \in {"asked", "registered"} /\ host.attempt = a
  \/ pass.stage = "claimed" /\ pass.attempt = a

\* Replies from which processLeaderWakeups concludes that nothing was taken
Refusals == {"none", "rejected", "busy", "unavailable"}

\* What is said of an attempt that was not taken stays true
Shut ==
  /\ provider.status \in {"rejected", "deferred"} => ~Open(provider.attempt)
  /\ pass.stage = "replied" /\ pass.reply \in Refusals => ~Open(pass.attempt)
  /\ \A a \in 1..Len(log) : {"rejected", "deferred"} \cap ToSet(log[a]) # {} => ~Open(a)

\* A signal that is owed is in the hands of one open attempt at most
Held ==
  \A a \in 1..Len(log) : Open(a) =>
    carried[a] \cap Owed(mailbox) \subseteq
      reissued \cup (IF Claim.id = a THEN Claim.batch.refs ELSE {})

OnceOnly ==
  \A a, b \in 1..Len(log) :
    Open(a) /\ Open(b) /\ a # b => carried[a] \cap carried[b] \subseteq reissued

NativeInv == NativeTypes /\ Evidence /\ Fresh /\ Shut /\ Held /\ OnceOnly

IInv == MailInv /\ NativeInv


----------------------------------------------------------------------------
(* The operations of the mailbox *)

(* The keys of two sequences, one after the other. *)
LEMMA KeysOf ==
  ASSUME NEW s \in Seq(DedupeKeys), NEW t \in Seq(DedupeKeys)
  PROVE  /\ s \o t \in Seq(DedupeKeys) /\ Len(s \o t) = Len(s) + Len(t)
         /\ ToSet(s \o t) = ToSet(s) \cup ToSet(t)
<1> DEFINE both == s \o t
<1>1. /\ both \in Seq(DedupeKeys) /\ Len(both) = Len(s) + Len(t)
      /\ Len(s) \in Nat /\ Len(t) \in Nat
  OBVIOUS
<1>2. \A i \in 1..Len(both) : both[i] = IF i <= Len(s) THEN s[i] ELSE t[i - Len(s)]
  OBVIOUS
<1> HIDE DEF both
<1>3. \A x : x \in ToSet(s) <=> \E i \in 1..Len(s) : s[i] = x
  BY DEF ToSet
<1>4. \A x : x \in ToSet(t) <=> \E i \in 1..Len(t) : t[i] = x
  BY DEF ToSet
<1>5. \A x : x \in ToSet(both) <=> \E i \in 1..Len(both) : both[i] = x
  BY <1>1 DEF ToSet
<1>6. ToSet(both) \subseteq ToSet(s) \cup ToSet(t)
  <2> SUFFICES ASSUME NEW i \in 1..Len(both) PROVE both[i] \in ToSet(s) \cup ToSet(t)
    BY <1>5
  <2>1. CASE i <= Len(s)
    <3>1. i \in 1..Len(s) /\ both[i] = s[i]
      BY <1>1, <1>2, <2>1
    <3>2. QED
      BY <1>3, <3>1
  <2>2. CASE ~(i <= Len(s))
    <3>1. i - Len(s) \in 1..Len(t) /\ both[i] = t[i - Len(s)]
      BY <1>1, <1>2, <2>2
    <3>2. QED
      BY <1>4, <3>1
  <2>3. QED
    BY <2>1, <2>2
<1>7. ToSet(s) \subseteq ToSet(both)
  <2> SUFFICES ASSUME NEW i \in 1..Len(s) PROVE s[i] \in ToSet(both)
    BY <1>3
  <2>1. i \in 1..Len(both) /\ both[i] = s[i]
    BY <1>1, <1>2
  <2>2. QED
    BY <1>5, <2>1
<1>8. ToSet(t) \subseteq ToSet(both)
  <2> SUFFICES ASSUME NEW i \in 1..Len(t) PROVE t[i] \in ToSet(both)
    BY <1>4
  <2>1. i + Len(s) \in 1..Len(both) /\ ~(i + Len(s) <= Len(s)) /\ (i + Len(s)) - Len(s) = i
    BY <1>1
  <2>2. both[i + Len(s)] = t[i]
    BY <1>2, <2>1
  <2>3. QED
    BY <1>5, <2>1, <2>2
<1>9. QED
  BY <1>1, <1>6, <1>7, <1>8 DEF both

(* rememberDedupeKeys keeps its limit, and remembers only what it is given. *)
LEMMA RememberFacts ==
  ASSUME NEW s \in Seq(DedupeKeys), NEW t \in Seq(DedupeKeys), ToSet(s) \cap ToSet(t) = {}
  PROVE  /\ Remember(s, t) \in Seq(DedupeKeys)
         /\ Len(Remember(s, t)) <= RecentLimit
         /\ ToSet(Remember(s, t)) \subseteq ToSet(s) \cup ToSet(t)
<1> DEFINE all == s \o t
<1>1. AppendUnique(s, t) = all
  BY DEF AppendUnique
<1>2. all \in Seq(DedupeKeys) /\ Len(all) \in Nat /\ ToSet(all) = ToSet(s) \cup ToSet(t)
  BY KeysOf
<1> HIDE DEF all
<1>3. RecentLimit \in Nat \ {0}
  BY RecentLimitAssumption
<1>4. CASE Len(all) <= RecentLimit
  BY <1>1, <1>2, <1>4 DEF Remember
<1>5. CASE ~(Len(all) <= RecentLimit)
  <2> DEFINE d == Len(all) - RecentLimit
             cut == SubSeq(all, d + 1, Len(all))
  <2>1. d \in Nat /\ d + RecentLimit = Len(all)
    BY <1>2, <1>3, <1>5
  <2>2. Remember(s, t) = cut
    BY <1>1, <1>5 DEF Remember
  <2> HIDE DEF d
  <2>3. /\ cut \in Seq(DedupeKeys) /\ Len(cut) = RecentLimit
        /\ \A i \in 1..Len(cut) : cut[i] = all[i + d]
    BY <1>2, <1>3, <2>1
  <2> HIDE DEF cut
  <2>4. ToSet(cut) \subseteq ToSet(all)
    <3> SUFFICES ASSUME NEW i \in 1..Len(cut) PROVE cut[i] \in ToSet(all)
      BY <2>3 DEF ToSet
    <3>1. i + d \in 1..Len(all) /\ cut[i] = all[i + d]
      BY <1>2, <1>3, <2>1, <2>3
    <3>2. QED
      BY <1>2, <3>1 DEF ToSet
  <2>5. QED
    BY <1>2, <1>3, <2>2, <2>3, <2>4
<1>6. QED
  BY <1>4, <1>5

(* The empty batch and the empty claim. *)
LEMMA EmptyFacts ==
  /\ NoBatch \in Batches /\ NoClaim \in Claims
  /\ NoBatch.refs = {} /\ ToSet(NoBatch.keys) = {} /\ NoBatch.from = 0
  /\ NoClaim.id = 0 /\ NoClaim.batch = NoBatch
<1>1. ToSet(<<>>) = {}
  BY DEF ToSet
<1>2. NoBatch \in Batches
  BY DEF NoBatch, Batches
<1>3. QED
  BY <1>1, <1>2 DEF NoBatch, NoClaim, Claims

(* What a mailbox that is kept tells of its fields. *)
LEMMA BoxFacts ==
  ASSUME NEW m, BoxOK(m)
  PROVE  /\ m.next \in Nat \ {0} /\ m.processing \in Claims /\ m.pending \in Batches
         /\ m.recent \in Seq(DedupeKeys) /\ Len(m.recent) <= RecentLimit
         /\ m.processing.batch \in Batches /\ m.pending.keys \in Seq(DedupeKeys)
         /\ m.processing.batch.keys \in Seq(DedupeKeys)
         /\ m.processing.id \in Nat /\ m.processing.wake \in Nat
BY DEF BoxOK, Boxes, Batches, Claims

(* The signals of a batch are older than the next one, and within its envelope. *)
LEMMA BatchRefs ==
  ASSUME NEW n \in Nat \ {0}, NEW b \in Batches, BatchOK(b, n)
  PROVE  b.refs \subseteq 1..(n - 1)
<1>1. CASE b = NoBatch
  BY <1>1, EmptyFacts
<1>2. CASE b # NoBatch
  <2>1. /\ b.from \in Nat /\ b.to \in Nat /\ 1 <= b.from /\ b.to < n
        /\ b.refs \subseteq b.from..b.to
    BY <1>2 DEF BatchOK, Batches
  <2>2. \A x \in b.from..b.to : x \in 1..(n - 1)
    BY <2>1
  <2>3. QED
    BY <2>1, <2>2
<1>3. QED
  BY <1>1, <1>2

(* An older batch shares no signal with a newer one. *)
LEMMA OlderRefs ==
  ASSUME NEW n \in Nat \ {0}, NEW b \in Batches, NEW c \in Batches,
         BatchOK(b, n), BatchOK(c, n), Older(b, c)
  PROVE  b.refs \cap c.refs = {}
<1>1. CASE b = NoBatch \/ c = NoBatch
  BY <1>1, EmptyFacts
<1>2. CASE ~(b = NoBatch \/ c = NoBatch)
  <2>1. /\ b.from \in Nat /\ b.to \in Nat /\ c.from \in Nat /\ c.to \in Nat
        /\ b.to < c.from /\ b.refs \subseteq b.from..b.to /\ c.refs \subseteq c.from..c.to
    BY <1>2 DEF BatchOK, Batches, Older
  <2>2. \A x \in b.from..b.to : x \notin c.from..c.to
    BY <2>1
  <2>3. QED
    BY <2>1, <2>2
<1>3. QED
  BY <1>1, <1>2

(* Two batches, the first older than the second and of other keys, merged. *)
LEMMA MergeFacts ==
  ASSUME NEW n \in Nat \ {0}, NEW b \in Batches, NEW c \in Batches,
         BatchOK(b, n), BatchOK(c, n), Older(b, c), ToSet(b.keys) \cap ToSet(c.keys) = {},
         NEW x
  PROVE  x = Merged(b, c) =>
         /\ x \in Batches /\ BatchOK(x, n)
         /\ x.refs = b.refs \cup c.refs /\ ToSet(x.keys) = ToSet(b.keys) \cup ToSet(c.keys)
         /\ b # NoBatch => x # NoBatch /\ x.from = b.from
         /\ b = NoBatch => x = c
<1> HAVE x = Merged(b, c)
<1>1. CASE b = NoBatch
  BY <1>1, EmptyFacts DEF Merged
<1>2. CASE b # NoBatch /\ c = NoBatch
  BY <1>2, EmptyFacts DEF Merged
<1>3. CASE b # NoBatch /\ c # NoBatch
  <2>1. /\ b.from \in Nat /\ b.to \in Nat /\ c.from \in Nat /\ c.to \in Nat
        /\ b.count \in Nat /\ c.count \in Nat
        /\ b.keys \in Seq(DedupeKeys) /\ c.keys \in Seq(DedupeKeys)
        /\ b.refs \subseteq Nat /\ c.refs \subseteq Nat
    BY DEF Batches
  <2>2. /\ 1 <= b.from /\ b.from <= b.to /\ b.to < c.from /\ c.from <= c.to /\ c.to < n
        /\ 1 <= b.count /\ b.count <= b.to - b.from + 1
        /\ 1 <= c.count /\ c.count <= c.to - c.from + 1
        /\ b.refs \subseteq b.from..b.to /\ c.refs \subseteq c.from..c.to
    BY <1>3 DEF BatchOK, Older
  <2>3. AppendUnique(b.keys, c.keys) = b.keys \o c.keys
    BY DEF AppendUnique
  <2>4. b.from <= c.from /\ (b.to >= c.to => c.to = b.to)
    BY <2>1, <2>2
  <2>5. x = [from |-> b.from, to |-> c.to, count |-> b.count + c.count,
             keys |-> b.keys \o c.keys, refs |-> b.refs \cup c.refs]
    BY <1>3, <2>3, <2>4 DEF Merged, MergeBatches
  <2>6. /\ b.keys \o c.keys \in Seq(DedupeKeys)
        /\ ToSet(b.keys \o c.keys) = ToSet(b.keys) \cup ToSet(c.keys)
    BY <2>1, KeysOf
  <2>7. b.count + c.count \in Nat
    BY <2>1
  <2>8. x \in Batches
    BY <2>1, <2>5, <2>6, <2>7 DEF Batches
  <2>9. /\ x.from = b.from /\ x.to = c.to /\ x.count = b.count + c.count
        /\ x.refs = b.refs \cup c.refs /\ x.keys = b.keys \o c.keys
    <3> DEFINE ks == b.keys \o c.keys
               k == b.count + c.count
               rs == b.refs \cup c.refs
    <3>1. x = [from |-> b.from, to |-> c.to, count |-> k, keys |-> ks, refs |-> rs]
      BY <2>5, Zenon
    <3> HIDE DEF ks, k, rs
    <3>2. x.from = b.from /\ x.to = c.to /\ x.count = k /\ x.refs = rs /\ x.keys = ks
      BY <3>1
    <3>3. QED
      BY <3>2, Zenon DEF ks, k, rs
  <2>10. b.from..b.to \subseteq b.from..c.to /\ c.from..c.to \subseteq b.from..c.to
    <3>1. \A p, q, r, t \in Nat : p <= q /\ q < r /\ r <= t =>
            \A i : (i \in p..q => i \in p..t) /\ (i \in r..t => i \in p..t)
      OBVIOUS
    <3>2. QED
      BY <2>1, <2>2, <3>1
  <2>11. x.refs \subseteq x.from..x.to
    BY <2>2, <2>9, <2>10
  <2>12. /\ 1 <= x.from /\ x.from <= x.to /\ x.to < n
         /\ 1 <= x.count /\ x.count <= x.to - x.from + 1
    <3>1. \A p, q, r, t, k, l \in Nat :
            /\ 1 <= p /\ p <= q /\ q < r /\ r <= t /\ t < n
            /\ 1 <= k /\ k <= q - p + 1 /\ 1 <= l /\ l <= t - r + 1
            => p <= t /\ 1 <= k + l /\ k + l <= t - p + 1
      OBVIOUS
    <3>2. b.from <= c.to /\ 1 <= b.count + c.count /\ b.count + c.count <= c.to - b.from + 1
      BY <2>1, <2>2, <3>1
    <3>3. QED
      BY <2>2, <2>9, <3>2, Zenon
  <2>13. x # NoBatch
    BY <2>2, <2>1, <2>9, EmptyFacts
  <2>14. QED
    BY <1>3, <2>6, <2>8, <2>9, <2>11, <2>12, <2>13 DEF BatchOK
<1>4. QED
  BY <1>1, <1>2, <1>3

(* createWorkMailbox *)
LEMMA EmptyBox == BoxOK(EmptyMailbox) /\ EmptyMailbox.next = 1 /\ EmptyMailbox.processing = NoClaim
                  /\ Owed(EmptyMailbox) = {}
<1>1. EmptyMailbox \in Boxes /\ EmptyMailbox.pending = NoBatch /\ EmptyMailbox.next = 1
      /\ EmptyMailbox.processing = NoClaim /\ EmptyMailbox.recent = <<>>
  BY EmptyFacts DEF EmptyMailbox, Boxes
<1>2. ToSet(<<>>) = {} /\ Len(<<>>) = 0
  BY DEF ToSet
<1>3. QED
  BY <1>1, <1>2, EmptyFacts, RecentLimitAssumption DEF BoxOK, BatchOK, Older, KeysApart, Owed

(* enqueueWork adds a signal whose key is new, or changes nothing. *)
LEMMA EnqueueFacts ==
  ASSUME NEW m, BoxOK(m), NEW k \in Keys \cup {0}, NEW x, x = EnqueueSignal(m, k)
  PROVE  /\ BoxOK(x) /\ x.processing = m.processing
         /\ \/ x = m
            \/ x.next = m.next + 1 /\ Owed(x) = Owed(m) \cup {m.next}
<1> DEFINE n == m.next
           key == DedupeKey(m, k)
           new == [from |-> n, to |-> n, count |-> 1, keys |-> <<key>>, refs |-> {n}]
<1>0. n \in Nat \ {0} /\ m \in Boxes
  BY BoxFacts DEF BoxOK
<1>1. CASE ContainsDedupeKey(m, key)
  <2>1. x = m
    BY <1>1 DEF EnqueueSignal
  <2>2. QED
    BY <2>1
<1>2. CASE ~ContainsDedupeKey(m, key)
  <2>1. x = [m EXCEPT !.next = n + 1, !.pending = Merged(m.pending, new)]
    BY <1>2 DEF EnqueueSignal
  <2>2. key \in DedupeKeys
    BY <1>0 DEF DedupeKey, DedupeKeys
  <2>3. /\ key \notin ToSet(m.recent) /\ key \notin ToSet(m.pending.keys)
        /\ key \notin ToSet(m.processing.batch.keys)
    BY <1>2 DEF ContainsDedupeKey
  <2> HIDE DEF key
  <2>4. /\ new \in Batches /\ new.refs = {n} /\ new.keys = <<key>>
        /\ new.from = n /\ new.to = n /\ new.count = 1
    BY <1>0, <2>2 DEF Batches
  <2>5. ToSet(<<key>>) = {key}
    BY DEF ToSet
  <2> HIDE DEF new
  <2>6. n + 1 \in Nat \ {0} /\ n \in n..n
    BY <1>0
  <2>7. BatchOK(new, n + 1)
    BY <1>0, <2>4, <2>6 DEF BatchOK
  <2>8. \A b \in Batches : BatchOK(b, n) =>
          BatchOK(b, n + 1) /\ (b = NoBatch \/ b.to < n)
    BY <1>0 DEF BatchOK, Batches
  <2>9. /\ m.pending \in Batches /\ m.processing.batch \in Batches
        /\ BatchOK(m.pending, n) /\ BatchOK(m.processing.batch, n)
    BY BoxFacts DEF BoxOK
  <2>10. Older(m.pending, new)
    BY <2>4, <2>8, <2>9 DEF Older
  <2>11. ToSet(m.pending.keys) \cap ToSet(new.keys) = {}
    BY <2>3, <2>4, <2>5
  <2>p. PICK p : p = Merged(m.pending, new)
    OBVIOUS
  <2>12. /\ p \in Batches /\ BatchOK(p, n + 1)
         /\ p.refs = m.pending.refs \cup {n} /\ ToSet(p.keys) = ToSet(m.pending.keys) \cup {key}
         /\ m.pending # NoBatch => p # NoBatch /\ p.from = m.pending.from
         /\ m.pending = NoBatch => p = new
    <3>1. BatchOK(m.pending, n + 1)
      BY <2>8, <2>9
    <3>2. PICK b \in Batches : b = m.pending
      BY <2>9
    <3>3. PICK i \in Nat \ {0} : i = n + 1
      BY <2>6
    <3>4. BatchOK(b, i) /\ BatchOK(new, i)
      BY <2>7, <3>1, <3>2, <3>3
    <3>5. Older(b, new) /\ ToSet(b.keys) \cap ToSet(new.keys) = {} /\ p = Merged(b, new)
      BY <2>10, <2>11, <2>p, <3>2
    <3>6. /\ p \in Batches /\ BatchOK(p, i)
          /\ p.refs = b.refs \cup new.refs /\ ToSet(p.keys) = ToSet(b.keys) \cup ToSet(new.keys)
          /\ b # NoBatch => p # NoBatch /\ p.from = b.from
          /\ b = NoBatch => p = new
      BY <2>4, <3>4, <3>5, MergeFacts
    <3>7. QED
      BY <2>4, <2>5, <3>2, <3>3, <3>6
  <2>13. /\ x \in Boxes /\ x.next = n + 1 /\ x.pending = p /\ x.processing = m.processing
         /\ x.recent = m.recent
    <3>1. PICK i \in Nat \ {0} : i = n + 1
      BY <2>6
    <3>2. x = [m EXCEPT !.next = i, !.pending = p]
      BY <2>1, <2>p, <3>1
    <3>3. /\ x \in Boxes /\ x.next = i /\ x.pending = p /\ x.processing = m.processing
          /\ x.recent = m.recent
      BY <1>0, <2>12, <3>2 DEF Boxes
    <3>4. QED
      BY <3>1, <3>3
  <2>14. BatchOK(x.processing.batch, x.next) /\ BatchOK(x.pending, x.next)
    BY <2>8, <2>9, <2>12, <2>13
  <2>15. Older(x.processing.batch, x.pending)
    <3>1. Older(m.processing.batch, m.pending)
      BY DEF BoxOK
    <3>2. Older(m.processing.batch, new)
      BY <2>4, <2>8, <2>9 DEF Older
    <3>3. QED
      BY <2>12, <2>13, <3>1, <3>2 DEF Older
  <2>16. KeysApart(x)
    <3>1. KeysApart(m)
      BY DEF BoxOK
    <3>2. QED
      BY <2>3, <2>12, <2>13, <3>1 DEF KeysApart
  <2>17. BoxOK(x)
    BY <2>13, <2>14, <2>15, <2>16 DEF BoxOK
  <2>18. Owed(x) = Owed(m) \cup {n}
    BY <2>12, <2>13 DEF Owed
  <2>19. QED
    BY <2>13, <2>17, <2>18
<1>3. QED
  BY <1>1, <1>2

(* claimPendingBatch: what waited is claimed. *)
LEMMA ClaimFacts ==
  ASSUME NEW m, BoxOK(m), m.processing = NoClaim, m.pending # NoBatch,
         NEW id \in Nat, NEW wake \in Nat, NEW x, x = ClaimPending(m, id, wake)
  PROVE  /\ BoxOK(x) /\ x.next = m.next /\ Owed(x) = Owed(m)
         /\ x.processing = [id |-> id, wake |-> wake, batch |-> m.pending]
<1> DEFINE c == [id |-> id, wake |-> wake, batch |-> m.pending]
<1>0. m.pending \in Batches /\ m \in Boxes
  BY BoxFacts DEF BoxOK
<1>1. c \in Claims /\ c.batch = m.pending
  BY <1>0 DEF Claims
<1>2. x = [m EXCEPT !.processing = c, !.pending = NoBatch]
  BY DEF ClaimPending
<1> HIDE DEF c
<1>3. /\ x \in Boxes /\ x.next = m.next /\ x.pending = NoBatch /\ x.processing = c
      /\ x.recent = m.recent
  BY <1>0, <1>1, <1>2, EmptyFacts DEF Boxes
<1>4. BatchOK(m.pending, m.next) /\ KeysApart(m) /\ Len(m.recent) <= RecentLimit
  BY DEF BoxOK
<1>5. KeysApart(x) /\ Older(x.processing.batch, x.pending)
  BY <1>1, <1>3, <1>4, EmptyFacts DEF KeysApart, Older
<1>6. BoxOK(x)
  BY <1>1, <1>3, <1>4, <1>5 DEF BoxOK, BatchOK
<1>7. Owed(x) = Owed(m)
  BY <1>1, <1>3, EmptyFacts DEF Owed
<1>8. QED
  BY <1>3, <1>6, <1>7 DEF c

(* A claim goes on under a new attempt. *)
LEMMA ReclaimFacts ==
  ASSUME NEW m, BoxOK(m), m.processing # NoClaim, NEW id \in Nat,
         NEW x, x = [m EXCEPT !.processing.id = id]
  PROVE  /\ BoxOK(x) /\ x.next = m.next /\ Owed(x) = Owed(m)
         /\ x.processing.id = id /\ x.processing.wake = m.processing.wake
         /\ x.processing.batch = m.processing.batch
<1> DEFINE c == [m.processing EXCEPT !.id = id]
<1>0. m.processing \in Claims /\ m \in Boxes
  BY BoxFacts DEF BoxOK
<1>1. c \in Claims /\ c.id = id /\ c.wake = m.processing.wake /\ c.batch = m.processing.batch
  BY <1>0 DEF Claims
<1>2. x = [m EXCEPT !.processing = c]
  BY <1>0 DEF Boxes
<1> HIDE DEF c
<1>3. /\ x \in Boxes /\ x.next = m.next /\ x.pending = m.pending /\ x.processing = c
      /\ x.recent = m.recent
  BY <1>0, <1>1, <1>2 DEF Boxes
<1>4. BoxOK(x)
  BY <1>1, <1>3 DEF BoxOK, KeysApart
<1>5. QED
  BY <1>1, <1>3, <1>4 DEF Owed

(* completeProcessing: the claim is gone, and with it exactly its signals. *)
LEMMA CompleteFacts ==
  ASSUME NEW m, BoxOK(m), NEW x, x = CompleteProcessing(m)
  PROVE  /\ BoxOK(x) /\ x.next = m.next /\ x.processing = NoClaim
         /\ Owed(x) = Owed(m) \ m.processing.batch.refs
<1> DEFINE r == Remember(m.recent, m.processing.batch.keys)
<1>0. /\ m \in Boxes /\ KeysApart(m) /\ BatchOK(m.pending, m.next)
      /\ BatchOK(m.processing.batch, m.next) /\ Older(m.processing.batch, m.pending)
  BY DEF BoxOK
<1>1. /\ m.recent \in Seq(DedupeKeys) /\ m.processing.batch.keys \in Seq(DedupeKeys)
      /\ m.next \in Nat \ {0} /\ m.pending \in Batches /\ m.processing.batch \in Batches
  BY BoxFacts
<1>2. ToSet(m.recent) \cap ToSet(m.processing.batch.keys) = {}
  BY <1>0 DEF KeysApart
<1>3. /\ r \in Seq(DedupeKeys) /\ Len(r) <= RecentLimit
      /\ ToSet(r) \subseteq ToSet(m.recent) \cup ToSet(m.processing.batch.keys)
  BY <1>1, <1>2, RememberFacts
<1>4. x = [m EXCEPT !.processing = NoClaim, !.recent = r]
  BY DEF CompleteProcessing
<1> HIDE DEF r
<1>5. /\ x \in Boxes /\ x.next = m.next /\ x.pending = m.pending /\ x.processing = NoClaim
      /\ x.recent = r
  BY <1>0, <1>3, <1>4, EmptyFacts DEF Boxes
<1>6. KeysApart(x)
  BY <1>0, <1>3, <1>5, EmptyFacts DEF KeysApart
<1>7. BoxOK(x)
  BY <1>0, <1>3, <1>5, <1>6, EmptyFacts DEF BoxOK, BatchOK, Older
<1>8. m.processing.batch.refs \cap m.pending.refs = {}
  BY <1>0, <1>1, OlderRefs
<1>9. Owed(x) = Owed(m) \ m.processing.batch.refs
  BY <1>5, <1>8, EmptyFacts DEF Owed
<1>10. QED
  BY <1>5, <1>7, <1>9

(* releaseProcessing: the claim is gone, and its signals wait again. *)
LEMMA ReleaseFacts ==
  ASSUME NEW m, BoxOK(m), NEW x, x = ReleaseProcessing(m)
  PROVE  BoxOK(x) /\ x.next = m.next /\ x.processing = NoClaim /\ Owed(x) = Owed(m)
<1>p. PICK p : p = Merged(m.processing.batch, m.pending)
  OBVIOUS
<1>0. /\ m \in Boxes /\ KeysApart(m) /\ BatchOK(m.pending, m.next) /\ Len(m.recent) <= RecentLimit
      /\ BatchOK(m.processing.batch, m.next) /\ Older(m.processing.batch, m.pending)
  BY DEF BoxOK
<1>1. m.next \in Nat \ {0} /\ m.pending \in Batches /\ m.processing.batch \in Batches
  BY BoxFacts
<1>2. /\ p \in Batches /\ BatchOK(p, m.next)
      /\ p.refs = m.processing.batch.refs \cup m.pending.refs
      /\ ToSet(p.keys) = ToSet(m.processing.batch.keys) \cup ToSet(m.pending.keys)
  <2>1. ToSet(m.processing.batch.keys) \cap ToSet(m.pending.keys) = {}
    BY <1>0 DEF KeysApart
  <2>2. QED
    <3>1. PICK b \in Batches : b = m.processing.batch
      BY <1>1
    <3>2. PICK c \in Batches : c = m.pending
      BY <1>1
    <3>3. PICK n \in Nat \ {0} : n = m.next
      BY <1>1
    <3>4. BatchOK(b, n)
      BY <3>1, <3>3, <1>0
    <3>5. BatchOK(c, n)
      BY <3>2, <3>3, <1>0
    <3>6. Older(b, c) /\ ToSet(b.keys) \cap ToSet(c.keys) = {}
      BY <3>1, <3>2, <2>1, <1>0
    <3>7. p = Merged(b, c)
      BY <1>p, <3>1, <3>2
    <3>8. /\ p \in Batches /\ BatchOK(p, n)
         /\ p.refs = b.refs \cup c.refs /\ ToSet(p.keys) = ToSet(b.keys) \cup ToSet(c.keys)
      BY <3>4, <3>5, <3>6, <3>7, MergeFacts
    <3>9. QED
      BY <3>1, <3>2, <3>3, <3>8
<1>3. x = [m EXCEPT !.processing = NoClaim, !.pending = p]
  BY <1>p DEF ReleaseProcessing
<1>4. /\ x \in Boxes /\ x.next = m.next /\ x.pending = p /\ x.processing = NoClaim
      /\ x.recent = m.recent
  BY <1>0, <1>2, <1>3, EmptyFacts DEF Boxes
<1>5. KeysApart(x)
  BY <1>0, <1>2, <1>4, EmptyFacts DEF KeysApart
<1>6. BoxOK(x)
  BY <1>0, <1>2, <1>4, <1>5, EmptyFacts DEF BoxOK, BatchOK, Older
<1>7. QED
  BY <1>2, <1>4, <1>6, EmptyFacts DEF Owed

(* consumePendingBatch: what waited is gone, and the claim stays. *)
LEMMA ConsumeFacts ==
  ASSUME NEW m, BoxOK(m), NEW x, x = ConsumePendingBatch(m)
  PROVE  /\ BoxOK(x) /\ x.next = m.next /\ x.processing = m.processing
         /\ Owed(x) = Owed(m) \ m.pending.refs
<1> DEFINE r == Remember(m.recent, m.pending.keys)
<1>0. /\ m \in Boxes /\ KeysApart(m) /\ BatchOK(m.pending, m.next)
      /\ BatchOK(m.processing.batch, m.next) /\ Older(m.processing.batch, m.pending)
      /\ m.processing = NoClaim \/ m.processing.batch # NoBatch
  BY DEF BoxOK
<1>1. /\ m.recent \in Seq(DedupeKeys) /\ m.pending.keys \in Seq(DedupeKeys)
      /\ m.next \in Nat \ {0} /\ m.pending \in Batches /\ m.processing.batch \in Batches
  BY BoxFacts
<1>2. ToSet(m.recent) \cap ToSet(m.pending.keys) = {}
  BY <1>0 DEF KeysApart
<1>3. /\ r \in Seq(DedupeKeys) /\ Len(r) <= RecentLimit
      /\ ToSet(r) \subseteq ToSet(m.recent) \cup ToSet(m.pending.keys)
  BY <1>1, <1>2, RememberFacts
<1>4. x = [m EXCEPT !.recent = r, !.pending = NoBatch]
  BY DEF ConsumePendingBatch
<1> HIDE DEF r
<1>5. /\ x \in Boxes /\ x.next = m.next /\ x.pending = NoBatch /\ x.processing = m.processing
      /\ x.recent = r
  BY <1>0, <1>3, <1>4, EmptyFacts DEF Boxes
<1>6. KeysApart(x)
  BY <1>0, <1>3, <1>5, EmptyFacts DEF KeysApart
<1>7. BoxOK(x)
  BY <1>0, <1>3, <1>5, <1>6, EmptyFacts DEF BoxOK, BatchOK, Older
<1>8. m.processing.batch.refs \cap m.pending.refs = {}
  BY <1>0, <1>1, OlderRefs
<1>9. Owed(x) = Owed(m) \ m.pending.refs
  BY <1>5, <1>8, EmptyFacts DEF Owed
<1>10. QED
  BY <1>5, <1>7, <1>9


----------------------------------------------------------------------------
(* What a step does to the mailbox, the wakes and the attempts *)

(* The facts of MailInv that the steps below use. *)
LEMMA MailFacts ==
  ASSUME MailInv
  PROVE  /\ BoxOK(mailbox) /\ mailbox.next \in Nat \ {0}
         /\ Len(log) \in Nat /\ log \in Seq(Seq(Outcomes))
         /\ \A a \in 1..Len(log) : log[a] \in Seq(Outcomes)
         /\ Len(carried) = Len(log) /\ carried \in Seq(SUBSET Nat)
         /\ wakes \in Seq([refs : SUBSET Nat, consumed : BOOLEAN]) /\ Len(wakes) \in Nat
         /\ \A w \in 1..Len(wakes) : wakes[w] \in [refs : SUBSET Nat, consumed : BOOLEAN]
         /\ Claim \in Claims /\ Claim.id \in Nat /\ Claim.wake \in Nat
         /\ Claim # NoClaim => Claim.id \in 1..Len(log) /\ Claim.wake \in 1..Len(wakes)
<1>1. BoxOK(mailbox)
  BY DEF MailInv
<1>2. Claim \in Claims /\ Claim.id \in Nat /\ Claim.wake \in Nat /\ mailbox.next \in Nat \ {0}
  BY <1>1, BoxFacts DEF Claim
<1>3. StoreTypes /\ ClaimOK
  BY DEF MailInv
<1>4. /\ Len(log) \in Nat /\ log \in Seq(Seq(Outcomes))
      /\ \A a \in 1..Len(log) : log[a] \in Seq(Outcomes)
  BY <1>3 DEF StoreTypes
<1> DEFINE W == [refs : SUBSET Nat, consumed : BOOLEAN]
<1>5. wakes \in Seq(W)
  BY <1>3 DEF StoreTypes
<1> HIDE DEF W
<1>6. Len(wakes) \in Nat /\ \A w \in 1..Len(wakes) : wakes[w] \in W
  BY <1>5
<1>7. QED
  BY <1>1, <1>2, <1>3, <1>4, <1>5, <1>6 DEF W, StoreTypes, ClaimOK

(* What is owed was enqueued. *)
LEMMA OwedEnqueued ==
  ASSUME NEW m, BoxOK(m)
  PROVE  Owed(m) \subseteq 1..(m.next - 1)
<1>1. PICK b \in Batches : b = m.pending
  BY BoxFacts
<1>2. PICK c \in Batches : c = m.processing.batch
  BY BoxFacts
<1>3. PICK n \in Nat \ {0} : n = m.next
  BY BoxFacts
<1>4. BatchOK(b, n) /\ BatchOK(c, n)
  BY <1>1, <1>2, <1>3 DEF BoxOK
<1>5. b.refs \subseteq 1..(n - 1) /\ c.refs \subseteq 1..(n - 1)
  BY <1>4, BatchRefs
<1>6. QED
  BY <1>1, <1>2, <1>3, <1>5 DEF Owed

(* A step of the mailbox alone: the claim stands or is gone, and what is no
   longer owed is excused. *)
LEMMA BoxMoves ==
  ASSUME MailInv, UNCHANGED <<wakes, log, carried>>, delivered \subseteq delivered',
         resolved \subseteq resolved', retired \subseteq retired',
         BoxOK(mailbox'), mailbox.next <= mailbox'.next,
         mailbox'.processing = mailbox.processing \/ mailbox'.processing = NoClaim,
         \A s \in Owed(mailbox') : s \in Owed(mailbox) \/ s >= mailbox.next,
         \A s \in 1..(mailbox'.next - 1) :
           s \in Owed(mailbox) \/ s >= mailbox.next => s \in Owed(mailbox') \/ Excused(s)'
  PROVE  MailInv'
<1>0. mailbox.next \in Nat \ {0} /\ mailbox'.next \in Nat \ {0}
  BY MailFacts, BoxFacts
<1>1. StoreTypes'
  BY DEF MailInv, StoreTypes
<1>2. 1..(mailbox.next - 1) \subseteq 1..(mailbox'.next - 1)
  BY <1>0
<1>3. Enqueued'
  BY <1>2 DEF MailInv, Enqueued
<1>4. ClaimOK'
  BY DEF MailInv, ClaimOK, Claim
<1>5. \A s : Excused(s) => Excused(s)'
  BY DEF Excused
<1>6. Kept'
  <2> SUFFICES ASSUME NEW s \in 1..(mailbox'.next - 1) PROVE s \in Owed(mailbox') \/ Excused(s)'
    BY DEF Kept
  <2>1. CASE s < mailbox.next
    <3>1. s \in 1..(mailbox.next - 1)
      BY <1>0, <2>1
    <3>2. s \in Owed(mailbox) \/ Excused(s)
      BY <3>1 DEF MailInv, Kept
    <3>3. QED
      BY <1>5, <3>2
  <2>2. CASE s >= mailbox.next
    BY <2>2
  <2>3. QED
    BY <1>0, <2>1, <2>2
<1>7. Consumed'
  <2> SUFFICES ASSUME NEW w \in 1..Len(wakes), wakes[w].consumed
               PROVE  /\ \E a \in delivered' : carried[a] = wakes[w].refs
                      /\ wakes[w].refs \cap Owed(mailbox') = {}
    BY DEF Consumed
  <2>1. /\ \E a \in delivered : carried[a] = wakes[w].refs
        /\ wakes[w].refs \cap Owed(mailbox) = {}
    BY DEF MailInv, Consumed
  <2>2. \A s \in wakes[w].refs : ~(s >= mailbox.next)
    <3>1. wakes[w].refs \subseteq 1..(mailbox.next - 1)
      BY DEF MailInv, Enqueued
    <3>2. \A s \in 1..(mailbox.next - 1) : ~(s >= mailbox.next)
      BY <1>0
    <3>3. QED
      BY <3>1, <3>2
  <2>3. QED
    BY <2>1, <2>2
<1>8. QED
  BY <1>1, <1>3, <1>4, <1>6, <1>7 DEF MailInv

(* A step that leaves the mailbox, the wakes and the attempts alone. *)
LEMMA MailStands ==
  ASSUME MailInv, UNCHANGED <<mailbox, wakes, log, carried, resolved, retired>>,
         delivered \subseteq delivered'
  PROVE  MailInv'
<1>1. BoxOK(mailbox) /\ mailbox.next \in Nat \ {0}
  BY MailFacts
<1>2. \A s \in 1..(mailbox.next - 1) : ~(s >= mailbox.next)
  BY <1>1
<1>3. \A s \in 1..(mailbox'.next - 1) :
        s \in Owed(mailbox) \/ s >= mailbox.next => s \in Owed(mailbox') \/ Excused(s)'
  BY <1>2
<1>4. QED
  BY <1>1, <1>3, BoxMoves

(* The outcome of an attempt is recorded beside the earlier ones. *)
LEMMA RecordFacts ==
  ASSUME MailInv, NEW a \in 1..Len(log), NEW outcome \in Outcomes, NEW x, x = Record(a, outcome)
  PROVE  /\ x \in Seq(Seq(Outcomes)) /\ Len(x) = Len(log)
         /\ \A b \in 1..Len(log) : b # a => x[b] = log[b]
         /\ ToSet(x[a]) = ToSet(log[a]) \cup {outcome}
<1>0. log \in Seq(Seq(Outcomes)) /\ Len(log) \in Nat /\ log[a] \in Seq(Outcomes)
  BY MailFacts
<1>1. CASE outcome \in ToSet(log[a])
  <2>1. x = log
    BY <1>1 DEF Record
  <2>2. QED
    BY <1>0, <1>1, <2>1
<1>2. CASE outcome \notin ToSet(log[a])
  <2> DEFINE y == Append(log[a], outcome)
  <2>1. y \in Seq(Outcomes)
    BY <1>0
  <2>2. ToSet(y) = ToSet(log[a]) \cup {outcome}
    <3>1. PICK t \in Seq(Outcomes) : t = log[a]
      BY <1>0
    <3>2. /\ Len(Append(t, outcome)) = Len(t) + 1 /\ Append(t, outcome)[Len(t) + 1] = outcome
          /\ \A i \in 1..Len(t) : Append(t, outcome)[i] = t[i]
      OBVIOUS
    <3>3. ToSet(Append(t, outcome)) = ToSet(t) \cup {outcome}
      BY <3>2 DEF ToSet
    <3>4. QED
      BY <3>1, <3>3
  <2>3. x = [log EXCEPT ![a] = y]
    BY <1>2 DEF Record
  <2> HIDE DEF y
  <2>4. /\ x \in Seq(Seq(Outcomes)) /\ Len(x) = Len(log) /\ x[a] = y
        /\ \A b \in 1..Len(log) : b # a => x[b] = log[b]
    BY <1>0, <2>1, <2>3
  <2>5. QED
    BY <2>2, <2>4
<1>3. QED
  BY <1>1, <1>2

(* A signal that was excused stays so while records are only added. *)
LEMMA ExcuseStands ==
  ASSUME MailInv, carried' = carried, Len(log') = Len(log), retired \subseteq retired',
         resolved \subseteq resolved', Len(wakes') = Len(wakes),
         \A b \in 1..Len(log) : ToSet(log[b]) \subseteq ToSet(log'[b]),
         \A w \in 1..Len(wakes) : /\ wakes'[w].refs = wakes[w].refs
                                  /\ wakes[w].consumed => wakes'[w].consumed,
         NEW s, Excused(s)
  PROVE  Excused(s)'
<1>1. CASE s \in retired
  BY <1>1 DEF Excused
<1>2. CASE \E w \in 1..Len(wakes) : wakes[w].consumed /\ s \in wakes[w].refs
  BY <1>2 DEF Excused
<1>3. CASE \E a \in 1..Len(log) : /\ s \in carried[a]
                                  /\ "rejected" \in ToSet(log[a]) \/ a \in resolved
  BY <1>3 DEF Excused
<1>4. QED
  BY <1>1, <1>2, <1>3 DEF Excused

(* settleLeaderNotification: a claim that is complete was consumed by a wake
   whose attempt was taken, or its attempt was rejected. *)
LEMMA SettleMail ==
  ASSUME MailInv, NEW a, NEW outcome \in Outcomes, Settle(a, outcome),
         UNCHANGED <<carried, resolved, retired, delivered>>,
         outcome = "accepted" /\ Claim # NoClaim /\ Claim.id = a => a \in delivered
  PROVE  /\ MailInv' /\ Len(log') = Len(log)
         /\ \A b \in 1..Len(log) :
              ToSet(log'[b]) \subseteq ToSet(log[b]) \cup (IF b = a THEN {outcome} ELSE {})
         /\ mailbox' = mailbox \/ mailbox' = CompleteProcessing(mailbox)
<1>0. Len(log) \in Nat /\ Len(wakes) \in Nat /\ BoxOK(mailbox)
  BY MailFacts
<1>1. CASE Claim = NoClaim \/ Claim.id # a
  <2>1. UNCHANGED <<mailbox, wakes, log>>
    BY <1>1 DEF Settle
  <2>2. MailInv'
    BY <2>1, MailStands
  <2>3. QED
    BY <2>1, <2>2
<1>2. CASE Claim # NoClaim /\ Claim.id = a
  <2>1. /\ log' = Record(a, outcome)
        /\ mailbox' = IF outcome \in {"accepted", "rejected"}
                      THEN CompleteProcessing(mailbox) ELSE mailbox
        /\ wakes' = IF outcome = "accepted"
                    THEN [wakes EXCEPT ![Claim.wake].consumed = TRUE] ELSE wakes
    BY <1>2 DEF Settle
  <2> DEFINE v == Claim.wake
  <2>2. /\ a \in 1..Len(log) /\ v \in 1..Len(wakes)
        /\ carried[a] = Claim.batch.refs /\ wakes[v].refs = Claim.batch.refs
    BY <1>2 DEF MailInv, ClaimOK
  <2>3. /\ log' \in Seq(Seq(Outcomes)) /\ Len(log') = Len(log)
        /\ \A b \in 1..Len(log) : b # a => log'[b] = log[b]
        /\ ToSet(log'[a]) = ToSet(log[a]) \cup {outcome}
    BY <2>1, <2>2, RecordFacts
  <2>4. \A b \in 1..Len(log) : /\ ToSet(log[b]) \subseteq ToSet(log'[b])
          /\ ToSet(log'[b]) \subseteq ToSet(log[b]) \cup (IF b = a THEN {outcome} ELSE {})
    BY <2>3
  <2>5. /\ wakes' \in Seq([refs : SUBSET Nat, consumed : BOOLEAN]) /\ Len(wakes') = Len(wakes)
        /\ \A w \in 1..Len(wakes) :
             /\ wakes'[w].refs = wakes[w].refs
             /\ wakes[w].consumed => wakes'[w].consumed
             /\ wakes'[w].consumed => wakes[w].consumed \/ (w = v /\ outcome = "accepted")
        /\ outcome = "accepted" => wakes'[v].consumed
    <3> DEFINE W == [refs : SUBSET Nat, consumed : BOOLEAN]
               y == [wakes[v] EXCEPT !.consumed = TRUE]
    <3>1. wakes \in Seq(W) /\ \A w \in 1..Len(wakes) : wakes[w] \in W
      BY MailFacts
    <3>2. y \in W /\ y.refs = wakes[v].refs /\ y.consumed = TRUE
      BY <2>2, <3>1
    <3>3. CASE outcome = "accepted"
      <4>1. wakes' = [wakes EXCEPT ![v] = y]
        BY <2>1, <3>3
      <4> HIDE DEF W, y, v
      <4>2. /\ wakes' \in Seq(W) /\ Len(wakes') = Len(wakes) /\ wakes'[v] = y
            /\ \A w \in 1..Len(wakes) : w # v => wakes'[w] = wakes[w]
        BY <2>2, <3>1, <3>2, <4>1
      <4>3. QED
        BY <3>2, <3>3, <4>2 DEF W
    <3>4. CASE outcome # "accepted"
      <4>1. wakes' = wakes
        BY <2>1, <3>4
      <4>2. QED
        BY <3>1, <3>4, <4>1
    <3>5. QED
      BY <3>3, <3>4
  <2>6. StoreTypes'
    BY <2>3, <2>5 DEF MailInv, StoreTypes
  <2>7. /\ BoxOK(mailbox') /\ mailbox'.next = mailbox.next
        /\ mailbox' = mailbox \/ mailbox' = CompleteProcessing(mailbox)
        /\ mailbox' = mailbox \/ mailbox'.processing = NoClaim
        /\ Owed(mailbox') \subseteq Owed(mailbox)
        /\ \A s \in Owed(mailbox) : s \in Owed(mailbox') \/
             (s \in Claim.batch.refs /\ outcome \in {"accepted", "rejected"})
        /\ outcome = "accepted" => Owed(mailbox') \cap Claim.batch.refs = {}
    <3>1. CASE outcome \in {"accepted", "rejected"}
      <4>1. mailbox' = CompleteProcessing(mailbox)
        BY <2>1, <3>1
      <4>2. /\ BoxOK(mailbox') /\ mailbox'.next = mailbox.next /\ mailbox'.processing = NoClaim
            /\ Owed(mailbox') = Owed(mailbox) \ mailbox.processing.batch.refs
        BY <1>0, <4>1, CompleteFacts
      <4>3. QED
        BY <3>1, <4>1, <4>2 DEF Claim
    <3>2. CASE outcome \notin {"accepted", "rejected"}
      BY <1>0, <2>1, <3>2
    <3>3. QED
      BY <3>1, <3>2
  <2>8. Enqueued'
    BY <2>3, <2>5, <2>7 DEF MailInv, Enqueued
  <2>9. ClaimOK'
    BY <2>3, <2>5, <2>7 DEF MailInv, ClaimOK, Claim
  <2>10. Kept'
    <3> SUFFICES ASSUME NEW s \in 1..(mailbox.next - 1)
                 PROVE  s \in Owed(mailbox') \/ Excused(s)'
      BY <2>7 DEF Kept
    <3>1. CASE s \in Owed(mailbox')
      BY <3>1
    <3>2. CASE Excused(s)
      BY <2>3, <2>4, <2>5, <3>2, ExcuseStands
    <3>3. CASE s \in Claim.batch.refs /\ outcome = "accepted"
      BY <2>2, <2>5, <3>3 DEF Excused
    <3>4. CASE s \in Claim.batch.refs /\ outcome = "rejected"
      BY <2>2, <2>3, <3>4 DEF Excused
    <3>5. QED
      BY <2>7, <3>1, <3>2, <3>3, <3>4 DEF MailInv, Kept
  <2>11. Consumed'
    <3> SUFFICES ASSUME NEW w \in 1..Len(wakes), wakes'[w].consumed
                 PROVE  /\ \E b \in delivered : carried[b] = wakes[w].refs
                        /\ wakes[w].refs \cap Owed(mailbox') = {}
      BY <2>5 DEF Consumed
    <3>1. CASE wakes[w].consumed
      BY <2>7, <3>1 DEF MailInv, Consumed
    <3>2. CASE w = v /\ outcome = "accepted"
      BY <1>2, <2>2, <2>7, <3>2
    <3>3. QED
      BY <2>5, <3>1, <3>2
  <2>12. QED
    BY <2>3, <2>4, <2>6, <2>7, <2>8, <2>9, <2>10, <2>11 DEF MailInv
<1>3. QED
  BY <1>1, <1>2

(* enqueueWork: the new signal is owed. *)
LEMMA EnqueueMail ==
  ASSUME MailInv, NEW k \in Keys \cup {0}, Enqueue(k)
  PROVE  /\ MailInv' /\ mailbox'.processing = mailbox.processing
         /\ \A s \in Owed(mailbox') : s \in Owed(mailbox) \/ s >= mailbox.next
<1>0. BoxOK(mailbox) /\ mailbox.next \in Nat \ {0}
  BY MailFacts
<1>1. /\ mailbox' = EnqueueSignal(mailbox, k)
      /\ UNCHANGED <<wakes, log, carried, resolved, retired, delivered>>
  BY DEF Enqueue, history
<1>2. /\ BoxOK(mailbox') /\ mailbox'.processing = mailbox.processing
      /\ \/ mailbox' = mailbox
         \/ mailbox'.next = mailbox.next + 1 /\ Owed(mailbox') = Owed(mailbox) \cup {mailbox.next}
  BY <1>0, <1>1, EnqueueFacts
<1>3. CASE mailbox' = mailbox
  BY <1>1, <1>3, MailStands
<1>4. CASE mailbox'.next = mailbox.next + 1 /\ Owed(mailbox') = Owed(mailbox) \cup {mailbox.next}
  <2>1. \A s \in Owed(mailbox') : s \in Owed(mailbox) \/ s >= mailbox.next
    BY <1>0, <1>4
  <2>2. \A s \in 1..(mailbox'.next - 1) : s >= mailbox.next => s = mailbox.next
    BY <1>0, <1>4
  <2>3. mailbox.next <= mailbox'.next
    BY <1>0, <1>4
  <2>4. \A s \in 1..(mailbox'.next - 1) :
          s \in Owed(mailbox) \/ s >= mailbox.next => s \in Owed(mailbox') \/ Excused(s)'
    BY <1>4, <2>2
  <2>5. MailInv'
    BY <1>1, <1>2, <2>1, <2>3, <2>4, BoxMoves
  <2>6. QED
    BY <1>2, <2>1, <2>5
<1>5. QED
  BY <1>2, <1>3, <1>4

(* A step that takes signals from the mailbox excuses them. *)
LEMMA TakenMail ==
  ASSUME MailInv, UNCHANGED <<wakes, log, carried, delivered>>,
         resolved \subseteq resolved', retired \subseteq retired', BoxOK(mailbox'),
         mailbox'.next = mailbox.next,
         mailbox'.processing = mailbox.processing \/ mailbox'.processing = NoClaim,
         NEW S, Owed(mailbox') = Owed(mailbox) \ S, \A s \in S : Excused(s)'
  PROVE  MailInv' /\ \A s \in Owed(mailbox') : s \in Owed(mailbox) \/ s >= mailbox.next
<1>0. mailbox.next \in Nat \ {0}
  BY MailFacts
<1>1. \A s \in 1..(mailbox.next - 1) : ~(s >= mailbox.next)
  BY <1>0
<1>2. \A s \in 1..(mailbox'.next - 1) :
        s \in Owed(mailbox) \/ s >= mailbox.next => s \in Owed(mailbox') \/ Excused(s)'
  BY <1>1
<1>3. mailbox.next <= mailbox'.next
  BY <1>0
<1>4. \A s \in Owed(mailbox') : s \in Owed(mailbox) \/ s >= mailbox.next
  OBVIOUS
<1>5. QED
  BY <1>2, <1>3, <1>4, BoxMoves

(* A retired Message takes its own signal with it. *)
LEMMA RetireMail ==
  ASSUME MailInv, NEW s, RetireMessage(s)
  PROVE  /\ MailInv' /\ mailbox'.processing = mailbox.processing
         /\ \A t \in Owed(mailbox') : t \in Owed(mailbox) \/ t >= mailbox.next
<1>0. BoxOK(mailbox)
  BY MailFacts
<1>1. /\ mailbox' = ConsumePendingBatch(mailbox) /\ mailbox.pending.refs = {s}
      /\ retired' = retired \cup {s}
      /\ UNCHANGED <<wakes, log, carried, resolved, delivered>>
  BY DEF RetireMessage, history
<1>2. /\ BoxOK(mailbox') /\ mailbox'.next = mailbox.next /\ mailbox'.processing = mailbox.processing
      /\ Owed(mailbox') = Owed(mailbox) \ {s}
  BY <1>0, <1>1, ConsumeFacts
<1>3. \A t \in {s} : Excused(t)'
  BY <1>1 DEF Excused
<1>4. QED
  BY <1>1, <1>2, <1>3, TakenMail

(* A claim that a person resolves excuses the signals of its attempt. *)
LEMMA ResolveMail ==
  ASSUME MailInv, ResolveWake
  PROVE  /\ MailInv' /\ mailbox'.processing = NoClaim
         /\ Owed(mailbox') = Owed(mailbox) \ Claim.batch.refs
<1>0. BoxOK(mailbox)
  BY MailFacts
<1>1. /\ Claim # NoClaim /\ mailbox' = CompleteProcessing(mailbox)
      /\ resolved' = resolved \cup {Claim.id}
      /\ UNCHANGED <<wakes, log, carried, retired, delivered>>
  BY DEF ResolveWake, history
<1>2. /\ BoxOK(mailbox') /\ mailbox'.next = mailbox.next /\ mailbox'.processing = NoClaim
      /\ Owed(mailbox') = Owed(mailbox) \ Claim.batch.refs
  BY <1>0, <1>1, CompleteFacts DEF Claim
<1>3. Claim.id \in 1..Len(log) /\ carried[Claim.id] = Claim.batch.refs
  BY <1>1 DEF MailInv, ClaimOK
<1>4. \A t \in Claim.batch.refs : Excused(t)'
  BY <1>1, <1>3 DEF Excused
<1>5. MailInv'
  BY <1>1, <1>2, <1>4, TakenMail
<1>6. QED
  BY <1>2, <1>5

(* A session replacement releases the claim and wakes the Leader again. *)
LEMMA ReplaceMail ==
  ASSUME MailInv, ReplaceSession
  PROVE  /\ MailInv' /\ mailbox'.processing = NoClaim
         /\ \A s \in Owed(mailbox') : s \in Owed(mailbox) \/ s >= mailbox.next
<1>0. BoxOK(mailbox) /\ mailbox.next \in Nat \ {0}
  BY MailFacts
<1>1. UNCHANGED <<wakes, log, carried, resolved, retired, delivered>>
  BY DEF ReplaceSession
<1>2. PICK m : /\ m = IF Claim = NoClaim THEN mailbox ELSE ReleaseProcessing(mailbox)
               /\ mailbox' = EnqueueSignal(m, 0)
  BY DEF ReplaceSession
<1>3. BoxOK(m) /\ m.next = mailbox.next /\ m.processing = NoClaim /\ Owed(m) = Owed(mailbox)
  <2>1. CASE Claim = NoClaim
    BY <1>0, <1>2, <2>1 DEF Claim
  <2>2. CASE Claim # NoClaim
    BY <1>0, <1>2, <2>2, ReleaseFacts
  <2>3. QED
    BY <2>1, <2>2
<1>4. /\ BoxOK(mailbox') /\ mailbox'.processing = NoClaim
      /\ \/ mailbox' = m
         \/ mailbox'.next = m.next + 1 /\ Owed(mailbox') = Owed(m) \cup {m.next}
  <2>1. 0 \in Keys \cup {0}
    OBVIOUS
  <2>2. QED
    BY <1>2, <1>3, <2>1, EnqueueFacts
<1>5. \/ mailbox'.next = mailbox.next /\ Owed(mailbox') = Owed(mailbox)
      \/ mailbox'.next = mailbox.next + 1 /\ Owed(mailbox') = Owed(mailbox) \cup {mailbox.next}
  BY <1>3, <1>4
<1>6. \A s \in Owed(mailbox') : s \in Owed(mailbox) \/ s >= mailbox.next
  BY <1>0, <1>5
<1>7. mailbox.next <= mailbox'.next
  BY <1>0, <1>5
<1>8. \A s \in 1..(mailbox'.next - 1) :
        s \in Owed(mailbox) \/ s >= mailbox.next => s \in Owed(mailbox') \/ Excused(s)'
  <2>1. CASE mailbox'.next = mailbox.next /\ Owed(mailbox') = Owed(mailbox)
    <3>1. \A s \in 1..(mailbox.next - 1) : ~(s >= mailbox.next)
      BY <1>0
    <3>2. QED
      BY <2>1, <3>1
  <2>2. CASE mailbox'.next = mailbox.next + 1 /\ Owed(mailbox') = Owed(mailbox) \cup {mailbox.next}
    <3>1. \A s \in 1..(mailbox'.next - 1) : s >= mailbox.next => s = mailbox.next
      BY <1>0, <2>2
    <3>2. QED
      BY <2>2, <3>1
  <2>3. QED
    BY <1>5, <2>1, <2>2
<1>9. MailInv'
  BY <1>1, <1>4, <1>6, <1>7, <1>8, BoxMoves
<1>10. QED
  BY <1>4, <1>6, <1>9

(* A new attempt carries what is claimed for it. *)
LEMMA AttemptMail ==
  ASSUME MailInv, NEW refs \in SUBSET Nat, NewAttempt(refs), refs \subseteq Owed(mailbox),
         UNCHANGED <<resolved, retired, delivered>>, delivered \subseteq 1..Len(log),
         BoxOK(mailbox'), mailbox'.next = mailbox.next, Owed(mailbox') = Owed(mailbox),
         mailbox'.processing.id = Len(log) + 1, mailbox'.processing.batch.refs = refs,
         mailbox'.processing.wake \in 1..Len(wakes'), wakes'[mailbox'.processing.wake].refs = refs,
         wakes' = wakes \/ wakes' = Append(wakes, [refs |-> refs, consumed |-> FALSE])
  PROVE  /\ MailInv' /\ Len(log') = Len(log) + 1 /\ log'[Len(log) + 1] = <<>>
         /\ carried'[Len(log) + 1] = refs
         /\ \A a \in 1..Len(log) : log'[a] = log[a] /\ carried'[a] = carried[a]
<1> DEFINE n == Len(log)
           W == [refs : SUBSET Nat, consumed : BOOLEAN]
           new == [refs |-> refs, consumed |-> FALSE]
<1>0. n \in Nat /\ log \in Seq(Seq(Outcomes)) /\ Len(carried) = n /\ carried \in Seq(SUBSET Nat)
      /\ wakes \in Seq(W) /\ Len(wakes) \in Nat /\ BoxOK(mailbox)
  BY MailFacts
<1>1. log' = Append(log, <<>>) /\ carried' = Append(carried, refs)
  BY DEF NewAttempt
<1>2. <<>> \in Seq(Outcomes)
  OBVIOUS
<1>3. /\ log' \in Seq(Seq(Outcomes)) /\ Len(log') = n + 1 /\ log'[n + 1] = <<>>
      /\ \A a \in 1..n : log'[a] = log[a]
  BY <1>0, <1>1, <1>2
<1>4. /\ carried' \in Seq(SUBSET Nat) /\ Len(carried') = n + 1 /\ carried'[n + 1] = refs
      /\ \A a \in 1..n : carried'[a] = carried[a]
  BY <1>0, <1>1
<1>5. new \in W /\ new.refs = refs /\ new.consumed = FALSE
  OBVIOUS
<1> HIDE DEF W, new
<1>6. /\ wakes' \in Seq(W) /\ Len(wakes') \in Nat
      /\ \A w \in 1..Len(wakes) : w \in 1..Len(wakes') /\ wakes'[w] = wakes[w]
      /\ \A w \in 1..Len(wakes') : w \in 1..Len(wakes) \/ wakes'[w] = new
  <2>1. CASE wakes' = wakes
    BY <1>0, <2>1
  <2>2. CASE wakes' = Append(wakes, new)
    BY <1>0, <1>5, <2>2
  <2>3. QED
    BY <2>1, <2>2 DEF new
<1>7. StoreTypes'
  BY <1>3, <1>4, <1>6 DEF StoreTypes, W
<1>8. refs \subseteq 1..(mailbox.next - 1)
  BY <1>0, OwedEnqueued
<1>9. 1..(n + 1) = 1..n \cup {n + 1} /\ n + 1 \in 1..(n + 1) /\ 1..n \subseteq 1..(n + 1)
  BY <1>0
<1>10. Enqueued'
  <2>1. \A w \in 1..Len(wakes') : wakes'[w].refs \subseteq 1..(mailbox.next - 1)
    BY <1>5, <1>6, <1>8 DEF MailInv, Enqueued
  <2>2. \A a \in 1..(n + 1) : carried'[a] \subseteq 1..(mailbox.next - 1)
    BY <1>4, <1>8, <1>9 DEF MailInv, Enqueued
  <2>3. QED
    BY <1>3, <2>1, <2>2 DEF Enqueued
<1>11. ClaimOK'
  BY <1>3, <1>4, <1>9 DEF ClaimOK, Claim
<1>12. \A s : Excused(s) => Excused(s)'
  <2> SUFFICES ASSUME NEW s, Excused(s) PROVE Excused(s)'
    OBVIOUS
  <2>1. CASE s \in retired
    BY <2>1 DEF Excused
  <2>2. CASE \E w \in 1..Len(wakes) : wakes[w].consumed /\ s \in wakes[w].refs
    BY <1>6, <2>2 DEF Excused
  <2>3. CASE \E a \in 1..n : /\ s \in carried[a]
                             /\ "rejected" \in ToSet(log[a]) \/ a \in resolved
    BY <1>3, <1>4, <1>9, <2>3 DEF Excused
  <2>4. QED
    BY <2>1, <2>2, <2>3 DEF Excused
<1>13. Kept'
  BY <1>12 DEF MailInv, Kept
<1>14. Consumed'
  <2> SUFFICES ASSUME NEW w \in 1..Len(wakes'), wakes'[w].consumed
               PROVE  /\ \E a \in delivered : carried'[a] = wakes'[w].refs
                      /\ wakes'[w].refs \cap Owed(mailbox) = {}
    BY DEF Consumed
  <2>1. w \in 1..Len(wakes) /\ wakes'[w] = wakes[w]
    BY <1>5, <1>6
  <2>2. /\ \E a \in delivered : carried[a] = wakes[w].refs
        /\ wakes[w].refs \cap Owed(mailbox) = {}
    BY <2>1 DEF MailInv, Consumed
  <2>3. QED
    BY <1>4, <2>1, <2>2
<1>15. QED
  BY <1>3, <1>4, <1>7, <1>10, <1>11, <1>13, <1>14 DEF MailInv


----------------------------------------------------------------------------
(* What a step does to the native session *)

(* No step opens an attempt that is shut. *)
NoneOpened == \A a \in 0..Len(log) : Open(a)' => Open(a)

\* The pass stands, ends, or hears something that is true of its attempt
PassMove ==
  \/ pass' = pass
  \/ pass' = IdlePass
  \/ /\ pass.stage = "sending" /\ pass' \in Passes(Len(log))
     /\ pass'.stage = "replied" /\ pass'.attempt = pass.attempt
     /\ pass'.reply = "delivered" => pass.attempt \in delivered'
     /\ pass'.reply \in Refusals => ~Open(pass.attempt)'

\* The Host stands, ends, or goes on with the attempt it has
HostMove ==
  \/ host' = host /\ delivered' = delivered
  \/ host' = IdleHost /\ delivered' = delivered
  \/ /\ host.stage # "idle" /\ host' \in Hosts(Len(log)) /\ host'.attempt = host.attempt
     /\ host'.stage \in {"asked", "registered"} => host.stage \in {"asked", "registered"}
     /\ host'.stage \in {"receipt", "transport"} => host.attempt \in delivered'
     /\ host'.stage \in {"asked", "registered", "refused", "deferring"} =>
          host.attempt \notin delivered'
     /\ \/ delivered' = delivered
        \/ host.stage = "registered" /\ delivered' = delivered \cup {host.attempt}

\* The turn stands, or what it says is true of its attempt
TurnMove ==
  \/ provider' = provider
  \/ /\ provider' \in Turns(Len(log))
     /\ provider'.status = "accepted" => provider'.attempt \in delivered \cup {0}
     /\ provider'.status \in {"rejected", "deferred"} => ~Open(provider.attempt)'

LEMMA TurnFacts ==
  ASSUME NEW n \in Nat, NEW t \in Turns(n)
  PROVE  /\ EndTurn(t) \in Turns(n)
         /\ EndTurn(t) = t \/ EndTurn(t).status = "completed"
         /\ CancelQuiescent(t) \in Turns(n)
         /\ CancelQuiescent(t) = t \/ CancelQuiescent(t).status = "cancelled"
         /\ Accept(t) \in Turns(n) /\ Accept(t).attempt = t.attempt
         /\ Accept(t) = t \/ Accept(t).status = "accepted"
BY DEF EndTurn, CancelQuiescent, Accept, Active, Turns, TurnStatuses

LEMMA NoneFacts ==
  ASSUME NEW n \in Nat
  PROVE  /\ NoTurn \in Turns(n) /\ NoTurn.status = "none" /\ NoTurn.attempt = 0
         /\ IdleHost \in Hosts(n) /\ IdleHost.stage = "idle" /\ IdleHost.attempt = 0
         /\ IdlePass \in Passes(n) /\ IdlePass.stage = "idle" /\ IdlePass.attempt = 0
         /\ IdlePass.reply = "none"
         /\ [attempt |-> 0, status |-> "accepted"] \in Turns(n)
         /\ \A a \in 0..n : Begin(a) \in Turns(n) /\ Begin(a).attempt = a
                              /\ Begin(a).status = "submitting"
<1>1. 0 \in 0..n
  OBVIOUS
<1>2. QED
  BY <1>1 DEF NoTurn, Turns, TurnStatuses, IdleHost, Hosts, HostStages, IdlePass,
     Passes, PassStages, Replies, Begin

(* The facts of IInv that the steps below use. *)
LEMMA NativeFacts ==
  ASSUME IInv
  PROVE  /\ Len(log) \in Nat /\ 1..Len(log) \subseteq 0..Len(log)
         /\ provider \in Turns(Len(log)) /\ provider.attempt \in 0..Len(log)
         /\ inbox \subseteq Observations(Len(log))
         /\ \A o \in inbox : o.attempt \in 1..Len(log) /\ o.attempt \in delivered
         /\ host \in Hosts(Len(log)) /\ host.attempt \in 0..Len(log)
         /\ host.stage \in HostStages
         /\ host.stage # "idle" => host.attempt \in 1..Len(log)
         /\ pass \in Passes(Len(log)) /\ pass.attempt \in 0..Len(log)
         /\ pass.stage # "idle" => pass.attempt \in 1..Len(log)
         /\ delivered \subseteq 1..Len(log)
<1>1. MailInv /\ NativeTypes /\ Evidence
  BY DEF IInv, NativeInv
<1>2. Len(log) \in Nat
  BY <1>1, MailFacts
<1>3. \A x \in 0..Len(log) : x # 0 => x \in 1..Len(log)
  BY <1>2
<1>4. 1..Len(log) \subseteq 0..Len(log)
  BY <1>2
<1>5. QED
  BY <1>1, <1>2, <1>3, <1>4 DEF NativeTypes, Evidence, Turns, Observations, Hosts, Passes

(* A signal stays in the hands of one open attempt at most. *)
LEMMA HeldStands ==
  ASSUME IInv, Len(log') = Len(log), carried' = carried, NoneOpened, reissued \subseteq reissued',
         \A s \in Owed(mailbox') : s \in Owed(mailbox) \/ s >= mailbox.next,
         \/ mailbox'.processing = mailbox.processing
         \/ /\ mailbox'.processing = NoClaim
            /\ Claim.batch.refs \cap Owed(mailbox') \subseteq reissued'
  PROVE  Held' /\ OnceOnly'
<1>0. mailbox.next \in Nat \ {0} /\ 1..Len(log) \subseteq 0..Len(log)
  BY MailFacts, NativeFacts DEF IInv
<1>1. OnceOnly'
  BY <1>0 DEF IInv, NativeInv, OnceOnly, NoneOpened
<1>2. Held'
  <2> SUFFICES ASSUME NEW a \in 1..Len(log), Open(a)', NEW s \in carried[a], s \in Owed(mailbox')
               PROVE  s \in reissued' \cup
                            (IF mailbox'.processing.id = a THEN mailbox'.processing.batch.refs ELSE {})
    BY DEF Held, Claim
  <2>1. Open(a)
    BY <1>0 DEF NoneOpened
  <2>2. s \in Owed(mailbox)
    <3>1. s \in 1..(mailbox.next - 1)
      BY DEF IInv, MailInv, Enqueued
    <3>2. ~(s >= mailbox.next)
      BY <1>0, <3>1
    <3>3. QED
      BY <3>2
  <2>3. s \in reissued \/ (Claim.id = a /\ s \in Claim.batch.refs)
    BY <2>1, <2>2 DEF IInv, NativeInv, Held
  <2>4. QED
    BY <2>3 DEF Claim
<1>3. QED
  BY <1>1, <1>2

(* A step of the pass, the Host and the turn that leaves the records alone. *)
LEMMA NativeMoves ==
  ASSUME IInv, UNCHANGED <<mailbox, wakes, log, resolved, retired, carried, reissued>>,
         PassMove, HostMove, TurnMove, accepted' \subseteq delivered',
         inbox' \subseteq Observations(Len(log)), \A o \in inbox' : o.attempt \in delivered'
  PROVE  IInv'
<1>0. /\ MailInv /\ NativeTypes /\ Evidence /\ Fresh /\ Shut
      /\ Len(log) \in Nat /\ 1..Len(log) \subseteq 0..Len(log)
  BY NativeFacts DEF IInv, NativeInv
<1>1. /\ delivered \subseteq delivered' /\ delivered' \subseteq 1..Len(log)
      /\ delivered' = delivered
         \/ (host.stage = "registered" /\ delivered' = delivered \cup {host.attempt})
  BY NativeFacts DEF HostMove
<1>2. /\ IdlePass \in Passes(Len(log)) /\ IdlePass.stage = "idle" /\ IdlePass.attempt = 0
      /\ IdleHost \in Hosts(Len(log)) /\ IdleHost.stage = "idle"
  BY <1>0, NoneFacts
<1>3. NoneOpened
  <2> SUFFICES ASSUME NEW a \in 0..Len(log), Open(a)' PROVE Open(a)
    BY DEF NoneOpened
  <2>1. CASE a \in delivered'
    BY <1>1, <2>1 DEF Open
  <2>2. CASE host'.stage \in {"asked", "registered"} /\ host'.attempt = a
    BY <1>2, <2>2 DEF HostMove, Open
  <2>3. CASE pass'.stage = "claimed" /\ pass'.attempt = a
    BY <1>2, <2>3 DEF PassMove, Open
  <2>4. QED
    BY <2>1, <2>2, <2>3 DEF Open
<1>4. MailInv'
  BY <1>0, <1>1, MailStands
<1>5. /\ host' \in Hosts(Len(log))
      /\ host'.stage # "idle" => host'.attempt = host.attempt /\ host.stage # "idle"
  BY <1>2, NativeFacts DEF HostMove
<1>6. /\ pass' \in Passes(Len(log))
      /\ pass'.stage # "idle" => pass'.attempt = pass.attempt /\ pass.stage # "idle"
      /\ pass'.stage = "claimed" => pass' = pass
  BY <1>2, NativeFacts DEF PassMove
<1>7. provider' \in Turns(Len(log))
  BY NativeFacts DEF TurnMove
<1>8. NativeTypes'
  BY <1>0, <1>1, <1>5, <1>6, <1>7 DEF NativeTypes
<1>9. Evidence'
  <2>1. provider'.status = "accepted" => provider'.attempt \in delivered' \cup {0}
    BY <1>0, <1>1 DEF TurnMove, Evidence
  <2>2. host'.stage \in {"receipt", "transport"} => host'.attempt \in delivered'
    BY <1>0, <1>1, <1>2 DEF HostMove, Evidence
  <2>3. pass'.stage = "replied" /\ pass'.reply = "delivered" => pass'.attempt \in delivered'
    BY <1>0, <1>1, <1>2 DEF PassMove, Evidence
  <2>4. \A a \in 1..Len(log) : "accepted" \in ToSet(log[a]) => a \in delivered'
    BY <1>0, <1>1 DEF Evidence
  <2>5. QED
    BY <2>1, <2>2, <2>3, <2>4 DEF Evidence
<1>10. Fresh'
  <2>1. pass'.stage = "claimed" =>
          /\ pass'.attempt \notin delivered'
          /\ host'.stage # "idle" => host'.attempt # pass'.attempt
    BY <1>0, <1>1, <1>5, <1>6 DEF Fresh
  <2>2. host'.stage \in {"asked", "registered", "refused", "deferring"} =>
          host'.attempt \notin delivered'
    BY <1>0, <1>2 DEF HostMove, Fresh
  <2>3. QED
    BY <2>1, <2>2 DEF Fresh
<1>11. Shut'
  <2>1. provider'.status \in {"rejected", "deferred"} => ~Open(provider.attempt)'
    <3>1. CASE provider' = provider
      <4>1. provider.attempt \in 0..Len(log)
        BY NativeFacts
      <4>2. PICK a \in 0..Len(log) : a = provider.attempt
        BY <4>1
      <4>3. provider.status \in {"rejected", "deferred"} => ~Open(a)
        BY <1>0, <4>2 DEF Shut
      <4>4. provider.status \in {"rejected", "deferred"} => ~Open(a)'
        BY <1>3, <4>3 DEF NoneOpened
      <4>5. QED
        BY <3>1, <4>2, <4>4 DEF Open
    <3>2. CASE provider' # provider
      BY <3>2 DEF TurnMove
    <3>3. QED
      BY <3>1, <3>2
  <2>2. pass'.stage = "replied" /\ pass'.reply \in Refusals => ~Open(pass.attempt)'
    <3>1. CASE pass' = pass
      <4>1. PICK a \in 0..Len(log) : a = pass.attempt
        BY NativeFacts
      <4>2. pass.stage = "replied" /\ pass.reply \in Refusals => ~Open(a)
        BY <1>0, <4>1 DEF Shut
      <4>3. pass.stage = "replied" /\ pass.reply \in Refusals => ~Open(a)'
        BY <1>3, <4>2 DEF NoneOpened
      <4>4. QED
        BY <3>1, <4>1, <4>3 DEF Open
    <3>2. CASE pass' # pass
      BY <1>2, <3>2 DEF PassMove, Open
    <3>3. QED
      BY <3>1, <3>2
  <2>3. \A a \in 1..Len(log) : {"rejected", "deferred"} \cap ToSet(log[a]) # {} => ~Open(a)'
    BY <1>0, <1>3 DEF Shut, NoneOpened
  <2>4. QED
    BY <2>1, <2>2, <2>3 DEF Shut
<1>12. Held' /\ OnceOnly'
  BY <1>3, HeldStands
<1>13. QED
  BY <1>4, <1>8, <1>9, <1>10, <1>11, <1>12 DEF IInv, NativeInv

(* A Host that refuses its attempt and lets go of it shuts it. *)
LEMMA HostShuts ==
  ASSUME IInv, host.stage \in {"asked", "refused", "deferring"}, delivered' = delivered,
         host' = IdleHost, pass' = pass \/ pass'.stage # "claimed", NEW a, a = host.attempt
  PROVE  ~Open(a)'
<1>1. a \notin delivered /\ (pass.stage = "claimed" => pass.attempt # a)
  BY DEF IInv, NativeInv, Fresh
<1>2. host'.stage = "idle"
  BY NativeFacts, NoneFacts
<1>3. QED
  BY <1>1, <1>2 DEF Open

(* The pass gets a reply that is true. *)
LEMMA ReplyMoves ==
  ASSUME IInv, NEW reply \in Replies, Reply(host.attempt, reply),
         reply = "delivered" => host.attempt \in delivered',
         reply \in Refusals => /\ host.stage \in {"asked", "refused", "deferring"}
                               /\ host' = IdleHost /\ delivered' = delivered
  PROVE  PassMove /\ (pass' = pass \/ pass'.stage # "claimed")
<1>0. pass \in Passes(Len(log))
  BY NativeFacts
<1>1. CASE pass.stage = "sending" /\ pass.attempt = host.attempt
  <2>1. pass' = [pass EXCEPT !.stage = "replied", !.reply = reply]
    BY <1>1 DEF Reply
  <2>2. /\ pass' \in Passes(Len(log)) /\ pass'.stage = "replied" /\ pass'.reply = reply
        /\ pass'.attempt = pass.attempt
    BY <1>0, <2>1 DEF Passes, PassStages
  <2>3. reply \in Refusals => ~Open(pass.attempt)'
    <3>1. PICK a : a = host.attempt
      OBVIOUS
    <3>2. reply \in Refusals => ~Open(a)'
      BY <2>2, <3>1, HostShuts
    <3>3. QED
      BY <1>1, <2>2, <3>1, <3>2 DEF Open
  <2>4. QED
    BY <1>1, <2>2, <2>3 DEF PassMove
<1>2. CASE ~(pass.stage = "sending" /\ pass.attempt = host.attempt)
  BY <1>2 DEF Reply, PassMove
<1>3. QED
  BY <1>1, <1>2

(* The Host goes on to a stage in which it may no longer hand its attempt over. *)
LEMMA HostStaged ==
  ASSUME IInv, NEW stage \in HostStages, host.stage # "idle",
         host' = [host EXCEPT !.stage = stage],
         stage \in {"asked", "registered"} => host.stage \in {"asked", "registered"},
         stage \in {"receipt", "transport"} => host.attempt \in delivered',
         stage \in {"asked", "registered", "refused", "deferring"} => host.attempt \notin delivered',
         \/ delivered' = delivered
         \/ host.stage = "registered" /\ delivered' = delivered \cup {host.attempt}
  PROVE  HostMove
<1>1. host \in Hosts(Len(log))
  BY NativeFacts
<1>2. host' \in Hosts(Len(log)) /\ host'.stage = stage /\ host'.attempt = host.attempt
  BY <1>1 DEF Hosts
<1>3. QED
  BY <1>2 DEF HostMove

(* The evidence that is not added to. *)
LEMMA EvidenceStands ==
  ASSUME IInv, UNCHANGED <<accepted, inbox>>, delivered \subseteq delivered'
  PROVE  /\ accepted' \subseteq delivered' /\ inbox' \subseteq Observations(Len(log))
         /\ \A o \in inbox' : o.attempt \in delivered'
BY NativeFacts DEF IInv, NativeInv, Evidence

(* The turns a Host may record. *)
LEMMA TurnRecorded ==
  ASSUME IInv, NEW status \in TurnStatuses
  PROVE  /\ [provider EXCEPT !.status = status] \in Turns(Len(log))
         /\ [provider EXCEPT !.status = status].status = status
         /\ [provider EXCEPT !.status = status].attempt = provider.attempt
         /\ [attempt |-> host.attempt, status |-> status] \in Turns(Len(log))
         /\ Begin(host.attempt) \in Turns(Len(log))
         /\ Begin(host.attempt).status = "submitting"
<1>1. provider \in Turns(Len(log)) /\ host.attempt \in 0..Len(log) /\ Len(log) \in Nat
  BY NativeFacts
<1>2. Begin(host.attempt) \in Turns(Len(log)) /\ Begin(host.attempt).status = "submitting"
  BY <1>1, NoneFacts
<1>3. QED
  BY <1>1, <1>2 DEF Turns

(* A registration that commits, or is refused, or fails. *)
LEMMA RegisterKeeps ==
  ASSUME IInv, Register \/ RegisterFails
  PROVE  IInv'
<1>1. /\ host.stage = "asked"
      /\ UNCHANGED <<mailbox, wakes, log, resolved, retired, carried, reissued, accepted, inbox,
                     delivered>>
      /\ \/ /\ provider' = Begin(host.attempt) /\ pass' = pass
            /\ host' = [host EXCEPT !.stage = "registered"]
         \/ provider' = provider /\ host' = IdleHost /\ Reply(host.attempt, "busy")
         \/ /\ provider' = provider \/ provider' = [attempt |-> host.attempt, status |-> "rejected"]
            /\ host' = IdleHost /\ Reply(host.attempt, "rejected")
         \/ /\ provider' = provider \/ provider' = Begin(host.attempt)
            /\ host' = [host EXCEPT !.stage = "held"] /\ Reply(host.attempt, "delivery-unknown")
  BY DEF Register, RegisterFails, history
<1>2. {"busy", "rejected", "delivery-unknown"} \subseteq Replies
      /\ "registered" \in HostStages /\ "held" \in HostStages /\ "rejected" \in TurnStatuses
      /\ "delivery-unknown" \notin Refusals
  BY DEF Replies, HostStages, TurnStatuses, Refusals
<1>3. /\ accepted' \subseteq delivered' /\ inbox' \subseteq Observations(Len(log))
      /\ \A o \in inbox' : o.attempt \in delivered'
  BY <1>1, EvidenceStands
<1>4. Begin(host.attempt) \in Turns(Len(log)) /\ Begin(host.attempt).status = "submitting"
  BY <1>2, TurnRecorded
<1>5. host.attempt \notin delivered
  BY <1>1 DEF IInv, NativeInv, Fresh
<1>6. CASE /\ provider' = Begin(host.attempt) /\ pass' = pass
           /\ host' = [host EXCEPT !.stage = "registered"]
  <2>1. TurnMove /\ PassMove
    BY <1>4, <1>6 DEF TurnMove, PassMove
  <2>2. HostMove
    BY <1>1, <1>2, <1>5, <1>6, HostStaged
  <2>3. QED
    BY <1>1, <1>3, <2>1, <2>2, NativeMoves
<1>7. CASE provider' = provider /\ host' = IdleHost /\ Reply(host.attempt, "busy")
  <2>1. "busy" \in Replies
    BY <1>2
  <2>2. PassMove
    BY <1>1, <1>7, <2>1, ReplyMoves
  <2>3. TurnMove /\ HostMove
    BY <1>1, <1>7 DEF TurnMove, HostMove
  <2>4. QED
    BY <1>1, <1>3, <2>2, <2>3, NativeMoves
<1>8. CASE /\ provider' = provider \/ provider' = [attempt |-> host.attempt, status |-> "rejected"]
           /\ host' = IdleHost /\ Reply(host.attempt, "rejected")
  <2>1. "rejected" \in Replies
    BY <1>2
  <2>2. PassMove /\ (pass' = pass \/ pass'.stage # "claimed")
    BY <1>1, <1>8, <2>1, ReplyMoves
  <2>3. HostMove
    BY <1>1, <1>8 DEF HostMove
  <2>4. TurnMove
    <3>1. CASE provider' = provider
      BY <3>1 DEF TurnMove
    <3>2. CASE provider' = [attempt |-> host.attempt, status |-> "rejected"]
      <4>1. PICK a : a = host.attempt
        OBVIOUS
      <4>2. ~Open(a)'
        BY <1>1, <1>8, <2>2, <4>1, HostShuts
      <4>3. provider'.attempt = a /\ provider'.status = "rejected" /\ provider' \in Turns(Len(log))
        BY <1>2, <3>2, <4>1, TurnRecorded
      <4>4. QED
        BY <4>2, <4>3 DEF TurnMove, Open
    <3>3. QED
      BY <1>8, <3>1, <3>2
  <2>5. QED
    BY <1>1, <1>3, <2>2, <2>3, <2>4, NativeMoves
<1>9. CASE /\ provider' = provider \/ provider' = Begin(host.attempt)
           /\ host' = [host EXCEPT !.stage = "held"] /\ Reply(host.attempt, "delivery-unknown")
  <2>1. "delivery-unknown" \in Replies
    BY <1>2
  <2>2. PassMove
    BY <1>2, <1>9, <2>1, ReplyMoves
  <2>3. HostMove
    BY <1>1, <1>2, <1>9, HostStaged
  <2>4. TurnMove
    BY <1>4, <1>9 DEF TurnMove
  <2>5. QED
    BY <1>1, <1>3, <2>2, <2>3, <2>4, NativeMoves
<1>10. QED
  BY <1>1, <1>6, <1>7, <1>8, <1>9

(* The native session takes the input, refuses it, or leaves it in doubt. *)
LEMMA SubmitKeeps ==
  ASSUME IInv, NativeTakes \/ NativeFails
  PROVE  IInv'
<1>1. /\ host.stage = "registered"
      /\ UNCHANGED <<mailbox, wakes, log, resolved, retired, carried, reissued, accepted, inbox,
                     provider, pass>>
      /\ \E stage \in {"receipt", "transport", "refused", "deferring", "doubt"} :
           /\ host' = [host EXCEPT !.stage = stage]
           /\ stage \in {"receipt", "transport"} => delivered' = delivered \cup {host.attempt}
           /\ stage \in {"refused", "deferring"} => delivered' = delivered
           /\ delivered' = delivered \/ delivered' = delivered \cup {host.attempt}
  BY DEF NativeTakes, NativeFails, store
<1>2. PICK stage \in {"receipt", "transport", "refused", "deferring", "doubt"} :
           /\ host' = [host EXCEPT !.stage = stage]
           /\ stage \in {"receipt", "transport"} => delivered' = delivered \cup {host.attempt}
           /\ stage \in {"refused", "deferring"} => delivered' = delivered
           /\ delivered' = delivered \/ delivered' = delivered \cup {host.attempt}
  BY <1>1
<1>3. stage \in HostStages
  BY DEF HostStages
<1>4. host.attempt \notin delivered
  BY <1>1 DEF IInv, NativeInv, Fresh
<1>5. HostMove
  BY <1>1, <1>2, <1>3, <1>4, HostStaged
<1>6. PassMove /\ TurnMove
  BY <1>1 DEF PassMove, TurnMove
<1>7. /\ accepted' \subseteq delivered' /\ inbox' \subseteq Observations(Len(log))
      /\ \A o \in inbox' : o.attempt \in delivered'
  BY <1>1, <1>2, EvidenceStands
<1>8. QED
  BY <1>1, <1>5, <1>6, <1>7, NativeMoves

(* Publishing a receipt, whether or not it succeeds. *)
LEMMA PublishKeeps ==
  ASSUME IInv, Publish
  PROVE  IInv'
<1> DEFINE o == [attempt |-> host.attempt, kind |-> "accepted"]
<1>1. /\ host.stage \in {"receipt", "transport"}
      /\ UNCHANGED <<mailbox, wakes, log, resolved, retired, carried, reissued, accepted, delivered>>
      /\ host' = [host EXCEPT !.stage = "held"]
      /\ provider' = provider \/ provider' = [provider EXCEPT !.status = "delivery-unknown"]
      /\ inbox' \subseteq inbox \cup {o}
      /\ \E reply \in {"pending", "delivered", "delivery-unknown"} : Reply(host.attempt, reply)
  BY DEF Publish, history
<1>2. host.attempt \in delivered /\ host.attempt \in 1..Len(log)
  BY <1>1, NativeFacts DEF IInv, NativeInv, Evidence
<1>3. o \in Observations(Len(log)) /\ o.attempt = host.attempt
  BY <1>2 DEF Observations
<1> HIDE DEF o
<1>4. /\ accepted' \subseteq delivered' /\ inbox' \subseteq Observations(Len(log))
      /\ \A p \in inbox' : p.attempt \in delivered'
  BY <1>1, <1>2, <1>3, NativeFacts DEF IInv, NativeInv, Evidence
<1>5. HostMove
  <2>1. "held" \in HostStages
    BY DEF HostStages
  <2>2. QED
    BY <1>1, <2>1, HostStaged
<1>6. TurnMove
  <2>1. "delivery-unknown" \in TurnStatuses
    BY DEF TurnStatuses
  <2>2. QED
    BY <1>1, <2>1, TurnRecorded DEF TurnMove
<1>7. PassMove
  <2>1. PICK reply \in {"pending", "delivered", "delivery-unknown"} : Reply(host.attempt, reply)
    BY <1>1
  <2>2. reply \in Replies /\ reply \notin Refusals
    BY DEF Replies, Refusals
  <2>3. QED
    BY <1>1, <1>2, <2>1, <2>2, ReplyMoves
<1>8. QED
  BY <1>1, <1>4, <1>5, <1>6, <1>7, NativeMoves

(* resolveProviderTurnSubmission *)
LEMMA ResolveFacts ==
  ASSUME ResolveSubmission
  PROVE  /\ host.stage \in {"refused", "deferring", "doubt"}
         /\ UNCHANGED <<mailbox, wakes, log, resolved, retired, carried, reissued, accepted, inbox,
                        delivered>>
         /\ \/ /\ provider.attempt = host.attempt /\ host' = IdleHost
               /\ \/ host.stage = "refused" /\ provider' = [provider EXCEPT !.status = "rejected"]
                     /\ Reply(host.attempt, "rejected")
                  \/ host.stage = "deferring" /\ provider' = [provider EXCEPT !.status = "deferred"]
                     /\ Reply(host.attempt, "busy")
            \/ /\ host' = [host EXCEPT !.stage = "held"] /\ Reply(host.attempt, "delivery-unknown")
               /\ provider' = provider \/ provider' = [provider EXCEPT !.status = "delivery-unknown"]
<1>1. /\ DOMAIN ResolveStatus = {"refused", "deferring", "doubt"}
      /\ ResolveStatus["refused"] = "rejected" /\ ResolveReply["refused"] = "rejected"
      /\ ResolveStatus["deferring"] = "deferred" /\ ResolveReply["deferring"] = "busy"
      /\ ResolveStatus["doubt"] = "delivery-unknown" /\ ResolveReply["doubt"] = "delivery-unknown"
  BY DEF ResolveStatus, ResolveReply
<1>2. QED
  BY <1>1 DEF ResolveSubmission, CanSettle, history

LEMMA ResolveKeeps ==
  ASSUME IInv, ResolveSubmission
  PROVE  IInv'
<1>1. /\ accepted' \subseteq delivered' /\ inbox' \subseteq Observations(Len(log))
      /\ \A o \in inbox' : o.attempt \in delivered'
  BY ResolveFacts, EvidenceStands
<1>2. /\ "held" \in HostStages /\ {"rejected", "deferred", "delivery-unknown"} \subseteq TurnStatuses
      /\ {"rejected", "busy", "delivery-unknown"} \subseteq Replies
      /\ "delivery-unknown" \notin Refusals
  BY DEF HostStages, TurnStatuses, Replies, Refusals
<1>3. ASSUME provider.attempt = host.attempt, host' = IdleHost,
             host.stage \in {"refused", "deferring"},
             NEW status \in {"rejected", "deferred"},
             provider' = [provider EXCEPT !.status = status],
             NEW reply \in {"rejected", "busy"}, Reply(host.attempt, reply)
      PROVE  IInv'
  <2>1. UNCHANGED <<mailbox, wakes, log, resolved, retired, carried, reissued, delivered>>
    BY ResolveFacts
  <2>2. reply \in Replies /\ reply # "delivered" /\ status \in TurnStatuses
    BY <1>2
  <2>3. PassMove /\ (pass' = pass \/ pass'.stage # "claimed")
    BY <1>3, <2>1, <2>2, ReplyMoves
  <2>4. HostMove
    BY <1>3, <2>1 DEF HostMove
  <2>5. TurnMove
    <3>1. PICK a : a = host.attempt
      OBVIOUS
    <3>2. ~Open(a)'
      BY <1>3, <2>1, <2>3, <3>1, HostShuts
    <3>3. provider' \in Turns(Len(log)) /\ provider'.status = status /\ provider'.attempt = a
      BY <1>3, <2>2, <3>1, TurnRecorded
    <3>4. QED
      BY <3>2, <3>3 DEF TurnMove, Open
  <2>6. QED
    BY <1>1, <2>1, <2>3, <2>4, <2>5, NativeMoves
<1>4. ASSUME host' = [host EXCEPT !.stage = "held"], Reply(host.attempt, "delivery-unknown"),
             provider' = provider \/ provider' = [provider EXCEPT !.status = "delivery-unknown"]
      PROVE  IInv'
  <2>1. UNCHANGED <<mailbox, wakes, log, resolved, retired, carried, reissued, delivered>>
        /\ host.stage # "idle"
    BY ResolveFacts
  <2>2. "delivery-unknown" \in Replies /\ "delivery-unknown" \in TurnStatuses
    BY <1>2
  <2>3. PassMove
    BY <1>2, <1>4, <2>2, ReplyMoves
  <2>4. HostMove
    BY <1>2, <1>4, <2>1, HostStaged
  <2>5. TurnMove
    BY <1>4, <2>2, TurnRecorded DEF TurnMove
  <2>6. QED
    BY <1>1, <2>1, <2>3, <2>4, <2>5, NativeMoves
<1>5. QED
  BY <1>3, <1>4, ResolveFacts

(* A late observation, the death of the Host, a native turn of someone else. *)
LEMMA HostKeeps ==
  ASSUME IInv, Observe \/ HostDies \/ DirectTurn
  PROVE  IInv'
<1>1. CASE Observe
  <2> DEFINE Of(kind) == [attempt |-> host.attempt, kind |-> kind]
  <2>1. /\ host.attempt \in delivered
        /\ host' = IdleHost \/ host' = host
        /\ UNCHANGED <<mailbox, wakes, log, resolved, retired, carried, reissued, accepted, delivered,
                       provider, pass>>
        /\ inbox' = inbox \cup {Of("terminal")} \/ inbox' = inbox \cup {Of("accepted")}
    BY <1>1 DEF Observe, history
  <2>2. host.attempt \in 1..Len(log)
    BY <2>1, NativeFacts
  <2>3. \A k \in {"accepted", "terminal"} :
          Of(k) \in Observations(Len(log)) /\ Of(k).attempt = host.attempt
    BY <2>2 DEF Observations
  <2> HIDE DEF Of
  <2>4. /\ accepted' \subseteq delivered' /\ inbox' \subseteq Observations(Len(log))
        /\ \A o \in inbox' : o.attempt \in delivered'
    BY <2>1, <2>3, NativeFacts DEF IInv, NativeInv, Evidence
  <2>5. PassMove /\ TurnMove /\ HostMove
    BY <2>1 DEF PassMove, TurnMove, HostMove
  <2>6. QED
    BY <2>1, <2>4, <2>5, NativeMoves
<1>2. CASE HostDies
  <2>1. /\ host' = IdleHost /\ Reply(host.attempt, "delivery-unknown")
        /\ UNCHANGED <<mailbox, wakes, log, resolved, retired, carried, reissued, accepted, inbox,
                       delivered, provider>>
    BY <1>2 DEF HostDies, store, history
  <2>2. "delivery-unknown" \in Replies /\ "delivery-unknown" \notin Refusals
    BY DEF Replies, Refusals
  <2>3. PassMove
    BY <2>1, <2>2, ReplyMoves
  <2>4. TurnMove /\ HostMove
    BY <2>1 DEF TurnMove, HostMove
  <2>5. QED
    BY <2>1, <2>3, <2>4, EvidenceStands, NativeMoves
<1>3. CASE DirectTurn
  <2>1. /\ provider' = [attempt |-> 0, status |-> "accepted"] \/ provider' = EndTurn(provider)
        /\ UNCHANGED <<mailbox, wakes, log, resolved, retired, carried, reissued, accepted, inbox,
                       delivered, pass, host>>
    BY <1>3 DEF DirectTurn, history
  <2>2. TurnMove
    <3>1. CASE provider' = [attempt |-> 0, status |-> "accepted"]
      BY <3>1, NativeFacts, NoneFacts DEF TurnMove
    <3>2. CASE provider' = EndTurn(provider)
      BY <3>2, NativeFacts, TurnFacts DEF TurnMove
    <3>3. QED
      BY <2>1, <3>1, <3>2
  <2>3. PassMove /\ HostMove
    BY <2>1 DEF PassMove, HostMove
  <2>4. QED
    BY <2>1, <2>2, <2>3, EvidenceStands, NativeMoves
<1>4. QED
  BY <1>1, <1>2, <1>3

(* observeRuntimeObservation *)
LEMMA ObservationKeeps ==
  ASSUME IInv, NEW o \in inbox, ApplyObservation(o)
  PROVE  IInv'
<1>1. /\ UNCHANGED <<mailbox, wakes, log, resolved, retired, carried, reissued, delivered, pass, host>>
      /\ inbox' \subseteq inbox /\ accepted' \subseteq accepted \cup {o.attempt}
      /\ \/ provider' = provider \/ provider' = EndTurn(provider)
         \/ provider' = Accept(provider) /\ provider.attempt = o.attempt
  BY DEF ApplyObservation, history
<1>2. o.attempt \in delivered
  BY NativeFacts
<1>3. TurnMove
  BY <1>1, <1>2, NativeFacts, TurnFacts DEF TurnMove
<1>4. PassMove /\ HostMove
  BY <1>1 DEF PassMove, HostMove
<1>5. /\ accepted' \subseteq delivered' /\ inbox' \subseteq Observations(Len(log))
      /\ \A p \in inbox' : p.attempt \in delivered'
  BY <1>1, <1>2, NativeFacts DEF IInv, NativeInv, Evidence
<1>6. QED
  BY <1>1, <1>3, <1>4, <1>5, NativeMoves

(* A session that is stopped, a crash, a lost reply, a request for a new session. *)
LEMMA QuietKeeps ==
  ASSUME IInv, StopSession \/ Crash \/ ReplyFails \/ RequestReplacement \/ UNCHANGED vars
  PROVE  IInv'
<1>1. UNCHANGED <<mailbox, wakes, log, resolved, retired, carried, reissued, accepted, inbox,
                  delivered>>
  BY DEF StopSession, Crash, ReplyFails, RequestReplacement, vars, store, history
<1>2. provider' = provider \/ provider' = CancelQuiescent(provider)
  BY DEF StopSession, Crash, ReplyFails, RequestReplacement, vars, store
<1>3. TurnMove
  BY <1>2, NativeFacts, TurnFacts DEF TurnMove
<1>4. HostMove
  BY <1>1 DEF StopSession, Crash, ReplyFails, RequestReplacement, vars, HostMove
<1>5. PassMove
  <2>1. \/ pass' = pass \/ pass' = IdlePass
        \/ /\ pass.stage = "sending"
           /\ \E reply \in {"delivery-unknown", "pending"} :
                pass' = [pass EXCEPT !.stage = "replied", !.reply = reply]
    BY DEF StopSession, Crash, ReplyFails, RequestReplacement, vars
  <2>2. ASSUME pass.stage = "sending", NEW reply \in {"delivery-unknown", "pending"},
               pass' = [pass EXCEPT !.stage = "replied", !.reply = reply]
        PROVE  PassMove
    <3>1. reply \in Replies /\ reply \notin Refusals /\ pass \in Passes(Len(log))
      BY NativeFacts DEF Replies, Refusals
    <3>2. /\ pass' \in Passes(Len(log)) /\ pass'.stage = "replied" /\ pass'.reply = reply
          /\ pass'.attempt = pass.attempt
      BY <2>2, <3>1 DEF Passes, PassStages
    <3>3. QED
      BY <2>2, <3>1, <3>2 DEF PassMove
  <2>3. QED
    BY <2>1, <2>2 DEF PassMove
<1>6. QED
  BY <1>1, <1>3, <1>4, <1>5, EvidenceStands, NativeMoves

(* A step of the records beside which the pass and the Host stand or end. *)
LEMMA RecordsMove ==
  ASSUME IInv, MailInv', UNCHANGED <<accepted, delivered, carried>>, Len(log') = Len(log),
         reissued \subseteq reissued', inbox' \subseteq inbox,
         provider' = provider \/ provider' = NoTurn, pass' = pass \/ pass' = IdlePass,
         host' = host \/ host' = IdleHost,
         \A s \in Owed(mailbox') : s \in Owed(mailbox) \/ s >= mailbox.next,
         \/ mailbox'.processing = mailbox.processing
         \/ /\ mailbox'.processing = NoClaim
            /\ Claim.batch.refs \cap Owed(mailbox') \subseteq reissued',
         \A b \in 1..Len(log) : \A x \in ToSet(log'[b]) \ ToSet(log[b]) :
           /\ x = "accepted" => b \in delivered
           /\ x \in {"rejected", "deferred"} => ~Open(b)'
  PROVE  IInv'
<1>0. /\ NativeTypes /\ Evidence /\ Fresh /\ Shut
      /\ Len(log) \in Nat /\ 1..Len(log) \subseteq 0..Len(log)
  BY NativeFacts DEF IInv, NativeInv
<1>1. /\ IdlePass \in Passes(Len(log)) /\ IdlePass.stage = "idle" /\ IdlePass.attempt = 0
      /\ IdleHost \in Hosts(Len(log)) /\ IdleHost.stage = "idle"
      /\ NoTurn \in Turns(Len(log)) /\ NoTurn.status = "none"
  BY <1>0, NoneFacts
<1>2. NoneOpened
  BY <1>1 DEF NoneOpened, Open
<1>3. NativeTypes'
  BY <1>0, <1>1 DEF NativeTypes
<1>4. Evidence'
  <2>1. \A b \in 1..Len(log) : "accepted" \in ToSet(log'[b]) => b \in delivered
    BY <1>0 DEF Evidence
  <2>2. QED
    BY <1>0, <1>1, <2>1 DEF Evidence
<1>5. Fresh'
  BY <1>0, <1>1 DEF Fresh
<1>6. Shut'
  <2>1. provider'.status \in {"rejected", "deferred"} => ~Open(provider.attempt)'
    <3>1. PICK a \in 0..Len(log) : a = provider.attempt
      BY NativeFacts
    <3>2. provider.status \in {"rejected", "deferred"} => ~Open(a)'
      BY <1>0, <1>2, <3>1 DEF Shut, NoneOpened
    <3>3. CASE provider' = provider
      BY <3>1, <3>2, <3>3 DEF Open
    <3>4. CASE provider' = NoTurn
      BY <1>1, <3>4
    <3>5. QED
      BY <3>3, <3>4
  <2>2. pass'.stage = "replied" /\ pass'.reply \in Refusals => ~Open(pass.attempt)'
    <3>1. PICK a \in 0..Len(log) : a = pass.attempt
      BY NativeFacts
    <3>2. pass.stage = "replied" /\ pass.reply \in Refusals => ~Open(a)'
      BY <1>0, <1>2, <3>1 DEF Shut, NoneOpened
    <3>3. CASE pass' = pass
      BY <3>1, <3>2, <3>3 DEF Open
    <3>4. CASE pass' = IdlePass
      BY <1>1, <3>4
    <3>5. QED
      BY <3>3, <3>4
  <2>3. ASSUME NEW b \in 1..Len(log), {"rejected", "deferred"} \cap ToSet(log'[b]) # {}
        PROVE  ~Open(b)'
    <3>1. CASE {"rejected", "deferred"} \cap ToSet(log[b]) # {}
      BY <1>0, <1>2, <3>1 DEF Shut, NoneOpened
    <3>2. CASE {"rejected", "deferred"} \cap ToSet(log[b]) = {}
      BY <2>3, <3>2
    <3>3. QED
      BY <3>1, <3>2
  <2>4. QED
    BY <2>1, <2>2, <2>3 DEF Shut
<1>7. Held' /\ OnceOnly'
  BY <1>2, HeldStands
<1>8. QED
  BY <1>3, <1>4, <1>5, <1>6, <1>7 DEF IInv, NativeInv

(* What people do to the mailbox. *)
LEMMA CommandsKeep ==
  ASSUME IInv, (\E k \in Keys \cup {0} : Enqueue(k)) \/ (\E s \in mailbox.pending.refs : RetireMessage(s))
               \/ ResolveWake
  PROVE  IInv'
<1>0. MailInv
  BY DEF IInv
<1>1. /\ UNCHANGED <<log, provider, accepted, inbox, pass, host, carried, delivered, reissued>>
  BY DEF Enqueue, RetireMessage, ResolveWake, history
<1>2. ASSUME MailInv', mailbox'.processing = mailbox.processing,
             \A s \in Owed(mailbox') : s \in Owed(mailbox) \/ s >= mailbox.next
      PROVE  IInv'
  BY <1>1, <1>2, RecordsMove
<1>3. CASE \E k \in Keys \cup {0} : Enqueue(k)
  BY <1>0, <1>2, <1>3, EnqueueMail
<1>4. CASE \E s \in mailbox.pending.refs : RetireMessage(s)
  BY <1>0, <1>2, <1>4, RetireMail
<1>5. CASE ResolveWake
  <2>1. /\ MailInv' /\ mailbox'.processing = NoClaim
        /\ Owed(mailbox') = Owed(mailbox) \ Claim.batch.refs
    BY <1>0, <1>5, ResolveMail
  <2>2. Claim.batch.refs \cap Owed(mailbox') \subseteq reissued'
        /\ \A s \in Owed(mailbox') : s \in Owed(mailbox) \/ s >= mailbox.next
    BY <2>1
  <2>3. QED
    BY <1>1, <2>1, <2>2, RecordsMove
<1>6. QED
  BY <1>3, <1>4, <1>5

(* completeRuntimeCleanup for a replacement. *)
LEMMA ReplaceKeeps ==
  ASSUME IInv, ReplaceSession
  PROVE  IInv'
<1>1. /\ UNCHANGED <<log, accepted, pass, carried, delivered>>
      /\ provider' = NoTurn /\ inbox' = {} /\ host' = IdleHost
      /\ reissued' = reissued \cup Claim.batch.refs
  BY DEF ReplaceSession
<1>2. /\ MailInv' /\ mailbox'.processing = NoClaim
      /\ \A s \in Owed(mailbox') : s \in Owed(mailbox) \/ s >= mailbox.next
  BY ReplaceMail DEF IInv
<1>3. QED
  BY <1>1, <1>2, RecordsMove

(* settleLeaderNotification with an outcome that is true. *)
LEMMA SettleKeeps ==
  ASSUME IInv, NEW a, NEW outcome \in Outcomes, Settle(a, outcome),
         UNCHANGED <<carried, resolved, retired, delivered, reissued, provider, accepted, inbox, host>>,
         pass' = pass \/ pass' = IdlePass,
         outcome = "accepted" => a \in delivered,
         outcome \in {"rejected", "deferred"} => ~Open(a)'
  PROVE  IInv'
<1>0. MailInv /\ BoxOK(mailbox)
  BY MailFacts DEF IInv
<1>1. /\ MailInv' /\ Len(log') = Len(log)
      /\ \A b \in 1..Len(log) :
           ToSet(log'[b]) \subseteq ToSet(log[b]) \cup (IF b = a THEN {outcome} ELSE {})
      /\ mailbox' = mailbox \/ mailbox' = CompleteProcessing(mailbox)
  BY <1>0, SettleMail
<1>2. \A b \in 1..Len(log) : \A x \in ToSet(log'[b]) \ ToSet(log[b]) : b = a /\ x = outcome
  BY <1>1
<1>3. \A b \in 1..Len(log) : \A x \in ToSet(log'[b]) \ ToSet(log[b]) :
        /\ x = "accepted" => b \in delivered
        /\ x \in {"rejected", "deferred"} => ~Open(b)'
  BY <1>2
<1>4. CASE mailbox' = mailbox
  BY <1>1, <1>3, <1>4, RecordsMove
<1>5. CASE mailbox' = CompleteProcessing(mailbox)
  <2>1. mailbox'.processing = NoClaim /\ Owed(mailbox') = Owed(mailbox) \ Claim.batch.refs
    BY <1>0, <1>5, CompleteFacts DEF Claim
  <2>2. Claim.batch.refs \cap Owed(mailbox') \subseteq reissued'
        /\ \A s \in Owed(mailbox') : s \in Owed(mailbox) \/ s >= mailbox.next
    BY <2>1
  <2>3. QED
    BY <1>1, <1>3, <2>1, <2>2, RecordsMove
<1>6. QED
  BY <1>1, <1>4, <1>5

(* What the records say of an attempt is true. *)
LEMMA KnownFacts ==
  ASSUME IInv, NEW a \in 1..Len(log)
  PROVE  /\ AcceptanceKnown(a) => a \in delivered
         /\ RejectionKnown(a) => ~Open(a)
         /\ DeferralKnown(a) => ~Open(a)
<1>0. Evidence /\ Shut /\ a # 0 /\ log[a] \in Seq(Outcomes)
  <2>1. log[a] \in Seq(Outcomes) /\ Len(log) \in Nat
    BY MailFacts DEF IInv
  <2>2. QED
    BY <2>1 DEF IInv, NativeInv
<1>1. LastOutcome(a) = "none" \/ LastOutcome(a) \in ToSet(log[a])
  <2>1. PICK t \in Seq(Outcomes) : t = log[a]
    BY <1>0
  <2>2. t # <<>> => Len(t) \in 1..Len(t)
    OBVIOUS
  <2>3. t # <<>> => t[Len(t)] \in ToSet(t)
    BY <2>2 DEF ToSet
  <2>4. QED
    BY <2>1, <2>3 DEF LastOutcome
<1>2. Native(a) # "none" => provider.attempt = a /\ provider.status = Native(a)
  BY DEF Native
<1>3. AcceptanceKnown(a) => a \in delivered
  <2>1. Native(a) = "accepted" => a \in delivered
    BY <1>0, <1>2 DEF Evidence
  <2>2. LastOutcome(a) = "accepted" => a \in delivered
    BY <1>0, <1>1 DEF Evidence
  <2>3. a \in accepted => a \in delivered
    BY <1>0 DEF Evidence
  <2>4. QED
    BY <2>1, <2>2, <2>3 DEF AcceptanceKnown
<1>4. \A x \in {"rejected", "deferred"} : Native(a) = x => ~Open(a)
  BY <1>0, <1>2 DEF Shut
<1>5. \A x \in {"rejected", "deferred"} : LastOutcome(a) = x => ~Open(a)
  BY <1>0, <1>1 DEF Shut
<1>6. QED
  BY <1>3, <1>4, <1>5 DEF RejectionKnown, DeferralKnown

(* claimLeaderNotification finds how a claimed attempt ended, or does not. *)
LEMMA InspectKeeps ==
  ASSUME IInv, InspectSettled \/ InspectUnknown
  PROVE  IInv'
<1>1. /\ Claim # NoClaim
      /\ UNCHANGED <<carried, resolved, retired, delivered, reissued, provider, accepted, inbox, host,
                     pass>>
      /\ \/ AcceptanceKnown(Claim.id) /\ Settle(Claim.id, "accepted")
         \/ RejectionKnown(Claim.id) /\ Settle(Claim.id, "rejected")
         \/ Settle(Claim.id, "unknown")
  BY DEF InspectSettled, InspectUnknown, Inspecting, history
<1>2. PICK a \in 1..Len(log) : a = Claim.id
  BY <1>1, MailFacts DEF IInv
<1>3. Open(a)' <=> Open(a)
  BY <1>1 DEF Open
<1>4. "accepted" \in Outcomes /\ "rejected" \in Outcomes /\ "unknown" \in Outcomes
  BY DEF Outcomes
<1>5. ASSUME AcceptanceKnown(a), Settle(a, "accepted") PROVE IInv'
  <2>1. a \in delivered
    BY <1>5, KnownFacts
  <2>2. QED
    BY <1>1, <1>4, <1>5, <2>1, SettleKeeps
<1>6. ASSUME RejectionKnown(a), Settle(a, "rejected") PROVE IInv'
  <2>1. ~Open(a)'
    BY <1>3, <1>6, KnownFacts
  <2>2. QED
    BY <1>1, <1>4, <1>6, <2>1, SettleKeeps
<1>7. ASSUME Settle(a, "unknown") PROVE IInv'
  BY <1>1, <1>4, <1>7, SettleKeeps
<1>8. QED
  BY <1>1, <1>2, <1>5, <1>6, <1>7

(* prepareRoleSession fails before anything is sent. *)
LEMMA PrepareKeeps ==
  ASSUME IInv, PrepareFails
  PROVE  IInv'
<1>1. /\ pass.stage = "claimed" /\ pass' = IdlePass
      /\ Settle(pass.attempt, "deferred")
      /\ UNCHANGED <<carried, resolved, retired, delivered, reissued, provider, accepted, inbox, host>>
  BY DEF PrepareFails, history
<1>2. PICK a : a = pass.attempt
  OBVIOUS
<1>3. IdlePass.stage = "idle"
  BY NativeFacts, NoneFacts
<1>4. ~Open(a)'
  BY <1>1, <1>2, <1>3 DEF Open, IInv, NativeInv, Fresh
<1>5. "deferred" \in Outcomes
  BY DEF Outcomes
<1>6. Settle(a, "deferred")
  BY <1>1, <1>2
<1>7. QED
  BY <1>1, <1>4, <1>5, <1>6, SettleKeeps

(* processLeaderWakeups settles what the report says. *)
LEMMA HandleKeeps ==
  ASSUME IInv, HandleReply
  PROVE  IInv'
<1>1. /\ pass.stage = "replied" /\ pass' = IdlePass
      /\ UNCHANGED <<carried, resolved, retired, delivered, reissued, provider, accepted, inbox, host>>
  BY DEF HandleReply, history
<1>2. /\ pass.attempt \in 1..Len(log) /\ pass.reply \in Replies
      /\ IdlePass.stage = "idle"
  BY <1>1, NativeFacts, NoneFacts DEF Passes
<1>3. PICK a \in 1..Len(log) : a = pass.attempt
  BY <1>2
<1>4. Evidence /\ Shut
  BY DEF IInv, NativeInv
<1>5. CASE pass.reply = "pending"
  <2>1. UNCHANGED <<mailbox, wakes, log>>
    BY <1>5 DEF HandleReply
  <2>2. PassMove /\ HostMove /\ TurnMove
    BY <1>1 DEF PassMove, HostMove, TurnMove
  <2>3. QED
    BY <1>1, <2>1, <2>2, EvidenceStands, NativeMoves
<1>6. CASE pass.reply # "pending"
  <2>1. Settle(a, Disposition(pass.reply))
    BY <1>3, <1>6 DEF HandleReply
  <2>2. CASE pass.reply = "delivered"
    <3>1. Settle(a, "accepted") /\ "accepted" \in Outcomes
      BY <2>1, <2>2 DEF Disposition, Outcomes
    <3>2. a \in delivered
      BY <1>1, <1>3, <1>4, <2>2 DEF Evidence
    <3>3. QED
      BY <1>1, <3>1, <3>2, SettleKeeps
  <2>3. CASE pass.reply = "delivery-unknown"
    <3>1. Settle(a, "unknown") /\ "unknown" \in Outcomes
      BY <2>1, <2>3 DEF Disposition, Outcomes
    <3>2. QED
      BY <1>1, <3>1, SettleKeeps
  <2>4. CASE pass.reply \in Refusals
    <3>1. ~Open(a)
      BY <1>1, <1>3, <1>4, <2>4 DEF Shut
    <3>2. ~Open(a)'
      BY <1>1, <1>2, <3>1 DEF Open
    <3>3. \E outcome \in {"rejected", "deferred"} : Settle(a, outcome)
      BY <2>1, <2>4 DEF Disposition, Refusals
    <3>4. PICK outcome \in {"rejected", "deferred"} : Settle(a, outcome)
      BY <3>3
    <3>5. outcome \in Outcomes /\ outcome # "accepted"
      BY DEF Outcomes
    <3>6. QED
      BY <1>1, <3>2, <3>4, <3>5, SettleKeeps
  <2>5. QED
    BY <1>2, <1>6, <2>2, <2>3, <2>4 DEF Replies, Refusals
<1>7. QED
  BY <1>5, <1>6

(* A new attempt is made only for signals that no open attempt carries. *)
LEMMA AttemptKeeps ==
  ASSUME IInv, NEW refs \in SUBSET Nat, NewAttempt(refs), refs \subseteq Owed(mailbox), MailInv',
         UNCHANGED <<delivered, reissued, provider, accepted, inbox, host>>, pass.stage = "idle",
         Owed(mailbox') = Owed(mailbox),
         mailbox'.processing.id = Len(log) + 1, mailbox'.processing.batch.refs = refs,
         Len(log') = Len(log) + 1, log'[Len(log) + 1] = <<>>, carried'[Len(log) + 1] = refs,
         \A a \in 1..Len(log) : log'[a] = log[a] /\ carried'[a] = carried[a],
         \A a \in 1..Len(log) : Open(a) => carried[a] \cap Owed(mailbox) \subseteq reissued
  PROVE  IInv'
<1> DEFINE n == Len(log)
<1>0. /\ NativeTypes /\ Evidence /\ Fresh /\ Shut /\ OnceOnly /\ n \in Nat
      /\ provider.attempt \in 0..n /\ host.attempt \in 0..n /\ delivered \subseteq 1..n
  BY NativeFacts DEF IInv, NativeInv
<1>1. /\ 1..(n + 1) = 1..n \cup {n + 1} /\ n + 1 \notin 0..n
      /\ 0..n \subseteq 0..(n + 1) /\ 1..n \subseteq 0..n /\ n + 1 \in 0..(n + 1) /\ n + 1 # 0
  BY <1>0
<1>2. pass' = [stage |-> "claimed", attempt |-> n + 1, reply |-> "none"]
  BY DEF NewAttempt
<1>3. pass' \in Passes(n + 1) /\ pass'.stage = "claimed" /\ pass'.attempt = n + 1
  <2>1. PICK i \in 0..(n + 1) : i = n + 1
    BY <1>1
  <2>2. pass' = [stage |-> "claimed", attempt |-> i, reply |-> "none"]
    BY <1>2, <2>1
  <2>3. pass' \in Passes(n + 1) /\ pass'.stage = "claimed" /\ pass'.attempt = i
    BY <2>2 DEF Passes, PassStages, Replies
  <2>4. QED
    BY <2>1, <2>3
<1>4. \A a \in 0..n : Open(a)' <=> Open(a)
  BY <1>1, <1>3 DEF Open
<1>5. NativeTypes'
  <2>1. Turns(n) \subseteq Turns(n + 1) /\ Hosts(n) \subseteq Hosts(n + 1)
    BY <1>1 DEF Turns, Hosts
  <2>2. Observations(n) \subseteq Observations(n + 1)
    BY <1>1 DEF Observations
  <2>3. delivered \subseteq 1..(n + 1)
    BY <1>0, <1>1
  <2>4. QED
    BY <1>0, <1>1, <1>3, <2>1, <2>2, <2>3 DEF NativeTypes
<1>6. ToSet(log'[n + 1]) = {}
  BY DEF ToSet
<1>7. Evidence'
  <2>1. \A a \in 1..(n + 1) : "accepted" \in ToSet(log'[a]) => a \in delivered
    BY <1>0, <1>1, <1>6 DEF Evidence
  <2>2. QED
    BY <1>0, <1>3, <2>1 DEF Evidence
<1>8. Fresh'
  BY <1>0, <1>1, <1>3 DEF Fresh
<1>9. Shut'
  <2>1. provider.status \in {"rejected", "deferred"} => ~Open(provider.attempt)'
    <3>1. PICK a \in 0..n : a = provider.attempt
      BY <1>0
    <3>2. provider.status \in {"rejected", "deferred"} => ~Open(a)'
      BY <1>0, <1>4, <3>1 DEF Shut
    <3>3. QED
      BY <3>1, <3>2 DEF Open
  <2>2. \A a \in 1..(n + 1) : {"rejected", "deferred"} \cap ToSet(log'[a]) # {} => ~Open(a)'
    <3>1. \A a \in 1..n : {"rejected", "deferred"} \cap ToSet(log'[a]) # {} => ~Open(a)'
      BY <1>0, <1>1, <1>4 DEF Shut
    <3>2. QED
      BY <1>1, <1>6, <3>1
  <2>3. QED
    BY <1>3, <2>1, <2>2 DEF Shut
<1>10. Held'
  <2> SUFFICES ASSUME NEW a \in 1..(n + 1), Open(a)'
               PROVE  carried'[a] \cap Owed(mailbox') \subseteq
                        reissued \cup (IF mailbox'.processing.id = a
                                       THEN mailbox'.processing.batch.refs ELSE {})
    BY DEF Held, Claim
  <2>1. CASE a \in 1..n
    BY <1>1, <1>4, <2>1
  <2>2. CASE a = n + 1
    BY <2>2
  <2>3. QED
    BY <1>1, <2>1, <2>2
<1>11. OnceOnly'
  <2> SUFFICES ASSUME NEW a \in 1..(n + 1), NEW b \in 1..(n + 1), Open(a)', Open(b)', a # b
               PROVE  carried'[a] \cap carried'[b] \subseteq reissued
    BY DEF OnceOnly
  <2>1. CASE a \in 1..n /\ b \in 1..n
    BY <1>0, <1>1, <1>4, <2>1 DEF OnceOnly
  <2>2. CASE a \in 1..n /\ b = n + 1
    BY <1>1, <1>4, <2>2
  <2>3. CASE a = n + 1 /\ b \in 1..n
    BY <1>1, <1>4, <2>3
  <2>4. QED
    BY <1>1, <2>1, <2>2, <2>3
<1>12. QED
  BY <1>5, <1>7, <1>8, <1>9, <1>10, <1>11 DEF IInv, NativeInv

(* claimLeaderNotification with no claim. *)
LEMMA ClaimKeeps ==
  ASSUME IInv, ClaimWake
  PROVE  IInv'
<1> DEFINE n == Len(log)
           w == Len(wakes) + 1
           refs == mailbox.pending.refs
           new == [refs |-> refs, consumed |-> FALSE]
<1>0. /\ MailInv /\ BoxOK(mailbox) /\ n \in Nat /\ Len(wakes) \in Nat
      /\ wakes \in Seq([refs : SUBSET Nat, consumed : BOOLEAN])
      /\ mailbox.pending \in Batches
  BY MailFacts, BoxFacts DEF IInv
<1>1. /\ pass = IdlePass /\ mailbox.processing = NoClaim /\ mailbox.pending # NoBatch
      /\ wakes' = Append(wakes, new) /\ mailbox' = ClaimPending(mailbox, n + 1, w)
      /\ NewAttempt(refs)
      /\ UNCHANGED <<provider, accepted, inbox, resolved, retired, host, delivered, reissued>>
  BY DEF ClaimWake, Claim
<1>2. refs \in SUBSET Nat /\ refs \subseteq Owed(mailbox)
  BY <1>0 DEF Batches, Owed
<1>3. n + 1 \in Nat /\ w \in Nat /\ w \in 1..w
  BY <1>0
<1>4. /\ BoxOK(mailbox') /\ mailbox'.next = mailbox.next /\ Owed(mailbox') = Owed(mailbox)
      /\ mailbox'.processing = [id |-> n + 1, wake |-> w, batch |-> mailbox.pending]
  <2>1. PICK i \in Nat : i = n + 1
    BY <1>3
  <2>2. PICK v \in Nat : v = w
    BY <1>3
  <2> HIDE DEF n, w
  <2>3. mailbox' = ClaimPending(mailbox, i, v)
    BY <1>1, <2>1, <2>2
  <2>4. /\ BoxOK(mailbox') /\ mailbox'.next = mailbox.next /\ Owed(mailbox') = Owed(mailbox)
        /\ mailbox'.processing = [id |-> i, wake |-> v, batch |-> mailbox.pending]
    BY <1>0, <1>1, <2>3, ClaimFacts
  <2>5. QED
    BY <2>1, <2>2, <2>4
<1>5. /\ mailbox'.processing.id = n + 1 /\ mailbox'.processing.wake = w
      /\ mailbox'.processing.batch.refs = refs
  BY <1>4
<1>6. Len(wakes') = w /\ wakes'[w].refs = refs
  <2>1. new.refs = refs
    OBVIOUS
  <2> HIDE DEF new
  <2>2. Len(wakes') = w /\ wakes'[w] = new
    BY <1>0, <1>1
  <2>3. QED
    BY <2>1, <2>2
<1>7. delivered \subseteq 1..n /\ IdlePass.stage = "idle"
  BY NativeFacts, NoneFacts
<1>8. /\ MailInv' /\ Len(log') = n + 1 /\ log'[n + 1] = <<>> /\ carried'[n + 1] = refs
      /\ \A a \in 1..n : log'[a] = log[a] /\ carried'[a] = carried[a]
  BY <1>0, <1>1, <1>2, <1>3, <1>4, <1>5, <1>6, <1>7, AttemptMail
<1>9. \A a \in 1..n : Open(a) => carried[a] \cap Owed(mailbox) \subseteq reissued
  <2>1. Claim.batch.refs = {}
    BY <1>1, EmptyFacts DEF Claim
  <2>2. QED
    BY <2>1 DEF IInv, NativeInv, Held
<1>10. QED
  BY <1>1, <1>2, <1>4, <1>5, <1>7, <1>8, <1>9, AttemptKeeps

(* claimLeaderNotification tries a wake again whose attempt was not taken. *)
LEMMA ResubmitKeeps ==
  ASSUME IInv, Resubmit
  PROVE  IInv'
<1> DEFINE n == Len(log)
           refs == Claim.batch.refs
<1>0. /\ MailInv /\ BoxOK(mailbox) /\ n \in Nat /\ Claim \in Claims
  BY MailFacts DEF IInv
<1>1. /\ pass = IdlePass /\ Claim # NoClaim /\ DeferralKnown(Claim.id)
      /\ mailbox' = [mailbox EXCEPT !.processing.id = n + 1]
      /\ NewAttempt(refs)
      /\ UNCHANGED <<wakes, provider, accepted, inbox, resolved, retired, host, delivered, reissued>>
  BY DEF Resubmit, Inspecting
<1>2. refs \in SUBSET Nat /\ refs \subseteq Owed(mailbox)
  BY <1>0 DEF Claims, Batches, Owed, Claim
<1>3. /\ Claim.id \in 1..n /\ Claim.wake \in 1..Len(wakes) /\ wakes[Claim.wake].refs = refs
  BY <1>1 DEF IInv, MailInv, ClaimOK
<1>4. /\ BoxOK(mailbox') /\ mailbox'.next = mailbox.next /\ Owed(mailbox') = Owed(mailbox)
      /\ mailbox'.processing.id = n + 1 /\ mailbox'.processing.wake = Claim.wake
      /\ mailbox'.processing.batch.refs = refs
  <2>1. PICK i \in Nat : i = n + 1
    BY <1>0
  <2>2. mailbox' = [mailbox EXCEPT !.processing.id = i]
    BY <1>1, <2>1
  <2>3. /\ BoxOK(mailbox') /\ mailbox'.next = mailbox.next /\ Owed(mailbox') = Owed(mailbox)
        /\ mailbox'.processing.id = i /\ mailbox'.processing.wake = mailbox.processing.wake
        /\ mailbox'.processing.batch = mailbox.processing.batch
    <3>1. PICK m : m = mailbox
      OBVIOUS
    <3>2. PICK x : x = mailbox'
      OBVIOUS
    <3>3. BoxOK(m) /\ m.processing # NoClaim
      BY <1>0, <1>1, <3>1 DEF Claim
    <3>4. x = [m EXCEPT !.processing.id = i]
      BY <2>2, <3>1, <3>2
    <3>5. /\ BoxOK(x) /\ x.next = m.next /\ Owed(x) = Owed(m)
          /\ x.processing.id = i /\ x.processing.wake = m.processing.wake
          /\ x.processing.batch = m.processing.batch
      BY <3>3, <3>4, ReclaimFacts
    <3>6. QED
      BY <3>1, <3>2, <3>5
  <2>4. QED
    BY <2>1, <2>3 DEF Claim
<1>5. delivered \subseteq 1..n /\ IdlePass.stage = "idle"
  BY NativeFacts, NoneFacts
<1>6. /\ MailInv' /\ Len(log') = n + 1 /\ log'[n + 1] = <<>> /\ carried'[n + 1] = refs
      /\ \A a \in 1..n : log'[a] = log[a] /\ carried'[a] = carried[a]
  BY <1>0, <1>1, <1>2, <1>3, <1>4, <1>5, AttemptMail
<1>7. ~Open(Claim.id)
  BY <1>1, <1>3, KnownFacts
<1>8. \A a \in 1..n : Open(a) => carried[a] \cap Owed(mailbox) \subseteq reissued
  BY <1>7 DEF IInv, NativeInv, Held
<1>9. QED
  BY <1>1, <1>2, <1>4, <1>5, <1>6, <1>8, AttemptKeeps

(* The Host takes the request, or the pass hears at once that it does not. *)
LEMMA SendKeeps ==
  ASSUME IInv, Send
  PROVE  IInv'
<1>0. /\ NativeTypes /\ Evidence /\ Fresh /\ Shut /\ MailInv
      /\ Len(log) \in Nat /\ 1..Len(log) \subseteq 0..Len(log) /\ host \in Hosts(Len(log))
      /\ pass \in Passes(Len(log)) /\ pass.attempt \in 0..Len(log)
      /\ provider.attempt \in 0..Len(log)
  BY NativeFacts DEF IInv, NativeInv
<1>1. /\ pass.stage = "claimed"
      /\ UNCHANGED <<mailbox, wakes, log, resolved, retired, carried, reissued, accepted, inbox,
                     delivered, provider>>
      /\ \/ /\ host.stage = "idle" /\ pass' = [pass EXCEPT !.stage = "sending"]
            /\ host' = [stage |-> "asked", attempt |-> pass.attempt]
         \/ /\ host' = host
            /\ \E reply \in {"busy", "unavailable", "rejected"} :
                 pass' = [pass EXCEPT !.stage = "replied", !.reply = reply]
  BY DEF Send, store, history
<1>2. /\ pass' \in Passes(Len(log)) /\ pass'.attempt = pass.attempt
      /\ \/ pass'.stage = "sending" \/ (pass'.stage = "replied" /\ pass'.reply # "delivered")
      /\ pass'.stage = "replied" => host' = host
  <2>1. CASE pass' = [pass EXCEPT !.stage = "sending"]
    BY <1>0, <2>1 DEF Passes, PassStages
  <2>2. ASSUME NEW reply \in {"busy", "unavailable", "rejected"}, host' = host,
               pass' = [pass EXCEPT !.stage = "replied", !.reply = reply]
        PROVE  /\ pass' \in Passes(Len(log)) /\ pass'.attempt = pass.attempt
               /\ pass'.stage = "replied" /\ pass'.reply # "delivered"
    <3>1. reply \in Replies
      BY DEF Replies
    <3>2. QED
      BY <1>0, <2>2, <3>1 DEF Passes, PassStages
  <2>3. QED
    BY <1>1, <2>1, <2>2
<1>3. /\ host' \in Hosts(Len(log))
      /\ host' = host \/ (host'.stage = "asked" /\ host'.attempt = pass.attempt)
  BY <1>0, <1>1 DEF Hosts, HostStages
<1>4. /\ pass.attempt \notin delivered /\ pass.attempt # 0
      /\ host.stage # "idle" => host.attempt # pass.attempt
  BY <1>0, <1>1 DEF Fresh, NativeTypes
<1>5. NoneOpened
  BY <1>1, <1>2, <1>3 DEF NoneOpened, Open
<1>6. NativeTypes'
  BY <1>0, <1>1, <1>2, <1>3, <1>4 DEF NativeTypes
<1>7. Evidence'
  BY <1>0, <1>1, <1>2, <1>3 DEF Evidence
<1>8. Fresh'
  BY <1>0, <1>1, <1>2, <1>3, <1>4 DEF Fresh
<1>9. Shut'
  <2>1. provider.status \in {"rejected", "deferred"} => ~Open(provider.attempt)'
    <3>1. PICK a \in 0..Len(log) : a = provider.attempt
      BY <1>0
    <3>2. provider.status \in {"rejected", "deferred"} => ~Open(a)'
      BY <1>0, <1>5, <3>1 DEF Shut, NoneOpened
    <3>3. QED
      BY <1>1, <3>1, <3>2 DEF Open
  <2>2. pass'.stage = "replied" => ~Open(pass.attempt)'
    BY <1>1, <1>2, <1>4 DEF Open
  <2>3. \A a \in 1..Len(log) : {"rejected", "deferred"} \cap ToSet(log[a]) # {} => ~Open(a)'
    BY <1>0, <1>5 DEF Shut, NoneOpened
  <2>4. QED
    BY <1>1, <2>1, <2>2, <2>3 DEF Shut
<1>10. MailInv'
  BY <1>0, <1>1, MailStands
<1>11. Held' /\ OnceOnly'
  BY <1>1, <1>5, HeldStands
<1>12. QED
  BY <1>6, <1>7, <1>8, <1>9, <1>10, <1>11 DEF IInv, NativeInv

----------------------------------------------------------------------------
(* The invariant, and what it says of the notifications *)

LEMMA InitIInv == Init => IInv
<1> SUFFICES ASSUME Init PROVE IInv
  OBVIOUS
<1> USE DEF Init
<1>1. /\ log \in Seq(Seq(Outcomes)) /\ Len(log) = 0 /\ 1..Len(log) = {}
      /\ carried \in Seq(SUBSET Nat) /\ Len(carried) = 0
      /\ wakes \in Seq([refs : SUBSET Nat, consumed : BOOLEAN]) /\ 1..Len(wakes) = {}
  OBVIOUS
<1>2. BoxOK(mailbox) /\ mailbox.next = 1 /\ Claim = NoClaim /\ Owed(mailbox) = {}
  BY EmptyBox DEF Claim
<1>3. StoreTypes /\ Enqueued /\ ClaimOK /\ Consumed
  BY <1>1, <1>2 DEF StoreTypes, Enqueued, ClaimOK, Consumed
<1>4. Kept
  <2>1. 1..(mailbox.next - 1) = {}
    BY <1>2
  <2>2. QED
    BY <2>1 DEF Kept
<1>5. /\ NoTurn \in Turns(Len(log)) /\ NoTurn.status = "none"
      /\ IdleHost \in Hosts(Len(log)) /\ IdleHost.stage = "idle"
      /\ IdlePass \in Passes(Len(log)) /\ IdlePass.stage = "idle"
  BY <1>1, NoneFacts
<1>6. NativeTypes /\ Evidence /\ Fresh /\ Shut
  BY <1>1, <1>5 DEF NativeTypes, Evidence, Fresh, Shut
<1>7. Held /\ OnceOnly
  BY <1>1 DEF Held, OnceOnly
<1>8. QED
  BY <1>2, <1>3, <1>4, <1>6, <1>7 DEF IInv, MailInv, NativeInv

LEMMA NextIInv == IInv /\ [Next]_vars => IInv'
<1> SUFFICES ASSUME IInv, [Next]_vars PROVE IInv'
  OBVIOUS
<1>1. CASE UNCHANGED vars
  BY <1>1, QuietKeeps
<1>2. CASE Next
  BY <1>2, CommandsKeep, ClaimKeeps, InspectKeeps, ResubmitKeeps, PrepareKeeps, SendKeeps,
     HandleKeeps, ReplaceKeeps, QuietKeeps, ObservationKeeps, RegisterKeeps, SubmitKeeps,
     PublishKeeps, ResolveKeeps, HostKeeps
     DEF Next
<1>3. QED
  BY <1>1, <1>2

LEMMA IInvariance == Spec => []IInv
BY InitIInv, NextIInv, PTL DEF Spec

(* validateWorkMailbox never throws on the Leader's mailbox: through every order
   of signals, claims, settlements, retirements and session replacements its
   batches keep to their envelopes and no dedupe key is held twice. *)
THEOREM MailboxValidTheorem == Spec => []MailboxValid
<1>1. IInv => MailboxValid
  <2> SUFFICES ASSUME IInv PROVE MailboxValid
    OBVIOUS
  <2>1. BoxOK(mailbox)
    BY DEF IInv, MailInv
  <2>2. KeysApart(mailbox) /\ Len(mailbox.recent) <= RecentLimit
    BY <2>1 DEF BoxOK
  <2>3. ASSUME NEW b \in {mailbox.processing.batch, mailbox.pending} \ {NoBatch}
        PROVE  /\ ValidBatch(b) /\ b.to < mailbox.next
               /\ ToSet(b.keys) \cap ToSet(mailbox.recent) = {}
    <3>1. BatchOK(b, mailbox.next) /\ b \in Batches
      BY <2>1, BoxFacts DEF BoxOK
    <3>2. ValidBatch(b) /\ b.to < mailbox.next
      BY <3>1 DEF BatchOK, ValidBatch, Batches
    <3>3. QED
      BY <2>2, <3>2 DEF KeysApart
  <2>4. QED
    BY <2>2, <2>3 DEF MailboxValid, Valid, KeysApart
<1>2. QED
  BY <1>1, IInvariance, PTL

(* No signal leaves the Leader's mailbox without a reason the store can show:
   a consumed wake, a rejected or resolved attempt, or a retired Message
   (settleLeaderNotification, task wake resolve, settleExactWorkExecution). *)
THEOREM NothingLostTheorem == Spec => []NothingLost
<1>1. IInv => NothingLost
  <2> SUFFICES ASSUME IInv PROVE NothingLost
    OBVIOUS
  <2>1. Kept /\ DOMAIN wakes = 1..Len(wakes)
    BY MailFacts DEF IInv, MailInv
  <2>2. QED
    BY <2>1 DEF NothingLost, Kept, Excused, Attempts
<1>2. QED
  BY <1>1, IInvariance, PTL

(* No signal is given to the native session twice, through any number of
   crashes, lost replies, late receipts and Host deaths, unless a session
   replacement released it (claimLeaderNotification, completeRuntimeCleanup). *)
THEOREM NoReplayTheorem == Spec => []NoReplay
<1>1. IInv => NoReplay
  <2> SUFFICES ASSUME IInv, NEW a \in delivered, NEW b \in delivered, a # b
               PROVE  carried[a] \cap carried[b] \subseteq reissued
    BY DEF NoReplay
  <2>1. a \in 1..Len(log) /\ b \in 1..Len(log)
    BY NativeFacts
  <2>2. Open(a) /\ Open(b)
    BY DEF Open
  <2>3. QED
    BY <2>1, <2>2 DEF IInv, NativeInv, OnceOnly
<1>2. QED
  BY <1>1, IInvariance, PTL

(* A notification.delivery event tells the truth about the native session: what
   is recorded as rejected or deferred was not taken and never will be, and
   what is recorded as accepted was (processLeaderWakeups, submitRun). *)
THEOREM HonestOutcomesTheorem == Spec => []HonestOutcomes
<1>1. IInv => HonestOutcomes
  <2> SUFFICES ASSUME IInv, NEW a \in 1..Len(log)
               PROVE  /\ {"rejected", "deferred"} \cap ToSet(log[a]) # {} => a \notin delivered
                      /\ "accepted" \in ToSet(log[a]) \/ a \in accepted => a \in delivered
    BY DEF HonestOutcomes, Attempts
  <2>1. Shut /\ Evidence
    BY DEF IInv, NativeInv
  <2>2. {"rejected", "deferred"} \cap ToSet(log[a]) # {} => a \notin delivered
    BY <2>1 DEF Shut, Open
  <2>3. "accepted" \in ToSet(log[a]) \/ a \in accepted => a \in delivered
    BY <2>1 DEF Evidence
  <2>4. QED
    BY <2>2, <2>3
<1>2. QED
  BY <1>1, IInvariance, PTL

(* A wake is consumed only for an attempt that the native session took, and then
   none of its signals is owed any more (settleLeaderNotification). *)
THEOREM ConsumedWasTakenTheorem == Spec => []ConsumedWasTaken
<1>1. IInv => ConsumedWasTaken
  <2> SUFFICES ASSUME IInv PROVE ConsumedWasTaken
    OBVIOUS
  <2>1. Consumed /\ DOMAIN wakes = 1..Len(wakes)
    BY MailFacts DEF IInv, MailInv
  <2>2. QED
    BY <2>1 DEF ConsumedWasTaken, Consumed
<1>2. QED
  BY <1>1, IInvariance, PTL

(* Attempt a was shut and is not opened again *)
StaysShut == \A a \in 1..Len(log) : ~Open(a) => ~Open(a)'

(* An attempt that the native session has not taken, and that neither the pass nor
   the Host may still hand over, is never taken later: not by a Host that outlives
   a Controller crash, not through a late registration, not by a replaced session.
   It is this that lets claimLeaderNotification try a deferred wake again. *)
THEOREM AttemptStaysShut == Spec => [][StaysShut]_vars
<1>1. ASSUME IInv, Next, NEW a \in 1..Len(log), ~Open(a) PROVE ~Open(a)'
  <2>0. /\ Len(log) \in Nat /\ host \in Hosts(Len(log)) /\ pass \in Passes(Len(log))
        /\ IdleHost.stage = "idle" /\ IdlePass.stage = "idle" /\ a # Len(log) + 1
    BY <1>1, NativeFacts, NoneFacts
  <2>1. a \notin delivered'
    <3>1. delivered' = delivered
          \/ (host.stage = "registered" /\ delivered' = delivered \cup {host.attempt})
      BY <1>1 DEF Next, Enqueue, RetireMessage, ResolveWake, RequestReplacement, ClaimWake,
         InspectSettled, InspectUnknown, Resubmit, PrepareFails, Send, ReplyFails, HandleReply, Crash,
         ReplaceSession, StopSession, ApplyObservation, Register, RegisterFails, NativeTakes,
         NativeFails, Publish, ResolveSubmission, Observe, HostDies, DirectTurn, history
    <3>2. QED
      BY <1>1, <3>1 DEF Open
  <2>2. ~(host'.stage \in {"asked", "registered"} /\ host'.attempt = a)
    <3>1. \/ host' = host \/ host' = IdleHost
          \/ host' = [stage |-> "asked", attempt |-> pass.attempt] /\ pass.stage = "claimed"
          \/ host' = [host EXCEPT !.stage = "registered"] /\ host.stage = "asked"
          \/ \E stage \in HostStages \ {"asked", "registered"} : host' = [host EXCEPT !.stage = stage]
      <4>1. {"receipt", "transport", "refused", "deferring", "doubt", "held"}
              \subseteq HostStages \ {"asked", "registered"}
        BY DEF HostStages
      <4>2. CASE Register \/ RegisterFails
        BY <4>1, <4>2 DEF Register, RegisterFails
      <4>3. CASE NativeTakes \/ NativeFails
        BY <4>1, <4>3 DEF NativeTakes, NativeFails
      <4>4. CASE Publish \/ ResolveSubmission
        BY <4>1, <4>4 DEF Publish, ResolveSubmission
      <4>5. CASE Send
        BY <4>5 DEF Send
      <4>6. CASE ~(Register \/ RegisterFails \/ NativeTakes \/ NativeFails \/ Publish
                   \/ ResolveSubmission \/ Send)
        BY <1>1, <4>6 DEF Next, Enqueue, RetireMessage, ResolveWake, RequestReplacement, ClaimWake,
           InspectSettled, InspectUnknown, Resubmit, PrepareFails, ReplyFails, HandleReply, Crash,
           ReplaceSession, StopSession, ApplyObservation, Observe, HostDies, DirectTurn
      <4>7. QED
        BY <4>2, <4>3, <4>4, <4>5, <4>6
    <3>2. \A stage : host' = [host EXCEPT !.stage = stage] =>
            host'.stage = stage /\ host'.attempt = host.attempt
      BY <2>0 DEF Hosts
    <3>3. CASE host' = host \/ host' = IdleHost
      BY <1>1, <2>0, <3>3 DEF Open
    <3>4. CASE host' = [stage |-> "asked", attempt |-> pass.attempt] /\ pass.stage = "claimed"
      BY <1>1, <3>4 DEF Open
    <3>5. CASE host' = [host EXCEPT !.stage = "registered"] /\ host.stage = "asked"
      BY <1>1, <3>2, <3>5 DEF Open
    <3>6. CASE \E stage \in HostStages \ {"asked", "registered"} :
                 host' = [host EXCEPT !.stage = stage]
      BY <3>2, <3>6
    <3>7. QED
      BY <3>1, <3>3, <3>4, <3>5, <3>6
  <2>3. ~(pass'.stage = "claimed" /\ pass'.attempt = a)
    <3>1. \/ pass' = pass \/ pass' = IdlePass
          \/ pass' = [stage |-> "claimed", attempt |-> Len(log) + 1, reply |-> "none"]
          \/ pass' = [pass EXCEPT !.stage = "sending"]
          \/ \E reply \in Replies : pass' = [pass EXCEPT !.stage = "replied", !.reply = reply]
      <4>1. /\ "busy" \in Replies /\ "unavailable" \in Replies /\ "rejected" \in Replies
            /\ "delivery-unknown" \in Replies /\ "pending" \in Replies /\ "delivered" \in Replies
        BY DEF Replies
      <4>2. CASE Register \/ RegisterFails \/ HostDies
        BY <4>1, <4>2 DEF Register, RegisterFails, HostDies, Reply
      <4>3. CASE Publish
        BY <4>1, <4>3 DEF Publish, Reply
      <4>4. CASE ResolveSubmission
        BY <4>1, <4>4, ResolveFacts DEF Reply
      <4>5. CASE Send \/ ReplyFails
        BY <4>1, <4>5 DEF Send, ReplyFails
      <4>6. CASE ~(Register \/ RegisterFails \/ HostDies \/ Publish \/ ResolveSubmission
                   \/ Send \/ ReplyFails)
        BY <1>1, <4>6 DEF Next, Enqueue, RetireMessage, ResolveWake, RequestReplacement, ClaimWake,
           NewAttempt, InspectSettled, InspectUnknown, Resubmit, PrepareFails, HandleReply, Crash,
           ReplaceSession, StopSession, ApplyObservation, NativeTakes, NativeFails, Observe, DirectTurn
      <4>7. QED
        BY <4>2, <4>3, <4>4, <4>5, <4>6
    <3>2. CASE pass' = pass \/ pass' = IdlePass
      BY <1>1, <2>0, <3>2 DEF Open
    <3>3. CASE pass' = [stage |-> "claimed", attempt |-> Len(log) + 1, reply |-> "none"]
      <4>1. PICK n : n = Len(log) + 1
        OBVIOUS
      <4>2. pass' = [stage |-> "claimed", attempt |-> n, reply |-> "none"] /\ a # n
        BY <2>0, <3>3, <4>1
      <4>3. QED
        BY <4>2
    <3>4. CASE pass' = [pass EXCEPT !.stage = "sending"]
      BY <2>0, <3>4 DEF Passes
    <3>5. CASE \E reply \in Replies : pass' = [pass EXCEPT !.stage = "replied", !.reply = reply]
      BY <2>0, <3>5 DEF Passes
    <3>6. QED
      BY <3>1, <3>2, <3>3, <3>4, <3>5
  <2>4. QED
    BY <2>1, <2>2, <2>3 DEF Open
<1>2. ASSUME IInv, [Next]_vars PROVE [StaysShut]_vars
  BY <1>1, <1>2 DEF StaysShut
<1>3. QED
  BY <1>2, IInvariance, PTL DEF Spec
================================================================================
