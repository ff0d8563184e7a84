--------------------------- MODULE RunDeliveryProofs ---------------------------
(***************************************************************************)
(* The delivery of AgentRuns for any Runs, any number of faults and any    *)
(* limit of the mailbox: a dispatch is never dropped, a Run ends as it     *)
(* really went, and RunLifecycle is implemented.                           *)
(*                                                                         *)
(* The argument.  While a Run is active, an attempt of it that the native  *)
(* session took, or that the Host is about to hand over, occupies the      *)
(* Provider binding, and an occupied binding fences every further attempt. *)
(* A pass that prepares or sends the input of the active Run therefore     *)
(* knows that nothing of it was taken, and so does every reply that        *)
(* refuses it.  One thing has to be granted for this: that a request does  *)
(* not wait at the Host, unregistered, while a later pass begins           *)
(* (LateRegistration); the fate of the dispatch does not depend on it.     *)
(***************************************************************************)
EXTENDS RunDelivery, FiniteSetTheorems, TLAPS

----------------------------------------------------------------------------
(* The inductive invariant, in two parts.  What holds in any case: *)

Tokens == [from : Nat, to : Nat]
Turns(n) == [attempt : 0..n, status : TurnStatuses]
Observations(n) == [attempt : 1..n, kind : {"accepted", "terminal"}]
Hosts(n) == [stage : HostStages, attempt : 0..n]
Passes(n) == [stage : PassStages, run : Runs \cup {NoRun}, attempt : 0..n,
              token : Tokens, reply : Replies]

RunTypes ==
  /\ runs \in [Runs -> RunStatuses]
  /\ activeRun \in Runs \cup {NoRun}
  /\ reports \in [Runs -> Nat]
  /\ attempts \in Seq(Runs)

NativeTypes ==
  /\ provider \in Turns(Len(attempts))
  /\ inbox \subseteq Observations(Len(attempts))
  /\ host \in Hosts(Len(attempts))
  /\ pass \in Passes(Len(attempts))
  /\ taken \subseteq 1..Len(attempts)

\* One Run is active, and one that ended was reported once
RunsOK ==
  \A r \in Runs :
    /\ runs[r] = "active" <=> activeRun = r
    /\ reports[r] = IF runs[r] \in {"none", "active"} THEN 0 ELSE 1

\* The dispatch of r, the n-th signal of the mailbox
DispatchOf(r, n) ==
  [from |-> n, to |-> n, count |-> 1, keys |-> <<r>>, refs |-> {n}]

\* The mailbox m holds the dispatch of r, or nothing
Holds(m, r) ==
  /\ r \in Runs /\ r \notin ToSet(m.recent)
  /\ \E n \in 1..(m.next - 1) : m.pending = DispatchOf(r, n)

Batches == [from : Nat, to : Nat, count : Nat, keys : Seq(Runs), refs : SUBSET Nat]
Boxes == [next : Nat \ {0}, processing : {NoClaim}, pending : Batches, recent : Seq(Runs)]

\* The mailbox m among Runs rs, of which act is active
BoxOK(m, rs, act) ==
  /\ m \in Boxes
  /\ Len(m.recent) <= RecentLimit
  /\ \A r \in ToSet(m.recent) : rs[r] # "none"
  /\ m.pending = NoBatch \/ Holds(m, act)

MailboxOK == BoxOK(mailbox, runs, activeRun)

\* The attempt is of a Run that was dispatched
AttemptsOK == \A a \in 1..Len(attempts) : runs[attempts[a]] # "none"

\* What is said of an attempt is true
EvidenceOK ==
  /\ \A o \in inbox : o.attempt \in taken
  /\ provider.status = "accepted" => provider.attempt \in taken \cup {0}
  /\ host.stage \in {"receipt", "transport"} => host.attempt \in taken
  /\ host.stage \notin {"idle", "down", "held"} => host.attempt # 0

PassOK ==
  /\ pass.stage \notin {"idle", "stopping"} =>
       /\ pass.run \in Runs /\ runs[pass.run] # "none"
       /\ pass.attempt # 0 => attempts[pass.attempt] = pass.run
  /\ pass.stage \in {"sending", "replied"} => pass.attempt # 0
  /\ pass.stage = "replied" /\ pass.reply = "delivered" => pass.attempt \in taken

\* A Run whose dispatch is gone was taken
NotDropped == activeRun # NoRun => mailbox.pending # NoBatch \/ TakenOf(activeRun) # {}

KInv ==
  /\ RunTypes /\ NativeTypes
  /\ RunsOK /\ MailboxOK /\ AttemptsOK /\ NotDropped
  /\ EvidenceOK /\ PassOK

----------------------------------------------------------------------------
(* And what holds where a request does not outlast its pass unregistered: *)

\* Attempt a occupies the binding; only a cleanup lets go of it
Occupies(a) ==
  /\ provider.attempt = a
  /\ Active(provider) \/ (cleanup # "none" /\ provider.status \in {"completed", "cancelled"})

\* The Host is about to hand over attempt a
Handing(a) == host.stage = "registered" /\ host.attempt = a

Occupied ==
  \A a \in 1..Len(attempts) :
    (a \in taken \/ Handing(a)) /\ attempts[a] = activeRun => Occupies(a)

\* The Host has yet to hand its attempt over, or never will
Untaken ==
  host.stage \in {"asked", "registered", "refused", "deferring"} =>
    TakenOf(attempts[host.attempt]) = {}

NotHanding(r) == host.stage = "registered" => attempts[host.attempt] # r

\* The pass knows that nothing of its Run was taken
Fenced ==
  /\ pass.stage \in {"preparing", "ready"} =>
       /\ host.stage # "asked"
       /\ activeRun = pass.run => TakenOf(pass.run) = {} /\ NotHanding(pass.run)
  /\ pass.stage = "replied" /\ pass.reply = "rejected" =>
       host.stage \in {"idle", "down"} /\ TakenOf(pass.run) = {}

EndsOK ==
  \A r \in Runs :
    /\ runs[r] = "reported" => TakenOf(r) # {}
    /\ runs[r] \in {"startup-failed", "runtime-failed"} => TakenOf(r) = {} /\ NotHanding(r)

SInv == Occupied /\ Untaken /\ Fenced /\ EndsOK

IInv == KInv /\ SInv

----------------------------------------------------------------------------
(* The mailbox *)

(* The batch that holds a dispatch is not the empty one, and has one key. *)
LEMMA DispatchFacts ==
  ASSUME NEW r, NEW n \in Nat \ {0}
  PROVE  /\ DispatchOf(r, n) # NoBatch
         /\ ToSet(DispatchOf(r, n).keys) = {r}
         /\ ToSet(NoBatch.keys) = {}
         /\ Len(DispatchOf(r, n).keys) = DispatchOf(r, n).count
<1>1. DispatchOf(r, n).count = 1 /\ NoBatch.count = 0
  BY DEF DispatchOf, NoBatch
<1>2. ToSet(<<r>>) = {r} /\ ToSet(<<>>) = {}
  BY DEF ToSet
<1>3. QED
  BY <1>1, <1>2 DEF DispatchOf, NoBatch

(* rememberDedupeKeys keeps its limit, and remembers only what it is given. *)
LEMMA RememberOne ==
  ASSUME NEW s \in Seq(Runs), NEW r \in Runs, r \notin ToSet(s), Len(s) <= RecentLimit
  PROVE  /\ Remember(s, <<r>>) \in Seq(Runs)
         /\ Len(Remember(s, <<r>>)) <= RecentLimit
         /\ ToSet(Remember(s, <<r>>)) \subseteq ToSet(s) \cup {r}
<1> DEFINE all == Append(s, r)
<1>1. ToSet(<<r>>) = {r}
  BY DEF ToSet
<1>2. s \o <<r>> = all
  OBVIOUS
<1>3. AppendUnique(s, <<r>>) = all
  BY <1>1, <1>2 DEF AppendUnique
<1>4. all \in Seq(Runs) /\ Len(all) = Len(s) + 1 /\ ToSet(all) \subseteq ToSet(s) \cup {r}
  BY DEF ToSet
<1> HIDE DEF all
<1>5. CASE Len(all) <= RecentLimit
  BY <1>3, <1>4, <1>5 DEF Remember
<1>6. CASE ~(Len(all) <= RecentLimit)
  <2>1. RecentLimit \in Nat \ {0}
    BY RecentLimitAssumption
  <2>2. Len(all) = RecentLimit + 1
    BY <1>4, <1>6, <2>1
  <2> DEFINE cut == SubSeq(all, 2, Len(all))
  <2>3. Remember(s, <<r>>) = cut
    BY <1>3, <1>6, <2>1, <2>2 DEF Remember
  <2>4. cut \in Seq(Runs) /\ Len(cut) = RecentLimit /\ \A i \in 1..Len(cut) : cut[i] = all[i + 1]
    BY <1>4, <2>1, <2>2
  <2> HIDE DEF cut
  <2>5. ToSet(cut) \subseteq ToSet(all)
    BY <1>4, <2>1, <2>2, <2>4 DEF ToSet
  <2>6. QED
    BY <1>4, <2>1, <2>3, <2>4, <2>5
<1>7. QED
  BY <1>5, <1>6

(* A dispatch that waits is captured exactly. *)
LEMMA CaptureFacts ==
  ASSUME KInv, NEW r \in Runs
  PROVE  /\ Capture(r) # NoToken => r = activeRun /\ mailbox.pending # NoBatch
         /\ r = activeRun /\ mailbox.pending # NoBatch => Capture(r) # NoToken
<1>0. BoxOK(mailbox, runs, activeRun) /\ mailbox.next \in Nat \ {0}
  BY DEF KInv, MailboxOK, BoxOK, Boxes
<1>1. CASE mailbox.pending = NoBatch
  <2>1. ToSet(mailbox.pending.keys) = {}
    BY <1>1, DispatchFacts DEF NoBatch, ToSet
  <2>2. QED
    BY <1>1, <2>1 DEF Capture
<1>2. CASE mailbox.pending # NoBatch
  <2>1. PICK n \in 1..(mailbox.next - 1) :
           activeRun \in Runs /\ activeRun \notin ToSet(mailbox.recent)
           /\ mailbox.pending = DispatchOf(activeRun, n)
    BY <1>0, <1>2 DEF BoxOK, Holds
  <2>2. n \in Nat \ {0}
    BY <1>0
  <2>3. ToSet(mailbox.pending.keys) = {activeRun}
        /\ Len(mailbox.pending.keys) = mailbox.pending.count
    BY <2>1, <2>2, DispatchFacts
  <2>4. mailbox.pending.from = n
    BY <2>1 DEF DispatchOf
  <2>5. CASE r = activeRun
    <3>1. Capture(r).from = n
      BY <2>1, <2>3, <2>4, <2>5 DEF Capture
    <3>2. NoToken.from = 0
      BY DEF NoToken
    <3>3. QED
      BY <1>2, <2>2, <2>5, <3>1, <3>2
  <2>6. CASE r # activeRun
    BY <2>3, <2>6 DEF Capture
  <2>7. QED
    BY <2>5, <2>6
<1>3. QED
  BY <1>1, <1>2

(* A settled mailbox is the one before, or the dispatch of r is gone from it. *)
LEMMA SettledFacts ==
  ASSUME KInv, NEW r \in Runs, NEW token, NEW m, m = SettledDispatch(r, token)
  PROVE  /\ BoxOK(m, runs, activeRun)
         /\ m = mailbox \/ (r = activeRun /\ m.pending = NoBatch)
         /\ r = activeRun /\ token = Capture(r) => m.pending = NoBatch
<1>0. BoxOK(mailbox, runs, activeRun) /\ mailbox.next \in Nat \ {0}
  BY DEF KInv, MailboxOK, BoxOK, Boxes
<1>1. CASE token = NoToken \/ Capture(r) # token
  <2>1. m = mailbox
    BY <1>1 DEF SettledDispatch
  <2>2. QED
    BY <1>0, <1>1, <2>1, CaptureFacts
<1>2. CASE ~(token = NoToken \/ Capture(r) # token)
  <2>1. r = activeRun /\ mailbox.pending # NoBatch
    BY <1>2, CaptureFacts
  <2>2. PICK n \in 1..(mailbox.next - 1) :
           activeRun \notin ToSet(mailbox.recent) /\ mailbox.pending = DispatchOf(activeRun, n)
    BY <1>0, <2>1 DEF BoxOK, Holds
  <2>3. mailbox.pending.keys = <<r>>
    BY <2>1, <2>2 DEF DispatchOf
  <2> DEFINE rec == Remember(mailbox.recent, <<r>>)
  <2>4. /\ mailbox \in Boxes
        /\ mailbox.recent \in Seq(Runs) /\ Len(mailbox.recent) <= RecentLimit
        /\ \A q \in ToSet(mailbox.recent) : runs[q] # "none"
    BY <1>0 DEF BoxOK, Boxes
  <2>5. rec \in Seq(Runs) /\ Len(rec) <= RecentLimit
        /\ ToSet(rec) \subseteq ToSet(mailbox.recent) \cup {r}
    BY <2>1, <2>2, <2>4, RememberOne
  <2>6. runs[r] # "none"
    BY <2>1 DEF KInv, RunsOK
  <2>7. m = [mailbox EXCEPT !.recent = rec, !.pending = NoBatch]
    BY <1>2, <2>3 DEF SettledDispatch, ConsumePendingBatch
  <2> HIDE DEF rec
  <2>8. NoBatch \in Batches
    BY DEF NoBatch, Batches
  <2>9. m \in Boxes /\ m.pending = NoBatch /\ m.recent = rec
    BY <2>4, <2>5, <2>7, <2>8 DEF Boxes
  <2>10. BoxOK(m, runs, activeRun)
    BY <1>0, <2>4, <2>5, <2>6, <2>9 DEF BoxOK
  <2>11. QED
    BY <2>1, <2>9, <2>10
<1>3. QED
  BY <1>1, <1>2

(* A Run that is dispatched is new to the mailbox, which was empty. *)
LEMMA EnqueueFacts ==
  ASSUME KInv, NEW r \in Runs, runs[r] = "none", activeRun = NoRun,
         NEW rs, \A q \in Runs : q # r => rs[q] = runs[q], rs[r] # "none"
  PROVE  /\ BoxOK(EnqueueSignal(mailbox, r), rs, r)
         /\ EnqueueSignal(mailbox, r).pending # NoBatch
<1> DEFINE n == mailbox.next
           m == EnqueueSignal(mailbox, r)
<1>1. /\ mailbox \in Boxes /\ mailbox.recent \in Seq(Runs) /\ Len(mailbox.recent) <= RecentLimit
      /\ n \in Nat \ {0} /\ mailbox.processing = NoClaim
      /\ \A q \in ToSet(mailbox.recent) : runs[q] # "none"
      /\ mailbox.pending = NoBatch \/ Holds(mailbox, activeRun)
  BY DEF KInv, MailboxOK, BoxOK, Boxes
<1>2. NoRun \notin Runs /\ r # 0
  BY NoRunAssumption, KeysAssumption DEF Runs
<1>3. mailbox.pending = NoBatch
  BY <1>1, <1>2 DEF Holds
<1>4. ToSet(mailbox.recent) \subseteq Runs
  BY <1>1 DEF ToSet
<1>5. ~ContainsDedupeKey(mailbox, r)
  <2>1. ToSet(mailbox.pending.keys) = {}
    BY <1>3 DEF NoBatch, ToSet
  <2>2. ToSet(mailbox.processing.batch.keys) = {}
    BY <1>1 DEF NoClaim, NoBatch, ToSet
  <2>3. QED
    BY <1>1, <2>1, <2>2 DEF ContainsDedupeKey
<1>6. m = [mailbox EXCEPT !.next = n + 1, !.pending = DispatchOf(r, n)]
  BY <1>2, <1>3, <1>5 DEF EnqueueSignal, DedupeKey, Merged, DispatchOf
<1>7. DispatchOf(r, n) \in Batches
  BY <1>1 DEF DispatchOf, Batches
<1> HIDE DEF m
<1>8. m \in Boxes /\ m.next = n + 1 /\ m.pending = DispatchOf(r, n) /\ m.recent = mailbox.recent
  <2>1. \A b \in Batches, k \in Nat \ {0} :
          LET x == [mailbox EXCEPT !.next = k, !.pending = b]
          IN  x \in Boxes /\ x.next = k /\ x.pending = b /\ x.recent = mailbox.recent
    BY <1>1 DEF Boxes
  <2>2. n + 1 \in Nat \ {0}
    BY <1>1
  <2>3. QED
    BY <1>6, <1>7, <2>1, <2>2
<1>9. Holds(m, r)
  BY <1>1, <1>8 DEF Holds
<1>10. BoxOK(m, rs, r)
  BY <1>1, <1>4, <1>8, <1>9 DEF BoxOK
<1>11. m.pending # NoBatch
  BY <1>1, <1>8, DispatchFacts
<1>12. QED
  BY <1>10, <1>11 DEF m

----------------------------------------------------------------------------
(* What a step does to the Runs and their dispatches *)

Ends(r, outcome) ==
  /\ runs[r] = "active" /\ activeRun = r
  /\ runs' = [runs EXCEPT ![r] = outcome]
  /\ reports' = [reports EXCEPT ![r] = @ + 1]
  /\ mailbox' = SettledDispatch(r, Capture(r))
  /\ activeRun' = NoRun

Begins(r) ==
  /\ runs[r] = "none" /\ activeRun = NoRun
  /\ runs' = [runs EXCEPT ![r] = "active"]
  /\ activeRun' = r
  /\ mailbox' = EnqueueSignal(mailbox, r)
  /\ UNCHANGED reports

Settles(r) ==
  /\ TakenOf(r) # {}
  /\ \E token : mailbox' = SettledDispatch(r, token)
  /\ UNCHANGED <<runs, activeRun, reports>>

Outcomes == RunStatuses \ {"none", "active"}

RunStep ==
  \/ UNCHANGED runState
  \/ \E r \in Runs : Begins(r) \/ Settles(r)
  \/ \E r \in Runs, outcome \in Outcomes : Ends(r, outcome)

RunPart == RunTypes /\ RunsOK /\ MailboxOK /\ AttemptsOK /\ NotDropped

Alive == \A r \in Runs : runs[r] # "none" => runs'[r] # "none"

(* The Runs and their dispatches agree after every such step. *)
LEMMA RunStepKeeps ==
  ASSUME KInv, RunStep, attempts' = attempts, taken \subseteq taken'
  PROVE  RunPart' /\ Alive
<1> USE DEF RunPart, Alive
<1>0. /\ runs \in [Runs -> RunStatuses] /\ activeRun \in Runs \cup {NoRun}
      /\ reports \in [Runs -> Nat] /\ attempts \in Seq(Runs)
      /\ NoRun \notin Runs
  BY NoRunAssumption DEF KInv, RunTypes, Runs
<1>1. \A r \in Runs : TakenOf(r) # {} => TakenOf(r)' # {}
  BY DEF TakenOf
<1>2. \A a \in 1..Len(attempts) : attempts[a] \in Runs
  BY <1>0
<1>3. CASE UNCHANGED runState
  <2>1. MailboxOK'
    BY <1>3 DEF KInv, MailboxOK, runState
  <2>2. QED
    BY <1>0, <1>1, <1>3, <2>1 DEF KInv, RunTypes, RunsOK, AttemptsOK, NotDropped, runState
<1>4. ASSUME NEW r \in Runs, Begins(r) PROVE RunPart' /\ Alive
  <2>1. runs' \in [Runs -> RunStatuses] /\ runs'[r] = "active"
        /\ \A q \in Runs : q # r => runs'[q] = runs[q]
    BY <1>0, <1>4 DEF Begins, RunStatuses
  <2>2. BoxOK(mailbox', runs', r) /\ mailbox'.pending # NoBatch
    BY <1>4, <2>1, EnqueueFacts DEF Begins
  <2>3. RunTypes'
    BY <1>0, <1>4, <2>1 DEF Begins, RunTypes
  <2>4. RunsOK'
    BY <1>0, <1>4, <2>1 DEF Begins, RunsOK, KInv
  <2>5. AttemptsOK'
    BY <1>2, <2>1 DEF KInv, AttemptsOK
  <2>6. MailboxOK' /\ NotDropped'
    BY <1>4, <2>2 DEF Begins, MailboxOK, NotDropped
  <2>7. QED
    BY <2>1, <2>3, <2>4, <2>5, <2>6
<1>5. ASSUME NEW r \in Runs, Settles(r) PROVE RunPart' /\ Alive
  <2>1. PICK token : mailbox' = SettledDispatch(r, token)
    BY <1>5 DEF Settles
  <2>2. BoxOK(mailbox', runs, activeRun) /\ (mailbox' = mailbox \/ r = activeRun)
    BY <2>1, SettledFacts
  <2>3. MailboxOK'
    BY <1>5, <2>2 DEF Settles, MailboxOK
  <2>4. NotDropped'
    BY <1>1, <1>5, <2>2 DEF Settles, NotDropped, KInv, RunTypes
  <2>5. QED
    BY <1>0, <1>5, <2>3, <2>4 DEF Settles, KInv, RunTypes, RunsOK, AttemptsOK
<1>6. ASSUME NEW r \in Runs, NEW outcome \in Outcomes, Ends(r, outcome) PROVE RunPart' /\ Alive
  <2>1. runs' \in [Runs -> RunStatuses] /\ runs'[r] = outcome
        /\ \A q \in Runs : q # r => runs'[q] = runs[q]
    BY <1>0, <1>6 DEF Ends, Outcomes
  <2>2. reports' \in [Runs -> Nat] /\ reports'[r] = reports[r] + 1
        /\ \A q \in Runs : q # r => reports'[q] = reports[q]
    BY <1>0, <1>6 DEF Ends
  <2>3. outcome # "none" /\ outcome # "active"
    BY DEF Outcomes
  <2>4. RunTypes' /\ RunsOK'
    BY <1>0, <1>6, <2>1, <2>2, <2>3 DEF Ends, RunTypes, RunsOK, KInv
  <2>5. AttemptsOK' /\ NotDropped' /\ Alive
    BY <1>2, <1>6, <2>1, <2>3 DEF Ends, KInv, AttemptsOK, NotDropped
  <2>6. BoxOK(mailbox', runs, activeRun) /\ mailbox'.pending = NoBatch
    BY <1>6, SettledFacts DEF Ends
  <2>7. ToSet(mailbox'.recent) \subseteq Runs
    BY <2>6 DEF BoxOK, Boxes, ToSet
  <2>8. MailboxOK'
    BY <2>1, <2>3, <2>6, <2>7 DEF MailboxOK, BoxOK
  <2>9. QED
    BY <2>4, <2>5, <2>8
<1>7. QED
  BY <1>3, <1>4, <1>5, <1>6 DEF RunStep

----------------------------------------------------------------------------
(* What a step does to the turn, the pass and the Host *)

NativePart == NativeTypes /\ EvidenceOK /\ PassOK

(* The transitions of a turn keep its attempt. *)
LEMMA TurnFacts ==
  ASSUME NEW n \in Nat, NEW t \in Turns(n)
  PROVE  /\ EndTurn(t) \in Turns(n) /\ EndTurn(t).attempt = t.attempt
         /\ EndTurn(t) = t \/ EndTurn(t).status = "completed"
         /\ CancelQuiescent(t) \in Turns(n) /\ CancelQuiescent(t).attempt = t.attempt
         /\ CancelQuiescent(t) = t \/ CancelQuiescent(t).status = "cancelled"
         /\ Accept(t) \in Turns(n) /\ Accept(t).attempt = t.attempt
         /\ Accept(t) = t \/ Accept(t).status = "accepted"
         /\ Active(t) => Active(Accept(t))
         /\ ~Active(t) => EndTurn(t) = t /\ CancelQuiescent(t) = t
BY DEF EndTurn, CancelQuiescent, Accept, Active, Turns, TurnStatuses

LEMMA NoneFacts ==
  ASSUME NEW n \in Nat
  PROVE  /\ NoTurn \in Turns(n) /\ NoTurn.status = "none" /\ NoTurn.attempt = 0
         /\ IdleHost \in Hosts(n) /\ IdleHost.stage = "idle" /\ IdleHost.attempt = 0
         /\ NoHost \in Hosts(n) /\ NoHost.stage = "down" /\ NoHost.attempt = 0
         /\ IdlePass \in Passes(n) /\ IdlePass.stage = "idle" /\ IdlePass.attempt = 0
         /\ IdlePass.reply = "none" /\ IdlePass.run = NoRun
         /\ DirectInput \in Turns(n) /\ DirectInput.attempt = 0
         /\ DirectInput.status = "accepted"
         /\ \A a \in 0..n : Begin(a) \in Turns(n) /\ Begin(a).attempt = a
                              /\ Begin(a).status = "submitting"
<1>1. 0 \in 0..n
  OBVIOUS
<1>2. NoToken \in Tokens
  BY DEF NoToken, Tokens
<1>3. QED
  BY <1>1, <1>2 DEF NoTurn, Turns, TurnStatuses, IdleHost, NoHost, Hosts, HostStages, IdlePass,
     Passes, PassStages, Replies, DirectInput, Begin

(* The pass that goes on, or gives up, knows what it knew. *)
LEMMA PassStands ==
  ASSUME KInv, attempts' = attempts, taken \subseteq taken', Alive,
         pass' = pass \/ pass' = IdlePass \/ pass' = [IdlePass EXCEPT !.stage = "stopping"]
  PROVE  (pass \in Passes(Len(attempts)))' /\ PassOK'
<1>0. Len(attempts) \in Nat /\ pass \in Passes(Len(attempts))
  BY DEF KInv, RunTypes, NativeTypes
<1>1. CASE pass' = pass
  BY <1>0, <1>1 DEF KInv, PassOK, Alive
<1>2. CASE pass' = IdlePass \/ pass' = [IdlePass EXCEPT !.stage = "stopping"]
  <2>1. IdlePass \in Passes(Len(attempts)) /\ IdlePass.stage = "idle"
    BY <1>0, NoneFacts
  <2>2. pass' \in Passes(Len(attempts)) /\ pass'.stage \in {"idle", "stopping"}
    BY <1>2, <2>1 DEF Passes, PassStages
  <2>3. QED
    BY <2>2 DEF PassOK
<1>3. QED
  BY <1>1, <1>2

(* A reply reaches the pass that waits for it. *)
LEMMA ReplyFacts ==
  ASSUME KInv, NEW a, NEW reply \in Replies, Reply(a, reply), attempts' = attempts,
         taken \subseteq taken', Alive, reply = "delivered" => a \in taken
  PROVE  (pass \in Passes(Len(attempts)))' /\ PassOK'
<1>0. Len(attempts) \in Nat /\ pass \in Passes(Len(attempts)) /\ PassOK
  BY DEF KInv, RunTypes, NativeTypes
<1>1. CASE pass.stage = "sending" /\ pass.attempt = a
  <2>1. pass' = [pass EXCEPT !.stage = "replied", !.reply = reply]
    BY <1>1 DEF Reply
  <2>2. /\ pass' \in Passes(Len(attempts)) /\ pass'.stage = "replied" /\ pass'.reply = reply
        /\ pass'.run = pass.run /\ pass'.attempt = pass.attempt
    BY <1>0, <2>1 DEF Passes, PassStages
  <2>3. QED
    BY <1>0, <1>1, <2>2 DEF PassOK, Alive
<1>2. CASE ~(pass.stage = "sending" /\ pass.attempt = a)
  BY <1>2, PassStands DEF Reply
<1>3. QED
  BY <1>1, <1>2

(* The native part, put together. *)
LEMMA NativeMoves ==
  ASSUME KInv, attempts' = attempts, RunStep, taken \subseteq taken',
         taken' \subseteq 1..Len(attempts),
         provider' \in Turns(Len(attempts)), inbox' \subseteq Observations(Len(attempts)),
         host' \in Hosts(Len(attempts)),
         (pass \in Passes(Len(attempts)))', PassOK', EvidenceOK'
  PROVE  KInv'
<1>1. NativePart'
  BY DEF NativePart, NativeTypes
<1>2. QED
  BY <1>1, RunStepKeeps DEF KInv, NativePart, RunPart

(* The facts of KInv that the steps below use. *)
LEMMA KFacts ==
  ASSUME KInv
  PROVE  /\ Len(attempts) \in Nat /\ attempts \in Seq(Runs)
         /\ \A a \in 1..Len(attempts) : attempts[a] \in Runs
         /\ NoRun \notin Runs
         /\ provider \in Turns(Len(attempts)) /\ provider.attempt \in 0..Len(attempts)
         /\ provider.status \in TurnStatuses
         /\ inbox \subseteq Observations(Len(attempts))
         /\ \A o \in inbox : o.attempt \in 1..Len(attempts) /\ o.attempt \in taken
         /\ host \in Hosts(Len(attempts)) /\ host.attempt \in 0..Len(attempts)
         /\ host.stage \in HostStages
         /\ pass \in Passes(Len(attempts)) /\ pass.attempt \in 0..Len(attempts)
         /\ taken \subseteq 1..Len(attempts)
         /\ activeRun \in Runs \cup {NoRun}
         /\ \A r \in Runs : runs[r] = "active" <=> activeRun = r
         /\ host.stage \notin {"idle", "down", "held"} => host.attempt \in 1..Len(attempts)
BY NoRunAssumption DEF KInv, RunTypes, NativeTypes, EvidenceOK, RunsOK, Turns, Observations, Hosts,
   Passes, Runs

(* terminalizeExactTaskRun ends the Run or does nothing. *)
LEMMA TerminalizeFacts ==
  ASSUME NEW r \in Runs, NEW outcome \in Outcomes, Terminalize(r, outcome)
  PROVE  RunStep /\ (Ends(r, outcome) \/ UNCHANGED runState)
BY DEF Terminalize, RunStep, Ends

(* Nothing that is said of an attempt stops being true while it is not changed. *)
LEMMA EvidenceStands ==
  ASSUME KInv, taken \subseteq taken', inbox' \subseteq inbox,
         provider' = provider \/ provider'.status # "accepted",
         host' = host \/ host' = NoHost \/ host' = IdleHost
  PROVE  EvidenceOK'
BY NoneFacts DEF KInv, EvidenceOK, IdleHost, NoHost

(* A set of attempts that is not empty has a least one (Min). *)
LEMMA LeastIsOne ==
  ASSUME NEW S \in SUBSET Nat, S # {}
  PROVE  Min(S) \in S
<1> DEFINE R == {ss \in Nat \X Nat : ss[1] < ss[2]}
<1>1. IsWellFoundedOn(R, Nat)
  BY NatLessThanWellFounded DEF OpToRel
<1>2. \A x, y \in Nat : <<y, x>> \notin R => x <= y
  OBVIOUS
<1> HIDE DEF R
<1>3. PICK x \in S : \A y \in S : ~(<<y, x>> \in R)
  BY <1>1, WFMin, Zenon
<1>4. \A y \in S : x <= y
  BY <1>2, <1>3
<1>5. QED
  BY <1>4 DEF Min

(* What a capture names. *)
LEMMA CaptureIsToken ==
  ASSUME KInv, NEW r \in Runs
  PROVE  Capture(r) \in Tokens
<1>1. NoToken \in Tokens
  BY DEF NoToken, Tokens
<1>2. CASE Capture(r) = NoToken
  BY <1>1, <1>2
<1>3. CASE Capture(r) # NoToken
  <2> DEFINE p == mailbox.pending
             i == CHOOSE i \in DOMAIN p.keys : p.keys[i] = r
  <2>1. /\ Capture(r) = [from |-> p.from, to |-> p.from - 1 + i]
        /\ r \in ToSet(p.keys)
    BY <1>3 DEF Capture
  <2>2. p \in Batches
    BY DEF KInv, MailboxOK, BoxOK, Boxes
  <2>3. i \in DOMAIN p.keys
    BY <2>1 DEF ToSet
  <2>4. p.from \in Nat /\ p.keys \in Seq(Runs)
    BY <2>2 DEF Batches
  <2>5. i \in Nat /\ i >= 1
    BY <2>3, <2>4
  <2> HIDE DEF i, p
  <2>6. QED
    BY <2>1, <2>4, <2>5 DEF Tokens
<1>4. QED
  BY <1>2, <1>3

(* The commands keep the first part. *)
LEMMA CommandsKeepK ==
  ASSUME KInv, (\E r \in Runs : Dispatch(r) \/ Retire(r)) \/ RequestCleanup
  PROVE  KInv'
<1>1. RunStep
  <2>1. ASSUME NEW r \in Runs, Dispatch(r) PROVE RunStep
    BY <2>1 DEF Dispatch, RunStep, Begins
  <2>2. ASSUME NEW r \in Runs, Retire(r) PROVE RunStep
    <3>1. "missing-result" \in Outcomes
      BY DEF Outcomes, RunStatuses, Failures
    <3>2. QED
      BY <2>2, <3>1, TerminalizeFacts DEF Retire
  <2>3. CASE RequestCleanup
    BY <2>3 DEF RequestCleanup, RunStep
  <2>4. QED
    BY <2>1, <2>2, <2>3
<1>2. UNCHANGED <<attempts, provider, inbox, host, pass, taken>>
  BY DEF Dispatch, Retire, RequestCleanup, native
<1>3. Alive
  BY <1>1, <1>2, RunStepKeeps
<1>4. (pass \in Passes(Len(attempts)))' /\ PassOK'
  BY <1>2, <1>3, PassStands
<1>5. EvidenceOK'
  BY <1>2, EvidenceStands
<1>6. QED
  BY <1>1, <1>2, <1>4, <1>5, KFacts, NativeMoves

(* Steps that change the pass and the Runs only. *)
LEMMA PassOnlyKeepsK ==
  ASSUME KInv, RunStep, UNCHANGED <<attempts, provider, inbox, host, taken>>,
         pass' = pass \/ pass' = IdlePass \/ pass' = [IdlePass EXCEPT !.stage = "stopping"]
  PROVE  KInv'
<1>1. Alive
  BY RunStepKeeps
<1>2. (pass \in Passes(Len(attempts)))' /\ PassOK'
  BY <1>1, PassStands
<1>3. EvidenceOK'
  BY EvidenceStands
<1>4. QED
  BY <1>2, <1>3, KFacts, NativeMoves

(* An accepted turn of a Run was taken. *)
LEMMA AcceptedWasTaken ==
  ASSUME KInv, NEW r \in Runs, Mine(r) = "accepted"
  PROVE  TakenOf(r) # {}
<1>1. provider.attempt # 0 /\ attempts[provider.attempt] = r /\ provider.status = "accepted"
  BY KFacts DEF Mine, RunOf
<1>2. provider.attempt \in taken
  BY <1>1 DEF KInv, EvidenceOK
<1>3. QED
  BY <1>1, <1>2 DEF TakenOf

(* The delivery of a pass up to the session keeps the first part. *)
LEMMA DeliverKeepsK ==
  ASSUME KInv, NEW r \in Runs, SettleAccepted(r) \/ FailRejected(r) \/ StartDelivery(r)
  PROVE  KInv'
<1>1. CASE SettleAccepted(r)
  <2>1. Settles(r)
    BY <1>1, AcceptedWasTaken DEF SettleAccepted, Settles
  <2>2. RunStep /\ UNCHANGED <<attempts, provider, inbox, host, taken, pass>>
    BY <1>1, <2>1 DEF SettleAccepted, RunStep, native
  <2>3. QED
    BY <2>2, PassOnlyKeepsK
<1>2. CASE FailRejected(r)
  <2>1. "runtime-failed" \in Outcomes
    BY DEF Outcomes, RunStatuses, Failures
  <2>2. RunStep /\ UNCHANGED <<attempts, provider, inbox, host, taken, pass>>
    BY <1>2, <2>1, TerminalizeFacts DEF FailRejected, native
  <2>3. QED
    BY <2>2, PassOnlyKeepsK
<1>3. CASE StartDelivery(r)
  <2> DEFINE a == IF MayRetry(r) \/ EarlierAttempts(r) = {} THEN 0 ELSE Min(EarlierAttempts(r))
  <2>1. a \in 0..Len(attempts) /\ (a # 0 => attempts[a] = r)
    <3>1. CASE EarlierAttempts(r) = {}
      BY <3>1, KFacts
    <3>2. CASE EarlierAttempts(r) # {}
      <4>1. EarlierAttempts(r) = {i \in 1..Len(attempts) : attempts[i] = r}
        BY KFacts DEF EarlierAttempts
      <4>2. Min(EarlierAttempts(r)) \in EarlierAttempts(r)
        BY <3>2, <4>1, LeastIsOne
      <4>3. QED
        BY <4>1, <4>2, KFacts
    <3>3. QED
      BY <3>1, <3>2
  <2>2. Capture(r) \in Tokens
    BY CaptureIsToken
  <2>3. pass' = [IdlePass EXCEPT !.stage = "preparing", !.run = r, !.token = Capture(r),
                                 !.attempt = a]
        /\ UNCHANGED <<runState, attempts, provider, inbox, host, taken>>
    BY <1>3 DEF StartDelivery, store, native
  <2> HIDE DEF a
  <2>4. IdlePass \in Passes(Len(attempts)) /\ IdlePass.reply = "none"
    BY KFacts, NoneFacts
  <2>5. pass' \in Passes(Len(attempts)) /\ pass'.stage = "preparing" /\ pass'.run = r
        /\ pass'.attempt = a
    BY <2>1, <2>2, <2>3, <2>4 DEF Passes, PassStages
  <2>6. runs[r] # "none"
    BY <1>3, KFacts DEF StartDelivery, Delivering
  <2>7. runs'[r] # "none"
    BY <2>3, <2>6 DEF runState
  <2>8. PassOK'
    BY <2>1, <2>3, <2>5, <2>7 DEF PassOK
  <2>9. EvidenceOK'
    BY <2>3, EvidenceStands
  <2>10. QED
    BY <2>3, <2>5, <2>8, <2>9, KFacts, NativeMoves DEF RunStep
<1>4. QED
  BY <1>1, <1>2, <1>3

(* The preparation of the session keeps the first part. *)
LEMMA PrepareKeepsK ==
  ASSUME KInv, Prepared \/ PrepareOvertaken \/ PrepareFails
  PROVE  KInv'
<1>1. CASE Prepared
  <2>1. /\ UNCHANGED <<runState, attempts, provider, inbox, taken>>
        /\ pass' = [pass EXCEPT !.stage = "ready"] /\ pass.stage = "preparing"
        /\ host' = host \/ host' = OwningHost \/ host' = IdleHost
    BY <1>1 DEF Prepared, native
  <2>2. pass' \in Passes(Len(attempts)) /\ pass'.stage = "ready" /\ pass'.run = pass.run
        /\ pass'.attempt = pass.attempt
    BY <2>1, KFacts DEF Passes, PassStages
  <2>3. PassOK'
    BY <2>1, <2>2 DEF KInv, PassOK, runState
  <2>4. IdleHost \in Hosts(Len(attempts)) /\ IdleHost.stage = "idle"
    BY KFacts, NoneFacts
  <2>5. OwningHost \in Hosts(Len(attempts)) /\ OwningHost.stage = "held"
    BY KFacts DEF OwningHost, Hosts, HostStages
  <2>6. EvidenceOK'
    BY <2>1, <2>4, <2>5 DEF KInv, EvidenceOK
  <2>7. QED
    BY <2>1, <2>2, <2>3, <2>4, <2>5, <2>6, KFacts, NativeMoves DEF RunStep
<1>2. CASE PrepareOvertaken
  BY <1>2, PassOnlyKeepsK DEF PrepareOvertaken, store, native, RunStep
<1>3. CASE PrepareFails
  <2>1. pass.run \in Runs
    BY <1>3 DEF PrepareFails, Preparing, KInv, PassOK
  <2>2. "startup-failed" \in Outcomes
    BY DEF Outcomes, RunStatuses, Failures
  <2>3. RunStep
    BY <1>3, <2>1, <2>2, TerminalizeFacts DEF PrepareFails, RunStep
  <2>4. QED
    BY <1>3, <2>3, PassOnlyKeepsK DEF PrepareFails, native
<1>4. QED
  BY <1>1, <1>2, <1>3

(* What is said of the attempts so far stays true when one more is named. *)
LEMMA MoreAttempts ==
  ASSUME KInv, NEW r \in Runs, runs[r] # "none", UNCHANGED <<runState, taken>>,
         attempts' = attempts \/ attempts' = Append(attempts, r)
  PROVE  /\ RunPart'
         /\ Len(attempts') \in Nat /\ Len(attempts) <= Len(attempts')
         /\ \A a \in 1..Len(attempts) : attempts'[a] = attempts[a]
         /\ \A q \in Runs : TakenOf(q)' = TakenOf(q)
<1>1. /\ attempts \in Seq(Runs) /\ attempts' \in Seq(Runs)
      /\ Len(attempts) <= Len(attempts')
      /\ \A a \in 1..Len(attempts) : attempts'[a] = attempts[a]
      /\ \A a \in 1..Len(attempts') : a \in 1..Len(attempts) \/ attempts'[a] = r
  BY KFacts
<1>2. \A q \in Runs : TakenOf(q)' = TakenOf(q)
  BY <1>1, KFacts DEF TakenOf
<1>3. RunTypes' /\ RunsOK' /\ MailboxOK'
  BY <1>1 DEF KInv, RunTypes, RunsOK, MailboxOK, runState
<1>4. AttemptsOK'
  BY <1>1 DEF KInv, AttemptsOK, runState
<1>5. NotDropped'
  BY <1>2, KFacts DEF KInv, NotDropped, runState
<1>6. QED
  BY <1>1, <1>2, <1>3, <1>4, <1>5 DEF RunPart

(* What a send does: the attempt has its Run's name, the pass waits or has its
   reply, and the Host took the request or did not. *)
Sent(a, reply) ==
  /\ pass.stage = "ready" /\ activeRun = pass.run
  /\ pass.run \in Runs /\ runs[pass.run] # "none" /\ attempts'[a] = pass.run
  /\ attempts' = attempts \/ attempts' = Append(attempts, pass.run)
  /\ UNCHANGED <<runState, provider, inbox, cleanup, taken>>
  /\ \/ /\ host.stage = "idle" /\ host' = [stage |-> "asked", attempt |-> a]
        /\ pass' = [pass EXCEPT !.stage = "sending", !.attempt = a]
     \/ /\ host' = host /\ reply \in {"unavailable", "rejected", "busy"}
        /\ reply = "rejected" => host.stage = "idle"
        /\ pass' = [pass EXCEPT !.stage = "replied", !.attempt = a, !.reply = reply]

LEMMA SendFacts ==
  ASSUME KInv, Send
  PROVE  \E a \in 1..Len(attempts'), reply \in Replies : Sent(a, reply)
<1> DEFINE a == IF pass.attempt = 0 THEN Len(attempts) + 1 ELSE pass.attempt
<1>1. /\ pass.stage = "ready" /\ activeRun = pass.run /\ NameAttempt
      /\ UNCHANGED <<runState, provider, inbox, cleanup, taken>>
  BY DEF Send, store, native
<1>2. pass.run \in Runs /\ runs[pass.run] # "none"
      /\ (pass.attempt # 0 => attempts[pass.attempt] = pass.run)
  BY <1>1 DEF KInv, PassOK
<1>3. attempts' = IF pass.attempt = 0 THEN Append(attempts, pass.run) ELSE attempts
  BY <1>1 DEF NameAttempt
<1>4. a \in 1..Len(attempts') /\ attempts'[a] = pass.run
  BY <1>2, <1>3, KFacts
<1>5. {"unavailable", "rejected", "busy"} \subseteq Replies
  BY DEF Replies
<1>6. \/ /\ host.stage = "idle" /\ host' = [stage |-> "asked", attempt |-> a]
         /\ pass' = [pass EXCEPT !.stage = "sending", !.attempt = a]
      \/ host' = host /\ Replied(a, "unavailable")
      \/ host' = host /\ Replied(a, "busy")
      \/ host' = host /\ Replied(a, "rejected") /\ host.stage = "idle"
  BY DEF Send
<1> HIDE DEF a
<1>7. QED
  BY <1>1, <1>2, <1>3, <1>4, <1>5, <1>6 DEF Replied, Sent

(* Sending keeps the first part. *)
LEMMA SendKeepsK ==
  ASSUME KInv, Send
  PROVE  KInv'
<1>1. PICK a \in 1..Len(attempts'), reply \in Replies : Sent(a, reply)
  BY SendFacts
<1> USE DEF Sent
<1> DEFINE n == Len(attempts)
           k == Len(attempts')
<1>2. RunPart' /\ n \in Nat /\ k \in Nat /\ n <= k
  BY <1>1, KFacts, MoreAttempts
<1> HIDE DEF k
<1>3. Turns(n) \subseteq Turns(k) /\ Observations(n) \subseteq Observations(k)
      /\ Hosts(n) \subseteq Hosts(k) /\ Passes(n) \subseteq Passes(k)
  BY <1>2 DEF Turns, Observations, Hosts, Passes
<1>4. provider' \in Turns(k) /\ inbox' \subseteq Observations(k) /\ taken' \subseteq 1..k
  BY <1>1, <1>2, <1>3, KFacts
<1>5. host' \in Hosts(k)
  <2>1. a \in 0..k
    BY <1>2 DEF k
  <2>2. [stage |-> "asked", attempt |-> a] \in Hosts(k)
    BY <2>1 DEF Hosts, HostStages
  <2>3. QED
    BY <1>1, <1>3, <2>2, KFacts
<1>6. /\ pass' \in Passes(k) /\ pass'.stage \in {"sending", "replied"}
      /\ pass'.run = pass.run /\ pass'.attempt = a
      /\ pass'.stage = "replied" => pass'.reply = reply /\ reply # "delivered"
  <2>1. pass \in Passes(k) /\ a \in 0..k
    BY <1>2, <1>3, KFacts DEF k
  <2>2. QED
    BY <1>1, <2>1 DEF Passes, PassStages, Replies
<1>7. PassOK'
  BY <1>1, <1>6 DEF PassOK, runState
<1>8. EvidenceOK'
  BY <1>1 DEF KInv, EvidenceOK
<1>9. QED
  BY <1>2, <1>4, <1>5, <1>6, <1>7, <1>8 DEF KInv, RunPart, NativeTypes, k

(* The reply, its loss and a crash keep the first part. *)
LEMMA ReplyKeepsK ==
  ASSUME KInv, ReplyFails \/ HandleReply \/ Crash
  PROVE  KInv'
<1>1. CASE ReplyFails
  <2>1. PICK reply \in {"delivery-unknown", "pending"} :
          pass' = [pass EXCEPT !.stage = "replied", !.reply = reply]
    BY <1>1 DEF ReplyFails
  <2>2. reply \in Replies /\ reply # "delivered" /\ pass.stage = "sending"
        /\ UNCHANGED <<runState, provider, inbox, attempts, host, taken>>
    BY <1>1 DEF ReplyFails, Replies, store, native
  <2>3. /\ pass' \in Passes(Len(attempts)) /\ pass'.stage = "replied" /\ pass'.reply = reply
        /\ pass'.run = pass.run /\ pass'.attempt = pass.attempt
    BY <2>1, <2>2, KFacts DEF Passes, PassStages
  <2>4. PassOK'
    BY <2>2, <2>3 DEF KInv, PassOK, runState
  <2>5. EvidenceOK'
    BY <2>2, EvidenceStands
  <2>6. QED
    BY <2>2, <2>3, <2>4, <2>5, KFacts, NativeMoves DEF RunStep
<1>2. CASE HandleReply
  <2>1. /\ pass.stage = "replied" /\ pass' = IdlePass
        /\ UNCHANGED <<attempts, inbox, host, taken>>
        /\ provider' = provider \/ provider' = [provider EXCEPT !.status = "delivery-unknown"]
    BY <1>2 DEF HandleReply
  <2>2. pass.run \in Runs /\ pass.attempt # 0 /\ attempts[pass.attempt] = pass.run
    BY <2>1 DEF KInv, PassOK
  <2>3. RunStep
    <3>1. CASE pass.reply = "delivered"
      <4>1. TakenOf(pass.run) # {}
        BY <2>1, <2>2, <3>1 DEF KInv, PassOK, TakenOf
      <4>2. Settles(pass.run)
        BY <1>2, <3>1, <4>1 DEF HandleReply, Settles
      <4>3. QED
        BY <2>2, <4>2 DEF RunStep
    <3>2. CASE pass.reply = "rejected"
      <4>1. "runtime-failed" \in Outcomes
        BY DEF Outcomes, RunStatuses, Failures
      <4>2. Terminalize(pass.run, "runtime-failed")
        BY <1>2, <3>2 DEF HandleReply
      <4>3. QED
        BY <2>2, <4>1, <4>2, TerminalizeFacts
    <3>3. CASE pass.reply # "delivered" /\ pass.reply # "rejected"
      BY <1>2, <3>3 DEF HandleReply, RunStep
    <3>4. QED
      BY <3>1, <3>2, <3>3
  <2>4. provider' \in Turns(Len(attempts))
        /\ (provider' = provider \/ provider'.status # "accepted")
    BY <2>1, KFacts DEF Turns, TurnStatuses
  <2>5. Alive
    BY <2>1, <2>3, RunStepKeeps
  <2>6. (pass \in Passes(Len(attempts)))' /\ PassOK'
    BY <2>1, <2>5, PassStands
  <2>7. EvidenceOK'
    BY <2>1, <2>4, EvidenceStands
  <2>8. QED
    BY <2>1, <2>3, <2>4, <2>6, <2>7, KFacts, NativeMoves
<1>3. CASE Crash
  BY <1>3, PassOnlyKeepsK DEF Crash, store, native, RunStep
<1>4. QED
  BY <1>1, <1>2, <1>3

(* A cleanup keeps the first part. *)
LEMMA CleanupKeepsK ==
  ASSUME KInv, Quiesce \/ CompleteCleanup \/ CleanupFails
  PROVE  KInv'
<1>1. CASE Quiesce
  <2>1. /\ provider' = CancelQuiescent(provider) \/ provider' = EndTurn(provider)
        /\ pass' = [IdlePass EXCEPT !.stage = "stopping"]
        /\ UNCHANGED <<runState, attempts, inbox, host, taken>>
    BY <1>1 DEF Quiesce
  <2>2. provider' \in Turns(Len(attempts))
        /\ (provider' = provider \/ provider'.status # "accepted")
    BY <2>1, KFacts, TurnFacts
  <2>3. RunStep
    BY <2>1 DEF RunStep
  <2>4. Alive
    BY <2>1, <2>3, RunStepKeeps
  <2>5. (pass \in Passes(Len(attempts)))' /\ PassOK'
    BY <2>1, <2>4, PassStands
  <2>6. EvidenceOK'
    BY <2>1, <2>2, EvidenceStands
  <2>7. QED
    BY <2>1, <2>2, <2>3, <2>5, <2>6, KFacts, NativeMoves
<1>2. CASE CompleteCleanup
  <2>1. /\ provider' = CancelQuiescent(provider) \/ provider' = NoTurn
        /\ inbox' = inbox \/ inbox' = {}
        /\ pass' = IdlePass /\ host' = NoHost /\ UNCHANGED <<attempts, taken>>
    BY <1>2 DEF CompleteCleanup
  <2>2. provider' \in Turns(Len(attempts))
        /\ (provider' = provider \/ provider'.status # "accepted")
    BY <2>1, KFacts, TurnFacts, NoneFacts
  <2>3. RunStep
    <3>1. "cancelled" \in Outcomes
      BY DEF Outcomes, RunStatuses, Failures
    <3>2. QED
      BY <1>2, <3>1, KFacts, TerminalizeFacts DEF CompleteCleanup, RunStep
  <2>4. Alive
    BY <2>1, <2>3, RunStepKeeps
  <2>5. (pass \in Passes(Len(attempts)))' /\ PassOK'
    BY <2>1, <2>4, PassStands
  <2>6. EvidenceOK'
    BY <2>1, <2>2, EvidenceStands
  <2>7. host' \in Hosts(Len(attempts))
    BY <2>1, KFacts, NoneFacts
  <2>8. inbox' \subseteq Observations(Len(attempts))
    BY <2>1, KFacts
  <2>9. QED
    BY <2>1, <2>2, <2>3, <2>5, <2>6, <2>7, <2>8, KFacts, NativeMoves
<1>3. CASE CleanupFails
  BY <1>3, PassOnlyKeepsK DEF CleanupFails, store, native, RunStep
<1>4. QED
  BY <1>1, <1>2, <1>3

(* An observation keeps the first part: what it says was taken. *)
LEMMA ObservationKeepsK ==
  ASSUME KInv, NEW o \in inbox, ApplyObservation(o)
  PROVE  KInv'
<1>1. UNCHANGED <<attempts, pass, host, taken>> /\ inbox' \subseteq inbox
  BY DEF ApplyObservation
<1>2. o.attempt \in 1..Len(attempts) /\ o.attempt \in taken /\ attempts[o.attempt] \in Runs
  BY KFacts
<1>3. RunStep
  <2>1. "reported" \in Outcomes
    BY DEF Outcomes, RunStatuses
  <2>2. Terminalize(attempts[o.attempt], "reported") \/ UNCHANGED runState
    BY DEF ApplyObservation
  <2>3. QED
    BY <1>2, <2>1, <2>2, TerminalizeFacts DEF RunStep
<1>4. \/ provider' = provider \/ provider' = EndTurn(provider)
      \/ provider' = Accept(provider) /\ provider.attempt = o.attempt
  BY DEF ApplyObservation, Current
<1>5. /\ provider' \in Turns(Len(attempts))
      /\ provider' = provider \/ provider'.status # "accepted" \/ provider'.attempt = o.attempt
  BY <1>4, KFacts, TurnFacts
<1>6. EvidenceOK'
  BY <1>1, <1>2, <1>5 DEF KInv, EvidenceOK
<1>7. Alive
  BY <1>1, <1>3, RunStepKeeps
<1>8. (pass \in Passes(Len(attempts)))' /\ PassOK'
  BY <1>1, <1>7, PassStands
<1>9. QED
  BY <1>1, <1>3, <1>5, <1>6, <1>8, KFacts, NativeMoves

(* A step of the Host: the Runs stand, and the pass gets a reply or nothing. *)
LEMMA HostMoves ==
  ASSUME KInv, UNCHANGED <<runState, attempts>>, taken \subseteq taken',
         taken' \subseteq 1..Len(attempts),
         pass' = pass \/ ((pass \in Passes(Len(attempts)))' /\ PassOK'),
         provider' \in Turns(Len(attempts)), inbox' \subseteq Observations(Len(attempts)),
         host' \in Hosts(Len(attempts)), EvidenceOK'
  PROVE  KInv'
<1>1. RunStep
  BY DEF RunStep
<1>2. Alive
  BY <1>1, RunStepKeeps
<1>3. (pass \in Passes(Len(attempts)))' /\ PassOK'
  BY <1>2, PassStands
<1>4. QED
  BY <1>1, <1>3, NativeMoves

LEMMA HostReplies ==
  ASSUME KInv, UNCHANGED <<runState, attempts>>, taken \subseteq taken',
         NEW a, NEW reply \in Replies, Reply(a, reply), reply = "delivered" => a \in taken
  PROVE  (pass \in Passes(Len(attempts)))' /\ PassOK'
<1>1. Alive
  BY DEF Alive, runState
<1>2. QED
  BY <1>1, ReplyFacts

(* The stages of the Host are typed. *)
LEMMA HostStaged ==
  ASSUME KInv, NEW stage \in HostStages
  PROVE  /\ [host EXCEPT !.stage = stage] \in Hosts(Len(attempts))
         /\ [host EXCEPT !.stage = stage].stage = stage
         /\ [host EXCEPT !.stage = stage].attempt = host.attempt
         /\ IdleHost \in Hosts(Len(attempts)) /\ IdleHost.stage = "idle"
         /\ NoHost \in Hosts(Len(attempts)) /\ NoHost.stage = "down"
BY KFacts, NoneFacts DEF Hosts

(* The turns a Host may record. *)
LEMMA TurnRecorded ==
  ASSUME KInv, NEW status \in TurnStatuses
  PROVE  /\ [provider EXCEPT !.status = status] \in Turns(Len(attempts))
         /\ [provider EXCEPT !.status = status].status = status
         /\ [provider EXCEPT !.status = status].attempt = provider.attempt
         /\ [attempt |-> host.attempt, status |-> status] \in Turns(Len(attempts))
         /\ Begin(host.attempt) \in Turns(Len(attempts))
         /\ Begin(host.attempt).status = "submitting"
         /\ Begin(host.attempt).attempt = host.attempt
BY KFacts, NoneFacts DEF Turns

(* Registration keeps the first part. *)
LEMMA RegisterKeepsK ==
  ASSUME KInv, Register \/ RegisterFails
  PROVE  KInv'
<1>1. /\ UNCHANGED <<runState, attempts, inbox, taken>>
      /\ \/ provider' = provider \/ provider' = Begin(host.attempt)
         \/ provider' = [attempt |-> host.attempt, status |-> "rejected"]
      /\ \/ host' = IdleHost \/ host' = [host EXCEPT !.stage = "registered"]
         \/ host' = [host EXCEPT !.stage = "held"]
      /\ pass' = pass \/ \E reply \in {"rejected", "busy", "unregistered"} : Reply(host.attempt, reply)
      /\ host.stage = "asked"
  BY DEF Register, RegisterFails
<1>2. pass' = pass \/ ((pass \in Passes(Len(attempts)))' /\ PassOK')
  <2>1. ASSUME NEW reply \in {"rejected", "busy", "unregistered"}, Reply(host.attempt, reply)
        PROVE  (pass \in Passes(Len(attempts)))' /\ PassOK'
    <3>1. reply \in Replies /\ reply # "delivered"
      BY DEF Replies
    <3>2. QED
      BY <1>1, <2>1, <3>1, HostReplies
  <2>2. QED
    BY <1>1, <2>1
<1>3. provider' \in Turns(Len(attempts))
      /\ (provider' = provider \/ provider'.status # "accepted")
  <2>1. "rejected" \in TurnStatuses
    BY DEF TurnStatuses
  <2>2. [attempt |-> host.attempt, status |-> "rejected"] \in Turns(Len(attempts))
        /\ Begin(host.attempt) \in Turns(Len(attempts)) /\ Begin(host.attempt).status = "submitting"
    BY <2>1, TurnRecorded
  <2>3. QED
    BY <1>1, <2>2, KFacts
<1>4. /\ host' \in Hosts(Len(attempts)) /\ host'.stage \in {"idle", "registered", "held"}
      /\ host'.stage = "registered" => host'.attempt = host.attempt
  <2>1. "registered" \in HostStages /\ "held" \in HostStages
    BY DEF HostStages
  <2>2. CASE host' = IdleHost
    BY <2>1, <2>2, HostStaged
  <2>3. CASE host' = [host EXCEPT !.stage = "registered"]
    BY <2>1, <2>3, HostStaged
  <2>4. CASE host' = [host EXCEPT !.stage = "held"]
    BY <2>1, <2>4, HostStaged
  <2>5. QED
    BY <1>1, <2>2, <2>3, <2>4
<1>5. EvidenceOK'
  BY <1>1, <1>3, <1>4 DEF KInv, EvidenceOK
<1>6. QED
  BY <1>1, <1>2, <1>3, <1>4, <1>5, KFacts, HostMoves

(* The submission to the native session keeps the first part. *)
LEMMA SubmitKeepsK ==
  ASSUME KInv, NativeTakes \/ NativeFails
  PROVE  KInv'
<1>1. /\ host.stage = "registered" /\ UNCHANGED <<runState, attempts, provider, inbox, pass>>
      /\ taken' = taken \/ taken' = taken \cup {host.attempt}
      /\ \E stage \in {"receipt", "transport", "refused", "deferring", "doubt"} :
           /\ host' = [host EXCEPT !.stage = stage]
           /\ stage \in {"receipt", "transport"} => taken' = taken \cup {host.attempt}
  BY DEF NativeTakes, NativeFails, store, native
<1>2. PICK stage \in {"receipt", "transport", "refused", "deferring", "doubt"} :
           /\ host' = [host EXCEPT !.stage = stage]
           /\ stage \in {"receipt", "transport"} => taken' = taken \cup {host.attempt}
  BY <1>1
<1>3. stage \in HostStages
  BY DEF HostStages
<1>4. host' \in Hosts(Len(attempts)) /\ host'.stage = stage /\ host'.attempt = host.attempt
  BY <1>2, <1>3, HostStaged
<1>5. host.attempt \in 1..Len(attempts)
  BY <1>1, KFacts
<1>6. EvidenceOK'
  BY <1>1, <1>2, <1>4, <1>5 DEF KInv, EvidenceOK
<1>7. QED
  BY <1>1, <1>4, <1>5, <1>6, KFacts, HostMoves

(* Publishing the receipt keeps the first part. *)
LEMMA PublishKeepsK ==
  ASSUME KInv, Publish
  PROVE  KInv'
<1> DEFINE a == host.attempt
           o == [attempt |-> a, kind |-> "accepted"]
<1>1. "held" \in HostStages /\ "delivery-unknown" \in TurnStatuses
  BY DEF HostStages, TurnStatuses
<1>2. /\ host.stage \in {"receipt", "transport"}
      /\ UNCHANGED <<runState, attempts, taken>>
      /\ host' = [host EXCEPT !.stage = "held"]
      /\ provider' = provider \/ provider' = [provider EXCEPT !.status = "delivery-unknown"]
      /\ inbox' \subseteq inbox \cup {o}
      /\ \E reply \in {"pending", "delivered", "delivery-unknown", "unpublished"} : Reply(a, reply)
  BY DEF Publish, Resolve
<1>3. a \in taken /\ a \in 1..Len(attempts)
  BY <1>2, KFacts DEF KInv, EvidenceOK
<1>4. o \in Observations(Len(attempts)) /\ o.attempt = a
  BY <1>3 DEF Observations
<1>5. host' \in Hosts(Len(attempts)) /\ host'.stage = "held"
  BY <1>1, <1>2, HostStaged
<1>6. provider' \in Turns(Len(attempts))
      /\ (provider' = provider \/ provider'.status # "accepted")
  BY <1>1, <1>2, KFacts, TurnRecorded
<1> HIDE DEF o
<1>7. EvidenceOK'
  BY <1>2, <1>3, <1>4, <1>5, <1>6 DEF KInv, EvidenceOK
<1>8. inbox' \subseteq Observations(Len(attempts))
  BY <1>2, <1>4, KFacts
<1>9. (pass \in Passes(Len(attempts)))' /\ PassOK'
  <2>1. PICK reply \in {"pending", "delivered", "delivery-unknown", "unpublished"} : Reply(a, reply)
    BY <1>2
  <2>2. reply \in Replies
    BY DEF Replies
  <2>3. QED
    BY <1>2, <1>3, <2>1, <2>2, HostReplies
<1>10. QED
  BY <1>2, <1>5, <1>6, <1>7, <1>8, <1>9, KFacts, HostMoves

(* Resolving a failed submission keeps the first part. *)
LEMMA ResolveFacts ==
  ASSUME ResolveSubmission
  PROVE  /\ host.stage \in {"refused", "deferring", "doubt"}
         /\ UNCHANGED <<runState, attempts, inbox, cleanup, taken>>
         /\ \/ /\ provider.attempt = host.attempt
               /\ \/ host.stage = "refused" /\ provider' = [provider EXCEPT !.status = "rejected"]
                     /\ host' = IdleHost /\ Reply(host.attempt, "rejected")
                  \/ host.stage = "deferring" /\ provider' = [provider EXCEPT !.status = "deferred"]
                     /\ host' = IdleHost /\ Reply(host.attempt, "deferred")
                  \/ /\ host.stage = "doubt" /\ Reply(host.attempt, "delivery-unknown")
                     /\ provider' = [provider EXCEPT !.status = "delivery-unknown"]
                     /\ host' = [host EXCEPT !.stage = "held"]
            \/ /\ \E reply \in {"delivery-unknown", "unregistered"} : Reply(host.attempt, reply)
               /\ host' = [host EXCEPT !.stage = "held"] /\ provider' = provider
<1>1. /\ DOMAIN ResolveStatus = {"refused", "deferring", "doubt"}
      /\ ResolveStatus["refused"] = "rejected" /\ ResolveReply["refused"] = "rejected"
      /\ ResolveStatus["deferring"] = "deferred" /\ ResolveReply["deferring"] = "deferred"
      /\ ResolveStatus["doubt"] = "delivery-unknown" /\ ResolveReply["doubt"] = "delivery-unknown"
  BY DEF ResolveStatus, ResolveReply
<1>2. QED
  BY <1>1 DEF ResolveSubmission, Resolve, CanSettle

LEMMA ResolveKeepsK ==
  ASSUME KInv, ResolveSubmission
  PROVE  KInv'
<1>1. "held" \in HostStages /\ {"rejected", "deferred", "delivery-unknown"} \subseteq TurnStatuses
  BY DEF HostStages, TurnStatuses
<1>2. /\ UNCHANGED <<runState, attempts, inbox, taken>>
      /\ host' = IdleHost \/ host' = [host EXCEPT !.stage = "held"]
      /\ \E reply \in {"rejected", "deferred", "delivery-unknown", "unregistered"} :
           Reply(host.attempt, reply)
      /\ provider' = provider \/ \E status \in {"rejected", "deferred", "delivery-unknown"} :
                                   provider' = [provider EXCEPT !.status = status]
  BY ResolveFacts
<1>3. host' \in Hosts(Len(attempts)) /\ host'.stage \in {"idle", "held"}
  BY <1>1, <1>2, HostStaged
<1>4. provider' \in Turns(Len(attempts))
      /\ (provider' = provider \/ provider'.status # "accepted")
  BY <1>1, <1>2, KFacts, TurnRecorded
<1>5. EvidenceOK'
  BY <1>2, <1>3, <1>4 DEF KInv, EvidenceOK
<1>6. (pass \in Passes(Len(attempts)))' /\ PassOK'
  <2>1. PICK reply \in {"rejected", "deferred", "delivery-unknown", "unregistered"} :
          Reply(host.attempt, reply)
    BY <1>2
  <2>2. reply \in Replies /\ reply # "delivered"
    BY DEF Replies
  <2>3. QED
    BY <1>2, <2>1, <2>2, HostReplies
<1>7. QED
  BY <1>2, <1>3, <1>4, <1>5, <1>6, KFacts, HostMoves

(* The rest of the Host's life keeps the first part. *)
LEMMA HostKeepsK ==
  ASSUME KInv, Observe \/ HostDies \/ Reattach \/ DirectTurn
  PROVE  KInv'
<1>1. CASE Observe
  <2> DEFINE Of(kind) == [attempt |-> host.attempt, kind |-> kind]
  <2>1. /\ host.stage = "held" /\ host.attempt \in taken
        /\ UNCHANGED <<runState, attempts, provider, pass, taken>>
        /\ host' = IdleHost \/ host' = host
        /\ inbox' = inbox \cup {Of("terminal")} \/ inbox' = inbox \cup {Of("accepted")}
    BY <1>1 DEF Observe
  <2>2. host.attempt \in 1..Len(attempts)
    BY <2>1, KFacts
  <2>3. \A k \in {"accepted", "terminal"} :
          Of(k) \in Observations(Len(attempts)) /\ Of(k).attempt = host.attempt
    BY <2>2 DEF Observations
  <2> HIDE DEF Of
  <2>4. inbox' \subseteq Observations(Len(attempts)) /\ \A o \in inbox' : o.attempt \in taken
    BY <2>1, <2>3, KFacts
  <2>5. host' \in Hosts(Len(attempts)) /\ (host' = host \/ host'.stage = "idle")
    BY <2>1, KFacts, NoneFacts
  <2>6. EvidenceOK'
    BY <2>1, <2>4, <2>5 DEF KInv, EvidenceOK
  <2>7. QED
    BY <2>1, <2>4, <2>5, <2>6, KFacts, HostMoves
<1>2. CASE HostDies
  <2>1. /\ UNCHANGED <<runState, attempts, provider, inbox, taken>> /\ host' = NoHost
        /\ Reply(host.attempt, "delivery-unknown")
    BY <1>2 DEF HostDies, store, native
  <2>2. "delivery-unknown" \in Replies
    BY DEF Replies
  <2>3. EvidenceOK'
    BY <2>1, EvidenceStands
  <2>4. host' \in Hosts(Len(attempts))
    BY <2>1, KFacts, NoneFacts
  <2>5. (pass \in Passes(Len(attempts)))' /\ PassOK'
    BY <2>1, <2>2, HostReplies
  <2>6. QED
    BY <2>1, <2>3, <2>4, <2>5, KFacts, HostMoves
<1>3. CASE Reattach
  <2>1. UNCHANGED <<runState, attempts, provider, inbox, taken, pass>> /\ host' = OwningHost
    BY <1>3 DEF Reattach, store, native
  <2>2. host' \in Hosts(Len(attempts)) /\ host'.stage = "held"
    BY <2>1, KFacts DEF OwningHost, Hosts, HostStages
  <2>3. EvidenceOK'
    BY <2>1, <2>2 DEF KInv, EvidenceOK
  <2>4. QED
    BY <2>1, <2>2, <2>3, KFacts, HostMoves
<1>4. CASE DirectTurn
  <2>1. /\ UNCHANGED <<runState, attempts, inbox, taken, pass, host>>
        /\ provider' = DirectInput \/ provider' = EndTurn(provider)
    BY <1>4 DEF DirectTurn
  <2>2. /\ provider' \in Turns(Len(attempts))
        /\ provider'.attempt = 0 \/ provider' = provider \/ provider'.status # "accepted"
    BY <2>1, KFacts, NoneFacts, TurnFacts
  <2>3. EvidenceOK'
    BY <2>1, <2>2 DEF KInv, EvidenceOK
  <2>4. QED
    BY <2>1, <2>2, <2>3, KFacts, HostMoves
<1>5. QED
  BY <1>1, <1>2, <1>3, <1>4

----------------------------------------------------------------------------
(* The first part, and what it says of the mailbox *)

LEMMA InitKInv == Init => KInv
<1> SUFFICES ASSUME Init PROVE KInv
  OBVIOUS
<1> USE DEF Init
<1>1. attempts \in Seq(Runs) /\ Len(attempts) = 0
  OBVIOUS
<1>2. RunTypes /\ RunsOK
  BY <1>1, NoRunAssumption DEF RunTypes, RunsOK, RunStatuses, Runs
<1>3. NativeTypes
  BY <1>1, NoneFacts DEF NativeTypes
<1>4. MailboxOK
  <2>1. EmptyMailbox \in Boxes /\ EmptyMailbox.pending = NoBatch /\ EmptyMailbox.recent = <<>>
    BY DEF EmptyMailbox, Boxes, Batches, NoBatch
  <2>2. ToSet(<<>>) = {} /\ Len(<<>>) = 0
    BY DEF ToSet
  <2>3. QED
    BY <2>1, <2>2, RecentLimitAssumption DEF MailboxOK, BoxOK
<1>5. AttemptsOK /\ NotDropped
  BY <1>1 DEF AttemptsOK, NotDropped
<1>6. EvidenceOK /\ PassOK
  BY <1>1, NoneFacts DEF EvidenceOK, PassOK
<1>7. QED
  BY <1>2, <1>3, <1>4, <1>5, <1>6 DEF KInv

LEMMA NextKInv == KInv /\ [Next]_vars => KInv'
<1> SUFFICES ASSUME KInv, [Next]_vars PROVE KInv'
  OBVIOUS
<1>1. CASE UNCHANGED vars
  BY <1>1, PassOnlyKeepsK DEF vars, store, native, RunStep
<1>2. CASE Next
  BY <1>2, CommandsKeepK, DeliverKeepsK, PrepareKeepsK, SendKeepsK, ReplyKeepsK, CleanupKeepsK,
     ObservationKeepsK, RegisterKeepsK, SubmitKeepsK, PublishKeepsK, ResolveKeepsK, HostKeepsK
     DEF Next
<1>3. QED
  BY <1>1, <1>2

LEMMA KInvariance == Spec => []KInv
BY InitKInv, NextKInv, PTL DEF Spec

(* Only the active Run has a dispatch waiting, in a mailbox its validator accepts,
   and a Run without one was taken by the native session: whatever a pass, a reply,
   an observation, a cleanup or a person does, no dispatch is dropped
   (settleRoleRunDispatch, terminalizeExactTaskRun). *)
THEOREM DispatchKeptTheorem == Spec => []DispatchKept
<1>1. KInv => DispatchKept
  <2> SUFFICES ASSUME KInv PROVE DispatchKept
    OBVIOUS
  <2>1. /\ mailbox \in Boxes /\ mailbox.processing = NoClaim /\ mailbox.next \in Nat
        /\ Len(mailbox.recent) <= RecentLimit
        /\ mailbox.pending = NoBatch \/ Holds(mailbox, activeRun)
    BY DEF KInv, MailboxOK, BoxOK, Boxes
  <2>2. ToSet(mailbox.processing.batch.keys) = {} /\ mailbox.processing.batch = NoBatch
    BY <2>1 DEF NoClaim, NoBatch, ToSet
  <2>3. CASE mailbox.pending = NoBatch
    <3>1. ToSet(mailbox.pending.keys) = {}
      BY <2>3 DEF NoBatch, ToSet
    <3>2. Valid(mailbox)
      BY <2>1, <2>2, <2>3, <3>1 DEF Valid
    <3>3. QED
      BY <2>3, <3>1, <3>2, KFacts DEF DispatchKept, KInv, NotDropped
  <2>4. CASE mailbox.pending # NoBatch
    <3>1. PICK n \in 1..(mailbox.next - 1) :
            activeRun \in Runs /\ activeRun \notin ToSet(mailbox.recent)
            /\ mailbox.pending = DispatchOf(activeRun, n)
      BY <2>1, <2>4 DEF Holds
    <3>2. ToSet(mailbox.pending.keys) = {activeRun}
      <4>1. n \in Nat \ {0}
        BY <2>1
      <4>2. ToSet(DispatchOf(activeRun, n).keys) = {activeRun}
        BY <4>1, DispatchFacts
      <4>3. QED
        BY <3>1, <4>2
    <3>3. ValidBatch(mailbox.pending) /\ mailbox.pending.to < mailbox.next
      BY <2>1, <3>1 DEF ValidBatch, DispatchOf
    <3>4. Valid(mailbox)
      BY <2>1, <2>2, <3>1, <3>2, <3>3 DEF Valid
    <3>5. QED
      BY <3>2, <3>4, KFacts DEF DispatchKept
  <2>5. QED
    BY <2>3, <2>4
<1>2. QED
  BY <1>1, KInvariance, PTL

----------------------------------------------------------------------------
(* The second part: steps at which no attempt is asked for, handed over or taken *)

Honest(r, outcome) ==
  /\ outcome = "reported" => TakenOf(r) # {}
  /\ outcome \in {"startup-failed", "runtime-failed"} => TakenOf(r) = {} /\ NotHanding(r)

\* The Runs stand, begin, or end honestly
HonestStep ==
  \/ UNCHANGED <<runs, activeRun>>
  \/ \E r \in Runs : Begins(r)
  \/ \E r \in Runs, outcome \in Outcomes : Ends(r, outcome) /\ Honest(r, outcome)

\* The Host has no new request and hands nothing over
HostCalm ==
  \/ host' = host
  \/ host'.stage \in {"idle", "down"}
  \/ /\ host'.stage \in {"held", "receipt", "transport", "doubt"}
     /\ host.stage \in {"idle", "down"} => pass'.stage # "replied"

\* The pass claims nothing new, or was refused with reason
PassCalm ==
  \/ pass' = pass
  \/ pass'.stage \in {"idle", "stopping"}
  \/ pass'.stage = "ready" /\ pass.stage = "preparing" /\ pass'.run = pass.run
  \/ pass'.stage = "replied" /\ pass'.reply # "rejected"
  \/ /\ pass'.stage = "replied" /\ pass'.run = pass.run
     /\ TakenOf(pass.run) = {} /\ host'.stage \in {"idle", "down"}

\* Nothing of the active Run lets go of the binding
StillOccupied ==
  \A a \in 1..Len(attempts) :
    (a \in taken \/ Handing(a)) /\ attempts[a] = activeRun /\ activeRun' = activeRun /\ Occupies(a)
      => Occupies(a)'

(* No Run that was dispatched becomes active again. *)
LEMMA NoRunReborn ==
  ASSUME KInv, HonestStep
  PROVE  \A q \in Runs : runs[q] # "none" /\ activeRun' = q => activeRun = q
BY KFacts DEF HonestStep, Begins, Ends

(* Such steps keep the second part. *)
LEMMA CalmKeepsS ==
  ASSUME IInv, UNCHANGED <<attempts, taken>>, HonestStep, HostCalm, PassCalm, StillOccupied
  PROVE  SInv'
<1>0. /\ KInv /\ Occupied /\ Untaken /\ Fenced /\ EndsOK
      /\ runs \in [Runs -> RunStatuses]
  BY DEF IInv, SInv, KInv, RunTypes
<1>1. \A q : TakenOf(q)' = TakenOf(q)
  BY DEF TakenOf
<1>2. \A a : Handing(a)' => Handing(a)
  BY DEF HostCalm, Handing
<1>3. \A q : NotHanding(q) => NotHanding(q)'
  BY DEF HostCalm, NotHanding
<1>4. Occupied'
  <2> SUFFICES ASSUME NEW a \in 1..Len(attempts), a \in taken \/ Handing(a), attempts[a] = activeRun'
               PROVE  Occupies(a)'
    BY <1>2 DEF Occupied
  <2>1. attempts[a] \in Runs /\ runs[attempts[a]] # "none"
    BY <1>0, KFacts DEF KInv, AttemptsOK
  <2>2. activeRun' = activeRun
    BY <1>0, <2>1, NoRunReborn
  <2>3. Occupies(a)
    BY <1>0, <2>2 DEF Occupied
  <2>4. QED
    BY <2>2, <2>3 DEF StillOccupied
<1>5. Untaken'
  BY <1>0, <1>1 DEF HostCalm, Untaken
<1>6. Fenced'
  <2>1. CASE pass'.stage \in {"preparing", "ready"}
    <3>1. pass.stage \in {"preparing", "ready"} /\ pass'.run = pass.run
      BY <2>1 DEF PassCalm
    <3>2. host'.stage # "asked"
      BY <1>0, <3>1 DEF HostCalm, Fenced
    <3>3. pass.run \in Runs /\ runs[pass.run] # "none"
      BY <1>0, <3>1 DEF KInv, PassOK
    <3>4. activeRun' = pass.run => activeRun = pass.run
      BY <1>0, <3>3, NoRunReborn
    <3>5. activeRun' = pass.run => TakenOf(pass.run) = {} /\ NotHanding(pass.run)
      BY <1>0, <3>1, <3>4 DEF Fenced
    <3>6. (activeRun = pass.run => TakenOf(pass.run) = {} /\ NotHanding(pass.run))'
      BY <3>1, <3>5 DEF TakenOf, NotHanding, HostCalm
    <3>7. QED
      BY <2>1, <3>2, <3>6 DEF Fenced
  <2>2. CASE pass'.stage = "replied" /\ pass'.reply = "rejected"
    <3>1. CASE pass' = pass
      <4>1. host.stage \in {"idle", "down"} /\ TakenOf(pass.run) = {}
        BY <1>0, <2>2, <3>1 DEF Fenced
      <4>2. host'.stage \in {"idle", "down"}
        BY <2>2, <4>1 DEF HostCalm
      <4>3. QED
        BY <1>1, <2>2, <3>1, <4>1, <4>2 DEF Fenced
    <3>2. CASE pass' # pass
      BY <1>1, <2>2, <3>2 DEF PassCalm, Fenced
    <3>3. QED
      BY <3>1, <3>2
  <2>3. CASE pass'.stage \notin {"preparing", "ready"} /\ ~(pass'.stage = "replied" /\ pass'.reply = "rejected")
    BY <2>3 DEF Fenced
  <2>4. QED
    BY <2>1, <2>2, <2>3
<1>7. EndsOK'
  <2>1. ASSUME NEW r \in Runs
        PROVE  /\ runs'[r] = "reported" => TakenOf(r) # {}
               /\ runs'[r] \in {"startup-failed", "runtime-failed"} => TakenOf(r) = {} /\ NotHanding(r)
    <3>1. CASE runs'[r] = runs[r]
      BY <1>0, <3>1 DEF EndsOK
    <3>2. CASE runs'[r] # runs[r]
      <4>1. ASSUME NEW q \in Runs, Begins(q) PROVE runs'[r] = "active"
        BY <1>0, <3>2, <4>1 DEF Begins
      <4>2. ASSUME NEW q \in Runs, NEW outcome \in Outcomes, Ends(q, outcome), Honest(q, outcome)
            PROVE  runs'[r] = outcome /\ Honest(r, outcome)
        BY <1>0, <3>2, <4>2 DEF Ends
      <4>3. QED
        BY <3>2, <4>1, <4>2 DEF HonestStep, Honest
    <3>3. QED
      BY <3>1, <3>2
  <2>2. QED
    BY <1>1, <1>3, <2>1 DEF EndsOK
<1>8. QED
  BY <1>4, <1>5, <1>6, <1>7 DEF SInv

(* Where the turn and the fence of the binding are left alone, or a cleanup begins. *)
LEMMA TurnStands ==
  ASSUME provider' = provider, cleanup' = cleanup \/ cleanup' # "none"
  PROVE  StillOccupied
BY DEF StillOccupied, Occupies


(* What the fence of the binding means: with no turn active and no cleanup due,
   nothing of the active Run was taken or is about to be. *)
LEMMA NothingTaken ==
  ASSUME IInv, NEW r \in Runs, activeRun = r, cleanup = "none", ~Active(provider)
  PROVE  TakenOf(r) = {} /\ NotHanding(r)
<1>0. KInv /\ Occupied
  BY DEF IInv, SInv
<1>1. \A a \in 1..Len(attempts) : ~Occupies(a)
  BY DEF Occupies
<1>2. TakenOf(r) = {}
  BY <1>0, <1>1, KFacts DEF Occupied, TakenOf
<1>3. NotHanding(r)
  <2> SUFFICES ASSUME host.stage = "registered", attempts[host.attempt] = r PROVE FALSE
    BY DEF NotHanding
  <2>1. host.attempt \in 1..Len(attempts)
    BY <1>0, KFacts
  <2>2. QED
    BY <1>0, <1>1, <2>1 DEF Occupied, Handing
<1>4. QED
  BY <1>2, <1>3

(* A Run that is ended with reason is ended honestly. *)
LEMMA HonestEnd ==
  ASSUME NEW r \in Runs, NEW outcome \in Outcomes, Terminalize(r, outcome),
         runs[r] = "active" /\ activeRun = r => Honest(r, outcome)
  PROVE  HonestStep
BY TerminalizeFacts DEF HonestStep, Ends, runState

(* The outcomes that claim nothing of the native session. *)
LEMMA NoClaimEnd ==
  /\ "missing-result" \in Outcomes /\ "cancelled" \in Outcomes
  /\ "runtime-failed" \in Outcomes /\ "startup-failed" \in Outcomes /\ "reported" \in Outcomes
  /\ \A r : Honest(r, "missing-result") /\ Honest(r, "cancelled")
BY DEF Outcomes, RunStatuses, Failures, Honest

(* A refusal reaches its pass only where nothing of the Run was taken. *)
LEMMA ReplyCalm ==
  ASSUME KInv, NEW a, NEW reply, Reply(a, reply),
         reply = "rejected" => TakenOf(attempts[a]) = {} /\ host'.stage \in {"idle", "down"}
  PROVE  PassCalm
<1>1. CASE pass.stage = "sending" /\ pass.attempt = a
  <2>1. pass' = [pass EXCEPT !.stage = "replied", !.reply = reply]
    BY <1>1 DEF Reply
  <2>2. pass'.stage = "replied" /\ pass'.reply = reply /\ pass'.run = pass.run
    BY <2>1, KFacts DEF Passes
  <2>3. attempts[a] = pass.run
    BY <1>1 DEF KInv, PassOK
  <2>4. QED
    BY <2>2, <2>3 DEF PassCalm
<1>2. CASE ~(pass.stage = "sending" /\ pass.attempt = a)
  BY <1>2 DEF Reply, PassCalm
<1>3. QED
  BY <1>1, <1>2

(* The commands keep the second part. *)
LEMMA CommandsKeepS ==
  ASSUME IInv, (\E r \in Runs : Dispatch(r) \/ Retire(r)) \/ RequestCleanup
  PROVE  SInv'
<1>1. HonestStep
  <2>1. ASSUME NEW r \in Runs, Dispatch(r) PROVE HonestStep
    BY <2>1 DEF Dispatch, HonestStep, Begins
  <2>2. ASSUME NEW r \in Runs, Retire(r) PROVE HonestStep
    BY <2>2, HonestEnd, NoClaimEnd DEF Retire
  <2>3. CASE RequestCleanup
    BY <2>3 DEF RequestCleanup, HonestStep, runState
  <2>4. QED
    BY <2>1, <2>2, <2>3
<1>2. UNCHANGED <<attempts, taken, provider, host, pass>> /\ (cleanup' = cleanup \/ cleanup' # "none")
  BY DEF Dispatch, Retire, RequestCleanup, native
<1>3. HostCalm /\ PassCalm
  BY <1>2 DEF HostCalm, PassCalm
<1>4. StillOccupied
  BY <1>2, TurnStands
<1>5. QED
  BY <1>1, <1>2, <1>3, <1>4, CalmKeepsS

(* The delivery up to the session keeps the second part. *)
LEMMA DeliverKeepsS ==
  ASSUME IInv, NEW r \in Runs, SettleAccepted(r) \/ FailRejected(r)
  PROVE  SInv'
<1>0. KInv
  BY DEF IInv
<1>1. HonestStep
  <2>1. CASE SettleAccepted(r)
    BY <2>1 DEF SettleAccepted, HonestStep
  <2>2. CASE FailRejected(r)
    <3>1. activeRun = r /\ cleanup = "none" /\ provider.status = "rejected"
      BY <2>2 DEF FailRejected, Delivering, Mine
    <3>2. ~Active(provider)
      BY <3>1 DEF Active
    <3>3. Honest(r, "runtime-failed")
      BY <3>1, <3>2, NothingTaken DEF Honest
    <3>4. QED
      BY <2>2, <3>3, HonestEnd, NoClaimEnd DEF FailRejected
  <2>3. QED
    BY <2>1, <2>2
<1>2. UNCHANGED <<attempts, taken, provider, host, pass, cleanup>>
  BY DEF SettleAccepted, FailRejected, native
<1>3. HostCalm /\ PassCalm
  BY <1>2 DEF HostCalm, PassCalm
<1>4. StillOccupied
  BY <1>2, TurnStands
<1>5. QED
  BY <1>1, <1>2, <1>3, <1>4, CalmKeepsS

(* A pass begins only where nothing of its Run was taken. *)
LEMMA StartKeepsS ==
  ASSUME IInv, ~LateRegistration, NEW r \in Runs, StartDelivery(r)
  PROVE  SInv'
<1>0. KInv /\ Occupied /\ Untaken /\ EndsOK
  BY DEF IInv, SInv
<1>1. /\ UNCHANGED <<runs, activeRun, attempts, taken, provider, host, cleanup>>
      /\ activeRun = r /\ cleanup = "none" /\ host.stage # "asked"
  BY DEF StartDelivery, store, native, runState, Delivering
<1>2. ~Active(provider)
  BY DEF StartDelivery, MaySubmit, Mine, Active
<1>3. TakenOf(r) = {} /\ NotHanding(r)
  BY <1>1, <1>2, NothingTaken
<1>4. pass'.stage = "preparing" /\ pass'.run = r
  <2>1. IdlePass \in Passes(Len(attempts))
    BY <1>0, KFacts, NoneFacts
  <2>2. QED
    BY <2>1 DEF StartDelivery, Passes
<1>5. \A q : TakenOf(q)' = TakenOf(q) /\ NotHanding(q)' = NotHanding(q)
  BY <1>1 DEF TakenOf, NotHanding
<1>6. Occupied' /\ Untaken' /\ EndsOK'
  BY <1>0, <1>1, <1>5 DEF Occupied, Untaken, EndsOK, Handing, Occupies
<1>7. Fenced'
  BY <1>1, <1>3, <1>4, <1>5 DEF Fenced
<1>8. QED
  BY <1>6, <1>7 DEF SInv

(* The preparation of the session keeps the second part. *)
LEMMA PrepareKeepsS ==
  ASSUME IInv, Prepared \/ PrepareOvertaken \/ PrepareFails
  PROVE  SInv'
<1>0. KInv /\ Fenced
  BY DEF IInv, SInv
<1>1. UNCHANGED <<attempts, taken, provider, cleanup>>
  BY DEF Prepared, PrepareOvertaken, PrepareFails, store, native
<1>2. HonestStep
  <2>1. CASE Prepared \/ PrepareOvertaken
    BY <2>1 DEF Prepared, PrepareOvertaken, HonestStep, store, runState
  <2>2. CASE PrepareFails
    <3>1. pass.run \in Runs
      BY <1>0, <2>2 DEF PrepareFails, Preparing, KInv, PassOK
    <3>2. activeRun = pass.run => Honest(pass.run, "startup-failed")
      BY <1>0, <2>2 DEF PrepareFails, Preparing, Fenced, Honest
    <3>3. CASE UNCHANGED runState
      BY <3>3 DEF HonestStep, runState
    <3>4. CASE Terminalize(pass.run, "startup-failed")
      BY <3>1, <3>2, <3>4, HonestEnd, NoClaimEnd
    <3>5. QED
      BY <2>2, <3>3, <3>4 DEF PrepareFails
  <2>3. QED
    BY <2>1, <2>2
<1>3. PassCalm
  <2>1. CASE Prepared
    <3>1. pass'.stage = "ready" /\ pass'.run = pass.run /\ pass.stage = "preparing"
      BY <1>0, <2>1, KFacts DEF Prepared, Passes
    <3>2. QED
      BY <3>1 DEF PassCalm
  <2>2. CASE PrepareOvertaken \/ PrepareFails
    <3>1. pass'.stage = "idle"
      BY <1>0, <2>2, KFacts, NoneFacts DEF PrepareOvertaken, PrepareFails
    <3>2. QED
      BY <3>1 DEF PassCalm
  <2>3. QED
    BY <2>1, <2>2
<1>4. HostCalm
  <2>1. CASE Prepared
    <3>1. host' = host \/ host' = OwningHost \/ host' = IdleHost
      BY <2>1 DEF Prepared
    <3>2. OwningHost.stage = "held" /\ IdleHost.stage = "idle"
      BY DEF OwningHost, IdleHost
    <3>3. pass'.stage = "ready"
      BY <1>0, <2>1, KFacts DEF Prepared, Passes
    <3>4. QED
      BY <3>1, <3>2, <3>3 DEF HostCalm
  <2>2. CASE PrepareOvertaken \/ PrepareFails
    BY <2>2 DEF PrepareOvertaken, PrepareFails, HostCalm
  <2>3. QED
    BY <2>1, <2>2
<1>5. StillOccupied
  BY <1>1, TurnStands
<1>6. QED
  BY <1>1, <1>2, <1>3, <1>4, <1>5, CalmKeepsS


(* What is sent was not taken. *)
LEMMA SendKeepsS ==
  ASSUME IInv, Send
  PROVE  SInv'
<1>0. KInv /\ Untaken /\ Fenced /\ EndsOK
  BY DEF IInv, SInv
<1>1. PICK a \in 1..Len(attempts'), reply \in Replies : Sent(a, reply)
  BY <1>0, SendFacts
<1>2. /\ pass.stage = "ready" /\ activeRun = pass.run /\ pass.run \in Runs
      /\ attempts'[a] = pass.run /\ UNCHANGED <<runs, activeRun, taken>>
      /\ host' = host \/ host' = [stage |-> "asked", attempt |-> a]
  BY <1>1 DEF Sent, runState
<1>3. TakenOf(pass.run) = {} /\ NotHanding(pass.run) /\ host.stage # "asked"
  BY <1>0, <1>2 DEF Fenced
<1>4. /\ Len(attempts) \in Nat
      /\ \A i \in 1..Len(attempts) : attempts'[i] = attempts[i]
      /\ \A q \in Runs : TakenOf(q)' = TakenOf(q)
  <2>1. runs[pass.run] # "none" /\ UNCHANGED <<runState, taken>>
        /\ (attempts' = attempts \/ attempts' = Append(attempts, pass.run))
    BY <1>1 DEF Sent
  <2>2. QED
    BY <1>0, <1>2, <2>1, KFacts, MoreAttempts
<1>5. host'.stage = "registered" => host' = host
  BY <1>2
<1>6. host.stage \notin {"idle", "down", "held"} => host.attempt \in 1..Len(attempts)
  BY <1>0, KFacts
<1>7. \A q \in Runs : NotHanding(q) => NotHanding(q)'
  BY <1>4, <1>5, <1>6 DEF NotHanding
<1>8. Occupied'
  <2> SUFFICES ASSUME NEW i \in 1..Len(attempts'), i \in taken \/ Handing(i)',
                      attempts'[i] = activeRun
               PROVE  FALSE
    BY <1>2 DEF Occupied
  <2>1. i \notin taken
    <3>1. taken \subseteq 1..Len(attempts)
      BY <1>0, KFacts
    <3>2. QED
      BY <1>2, <1>3, <1>4, <3>1 DEF TakenOf
  <2>2. host.stage = "registered" /\ host.attempt = i /\ i \in 1..Len(attempts)
    BY <1>5, <1>6, <2>1 DEF Handing
  <2>3. QED
    BY <1>2, <1>3, <1>4, <2>2 DEF NotHanding
<1>9. Untaken'
  <2>1. CASE host' = host
    <3>1. \A i \in 1..Len(attempts) : attempts[i] \in Runs
      BY <1>0, KFacts
    <3>2. ASSUME host.stage \in {"asked", "registered", "refused", "deferring"}
          PROVE  attempts'[host.attempt] \in Runs /\ TakenOf(attempts'[host.attempt]) = {}
      BY <1>0, <1>4, <1>6, <3>1, <3>2 DEF Untaken
    <3>3. host.stage \in {"asked", "registered", "refused", "deferring"} =>
            TakenOf(attempts[host.attempt])' = {}
      BY <1>2, <1>4, <2>1, <3>2 DEF TakenOf
    <3>4. QED
      BY <2>1, <3>3 DEF Untaken
  <2>2. CASE host' = [stage |-> "asked", attempt |-> a]
    <3>1. attempts'[host'.attempt] = pass.run /\ TakenOf(pass.run) = {}
      BY <1>2, <1>3, <2>2
    <3>2. TakenOf(attempts[host.attempt])' = {}
      BY <1>2, <1>3, <1>4, <3>1 DEF TakenOf
    <3>3. QED
      BY <3>2 DEF Untaken
  <2>3. QED
    BY <1>2, <2>1, <2>2
<1>10. Fenced'
  <2>1. /\ pass'.stage \in {"sending", "replied"} /\ pass'.run = pass.run
        /\ pass'.stage = "replied" /\ pass'.reply = "rejected" =>
             host' = host /\ host.stage = "idle"
    BY <1>0, <1>1, KFacts DEF Sent, Passes
  <2>2. TakenOf(pass.run)' = {}
    BY <1>2, <1>3, <1>4, <2>1 DEF TakenOf
  <2>3. QED
    BY <2>1, <2>2 DEF Fenced
<1>11. EndsOK'
  BY <1>0, <1>2, <1>4, <1>7 DEF EndsOK
<1>12. QED
  BY <1>8, <1>9, <1>10, <1>11 DEF SInv

(* The reply, its loss and a crash keep the second part. *)
LEMMA ReplyKeepsS ==
  ASSUME IInv, ReplyFails \/ HandleReply \/ Crash
  PROVE  SInv'
<1>0. KInv /\ Fenced
  BY DEF IInv, SInv
<1>1. UNCHANGED <<attempts, taken, host, cleanup>>
  BY DEF ReplyFails, HandleReply, Crash, store
<1>2. HonestStep
  <2>1. CASE ReplyFails \/ Crash
    BY <2>1 DEF ReplyFails, Crash, HonestStep, store, runState
  <2>2. CASE HandleReply
    <3>1. pass.run \in Runs /\ pass.stage = "replied"
      BY <1>0, <2>2 DEF HandleReply, KInv, PassOK
    <3>2. CASE pass.reply = "rejected"
      <4>1. Terminalize(pass.run, "runtime-failed")
        BY <2>2, <3>2 DEF HandleReply
      <4>2. Honest(pass.run, "runtime-failed")
        BY <1>0, <3>1, <3>2 DEF Fenced, Honest, NotHanding
      <4>3. QED
        BY <3>1, <4>1, <4>2, HonestEnd, NoClaimEnd
    <3>3. CASE pass.reply # "rejected"
      BY <2>2, <3>3 DEF HandleReply, HonestStep, runState
    <3>4. QED
      BY <3>2, <3>3
  <2>3. QED
    BY <2>1, <2>2
<1>3. PassCalm
  <2>1. CASE ReplyFails
    <3>1. pass'.stage = "replied" /\ pass'.reply # "rejected"
      BY <1>0, <2>1, KFacts DEF ReplyFails, Passes
    <3>2. QED
      BY <3>1 DEF PassCalm
  <2>2. CASE HandleReply \/ Crash
    <3>1. pass'.stage = "idle"
      BY <1>0, <2>2, KFacts, NoneFacts DEF HandleReply, Crash
    <3>2. QED
      BY <3>1 DEF PassCalm
  <2>3. QED
    BY <2>1, <2>2
<1>4. HostCalm
  BY <1>1 DEF HostCalm
<1>5. StillOccupied
  <2>1. CASE provider' = provider
    BY <1>1, <2>1, TurnStands
  <2>2. CASE provider' # provider
    <3>1. provider' = [provider EXCEPT !.status = "delivery-unknown"]
      BY <2>2 DEF ReplyFails, HandleReply, Crash, store, native
    <3>2. provider'.attempt = provider.attempt /\ provider'.status = "delivery-unknown"
      BY <1>0, <3>1, KFacts DEF Turns
    <3>3. QED
      BY <3>2 DEF StillOccupied, Occupies, Active
  <2>3. QED
    BY <2>1, <2>2
<1>6. QED
  BY <1>1, <1>2, <1>3, <1>4, <1>5, CalmKeepsS

(* A cleanup keeps the second part: it ends the Run whose turn it stopped. *)
LEMMA CleanupKeepsS ==
  ASSUME IInv, Quiesce \/ CompleteCleanup \/ CleanupFails
  PROVE  SInv'
<1>0. KInv
  BY DEF IInv
<1>1. UNCHANGED <<attempts, taken>>
  BY DEF Quiesce, CompleteCleanup, CleanupFails
<1>2. CompleteCleanup /\ activeRun # NoRun => activeRun' = NoRun
  BY <1>0, KFacts DEF CompleteCleanup, Terminalize
<1>3. HonestStep
  <2>1. CASE Quiesce \/ CleanupFails
    BY <2>1 DEF Quiesce, CleanupFails, HonestStep, store, runState
  <2>2. CASE CompleteCleanup
    <3>1. CASE activeRun = NoRun
      BY <2>2, <3>1 DEF CompleteCleanup, HonestStep, runState
    <3>2. CASE activeRun # NoRun
      <4>1. activeRun \in Runs
        BY <1>0, <3>2, KFacts
      <4>2. QED
        BY <2>2, <3>2, <4>1, HonestEnd, NoClaimEnd DEF CompleteCleanup
    <3>3. QED
      BY <3>1, <3>2
  <2>3. QED
    BY <2>1, <2>2
<1>4. PassCalm
  <2>1. pass'.stage \in {"idle", "stopping"}
    <3>1. IdlePass \in Passes(Len(attempts)) /\ IdlePass.stage = "idle"
      BY <1>0, KFacts, NoneFacts
    <3>2. QED
      BY <3>1 DEF Quiesce, CompleteCleanup, CleanupFails, Passes
  <2>2. QED
    BY <2>1 DEF PassCalm
<1>5. HostCalm
  BY DEF Quiesce, CompleteCleanup, CleanupFails, HostCalm, NoHost
<1>6. StillOccupied
  <2>1. CASE Quiesce
    <3>1. /\ cleanup # "none" /\ cleanup' = cleanup
          /\ provider' = CancelQuiescent(provider) \/ provider' = EndTurn(provider)
      BY <2>1 DEF Quiesce
    <3>2. /\ provider'.attempt = provider.attempt
          /\ provider' = provider \/ provider'.status \in {"completed", "cancelled"}
      BY <1>0, <3>1, KFacts, TurnFacts
    <3>3. QED
      BY <3>1, <3>2 DEF StillOccupied, Occupies
  <2>2. CASE CompleteCleanup
    BY <1>0, <1>2, <2>2, KFacts DEF StillOccupied
  <2>3. CASE CleanupFails
    BY <2>3, TurnStands DEF CleanupFails, store, native
  <2>4. QED
    BY <2>1, <2>2, <2>3
<1>7. QED
  BY <1>1, <1>3, <1>4, <1>5, <1>6, CalmKeepsS

(* An observation keeps the second part: a turn that is over ends its Run. *)
LEMMA ObservationKeepsS ==
  ASSUME IInv, NEW o \in inbox, ApplyObservation(o)
  PROVE  SInv'
<1> DEFINE r == attempts[o.attempt]
<1>0. KInv
  BY DEF IInv
<1>1. UNCHANGED <<attempts, taken, host, pass, cleanup>>
  BY DEF ApplyObservation
<1>2. o.attempt \in 1..Len(attempts) /\ o.attempt \in taken /\ r \in Runs /\ TakenOf(r) # {}
  BY <1>0, KFacts DEF TakenOf
<1>3. HonestStep
  <2>1. CASE Terminalize(r, "reported")
    BY <1>2, <2>1, HonestEnd, NoClaimEnd DEF Honest
  <2>2. CASE UNCHANGED runState
    BY <2>2 DEF HonestStep, runState
  <2>3. QED
    BY <2>1, <2>2 DEF ApplyObservation
<1>4. HostCalm /\ PassCalm
  BY <1>1 DEF HostCalm, PassCalm
<1>5. StillOccupied
  <2> SUFFICES ASSUME NEW a \in 1..Len(attempts), attempts[a] = activeRun,
                      activeRun' = activeRun, Occupies(a)
               PROVE  Occupies(a)'
    BY DEF StillOccupied
  <2>1. provider.attempt = a /\ activeRun \in Runs /\ activeRun # NoRun /\ runs[activeRun] = "active"
    BY <1>0, KFacts DEF Occupies
  <2>2. CASE provider' = provider
    BY <1>1, <2>2 DEF Occupies
  <2>3. CASE Current(o) /\ provider' = EndTurn(provider) /\ Terminalize(r, "reported")
    <3>1. r = activeRun
      BY <2>1, <2>3 DEF Current
    <3>2. activeRun' = NoRun
      BY <2>1, <2>3, <3>1 DEF Terminalize
    <3>3. QED
      BY <2>1, <3>2
  <2>4. CASE provider' = Accept(provider)
    <3>1. provider'.attempt = provider.attempt
          /\ (provider' = provider \/ provider'.status = "accepted")
      BY <1>0, <2>4, KFacts, TurnFacts
    <3>2. QED
      BY <1>1, <3>1 DEF Occupies, Active
  <2>5. QED
    BY <2>2, <2>3, <2>4 DEF ApplyObservation
<1>6. QED
  BY <1>1, <1>3, <1>4, <1>5, CalmKeepsS


(* Registration occupies the binding before the input is handed over. *)
LEMMA RegistersKeepsS ==
  ASSUME IInv, host.stage = "asked", Admitted(host.attempt),
         provider' = Begin(host.attempt), host' = [host EXCEPT !.stage = "registered"],
         UNCHANGED <<runs, activeRun, attempts, taken, pass, cleanup>>
  PROVE  SInv'
<1> DEFINE h == host.attempt
<1>0. KInv /\ Untaken /\ Fenced /\ EndsOK
  BY DEF IInv, SInv
<1>1. h \in 1..Len(attempts) /\ attempts[h] \in Runs
  BY <1>0, KFacts
<1>2. host'.stage = "registered" /\ host'.attempt = h
      /\ provider'.attempt = h /\ provider'.status = "submitting"
  <2>1. "registered" \in HostStages /\ "submitting" \in TurnStatuses
    BY DEF HostStages, TurnStatuses
  <2>2. QED
    BY <1>0, <2>1, HostStaged, TurnRecorded
<1>3. TakenOf(attempts[h]) = {} /\ activeRun = attempts[h]
  BY <1>0 DEF Untaken, Admitted
<1>4. \A q : TakenOf(q)' = TakenOf(q)
  BY DEF TakenOf
<1>5. Occupied'
  <2> SUFFICES ASSUME NEW a \in 1..Len(attempts), a \in taken \/ Handing(a)', attempts[a] = activeRun
               PROVE  Occupies(a)'
    BY DEF Occupied
  <2>1. a = h
    BY <1>2, <1>3 DEF TakenOf, Handing
  <2>2. QED
    BY <1>2, <2>1 DEF Occupies, Active
<1>6. Untaken'
  BY <1>2, <1>3, <1>4 DEF Untaken
<1>7. Fenced'
  BY <1>0 DEF Fenced
<1>8. EndsOK'
  <2>1. runs[attempts[h]] = "active"
    BY <1>0, <1>1, <1>3, KFacts
  <2>2. \A r \in Runs : runs[r] # "active" => NotHanding(r)'
    BY <1>2, <2>1 DEF NotHanding
  <2>3. QED
    BY <1>0, <1>4, <2>2 DEF EndsOK
<1>9. QED
  BY <1>5, <1>6, <1>7, <1>8 DEF SInv

(* Registration and its failures keep the second part. *)
LEMMA RegisterKeepsS ==
  ASSUME IInv, Register \/ RegisterFails
  PROVE  SInv'
<1>0. KInv /\ Untaken
  BY DEF IInv, SInv
<1>1. /\ UNCHANGED <<runs, activeRun, attempts, taken, cleanup>>
      /\ host.stage = "asked" /\ TakenOf(attempts[host.attempt]) = {}
  BY <1>0 DEF Register, RegisterFails, runState, Untaken
<1>2. CASE /\ Admitted(host.attempt) /\ provider' = Begin(host.attempt) /\ UNCHANGED pass
           /\ host' = [host EXCEPT !.stage = "registered"]
  BY <1>1, <1>2, RegistersKeepsS
<1>3. CASE /\ host' = IdleHost
           /\ \E reply \in {"rejected", "busy"} : Reply(host.attempt, reply)
           /\ provider' = provider \/ (~Active(provider) /\ Admitted(host.attempt))
  <2>1. HonestStep
    BY <1>1 DEF HonestStep
  <2>2. HostCalm
    BY <1>3 DEF HostCalm, IdleHost
  <2>3. PassCalm
    <3>1. PICK reply \in {"rejected", "busy"} : Reply(host.attempt, reply)
      BY <1>3
    <3>2. reply = "rejected" => host'.stage \in {"idle", "down"}
      BY <1>3, <3>1 DEF IdleHost
    <3>3. QED
      BY <1>0, <1>1, <3>1, <3>2, ReplyCalm
  <2>4. StillOccupied
    <3>1. CASE provider' = provider
      BY <1>1, <3>1, TurnStands
    <3>2. CASE ~Active(provider) /\ Admitted(host.attempt)
      BY <3>2 DEF StillOccupied, Occupies, Admitted
    <3>3. QED
      BY <1>3, <3>1, <3>2
  <2>5. QED
    BY <1>1, <2>1, <2>2, <2>3, <2>4, CalmKeepsS
<1>4. CASE /\ host' = [host EXCEPT !.stage = "held"] /\ Reply(host.attempt, "unregistered")
           /\ ~Active(provider) /\ Admitted(host.attempt)
  <2>1. HonestStep
    BY <1>1 DEF HonestStep
  <2>2. HostCalm
    <3>1. "held" \in HostStages
      BY DEF HostStages
    <3>2. host'.stage = "held"
      BY <1>0, <1>4, <3>1, HostStaged
    <3>3. QED
      BY <1>1, <3>2 DEF HostCalm
  <2>3. PassCalm
    BY <1>0, <1>4, ReplyCalm
  <2>4. StillOccupied
    BY <1>4 DEF StillOccupied, Occupies, Admitted
  <2>5. QED
    BY <1>1, <2>1, <2>2, <2>3, <2>4, CalmKeepsS
<1>5. QED
  BY <1>2, <1>3, <1>4 DEF Register, RegisterFails

(* What the native session takes was occupying the binding. *)
LEMMA SubmitKeepsS ==
  ASSUME IInv, NativeTakes \/ NativeFails
  PROVE  SInv'
<1> DEFINE h == host.attempt
<1>0. KInv /\ Occupied /\ Untaken /\ Fenced /\ EndsOK
  BY DEF IInv, SInv
<1>1. /\ host.stage = "registered"
      /\ UNCHANGED <<runs, activeRun, attempts, provider, cleanup, pass>>
      /\ taken' = taken \/ taken' = taken \cup {h}
  BY DEF NativeTakes, NativeFails, store, native, runState
<1>2. PICK stage \in {"receipt", "transport", "refused", "deferring", "doubt"} :
           /\ host' = [host EXCEPT !.stage = stage]
           /\ stage \in {"refused", "deferring"} => taken' = taken
  BY DEF NativeTakes, NativeFails
<1>3. stage \in HostStages
  BY DEF HostStages
<1>4. host'.stage = stage /\ host'.attempt = h
  BY <1>0, <1>2, <1>3, HostStaged
<1>5. h \in 1..Len(attempts) /\ Handing(h) /\ TakenOf(attempts[h]) = {}
  BY <1>0, <1>1, KFacts DEF Handing, Untaken
<1>6. /\ \A q : TakenOf(q) \subseteq TakenOf(q)'
      /\ \A q : q # attempts[h] => TakenOf(q)' = TakenOf(q)
      /\ \A q : NotHanding(q)'
  BY <1>1, <1>4 DEF TakenOf, NotHanding
<1>7. Occupied'
  <2> SUFFICES ASSUME NEW a \in 1..Len(attempts), a \in taken', attempts[a] = activeRun
               PROVE  Occupies(a)'
    BY <1>1, <1>4 DEF Occupied, Handing
  <2>1. Occupies(a)
    BY <1>0, <1>1, <1>5 DEF Occupied
  <2>2. QED
    BY <1>1, <2>1 DEF Occupies
<1>8. Untaken'
  BY <1>1, <1>2, <1>4, <1>5 DEF Untaken, TakenOf
<1>9. Fenced'
  <2>1. ~(pass.stage = "replied" /\ pass.reply = "rejected")
    BY <1>0, <1>1 DEF Fenced
  <2>2. ASSUME pass.stage \in {"preparing", "ready"}, activeRun = pass.run
        PROVE  TakenOf(pass.run) = {} /\ pass.run # attempts[h]
    BY <1>0, <1>1, <2>2 DEF Fenced, NotHanding
  <2>3. pass.stage \in {"preparing", "ready"} /\ activeRun = pass.run => TakenOf(pass.run)' = {}
    BY <1>1, <1>6, <2>2 DEF TakenOf
  <2>4. QED
    BY <1>1, <1>4, <1>6, <2>1, <2>3 DEF Fenced, NotHanding
<1>10. EndsOK'
  <2>1. \A r \in Runs : runs[r] \in {"startup-failed", "runtime-failed"} => r # attempts[h]
    BY <1>0, <1>1 DEF EndsOK, NotHanding
  <2>2. QED
    BY <1>0, <1>1, <1>6, <2>1 DEF EndsOK
<1>11. QED
  BY <1>7, <1>8, <1>9, <1>10 DEF SInv

(* Publishing the receipt, or failing to, keeps the turn active. *)
LEMMA PublishKeepsS ==
  ASSUME IInv, Publish
  PROVE  SInv'
<1>0. KInv
  BY DEF IInv
<1>1. /\ host.stage \in {"receipt", "transport"}
      /\ UNCHANGED <<runs, activeRun, attempts, taken, cleanup>>
      /\ host' = [host EXCEPT !.stage = "held"]
      /\ provider' = provider \/ provider' = [provider EXCEPT !.status = "delivery-unknown"]
      /\ \E reply \in {"pending", "delivered", "delivery-unknown", "unpublished"} :
           Reply(host.attempt, reply)
  BY DEF Publish, Resolve, runState
<1>2. HonestStep
  BY <1>1 DEF HonestStep
<1>3. HostCalm
  <2>1. "held" \in HostStages
    BY DEF HostStages
  <2>2. host'.stage = "held"
    BY <1>0, <1>1, <2>1, HostStaged
  <2>3. QED
    BY <1>1, <2>2 DEF HostCalm
<1>4. PassCalm
  <2>1. PICK reply \in {"pending", "delivered", "delivery-unknown", "unpublished"} :
          Reply(host.attempt, reply)
    BY <1>1
  <2>2. QED
    BY <1>0, <2>1, ReplyCalm
<1>5. StillOccupied
  <2>1. CASE provider' = provider
    BY <1>1, <2>1, TurnStands
  <2>2. CASE provider' = [provider EXCEPT !.status = "delivery-unknown"]
    <3>1. provider'.attempt = provider.attempt /\ provider'.status = "delivery-unknown"
      BY <1>0, <2>2, KFacts DEF Turns
    <3>2. QED
      BY <3>1 DEF StillOccupied, Occupies, Active
  <2>3. QED
    BY <1>1, <2>1, <2>2
<1>6. QED
  BY <1>1, <1>2, <1>3, <1>4, <1>5, CalmKeepsS

(* A refused submission lets go of the binding: its attempt was not taken. *)
LEMMA ResolveKeepsS ==
  ASSUME IInv, ResolveSubmission
  PROVE  SInv'
<1>0. KInv /\ Untaken
  BY DEF IInv, SInv
<1>1. /\ host.stage \in {"refused", "deferring", "doubt"}
      /\ UNCHANGED <<runs, activeRun, attempts, taken, cleanup>>
      /\ host.attempt \in 1..Len(attempts)
  BY <1>0, ResolveFacts, KFacts DEF runState
<1>2. host.stage # "doubt" => TakenOf(attempts[host.attempt]) = {}
  BY <1>0, <1>1 DEF Untaken
<1>3. /\ IdleHost.stage = "idle" /\ [host EXCEPT !.stage = "held"].stage = "held"
  <2>1. "held" \in HostStages
    BY DEF HostStages
  <2>2. QED
    BY <1>0, <2>1, HostStaged
<1>4. HonestStep
  BY <1>1 DEF HonestStep
<1>5. HostCalm
  <2>1. host' = IdleHost \/ host' = [host EXCEPT !.stage = "held"]
    BY ResolveFacts
  <2>2. QED
    BY <1>1, <1>3, <2>1 DEF HostCalm
<1>6. PassCalm
  <2>1. PICK reply \in {"rejected", "deferred", "delivery-unknown", "unregistered"} :
          /\ Reply(host.attempt, reply)
          /\ reply = "rejected" => host' = IdleHost /\ host.stage = "refused"
    BY ResolveFacts
  <2>2. QED
    BY <1>0, <1>2, <1>3, <2>1, ReplyCalm
<1>7. StillOccupied
  <2>1. CASE provider' = provider
    BY <1>1, <2>1, TurnStands
  <2>2. CASE host.stage = "doubt" /\ provider' = [provider EXCEPT !.status = "delivery-unknown"]
    <3>1. provider'.attempt = provider.attempt /\ provider'.status = "delivery-unknown"
      BY <1>0, <2>2, KFacts DEF Turns
    <3>2. QED
      BY <3>1 DEF StillOccupied, Occupies, Active
  <2>3. CASE host.stage # "doubt" /\ provider.attempt = host.attempt
    BY <1>1, <1>2, <2>3 DEF StillOccupied, Occupies, Handing, TakenOf
  <2>4. QED
    BY <2>1, <2>2, <2>3, ResolveFacts
<1>8. QED
  BY <1>1, <1>4, <1>5, <1>6, <1>7, CalmKeepsS

(* The rest of the Host's life keeps the second part. *)
LEMMA HostKeepsS ==
  ASSUME IInv, Observe \/ HostDies \/ Reattach \/ DirectTurn
  PROVE  SInv'
<1>0. KInv
  BY DEF IInv
<1>1. UNCHANGED <<runs, activeRun, attempts, taken, cleanup>>
  BY DEF Observe, HostDies, Reattach, DirectTurn, store, runState
<1>2. HonestStep
  BY <1>1 DEF HonestStep
<1>3. HostCalm
  <2>1. IdleHost.stage = "idle" /\ NoHost.stage = "down" /\ OwningHost.stage = "held"
        /\ IdlePass.stage = "idle"
    BY DEF IdleHost, NoHost, OwningHost, IdlePass
  <2>2. QED
    BY <2>1 DEF Observe, HostDies, Reattach, DirectTurn, HostCalm
<1>4. PassCalm
  <2>1. CASE HostDies
    BY <1>0, <2>1, ReplyCalm DEF HostDies
  <2>2. CASE Observe \/ Reattach \/ DirectTurn
    BY <2>2 DEF Observe, Reattach, DirectTurn, PassCalm
  <2>3. QED
    BY <2>1, <2>2
<1>5. StillOccupied
  <2>1. CASE Observe \/ HostDies \/ Reattach
    BY <1>1, <2>1, TurnStands DEF Observe, HostDies, Reattach, store, native
  <2>2. CASE DirectTurn
    <3> SUFFICES ASSUME NEW a \in 1..Len(attempts), attempts[a] = activeRun, Occupies(a)
                 PROVE  FALSE
      BY DEF StillOccupied
    <3>1. /\ provider.attempt = a /\ a # 0 /\ attempts[a] \in Runs /\ NoRun \notin Runs
          /\ RunOf(provider.attempt) = activeRun
      BY <1>0, KFacts DEF Occupies, RunOf
    <3>2. DirectInput.attempt = 0
      BY DEF DirectInput
    <3>3. QED
      BY <2>2, <3>1, <3>2 DEF DirectTurn
  <2>3. QED
    BY <2>1, <2>2
<1>6. QED
  BY <1>1, <1>2, <1>3, <1>4, <1>5, CalmKeepsS


----------------------------------------------------------------------------
(* The second part, and what it says of the Runs *)

LEMMA InitSInv == Init => SInv
<1> SUFFICES ASSUME Init PROVE SInv
  OBVIOUS
<1>1. host.stage = "down" /\ pass.stage = "idle" /\ taken = {} /\ attempts = <<>>
  BY DEF Init, NoHost, IdlePass
<1>2. Occupied /\ Untaken /\ Fenced
  BY <1>1 DEF Occupied, Untaken, Fenced
<1>3. EndsOK
  BY DEF EndsOK, Init
<1>4. QED
  BY <1>2, <1>3 DEF SInv

LEMMA NextIInv ==
  ASSUME ~LateRegistration
  PROVE  IInv /\ [Next]_vars => IInv'
<1> SUFFICES ASSUME IInv, [Next]_vars PROVE IInv'
  OBVIOUS
<1>0. KInv'
  BY NextKInv DEF IInv
<1>1. CASE UNCHANGED vars
  <2>1. HonestStep /\ HostCalm /\ PassCalm /\ UNCHANGED <<attempts, taken>>
    BY <1>1 DEF vars, store, runState, HonestStep, HostCalm, PassCalm
  <2>2. StillOccupied
    BY <1>1, TurnStands DEF vars, store, native
  <2>3. SInv'
    BY <2>1, <2>2, CalmKeepsS
  <2>4. QED
    BY <1>0, <2>3 DEF IInv
<1>2. CASE Next
  <2>1. SInv'
    BY <1>2, CommandsKeepS, DeliverKeepsS, StartKeepsS, PrepareKeepsS, SendKeepsS, ReplyKeepsS,
       CleanupKeepsS, ObservationKeepsS, RegisterKeepsS, SubmitKeepsS, PublishKeepsS,
       ResolveKeepsS, HostKeepsS DEF Next
  <2>2. QED
    BY <1>0, <2>1 DEF IInv
<1>3. QED
  BY <1>1, <1>2

LEMMA IInvariance ==
  ASSUME ~LateRegistration
  PROVE  Spec => []IInv
<1>1. Init => IInv
  BY InitKInv, InitSInv DEF IInv
<1>2. IInv /\ [Next]_vars => IInv'
  BY NextIInv
<1>3. QED
  BY <1>1, <1>2, PTL DEF Spec

(* How a Run ended is true of the native session, then and ever after: one that a
   Provider turn reported was taken, and one that failed to start or was refused was
   not, whatever crashed, was lost or came late (saveRoleRunDeliveryFailure). *)
THEOREM HonestEndsTheorem ==
  ASSUME ~LateRegistration
  PROVE  Spec => []HonestEnds
<1>1. IInv => HonestEnds
  BY DEF IInv, SInv, EndsOK, HonestEnds
<1>2. Spec => []IInv
  BY IInvariance
<1>3. QED
  BY <1>1, <1>2, PTL

----------------------------------------------------------------------------
(* The Runs as their dispatcher sees them *)

\* The Runs stand, or one begins or ends
LifeStep ==
  \/ UNCHANGED <<runs, reports>>
  \/ \E r \in Runs : Begins(r)
  \/ \E r \in Runs, outcome \in Outcomes : Ends(r, outcome)

LEMMA TerminalizeLife ==
  ASSUME NEW r \in Runs, NEW outcome \in Outcomes,
         Terminalize(r, outcome) \/ UNCHANGED <<runs, reports>>
  PROVE  LifeStep
<1>1. CASE Terminalize(r, outcome)
  <2>1. Ends(r, outcome) \/ UNCHANGED <<runs, reports>>
    BY <1>1 DEF Terminalize, Ends, runState
  <2>2. QED
    BY <2>1 DEF LifeStep
<1>2. CASE UNCHANGED <<runs, reports>>
  BY <1>2 DEF LifeStep
<1>3. QED
  BY <1>1, <1>2

\* What no step but a submission does to the inputs taken
NoneTaken == \A q \in Runs : TakenOf(q)' = TakenOf(q)

(* Every step but a submission takes no input and at most begins or ends a Run. *)
LEMMA LifeSteps ==
  ASSUME KInv, Next, ~NativeTakes, ~NativeFails
  PROVE  LifeStep /\ NoneTaken
<1>1. ASSUME NEW r \in Runs, Dispatch(r) \/ Retire(r) PROVE LifeStep
  <2>1. CASE Dispatch(r)
    BY <2>1 DEF Dispatch, LifeStep, Begins
  <2>2. CASE Retire(r)
    BY <2>2, TerminalizeLife, NoClaimEnd DEF Retire
  <2>3. QED
    BY <1>1, <2>1, <2>2
<1>2. ASSUME NEW r \in Runs, SettleAccepted(r) \/ FailRejected(r) \/ StartDelivery(r) PROVE LifeStep
  <2>1. CASE FailRejected(r)
    BY <2>1, TerminalizeLife, NoClaimEnd DEF FailRejected
  <2>2. CASE SettleAccepted(r) \/ StartDelivery(r)
    BY <2>2 DEF SettleAccepted, StartDelivery, LifeStep, store, runState
  <2>3. QED
    BY <1>2, <2>1, <2>2
<1>3. ASSUME PrepareFails PROVE LifeStep
  <2>1. pass.run \in Runs
    BY <1>3 DEF PrepareFails, Preparing, KInv, PassOK
  <2>2. Terminalize(pass.run, "startup-failed") \/ UNCHANGED <<runs, reports>>
    BY <1>3 DEF PrepareFails, runState
  <2>3. QED
    BY <2>1, <2>2, TerminalizeLife, NoClaimEnd
<1>4. ASSUME HandleReply PROVE LifeStep
  <2>1. pass.run \in Runs
    BY <1>4 DEF HandleReply, KInv, PassOK
  <2>2. Terminalize(pass.run, "runtime-failed") \/ UNCHANGED <<runs, reports>>
    BY <1>4 DEF HandleReply, runState
  <2>3. QED
    BY <2>1, <2>2, TerminalizeLife, NoClaimEnd
<1>5. ASSUME CompleteCleanup PROVE LifeStep
  <2>1. UNCHANGED <<runs, reports>> \/ (activeRun \in Runs /\ Terminalize(activeRun, "cancelled"))
    BY <1>5, KFacts DEF CompleteCleanup, runState
  <2>2. CASE UNCHANGED <<runs, reports>>
    BY <2>2 DEF LifeStep
  <2>3. QED
    BY <2>1, <2>2, TerminalizeLife, NoClaimEnd
<1>6. ASSUME NEW o \in inbox, ApplyObservation(o) PROVE LifeStep
  <2>1. attempts[o.attempt] \in Runs
    BY KFacts
  <2>2. Terminalize(attempts[o.attempt], "reported") \/ UNCHANGED <<runs, reports>>
    BY <1>6 DEF ApplyObservation, runState
  <2>3. QED
    BY <2>1, <2>2, TerminalizeLife, NoClaimEnd
<1>7. ASSUME RequestCleanup \/ Prepared \/ PrepareOvertaken \/ Send \/ ReplyFails \/ Crash
             \/ Quiesce \/ CleanupFails
      PROVE  LifeStep
  <2>1. UNCHANGED <<runs, reports>>
    BY <1>7 DEF RequestCleanup, Prepared, PrepareOvertaken, Send, ReplyFails, Crash, Quiesce,
       CleanupFails, store, runState
  <2>2. QED
    BY <2>1 DEF LifeStep
<1>8. ASSUME Register \/ RegisterFails \/ Publish \/ ResolveSubmission \/ Observe \/ HostDies
             \/ Reattach \/ DirectTurn
      PROVE  LifeStep
  <2>1. UNCHANGED <<runs, reports>>
    BY <1>8 DEF Register, RegisterFails, Publish, ResolveSubmission, Observe, HostDies, Reattach,
       DirectTurn, store, runState
  <2>2. QED
    BY <2>1 DEF LifeStep
<1>9. LifeStep
  BY <1>1, <1>2, <1>3, <1>4, <1>5, <1>6, <1>7, <1>8 DEF Next
<1>10. NoneTaken
  <2>1. CASE Send
    <3>1. PICK a \in 1..Len(attempts'), reply \in Replies : Sent(a, reply)
      BY <2>1, SendFacts
    <3>2. /\ pass.run \in Runs /\ runs[pass.run] # "none" /\ UNCHANGED <<runState, taken>>
          /\ attempts' = attempts \/ attempts' = Append(attempts, pass.run)
      BY <3>1 DEF Sent
    <3>3. QED
      BY <3>2, MoreAttempts DEF NoneTaken
  <2>2. CASE ~Send
    <3>1. UNCHANGED <<attempts, taken>>
      BY <2>2 DEF Next, Dispatch, Retire, RequestCleanup, SettleAccepted, FailRejected,
         StartDelivery, Prepared, PrepareOvertaken, PrepareFails, ReplyFails, HandleReply, Crash,
         Quiesce, CompleteCleanup, CleanupFails, ApplyObservation, Register, RegisterFails,
         Publish, ResolveSubmission, Observe, HostDies, Reattach, DirectTurn
    <3>2. QED
      BY <3>1 DEF NoneTaken, TakenOf
  <2>3. QED
    BY <2>1, <2>2
<1>11. QED
  BY <1>9, <1>10

(* A submission gives one Run its input, once. *)
LEMMA SubmissionTakes ==
  ASSUME IInv, NativeTakes \/ NativeFails
  PROVE  /\ UNCHANGED <<runs, reports>>
         /\ \/ NoneTaken
            \/ \E r \in Runs : /\ runs[r] # "none" /\ TakenOf(r) = {}
                               /\ TakenOf(r)' = {host.attempt}
                               /\ \A q \in Runs : q # r => TakenOf(q)' = TakenOf(q)
<1>0. KInv /\ Untaken
  BY DEF IInv, SInv
<1>1. /\ host.stage = "registered" /\ UNCHANGED <<runs, reports, attempts>>
      /\ taken' = taken \/ taken' = taken \cup {host.attempt}
  BY DEF NativeTakes, NativeFails, store, runState
<1>2. CASE taken' = taken
  BY <1>1, <1>2 DEF NoneTaken, TakenOf
<1>3. CASE taken' = taken \cup {host.attempt}
  <2>0. host.attempt \in 1..Len(attempts)
    BY <1>0, <1>1, KFacts
  <2>1. PICK r \in Runs : r = attempts[host.attempt] /\ runs[r] # "none" /\ TakenOf(r) = {}
    BY <1>0, <1>1, <2>0, KFacts DEF Untaken, KInv, AttemptsOK
  <2>2. TakenOf(r)' = {host.attempt} /\ \A q \in Runs : q # r => TakenOf(q)' = TakenOf(q)
    BY <1>1, <1>3, <2>1 DEF TakenOf
  <2>3. QED
    BY <1>1, <2>1, <2>2
<1>4. QED
  BY <1>1, <1>2, <1>3


(* What the mapping shows of a Run. *)
LEMMA PhaseFacts ==
  ASSUME NEW r
  PROVE  /\ Phase(r) = "none" <=> runs[r] = "none"
         /\ Phase(r) = "active" <=> runs[r] = "active"
         /\ runs[r] \notin {"none", "active"} => Phase(r) = "ended"
BY DEF Phase

(* A Run begins or ends as RunLifecycle says. *)
LEMMA LifeRefines ==
  ASSUME KInv, LifeStep, NoneTaken
  PROVE  [Lifecycle!Next]_(Lifecycle!vars)
<1> DEFINE phase == [r \in Runs |-> Phase(r)]
           given == [r \in Runs |-> Cardinality(TakenOf(r))]
<1>0. /\ runs \in [Runs -> RunStatuses] /\ reports \in [Runs -> Nat]
      /\ \A r \in Runs : runs[r] = "active" => activeRun = r /\ reports[r] = 0
      /\ NoRun \notin Runs
  BY KFacts DEF KInv, RunTypes, RunsOK
<1>1. given' = given
  BY DEF NoneTaken
<1>2. CASE UNCHANGED <<runs, reports>>
  <2>1. phase' = phase
    BY <1>2 DEF Phase
  <2>2. QED
    BY <1>1, <1>2, <2>1 DEF Lifecycle!vars
<1>3. ASSUME NEW r \in Runs, Begins(r) PROVE Lifecycle!Begin(r)
  <2>1. runs'[r] = "active" /\ \A q \in Runs : q # r => runs'[q] = runs[q]
    BY <1>0, <1>3 DEF Begins
  <2>2. Phase(r)' = "active" /\ \A q \in Runs : q # r => Phase(q)' = Phase(q)
    BY <2>1 DEF Phase
  <2>3. phase' = [phase EXCEPT ![r] = "active"]
    BY <2>2
  <2>4. phase[r] = "none" /\ \A q \in Runs : phase[q] # "active"
    BY <1>0, <1>3, PhaseFacts DEF Begins
  <2>5. reports' = reports
    BY <1>3 DEF Begins
  <2>6. QED
    BY <1>1, <2>3, <2>4, <2>5 DEF Lifecycle!Begin
<1>4. ASSUME NEW r \in Runs, NEW outcome \in Outcomes, Ends(r, outcome) PROVE Lifecycle!End(r)
  <2>1. runs'[r] = outcome /\ \A q \in Runs : q # r => runs'[q] = runs[q]
    BY <1>0, <1>4 DEF Ends
  <2>2. outcome \notin {"none", "active"}
    BY DEF Outcomes
  <2>3. Phase(r)' = "ended" /\ \A q \in Runs : q # r => Phase(q)' = Phase(q)
    BY <2>1, <2>2 DEF Phase
  <2>4. phase' = [phase EXCEPT ![r] = "ended"]
    BY <2>3
  <2>5. phase[r] = "active"
    BY <1>4, PhaseFacts DEF Ends
  <2>6. reports' = [reports EXCEPT ![r] = 1]
    <3>1. reports[r] + 1 = 1
      BY <1>0, <1>4 DEF Ends
    <3>2. reports' = [reports EXCEPT ![r] = reports[r] + 1]
      BY <1>4 DEF Ends
    <3>3. QED
      BY <3>1, <3>2
  <2>7. QED
    BY <1>1, <2>4, <2>5, <2>6 DEF Lifecycle!End
<1>5. CASE \E r \in Runs : Begins(r)
  BY <1>3, <1>5 DEF Lifecycle!Next
<1>6. CASE \E r \in Runs, outcome \in Outcomes : Ends(r, outcome)
  BY <1>4, <1>6 DEF Lifecycle!Next
<1>7. QED
  BY <1>2, <1>5, <1>6 DEF LifeStep

(* A submission that the native session takes gives the Run its input. *)
LEMMA SubmissionRefines ==
  ASSUME IInv, NativeTakes \/ NativeFails
  PROVE  [Lifecycle!Next]_(Lifecycle!vars)
<1> DEFINE phase == [r \in Runs |-> Phase(r)]
           given == [r \in Runs |-> Cardinality(TakenOf(r))]
<1>0. KInv
  BY DEF IInv
<1>1. UNCHANGED <<runs, reports>>
  BY SubmissionTakes
<1>2. phase' = phase
  BY <1>1 DEF Phase
<1>3. CASE NoneTaken
  BY <1>0, <1>1, <1>3, LifeRefines DEF LifeStep
<1>4. ASSUME NEW r \in Runs, runs[r] # "none", TakenOf(r) = {}, TakenOf(r)' = {host.attempt},
             \A q \in Runs : q # r => TakenOf(q)' = TakenOf(q)
      PROVE  Lifecycle!GiveInput(r)
  <2>1. Cardinality(TakenOf(r)) = 0 /\ Cardinality(TakenOf(r))' = 1
    BY <1>4, FS_EmptySet, FS_Singleton
  <2>2. given' = [given EXCEPT ![r] = 1] /\ given[r] = 0
    BY <1>4, <2>1
  <2>3. phase[r] # "none"
    BY <1>4, PhaseFacts
  <2>4. QED
    BY <1>1, <1>2, <2>2, <2>3 DEF Lifecycle!GiveInput
<1>5. QED
  BY <1>3, <1>4, SubmissionTakes DEF Lifecycle!Next

(* To whoever dispatches Runs, all this is RunLifecycle: however crashes, lost
   replies, retries and interventions interleave, one Run is active at a time, its
   input is given to the native session under one attempt at most, and it ends once
   with exactly one report (deliverActiveRun, terminalizeExactTaskRun). *)
THEOREM Refinement ==
  ASSUME ~LateRegistration
  PROVE  Spec => ImplementsRunLifecycle
<1>1. Init => Lifecycle!Init
  <2> SUFFICES ASSUME Init PROVE Lifecycle!Init
    OBVIOUS
  <2>1. \A r \in Runs : Phase(r) = "none"
    BY DEF Init, Phase
  <2>2. \A r \in Runs : Cardinality(TakenOf(r)) = 0
    BY FS_EmptySet DEF Init, TakenOf
  <2>3. QED
    BY <2>1, <2>2 DEF Init, Lifecycle!Init
<1>2. IInv /\ [Next]_vars => [Lifecycle!Next]_(Lifecycle!vars)
  <2> SUFFICES ASSUME IInv, [Next]_vars PROVE [Lifecycle!Next]_(Lifecycle!vars)
    OBVIOUS
  <2>0. KInv
    BY DEF IInv
  <2>1. CASE UNCHANGED vars
    <3>1. LifeStep
      BY <2>1 DEF LifeStep, vars, store, runState
    <3>2. NoneTaken
      BY <2>1 DEF NoneTaken, TakenOf, vars
    <3>3. QED
      BY <2>0, <3>1, <3>2, LifeRefines
  <2>2. CASE NativeTakes \/ NativeFails
    BY <2>2, SubmissionRefines
  <2>3. CASE Next /\ ~NativeTakes /\ ~NativeFails
    BY <2>0, <2>3, LifeSteps, LifeRefines
  <2>4. QED
    BY <2>1, <2>2, <2>3
<1>3. Spec => []IInv
  BY IInvariance
<1>4. QED
  BY <1>1, <1>2, <1>3, PTL DEF Spec, ImplementsRunLifecycle, Lifecycle!Spec
================================================================================
