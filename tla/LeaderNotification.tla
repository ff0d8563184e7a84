--------------------------- MODULE LeaderNotification ---------------------------
(***************************************************************************)
(* How the signals in a Leader's mailbox reach the Leader.  Three parties  *)
(* share the Task Store: the Controller's pass, which claims a batch,      *)
(* sends one notification for it and settles the claim                     *)
(* (leaderWakeupProcessor.ts, fileSchedulerStoreAdapter.ts); the Agent     *)
(* Host, a process of its own, which registers the input as the Provider   *)
(* binding's turn, hands it to the native session and publishes what came  *)
(* of it (agentHost.ts); and people, who enqueue signals and may resolve a *)
(* claim, stop the session or replace it.                                  *)
(*                                                                         *)
(* Every `await' is a boundary between steps, so the Controller may crash, *)
(* a reply may be lost and an acceptance may arrive late at each of them.  *)
(* The early returns of processLeaderWakeups that change nothing (Task     *)
(* unavailable, workspace not ready, aggregation window, human authority)  *)
(* are passes that take no step.                                           *)
(***************************************************************************)
EXTENDS WorkMailbox, ProviderTurn

CONSTANTS MaxSignals,   \* signals enqueued by commands
          MaxFaults     \* failures, refusals, crashes and interventions

ASSUME BoundsAssumption == MaxSignals \in Nat /\ MaxFaults \in Nat

VARIABLES
  mailbox,    \* the Leader's role mailbox; a claim is one `processing' batch
  wakes,      \* the TaskWakes, in order: [refs, consumed]
  provider,   \* the turn of the Leader's Provider binding
  log,        \* per attempt, its notification.delivery outcomes in order
  accepted,   \* attempts with a persisted turn.accepted or terminal event
  inbox,      \* observations in the runtime inbox, not yet applied
  resolved,   \* attempts with a notification.resolved event
  retired,    \* signals of retired Messages, consumed alone
  replacing,  \* a session replacement is requested
  pass,       \* the Controller's pass: stage, attempt and the Host's reply
  host,       \* the Agent Host: stage and the attempt it is occupied with
  faults,     \* faults so far
  carried,    \* history: the signals of each attempt
  delivered,  \* history: attempts the native session took
  reissued    \* history: signals a session replacement released

store == <<mailbox, wakes, provider, log, accepted, inbox, resolved, retired,
           replacing>>
history == <<carried, delivered, reissued>>
vars == <<store, pass, host, faults, history>>

PassStages == {"idle", "claimed", "sending", "replied"}
HostStages == {"idle", "asked", "registered", "receipt", "transport", "refused",
               "deferring", "doubt", "held"}
Replies == {"none", "delivered", "rejected", "busy", "unavailable",
            "delivery-unknown", "pending"}
Outcomes == {"accepted", "rejected", "deferred", "unknown"}

IdlePass == [stage |-> "idle", attempt |-> 0, reply |-> "none"]
IdleHost == [stage |-> "idle", attempt |-> 0]

Init ==
  /\ mailbox = EmptyMailbox
  /\ wakes = <<>>
  /\ provider = NoTurn
  /\ log = <<>>
  /\ accepted = {} /\ inbox = {} /\ resolved = {} /\ retired = {}
  /\ replacing = FALSE
  /\ pass = IdlePass
  /\ host = IdleHost
  /\ faults = 0
  /\ carried = <<>> /\ delivered = {} /\ reissued = {}

Fault == faults < MaxFaults /\ faults' = faults + 1

Claim == mailbox.processing

\* The last notification.delivery outcome of an attempt
LastOutcome(a) == IF log[a] = <<>> THEN "none" ELSE log[a][Len(log[a])]

\* The binding's turn, when it belongs to attempt a
Native(a) == IF provider.attempt = a THEN provider.status ELSE "none"

----------------------------------------------------------------------------
(* Commands *)

\* enqueueWork on the Leader's mailbox
Enqueue(k) ==
  /\ mailbox.next <= MaxSignals
  /\ mailbox' = EnqueueSignal(mailbox, k)
  /\ UNCHANGED <<wakes, provider, log, accepted, inbox, resolved, retired,
                 replacing, pass, host, faults, history>>

\* settleExactWorkExecution for a retired Message: only a batch that holds
\* nothing else is consumed
RetireMessage(s) ==
  /\ mailbox.pending # NoBatch
  /\ mailbox.pending.refs = {s} /\ mailbox.pending.count = 1
  /\ s \notin Claim.batch.refs
  /\ mailbox' = ConsumePendingBatch(mailbox)
  /\ retired' = retired \cup {s}
  /\ UNCHANGED <<wakes, provider, log, accepted, inbox, resolved, replacing,
                 pass, host, faults, history>>

\* yui task wake resolve: release an unknown claim without a replay
ResolveWake ==
  /\ Claim # NoClaim
  /\ LastOutcome(Claim.id) = "unknown"
  /\ ~Active(provider)
  /\ Fault
  /\ mailbox' = CompleteProcessing(mailbox)
  /\ resolved' = resolved \cup {Claim.id}
  /\ UNCHANGED <<wakes, provider, log, accepted, inbox, retired, replacing,
                 pass, host, history>>

\* yui task role session new
RequestReplacement ==
  /\ ~replacing
  /\ Fault
  /\ replacing' = TRUE
  /\ UNCHANGED <<mailbox, wakes, provider, log, accepted, inbox, resolved,
                 retired, pass, host, history>>

----------------------------------------------------------------------------
(* The Controller's pass *)

Record(a, outcome) ==
  IF outcome \in ToSet(log[a]) THEN log
  ELSE [log EXCEPT ![a] = Append(@, outcome)]

\* Mutant: every final outcome consumes the wake
Settle_ConsumesRejected(a, outcome) ==
  IF Claim = NoClaim \/ Claim.id # a
  THEN UNCHANGED <<mailbox, wakes, log>>
  ELSE /\ log' = Record(a, outcome)
       /\ mailbox' = IF outcome \in {"accepted", "rejected"}
                     THEN CompleteProcessing(mailbox) ELSE mailbox
       /\ wakes' = IF outcome \in {"accepted", "rejected"}
                   THEN [wakes EXCEPT ![Claim.wake].consumed = TRUE] ELSE wakes

\* settleLeaderNotification: the outcome is recorded once, and an accepted
\* or rejected one also completes the claim; stale attempts change nothing
Settle(a, outcome) ==
  IF Claim = NoClaim \/ Claim.id # a
  THEN UNCHANGED <<mailbox, wakes, log>>
  ELSE /\ log' = Record(a, outcome)
       /\ mailbox' = IF outcome \in {"accepted", "rejected"}
                     THEN CompleteProcessing(mailbox) ELSE mailbox
       /\ wakes' = IF outcome = "accepted"
                   THEN [wakes EXCEPT ![Claim.wake].consumed = TRUE] ELSE wakes

\* A fresh attempt for the signals of a batch
NewAttempt(refs) ==
  /\ log' = Append(log, <<>>)
  /\ carried' = Append(carried, refs)
  /\ pass' = [stage |-> "claimed", attempt |-> Len(log) + 1, reply |-> "none"]

\* claimLeaderNotification with no claim: a new wake for what is pending
ClaimWake ==
  /\ pass = IdlePass
  /\ Claim = NoClaim /\ mailbox.pending # NoBatch /\ ~Active(provider)
  /\ wakes' = Append(wakes, [refs |-> mailbox.pending.refs, consumed |-> FALSE])
  /\ mailbox' = ClaimPending(mailbox, Len(log) + 1, Len(wakes) + 1)
  /\ NewAttempt(mailbox.pending.refs)
  /\ UNCHANGED <<provider, accepted, inbox, resolved, retired, replacing, host,
                 faults, delivered, reissued>>

Inspecting == pass = IdlePass /\ Claim # NoClaim

AcceptanceKnown(a) ==
  a \in accepted \/ Native(a) = "accepted" \/ LastOutcome(a) = "accepted"

RejectionKnown(a) == Native(a) = "rejected" \/ LastOutcome(a) = "rejected"

\* Mutant: an attempt of unknown outcome is tried again
DeferralKnown_RetriesUnknown(a) ==
  Native(a) = "deferred" \/ LastOutcome(a) \in {"deferred", "unknown"}

DeferralKnown(a) == Native(a) = "deferred" \/ LastOutcome(a) = "deferred"

\* claimLeaderNotification finds how a claimed attempt ended
InspectSettled ==
  /\ Inspecting
  /\ \/ AcceptanceKnown(Claim.id) /\ Settle(Claim.id, "accepted")
     \/ /\ ~AcceptanceKnown(Claim.id) /\ RejectionKnown(Claim.id)
        /\ Settle(Claim.id, "rejected")
  /\ UNCHANGED <<provider, accepted, inbox, resolved, retired, replacing, pass,
                 host, faults, history>>

Undecided(a) ==
  ~AcceptanceKnown(a) /\ ~RejectionKnown(a) /\ Native(a) # "submitting"

\* Mutant: a claim left by a crash before any outcome is skipped
InspectUnknown_SkipsUnrecorded ==
  /\ Inspecting
  /\ Undecided(Claim.id) /\ ~DeferralKnown(Claim.id)
  /\ LastOutcome(Claim.id) # "none"
  /\ Settle(Claim.id, "unknown")
  /\ UNCHANGED <<provider, accepted, inbox, resolved, retired, replacing, pass,
                 host, faults, history>>

\* ... or cannot find out, and says so without a replay
InspectUnknown ==
  /\ Inspecting
  /\ Undecided(Claim.id) /\ ~DeferralKnown(Claim.id)
  /\ Settle(Claim.id, "unknown")
  /\ UNCHANGED <<provider, accepted, inbox, resolved, retired, replacing, pass,
                 host, faults, history>>

\* ... or knows the attempt was not taken, and tries the same wake again
Resubmit ==
  /\ Inspecting
  /\ Undecided(Claim.id) /\ DeferralKnown(Claim.id)
  /\ ~(provider.attempt # Claim.id /\ Active(provider))
  /\ mailbox' = [mailbox EXCEPT !.processing.id = Len(log) + 1]
  /\ NewAttempt(Claim.batch.refs)
  /\ UNCHANGED <<wakes, provider, accepted, inbox, resolved, retired, replacing,
                 host, faults, delivered, reissued>>

\* prepareRoleSession or waitUntilReady throws before anything is sent
PrepareFails ==
  /\ pass.stage = "claimed"
  /\ Fault
  /\ Settle(pass.attempt, "deferred")
  /\ pass' = IdlePass
  /\ UNCHANGED <<provider, accepted, inbox, resolved, retired, replacing, host,
                 history>>

\* sendOnce over tryPush: the Host takes the request, is busy with another
\* input, cannot be reached, or refuses it before any registration
Send ==
  /\ pass.stage = "claimed"
  /\ \/ /\ host.stage = "idle" /\ Native(0) # "accepted"
        /\ pass' = [pass EXCEPT !.stage = "sending"]
        /\ host' = [stage |-> "asked", attempt |-> pass.attempt]
        /\ UNCHANGED faults
     \/ /\ host.stage # "idle" \/ Native(0) = "accepted"
        /\ Fault
        /\ pass' = [pass EXCEPT !.stage = "replied", !.reply = "busy"]
        /\ UNCHANGED host
     \/ /\ Fault
        /\ \E reply \in {"unavailable", "rejected"} :
             pass' = [pass EXCEPT !.stage = "replied", !.reply = reply]
        /\ UNCHANGED host
  /\ UNCHANGED <<store, history>>

\* The Host's reply is lost, or its acceptance timer runs out first
ReplyFails ==
  /\ pass.stage = "sending"
  /\ \/ /\ Fault
        /\ pass' = [pass EXCEPT !.stage = "replied", !.reply = "delivery-unknown"]
     \/ /\ pass' = [pass EXCEPT !.stage = "replied", !.reply = "pending"]
        /\ UNCHANGED faults
  /\ UNCHANGED <<store, host, history>>

\* Mutant: a lost reply counts as not delivered
Disposition_LostIsDeferred(reply) ==
  CASE reply = "delivered" -> "accepted"
    [] reply = "rejected" -> "rejected"
    [] OTHER -> "deferred"

\* What processLeaderWakeups makes of the report
Disposition(reply) ==
  CASE reply = "delivered" -> "accepted"
    [] reply = "delivery-unknown" -> "unknown"
    [] reply = "rejected" -> "rejected"
    [] OTHER -> "deferred"

HandleReply ==
  /\ pass.stage = "replied"
  /\ IF pass.reply = "pending" THEN UNCHANGED <<mailbox, wakes, log>>
     ELSE Settle(pass.attempt, Disposition(pass.reply))
  /\ pass' = IdlePass
  /\ UNCHANGED <<provider, accepted, inbox, resolved, retired, replacing, host,
                 faults, history>>

\* The Controller dies and starts again: the store and the Host remain
Crash ==
  /\ pass # IdlePass
  /\ Fault
  /\ pass' = IdlePass
  /\ UNCHANGED <<store, host, history>>

\* completeRuntimeCleanup for a replacement, after the Host is stopped.  Late
\* observations of the discarded session fold as obsolete.
ReplaceSession ==
  /\ replacing /\ pass = IdlePass
  /\ provider' = NoTurn
  /\ mailbox' = EnqueueSignal(IF Claim = NoClaim THEN mailbox
                              ELSE ReleaseProcessing(mailbox), 0)
  /\ reissued' = reissued \cup Claim.batch.refs
  /\ replacing' = FALSE
  /\ inbox' = {}
  /\ host' = IdleHost
  /\ UNCHANGED <<wakes, log, accepted, resolved, retired, pass, faults, carried,
                 delivered>>

\* completeRuntimeCleanup that only ends the session: the claim stays
StopSession ==
  /\ pass = IdlePass
  /\ Fault
  /\ provider' = CancelQuiescent(provider)
  /\ host' = IdleHost
  /\ UNCHANGED <<mailbox, wakes, log, accepted, inbox, resolved, retired,
                 replacing, pass, history>>

\* observeRuntimeObservation: an acceptance or terminal of the binding's turn
\* is folded and persisted; a terminal of an older turn needs its acceptance
ApplyObservation(o) ==
  LET current == provider.attempt = o.attempt
                 /\ provider.status \notin {"rejected", "deferred"}
  IN  /\ o \in inbox
      /\ inbox' = inbox \ {o}
      /\ provider' = IF ~current THEN provider
                     ELSE IF o.kind = "terminal" THEN EndTurn(provider)
                     ELSE Accept(provider)
      /\ accepted' = IF current \/ (o.kind = "terminal" /\ o.attempt \in accepted)
                     THEN accepted \cup {o.attempt} ELSE accepted
      /\ UNCHANGED <<mailbox, wakes, log, resolved, retired, replacing, pass,
                     host, faults, history>>

----------------------------------------------------------------------------
(* The Agent Host: submitRun *)

\* Whoever still waits for the answer about attempt a gets it
Reply(a, reply) ==
  pass' = IF pass.stage = "sending" /\ pass.attempt = a
          THEN [pass EXCEPT !.stage = "replied", !.reply = reply] ELSE pass

\* beginDurableProviderTurn commits, or the session is busy
Register ==
  /\ host.stage = "asked"
  /\ \/ /\ ~Active(provider)
        /\ provider' = Begin(host.attempt)
        /\ host' = [host EXCEPT !.stage = "registered"]
        /\ UNCHANGED pass
     \/ /\ Active(provider)
        /\ Reply(host.attempt, "busy")
        /\ host' = IdleHost
        /\ UNCHANGED provider
  /\ UNCHANGED <<mailbox, wakes, log, accepted, inbox, resolved, retired,
                 replacing, faults, history>>

\* Registration fails: definitely; with its acknowledgement lost and the
\* record then settled as rejected; or with both calls in doubt
RegisterFails ==
  /\ host.stage = "asked"
  /\ ~Active(provider)
  /\ Fault
  /\ \/ /\ provider' \in {provider,
                          [attempt |-> host.attempt, status |-> "rejected"]}
        /\ Reply(host.attempt, "rejected")
        /\ host' = IdleHost
     \/ /\ provider' \in {provider, Begin(host.attempt)}
        /\ Reply(host.attempt, "delivery-unknown")
        /\ host' = [host EXCEPT !.stage = "held"]
  /\ UNCHANGED <<mailbox, wakes, log, accepted, inbox, resolved, retired,
                 replacing, history>>

\* session.submit returns a receipt: the Provider's, or only the transport's
NativeTakes ==
  /\ host.stage = "registered"
  /\ delivered' = delivered \cup {host.attempt}
  /\ \E stage \in {"receipt", "transport"} : host' = [host EXCEPT !.stage = stage]
  /\ UNCHANGED <<store, pass, faults, carried, reissued>>

\* session.submit fails: the input is refused, the session is busy, or it is
\* unknown whether the Provider took it
NativeFails ==
  /\ host.stage = "registered"
  /\ Fault
  /\ \/ /\ \E stage \in {"refused", "deferring"} :
             host' = [host EXCEPT !.stage = stage]
        /\ UNCHANGED delivered
     \/ /\ host' = [host EXCEPT !.stage = "doubt"]
        /\ delivered' \in {delivered, delivered \cup {host.attempt}}
  /\ UNCHANGED <<store, pass, carried, reissued>>

\* publishStructuredProviderAccepted puts a Provider's receipt in the inbox; a
\* transport's acknowledges nothing.  Before or after that it may fail, and the
\* doubt is then recorded with the turn, or cannot be.
Publish ==
  LET receipt == IF host.stage = "transport" THEN {}
                 ELSE {[attempt |-> host.attempt, kind |-> "accepted"]}
  IN  /\ host.stage \in {"receipt", "transport"}
      /\ host' = [host EXCEPT !.stage = "held"]
      /\ \/ /\ inbox' = inbox \cup receipt
            /\ Reply(host.attempt, IF receipt = {} THEN "pending" ELSE "delivered")
            /\ UNCHANGED <<provider, faults>>
         \/ /\ Fault
            /\ inbox' \in {inbox, inbox \cup receipt}
            /\ \/ /\ CanSettle(provider, host.attempt, "delivery-unknown")
                  /\ provider' = [provider EXCEPT !.status = "delivery-unknown"]
               \/ UNCHANGED provider
            /\ Reply(host.attempt, "delivery-unknown")
      /\ UNCHANGED <<mailbox, wakes, log, accepted, resolved, retired, replacing,
                     history>>

ResolveStatus == [refused |-> "rejected", deferring |-> "deferred",
                  doubt |-> "delivery-unknown"]
ResolveReply == [refused |-> "rejected", deferring |-> "busy",
                 doubt |-> "delivery-unknown"]

\* resolveProviderTurnSubmission, or its failure, which keeps the Host held
ResolveSubmission ==
  /\ host.stage \in DOMAIN ResolveStatus
  /\ LET status == ResolveStatus[host.stage]
     IN  \/ /\ CanSettle(provider, host.attempt, status)
            /\ provider' = [provider EXCEPT !.status = status]
            /\ Reply(host.attempt, ResolveReply[host.stage])
            /\ host' = IF host.stage = "doubt"
                       THEN [host EXCEPT !.stage = "held"] ELSE IdleHost
            /\ UNCHANGED faults
         \/ /\ IF CanSettle(provider, host.attempt, status) THEN Fault
               ELSE UNCHANGED faults
            /\ Reply(host.attempt, "delivery-unknown")
            /\ host' = [host EXCEPT !.stage = "held"]
            /\ UNCHANGED provider
  /\ UNCHANGED <<mailbox, wakes, log, accepted, inbox, resolved, retired,
                 replacing, history>>

\* The turn of a held input ends, or a late receipt arrives first
Observe ==
  /\ host.stage = "held" /\ host.attempt \in delivered
  /\ \/ /\ inbox' = inbox \cup {[attempt |-> host.attempt, kind |-> "terminal"]}
        /\ host' = IdleHost
     \/ /\ Native(host.attempt) \in {"submitting", "delivery-unknown"}
        /\ inbox' = inbox \cup {[attempt |-> host.attempt, kind |-> "accepted"]}
        /\ UNCHANGED host
  /\ UNCHANGED <<mailbox, wakes, provider, log, accepted, resolved, retired,
                 replacing, pass, faults, history>>

\* The Host process dies; a request in flight ends in a broken connection
HostDies ==
  /\ host.stage # "idle"
  /\ Fault
  /\ Reply(host.attempt, "delivery-unknown")
  /\ host' = IdleHost
  /\ UNCHANGED <<store, history>>

\* A native turn that did not come from Yui occupies the binding, and ends
DirectTurn ==
  /\ \/ /\ ~Active(provider) /\ host.stage = "idle"
        /\ Fault
        /\ provider' = [attempt |-> 0, status |-> "accepted"]
     \/ /\ Native(0) = "accepted"
        /\ provider' = EndTurn(provider)
        /\ UNCHANGED faults
  /\ UNCHANGED <<mailbox, wakes, log, accepted, inbox, resolved, retired,
                 replacing, pass, host, history>>

----------------------------------------------------------------------------

PassStep ==
  \/ ClaimWake \/ InspectSettled \/ InspectUnknown \/ Resubmit
  \/ Send \/ HandleReply \/ ReplaceSession

HostStep == Register \/ NativeTakes \/ Publish \/ ResolveSubmission \/ Observe

Next ==
  \/ \E k \in Keys \cup {0} : Enqueue(k)
  \/ \E s \in mailbox.pending.refs : RetireMessage(s)
  \/ ResolveWake \/ RequestReplacement
  \/ ClaimWake \/ InspectSettled \/ InspectUnknown \/ Resubmit
  \/ PrepareFails \/ Send \/ ReplyFails \/ HandleReply \/ Crash
  \/ ReplaceSession \/ StopSession
  \/ \E o \in inbox : ApplyObservation(o)
  \/ Register \/ RegisterFails \/ NativeTakes \/ NativeFails \/ Publish
  \/ ResolveSubmission \/ Observe \/ HostDies \/ DirectTurn

Fairness ==
  /\ WF_vars(PassStep) /\ WF_vars(HostStep)
  /\ WF_vars(\E o \in inbox : ApplyObservation(o))
  /\ WF_vars(Native(0) = "accepted" /\ DirectTurn)

Spec == Init /\ [][Next]_vars /\ Fairness

----------------------------------------------------------------------------
(* Properties *)

Attempts == 1..Len(log)

\* The records keep their shape, and the history variables keep up with the
\* attempts and wakes the store hands out.
TypeOK ==
  /\ mailbox.next \in Nat \ {0}
  /\ wakes \in Seq([refs : SUBSET (1..mailbox.next - 1), consumed : BOOLEAN])
  /\ provider \in [attempt : Attempts \cup {0}, status : TurnStatuses]
  /\ log \in Seq(Seq(Outcomes))
  /\ accepted \subseteq Attempts /\ resolved \subseteq Attempts
  /\ inbox \subseteq [attempt : Attempts, kind : {"accepted", "terminal"}]
  /\ retired \subseteq 1..mailbox.next - 1
  /\ replacing \in BOOLEAN
  /\ pass \in [stage : PassStages, attempt : Attempts \cup {0}, reply : Replies]
  /\ host \in [stage : HostStages, attempt : Attempts \cup {0}]
  /\ faults \in 0..MaxFaults
  /\ Len(carried) = Len(log)
  /\ delivered \subseteq Attempts

\* validateWorkMailbox never throws: whatever the order of claims, releases
\* and completions, the batches keep to their envelopes and share no key with
\* each other or with the keys already settled (workMailbox.ts).
MailboxValid == Valid(mailbox)

\* A signal leaves the mailbox only with a reason the store can show: its wake
\* was consumed, its attempt was rejected or resolved by hand, or its Message
\* was retired (claimLeaderNotification, settleLeaderNotification, resolve).
NothingLost ==
  \A s \in 1..mailbox.next - 1 :
    \/ s \in Owed(mailbox) \cup retired
    \/ \E w \in DOMAIN wakes : wakes[w].consumed /\ s \in wakes[w].refs
    \/ \E a \in Attempts : /\ s \in carried[a]
                           /\ "rejected" \in ToSet(log[a]) \/ a \in resolved

\* No signal is given to the native session twice, across crashes, lost
\* replies and late receipts, unless a session replacement released it: the
\* pass tries a wake again only when the earlier attempt was not taken.
NoReplay ==
  \A a, b \in delivered : a # b => carried[a] \cap carried[b] \subseteq reissued

\* What is recorded about an attempt is true of the native session: a
\* rejected or deferred one was not taken, and an accepted one was.
HonestOutcomes ==
  \A a \in Attempts :
    /\ {"rejected", "deferred"} \cap ToSet(log[a]) # {} => a \notin delivered
    /\ "accepted" \in ToSet(log[a]) \/ a \in accepted => a \in delivered

\* A consumed wake was read by someone: one of its attempts was taken, and
\* none of its signals is still owed.
ConsumedWasTaken ==
  \A w \in DOMAIN wakes : wakes[w].consumed =>
    /\ \E a \in delivered : carried[a] = wakes[w].refs
    /\ wakes[w].refs \cap Owed(mailbox) = {}

\* The stalls the code has.  A claim whose outcome is unknown is reported: an
\* event when it is recorded, an error at every pass, and the command that
\* releases it (leaderWakeupProcessor.ts:57-62).
Reported == Claim # NoClaim /\ LastOutcome(Claim.id) = "unknown"

\* The next one is silent.  A turn that was still active when its Host died
\* stays so: the pass answers `pending' for its claim and skips what is pending
\* behind it (fileSchedulerStoreAdapter.ts:2014, 2028), with no event and no
\* error.  Only stopping or replacing the session ends it.
Orphaned == Active(provider) /\ provider.attempt # 0 /\ host.stage = "idle"

\* A Host that could not record what became of an input keeps it, although the
\* native session never took it: it answers `busy' to whatever is sent later
\* (agentHost.ts:879-897), and while the turn it registered is `submitting' the
\* claim is pending in silence as above.
Occupied == host.stage = "held" /\ host.attempt \notin delivered

\* Once no more faults come, every signal leaves the mailbox unless one of these
\* three holds it up: no other order of crashes, lost replies, doubts, refusals,
\* stops and replacements strands a claim or the signals behind it.
OnlyNamedStalls ==
  \A s \in 1..MaxSignals :
    (s \in Owed(mailbox)) ~> (s \notin Owed(mailbox) \/ Reported \/ Orphaned \/ Occupied)
=============================================================================
