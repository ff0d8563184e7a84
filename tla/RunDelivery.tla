------------------------------ MODULE RunDelivery ------------------------------
(***************************************************************************)
(* The life of the AgentRuns of one worker Role: a command dispatches a    *)
(* Run and puts its dispatch in the Role's mailbox; the Controller's pass  *)
(* prepares the session and sends the Run's input                          *)
(* (activeRoleRunDelivery.ts); the Agent Host registers the input as the   *)
(* Provider binding's turn and hands it to the native session              *)
(* (agentHost.ts); what the native session reports comes back through the  *)
(* runtime inbox and ends the Run (fileSchedulerStoreAdapter.ts,           *)
(* exactRunTerminalization.ts); and people may retire a Run, stop the      *)
(* session or replace it (sessionOwnerReconciliation.ts).                  *)
(*                                                                         *)
(* Every `await' is a boundary between steps.  A skipped delivery that     *)
(* changes nothing is a pass that takes no step.  Review rounds, execution *)
(* lanes and planning deferrals that end with a Run are left out, as are   *)
(* authority changes: here the Controller writes the one Conversation.     *)
(***************************************************************************)
EXTENDS WorkMailbox, ProviderTurn, FiniteSetsExt

CONSTANTS NoRun,        \* no active Run
          LateRegistration, \* a request may stay unregistered until a later pass
          MaxFaults     \* failures, refusals, crashes and interventions

ASSUME NoRunAssumption == NoRun \notin Keys
ASSUME BoundsAssumption == LateRegistration \in BOOLEAN /\ MaxFaults \in Nat

\* A dispatch is deduplicated by its Run (roleRunDispatchDedupeKey)
Runs == Keys

VARIABLES
  runs,       \* the status of each Run; `reported' by its Provider turn, with
              \* success or failure, or the reason it failed without
  activeRun,  \* the Role's active Run pointer
  mailbox,    \* the Role's mailbox: a worker's holds only dispatches
  reports,    \* per Run, the role-result Messages that told the Leader
  attempts,   \* the Run of each transport attempt, in order of creation
  errors,     \* per Run, its distinct turn-submit agent errors in order
  provider,   \* the turn of the Role's Provider binding
  inbox,      \* observations in the runtime inbox, not yet applied
  session,    \* the Role's session record: none, active or ended
  cleanup,    \* the runtime cleanup obligation
  pass,       \* the Controller's pass over this Role
  host,       \* the Agent Host: stage and the attempt it is occupied with
  faults,     \* faults so far
  taken       \* history: attempts the native session took

runState == <<runs, activeRun, mailbox, reports>>
native   == <<provider, inbox>>
store    == <<runState, errors, native, session, cleanup>>
vars     == <<store, attempts, pass, host, faults, taken>>

Failures == {"startup-failed", "runtime-failed", "missing-result", "cancelled"}
RunStatuses == {"none", "active", "reported"} \cup Failures
ErrorKinds == {"unknown", "busy", "other"}
PassStages == {"idle", "preparing", "ready", "sending", "replied", "stopping"}
HostStages == {"down", "idle", "asked", "registered", "receipt", "transport", "refused",
               "deferring", "doubt", "held"}
Replies == {"none", "delivered", "pending", "unavailable", "busy", "deferred",
            "rejected", "unregistered", "unpublished", "delivery-unknown"}

NoToken  == [from |-> 0, to |-> 0]
IdlePass == [stage |-> "idle", run |-> NoRun, attempt |-> 0, token |-> NoToken,
             reply |-> "none"]
IdleHost == [stage |-> "idle", attempt |-> 0]
NoHost == [stage |-> "down", attempt |-> 0]

Init ==
  /\ runs = [r \in Runs |-> "none"]
  /\ activeRun = NoRun
  /\ mailbox = EmptyMailbox
  /\ reports = [r \in Runs |-> 0]
  /\ attempts = <<>>
  /\ errors = [r \in Runs |-> <<>>]
  /\ provider = NoTurn
  /\ inbox = {}
  /\ session = "none" /\ cleanup = "none"
  /\ pass = IdlePass /\ host = NoHost
  /\ faults = 0
  /\ taken = {}

Fault == faults < MaxFaults /\ faults' = faults + 1

\* An accepted native turn that did not come from Yui
DirectInput == [attempt |-> 0, status |-> "accepted"]

\* managedProviderTurnId: whose input the binding's turn is
RunOf(a) == IF a = 0 THEN NoRun ELSE attempts[a]
Mine(r) == IF RunOf(provider.attempt) = r THEN provider.status ELSE "none"

----------------------------------------------------------------------------
(* The dispatch in the mailbox *)

\* captureRoleRunDispatch: the prefix that ends with the Run's dispatch
Capture(r) ==
  LET p == mailbox.pending
  IN  IF r \in ToSet(p.keys) \ ToSet(mailbox.recent) /\ Len(p.keys) = p.count
      THEN [from |-> p.from,
            to   |-> p.from - 1 + CHOOSE i \in DOMAIN p.keys : p.keys[i] = r]
      ELSE NoToken

\* Mutant: whatever is pending is consumed, whoever it is for
SettledDispatch_Blind(r, token) ==
  IF mailbox.pending = NoBatch THEN mailbox ELSE ConsumePendingBatch(mailbox)

\* settleRoleRunDispatch: only the dispatch that was captured is consumed.
\* A worker's batch holds one dispatch, so the prefix is the batch.
SettledDispatch(r, token) ==
  IF token = NoToken \/ Capture(r) # token THEN mailbox
  ELSE ConsumePendingBatch(mailbox)

----------------------------------------------------------------------------
(* How a Run ends *)

\* terminalizeExactTaskRun: the Run, the Message that reports it, its dispatch
\* and the active pointer in one transaction, or nothing at all
Terminalize(r, outcome) ==
  IF runs[r] = "active" /\ activeRun = r
  THEN /\ runs' = [runs EXCEPT ![r] = outcome]
       /\ reports' = [reports EXCEPT ![r] = @ + 1]
       /\ mailbox' = SettledDispatch(r, Capture(r))
       /\ activeRun' = NoRun
  ELSE UNCHANGED runState

\* retireExactActiveRun: only a Run whose native execution is over
Retire(r) ==
  /\ activeRun = r
  /\ \/ session # "active"
     \/ Mine(r) \in {"completed", "cancelled", "rejected", "deferred"}
  /\ Fault
  /\ Terminalize(r, "missing-result")
  /\ UNCHANGED <<attempts, errors, native, session, cleanup, pass, host, taken>>

----------------------------------------------------------------------------
(* Commands *)

\* nextRunId
NextRun == CHOOSE r \in Runs : runs[r] = "none"

\* yui task work dispatch or run retry: a Run, the active pointer and the
\* dispatch in one transaction
Dispatch(r) ==
  /\ runs[r] = "none" /\ r = NextRun /\ activeRun = NoRun
  /\ runs' = [runs EXCEPT ![r] = "active"]
  /\ activeRun' = r
  /\ mailbox' = EnqueueSignal(mailbox, r)
  /\ UNCHANGED <<reports, attempts, errors, native, session, cleanup, pass, host,
                 faults, taken>>

\* yui task role session stop or new: an obligation for a later pass
RequestCleanup ==
  /\ cleanup = "none" /\ session # "none"
  /\ Fault
  /\ cleanup' \in {"end-session", "replace-session"}
  /\ UNCHANGED <<runState, attempts, errors, native, session, pass, host, taken>>

----------------------------------------------------------------------------
(* The Controller's pass: deliverActiveRun *)

LastError(r) == IF errors[r] = <<>> THEN "none"
                ELSE errors[r][Len(errors[r])].kind

\* recordAgentError does not repeat an error it already holds
RecordError(r, a, kind) ==
  LET e == [attempt |-> a, kind |-> kind]
  IN  IF e \in ToSet(errors[r]) THEN errors
      ELSE [errors EXCEPT ![r] = Append(@, e)]

\* A pass settles a due cleanup of the Role before it delivers
Delivering(r) == pass = IdlePass /\ cleanup = "none" /\ activeRun = r

\* An earlier pass was told of the acceptance: the dispatch is done
SettleAccepted(r) ==
  /\ Delivering(r)
  /\ Mine(r) = "accepted"
  /\ Capture(r) # NoToken
  /\ mailbox' = SettledDispatch(r, Capture(r))
  /\ UNCHANGED <<runs, activeRun, reports, attempts, errors, native, session,
                 cleanup, pass, host, faults, taken>>

\* The Provider refused the input: the Run fails
FailRejected(r) ==
  /\ Delivering(r)
  /\ Mine(r) = "rejected"
  /\ Terminalize(r, "runtime-failed")
  /\ UNCHANGED <<attempts, errors, native, session, cleanup, pass, host, faults,
                 taken>>

\* Only an exact busy or not-accepted disposition permits a new attempt
MayRetry(r) == Mine(r) = "deferred" \/ LastError(r) = "busy"

\* Mutant: a deferred turn fences the input too
MaySubmit_NotDeferred(r) ==
  Mine(r) = "none" /\ ~Active(provider) /\ LastError(r) # "unknown"

\* Every other state of the binding's turn keeps the input fenced
MaySubmit(r) ==
  \/ Mine(r) = "deferred"
  \/ Mine(r) = "none" /\ ~Active(provider) /\ LastError(r) # "unknown"

EarlierAttempts(r) == {a \in DOMAIN attempts : attempts[a] = r}

\* The attempt for this delivery is the initial one unless a retry is
\* permitted.  An id that was never sent is 0 until Send: nothing knows it.
StartDelivery(r) ==
  /\ Delivering(r)
  /\ MaySubmit(r)
  /\ host.stage = "asked" => LateRegistration
  /\ pass' = [IdlePass EXCEPT
                !.stage = "preparing", !.run = r, !.token = Capture(r),
                !.attempt = IF MayRetry(r) \/ EarlierAttempts(r) = {} THEN 0
                            ELSE Min(EarlierAttempts(r))]
  /\ UNCHANGED <<store, attempts, host, faults, taken>>

Preparing == pass.stage \in {"preparing", "ready"}

\* A Host launched to resume a session owns its accepted turn
OwningHost == [stage |-> "held", attempt |-> provider.attempt]

\* prepareRoleSession, which starts a Host where none runs, and
\* saveRoleRunPrepared; waitUntilReady follows
Prepared ==
  /\ pass.stage = "preparing"
  /\ activeRun = pass.run /\ cleanup = "none"
  /\ session' = "active"
  /\ host' = IF host # NoHost THEN host
             ELSE IF Mine(pass.run) = "accepted" THEN OwningHost ELSE IdleHost
  /\ pass' = [pass EXCEPT !.stage = "ready"]
  /\ UNCHANGED <<runState, attempts, errors, native, cleanup, faults, taken>>

\* A cleanup is due (RuntimeLifecycleBusyError) or the Run is no longer the
\* active one (saveRoleRunPrepared throws, and the failure finds it changed)
PrepareOvertaken ==
  /\ Preparing
  /\ activeRun # pass.run \/ cleanup # "none"
  /\ pass' = IdlePass
  /\ UNCHANGED <<store, attempts, host, faults, taken>>

\* The launch fails: for now, or for good, which fails the Run
PrepareFails ==
  /\ Preparing
  /\ Fault
  /\ pass' = IdlePass
  /\ \/ UNCHANGED runState
     \/ Terminalize(pass.run, "startup-failed")
  /\ UNCHANGED <<attempts, errors, native, session, cleanup, host, taken>>

\* The id of a new attempt names its Run from here on
NameAttempt ==
  attempts' = IF pass.attempt = 0 THEN Append(attempts, pass.run) ELSE attempts

Replied(a, reply) ==
  pass' = [pass EXCEPT !.stage = "replied", !.attempt = a, !.reply = reply]

\* sendOnce over tryPush: the Host takes the request, is busy with another
\* input, cannot be reached, or refuses it before any registration
Send ==
  LET a == IF pass.attempt = 0 THEN Len(attempts) + 1 ELSE pass.attempt
  IN  /\ pass.stage = "ready" /\ activeRun = pass.run
      /\ NameAttempt
      /\ \/ /\ host.stage = "idle" /\ provider # DirectInput
            /\ pass' = [pass EXCEPT !.stage = "sending", !.attempt = a]
            /\ host' = [stage |-> "asked", attempt |-> a]
            /\ UNCHANGED faults
         \/ /\ \/ host = NoHost /\ UNCHANGED faults
                  /\ Replied(a, "unavailable")
               \/ host.stage = "idle" /\ Fault /\ Replied(a, "rejected")
               \/ Fault /\ (Replied(a, "unavailable") \/ Replied(a, "busy"))
            /\ UNCHANGED host
      /\ UNCHANGED <<store, taken>>

\* The Host's reply is lost, or its acceptance timer runs out first
ReplyFails ==
  /\ pass.stage = "sending"
  /\ \/ /\ Fault
        /\ pass' = [pass EXCEPT !.stage = "replied", !.reply = "delivery-unknown"]
     \/ /\ pass' = [pass EXCEPT !.stage = "replied", !.reply = "pending"]
        /\ UNCHANGED faults
  /\ UNCHANGED <<store, attempts, host, taken>>

\* The input disposition a non-delivery is recorded with
ErrorOf == [busy |-> "busy", deferred |-> "other", rejected |-> "other",
            unregistered |-> "other", unpublished |-> "other"]
              @@ ("delivery-unknown" :> "unknown")

HandleReply ==
  LET r == pass.run
      a == pass.attempt
  IN  /\ pass.stage = "replied"
      /\ pass' = IdlePass
      /\ errors' = IF pass.reply \in DOMAIN ErrorOf
                   THEN RecordError(r, a, ErrorOf[pass.reply]) ELSE errors
      /\ provider' = IF pass.reply = "delivery-unknown"
                        /\ provider = Begin(a)
                     THEN [provider EXCEPT !.status = "delivery-unknown"]
                     ELSE provider
      /\ CASE pass.reply = "delivered" ->
                /\ mailbox' = SettledDispatch(r, pass.token)
                /\ UNCHANGED <<runs, activeRun, reports>>
           [] pass.reply = "rejected" -> Terminalize(r, "runtime-failed")
           [] OTHER -> UNCHANGED runState
      /\ UNCHANGED <<attempts, inbox, session, cleanup, host, faults,
                     taken>>

\* The Controller dies and starts again: the store and the Host remain
Crash ==
  /\ pass # IdlePass
  /\ Fault
  /\ pass' = IdlePass
  /\ UNCHANGED <<store, attempts, host, taken>>

----------------------------------------------------------------------------
(* The Controller's pass: a due runtime cleanup *)

\* terminateOwner over #quiesceInput: the native input is stopped and its
\* turn settled before the Host gets a signal
Quiesce ==
  /\ pass = IdlePass /\ cleanup # "none"
  /\ provider' \in {CancelQuiescent(provider)} \cup
       (IF provider.status = "accepted" THEN {EndTurn(provider)} ELSE {})
  /\ pass' = [IdlePass EXCEPT !.stage = "stopping"]
  /\ UNCHANGED <<runState, attempts, errors, inbox, session, cleanup,
                 host, faults, taken>>

\* The Host is gone.  completeRuntimeCleanup cancels the Run, the turn and the
\* session; what a replaced session still reports is obsolete.
CompleteCleanup ==
  /\ pass.stage = "stopping"
  /\ IF activeRun = NoRun THEN UNCHANGED runState
     ELSE Terminalize(activeRun, "cancelled")
  /\ IF cleanup = "replace-session"
     THEN provider' = NoTurn /\ session' = "none" /\ inbox' = {}
     ELSE provider' = CancelQuiescent(provider) /\ session' = "ended"
          /\ UNCHANGED inbox
  /\ cleanup' = "none"
  /\ host' = NoHost
  /\ pass' = IdlePass
  /\ UNCHANGED <<attempts, errors, faults, taken>>

\* stopOwner cannot prove the stop: the obligation stays
CleanupFails ==
  /\ pass.stage = "stopping"
  /\ Fault
  /\ pass' = IdlePass
  /\ UNCHANGED <<store, attempts, host, taken>>

----------------------------------------------------------------------------
(* The runtime inbox *)

\* resolveTerminalExecution: the observation is about the binding's turn
Current(o) ==
  provider.attempt = o.attempt /\ provider.status \notin {"rejected", "deferred"}

\* observeRuntimePromptAccepted and observeRuntimeRunTerminal.  An observation
\* of an older turn is only kept; one of an ended Run only settles the turn.  A
\* crash before the removal brings it back.
ApplyObservation(o) ==
  LET r        == attempts[o.attempt]
      terminal == o.kind = "terminal"
  IN  /\ o \in inbox
      /\ \/ inbox' = inbox \ {o} /\ UNCHANGED faults
         \/ Fault /\ UNCHANGED inbox
      /\ IF ~Current(o) THEN UNCHANGED <<provider, runState>>
         ELSE IF terminal
         THEN provider' = EndTurn(provider) /\ Terminalize(r, "reported")
         ELSE /\ provider' = IF runs[r] = "active" THEN Accept(provider)
                             ELSE provider
              /\ UNCHANGED runState
      /\ UNCHANGED <<attempts, errors, session, cleanup, pass, host, taken>>

----------------------------------------------------------------------------
(* The Agent Host: submitRun *)

\* Whoever still waits for the answer about attempt a gets it
Reply(a, reply) ==
  pass' = IF pass.stage = "sending" /\ pass.attempt = a
          THEN [pass EXCEPT !.stage = "replied", !.reply = reply] ELSE pass

\* beginAgentHostProviderTurn's fence
Admitted(a) == cleanup = "none" /\ activeRun = attempts[a]

\* The turn is registered, again if it is this very attempt that is being
\* submitted; the fence refuses; or another input occupies the Conversation
Register ==
  /\ host.stage = "asked"
  /\ \/ /\ Admitted(host.attempt)
        /\ ~Active(provider) \/ provider = Begin(host.attempt)
        /\ provider' = Begin(host.attempt)
        /\ host' = [host EXCEPT !.stage = "registered"]
        /\ UNCHANGED pass
     \/ /\ ~Admitted(host.attempt)
        /\ Reply(host.attempt, "rejected")
        /\ host' = IdleHost
        /\ UNCHANGED provider
     \/ /\ Admitted(host.attempt)
        /\ Active(provider) /\ provider # Begin(host.attempt)
        /\ Reply(host.attempt, "busy")
        /\ host' = IdleHost
        /\ UNCHANGED provider
  /\ UNCHANGED <<runState, attempts, errors, inbox, session, cleanup,
                 faults, taken>>

\* Registration fails: definitely; with its acknowledgement lost and the
\* record then settled as rejected; or with both calls in doubt
RegisterFails ==
  /\ host.stage = "asked" /\ Admitted(host.attempt) /\ ~Active(provider)
  /\ Fault
  /\ \/ /\ Reply(host.attempt, "rejected")
        /\ host' = IdleHost
        /\ \/ UNCHANGED <<provider, errors>>
           \/ /\ provider' = [attempt |-> host.attempt, status |-> "rejected"]
              /\ errors' = RecordError(attempts[host.attempt], host.attempt, "other")
     \/ /\ provider' \in {provider, Begin(host.attempt)}
        /\ Reply(host.attempt, "unregistered")
        /\ host' = [host EXCEPT !.stage = "held"]
        /\ UNCHANGED errors
  /\ UNCHANGED <<runState, attempts, inbox, session, cleanup, taken>>

\* session.submit returns a receipt: the Provider's, or only the transport's
NativeTakes ==
  /\ host.stage = "registered"
  /\ taken' = taken \cup {host.attempt}
  /\ \E stage \in {"receipt", "transport"} : host' = [host EXCEPT !.stage = stage]
  /\ UNCHANGED <<store, attempts, pass, faults>>

\* session.submit fails: the input is refused, the session is busy, or it is
\* unknown whether the Provider took it
NativeFails ==
  /\ host.stage = "registered"
  /\ Fault
  /\ \/ /\ \E stage \in {"refused", "deferring"} :
             host' = [host EXCEPT !.stage = stage]
        /\ UNCHANGED taken
     \/ /\ host' = [host EXCEPT !.stage = "doubt"]
        /\ taken' \in {taken, taken \cup {host.attempt}}
  /\ UNCHANGED <<store, attempts, pass>>

\* resolveAgentHostProviderTurnSubmission: the turn, and the error it records
Resolve(a, status) ==
  /\ CanSettle(provider, a, status)
  /\ provider' = [provider EXCEPT !.status = status]
  /\ errors' = RecordError(attempts[a], a,
                 IF status = "delivery-unknown" THEN "unknown" ELSE "other")

\* publishStructuredProviderAccepted puts a Provider's receipt in the inbox; a
\* transport's acknowledges nothing.  Before or after that it may fail, and the
\* doubt is then recorded with the turn, or cannot be.
Publish ==
  LET a       == host.attempt
      receipt == IF host.stage = "transport" THEN {}
                 ELSE {[attempt |-> a, kind |-> "accepted"]}
  IN  /\ host.stage \in {"receipt", "transport"}
      /\ host' = [host EXCEPT !.stage = "held"]
      /\ \/ /\ inbox' = inbox \cup receipt
            /\ Reply(a, IF receipt = {} THEN "pending" ELSE "delivered")
            /\ UNCHANGED <<provider, errors, faults>>
         \/ /\ Fault
            /\ inbox' \in {inbox, inbox \cup receipt}
            /\ \/ Resolve(a, "delivery-unknown")
               \/ UNCHANGED <<provider, errors>>
            /\ Reply(a, IF receipt = {} THEN "delivery-unknown" ELSE "unpublished")
      /\ UNCHANGED <<runState, attempts, session, cleanup, taken>>

\* Mutant: an input in doubt is taken for one that was not accepted
ResolveStatus_DoubtDeferred == [refused |-> "rejected", deferring |-> "deferred",
                                doubt |-> "deferred"]

\* Mutant: every failure to submit is taken for a refusal
ResolveStatus_AllRejected == [refused |-> "rejected", deferring |-> "rejected",
                              doubt |-> "rejected"]

ResolveStatus == [refused |-> "rejected", deferring |-> "deferred",
                  doubt |-> "delivery-unknown"]
ResolveReply == [refused |-> "rejected", deferring |-> "deferred",
                 doubt |-> "delivery-unknown"]

\* resolveProviderTurnSubmission, or its failure, which keeps the Host held
ResolveSubmission ==
  LET a == host.attempt
  IN  /\ host.stage \in DOMAIN ResolveStatus
      /\ \/ /\ Resolve(a, ResolveStatus[host.stage])
            /\ Reply(a, ResolveReply[host.stage])
            /\ host' = IF host.stage = "doubt" THEN [host EXCEPT !.stage = "held"]
                       ELSE IdleHost
            /\ UNCHANGED faults
         \/ /\ IF CanSettle(provider, a, ResolveStatus[host.stage]) THEN Fault
               ELSE UNCHANGED faults
            /\ Reply(a, IF host.stage = "doubt" THEN "delivery-unknown"
                        ELSE "unregistered")
            /\ host' = [host EXCEPT !.stage = "held"]
            /\ UNCHANGED <<provider, errors>>
      /\ UNCHANGED <<runState, attempts, inbox, session, cleanup, taken>>

\* The turn of a held input ends, or a late receipt arrives first
Observe ==
  LET a == host.attempt
  IN  /\ host.stage = "held" /\ a \in taken
      /\ \/ /\ inbox' = inbox \cup {[attempt |-> a, kind |-> "terminal"]}
            /\ host' = IdleHost
         \/ /\ provider.attempt = a
            /\ provider.status \in {"submitting", "delivery-unknown"}
            /\ inbox' = inbox \cup {[attempt |-> a, kind |-> "accepted"]}
            /\ UNCHANGED host
      /\ UNCHANGED <<runState, attempts, errors, provider, session,
                     cleanup, pass, faults, taken>>

\* The Host process dies; a request in flight ends in a broken connection
HostDies ==
  /\ host # NoHost
  /\ Fault
  /\ Reply(host.attempt, "delivery-unknown")
  /\ host' = NoHost
  /\ UNCHANGED <<store, attempts, taken>>

\* reconcileExitedRoleRuns restores the session with the accepted turn it owns
Reattach ==
  /\ pass = IdlePass /\ host = NoHost
  /\ activeRun # NoRun /\ cleanup = "none" /\ session = "active"
  /\ Mine(activeRun) = "accepted"
  /\ host' = OwningHost
  /\ UNCHANGED <<store, attempts, pass, faults, taken>>

\* A native turn that did not come from Yui occupies the binding, and ends; it
\* never takes the place of a turn whose Run is active
DirectTurn ==
  /\ \/ /\ ~Active(provider) /\ host.stage \in {"idle", "asked"}
        /\ session = "active"
        /\ RunOf(provider.attempt) = NoRun \/ RunOf(provider.attempt) # activeRun
        /\ Fault
        /\ provider' = DirectInput
     \/ /\ provider = DirectInput
        /\ provider' = EndTurn(provider)
        /\ UNCHANGED faults
  /\ UNCHANGED <<runState, attempts, errors, inbox, session, cleanup,
                 pass, host, taken>>

----------------------------------------------------------------------------

Deliver(r) == SettleAccepted(r) \/ FailRejected(r) \/ StartDelivery(r)

PassStep ==
  \/ \E r \in Runs : Deliver(r)
  \/ Prepared \/ PrepareOvertaken \/ Send \/ HandleReply
  \/ Quiesce \/ CompleteCleanup

HostStep ==
  Register \/ NativeTakes \/ Publish \/ ResolveSubmission \/ Observe \/ Reattach

Next ==
  \/ \E r \in Runs : Dispatch(r) \/ Retire(r)
  \/ RequestCleanup
  \/ \E r \in Runs : SettleAccepted(r) \/ FailRejected(r) \/ StartDelivery(r)
  \/ Prepared \/ PrepareOvertaken \/ PrepareFails \/ Send \/ ReplyFails
  \/ HandleReply \/ Crash \/ Quiesce \/ CompleteCleanup \/ CleanupFails
  \/ \E o \in inbox : ApplyObservation(o)
  \/ Register \/ RegisterFails \/ NativeTakes \/ NativeFails \/ Publish
  \/ ResolveSubmission \/ Observe \/ HostDies \/ Reattach \/ DirectTurn

Fairness ==
  /\ WF_vars(PassStep) /\ WF_vars(HostStep)
  /\ WF_vars(\E o \in inbox : ApplyObservation(o) /\ UNCHANGED faults)
  /\ WF_vars(provider = DirectInput /\ DirectTurn)

Spec == Init /\ [][Next]_vars /\ Fairness

----------------------------------------------------------------------------
(* Properties *)

Attempts == DOMAIN attempts

\* The records keep their shape.
TypeOK ==
  /\ runs \in [Runs -> RunStatuses]
  /\ activeRun \in Runs \cup {NoRun}
  /\ reports \in [Runs -> Nat]
  /\ attempts \in Seq(Runs)
  /\ errors \in [Runs -> Seq([attempt : Attempts, kind : ErrorKinds])]
  /\ provider \in [attempt : Attempts \cup {0}, status : TurnStatuses]
  /\ inbox \subseteq [attempt : Attempts, kind : {"accepted", "terminal"}]
  /\ session \in {"none", "active", "ended"}
  /\ cleanup \in {"none", "end-session", "replace-session"}
  /\ pass \in [stage : PassStages, run : Runs \cup {NoRun},
               attempt : Attempts \cup {0}, token : [from : Nat, to : Nat],
               reply : Replies]
  /\ host \in [stage : HostStages, attempt : Attempts \cup {0}]
  /\ faults \in 0..MaxFaults
  /\ taken \subseteq Attempts

TakenOf(r) == {a \in taken : attempts[a] = r}

Phase(r) == CASE runs[r] = "none" -> "none"
              [] runs[r] = "active" -> "active"
              [] OTHER -> "ended"

Lifecycle == INSTANCE RunLifecycle WITH
  phase <- [r \in Runs |-> Phase(r)],
  given <- [r \in Runs |-> Cardinality(TakenOf(r))],
  told  <- reports

\* However crashes, lost replies, retries and interventions interleave, a Run's
\* input is given to the native session under one attempt at most, one Run is
\* active at a time, and each ends once with exactly one report
\* (deliverActiveRun, terminalizeExactTaskRun).
ImplementsRunLifecycle == Lifecycle!Spec

\* The mailbox and the Runs agree: only the active Run has a dispatch waiting,
\* and a Run without one was taken by the native session, so it is never
\* silently dropped from the queue (settleRoleRunDispatch, terminalizeExactTaskRun).
DispatchKept ==
  /\ ToSet(mailbox.pending.keys) \subseteq {activeRun} /\ Valid(mailbox)
  /\ \A r \in Runs : runs[r] = "active" =>
       activeRun = r /\ (r \in ToSet(mailbox.pending.keys) \/ TakenOf(r) # {})

\* How a Run ended is true of the native session: one that a Provider turn
\* reported was taken, and one that failed to start or was refused was not,
\* now or later (saveRoleRunDeliveryFailure).
HonestEnds ==
  \A r \in Runs :
    /\ runs[r] = "reported" => TakenOf(r) # {}
    /\ runs[r] \in {"startup-failed", "runtime-failed"} => TakenOf(r) = {}

\* A Run waits for a person: its input is of unknown fate, or sits in a turn
\* or a Host that nobody will finish
Parked(r) ==
  \/ Mine(r) = "delivery-unknown"
  \/ Mine(r) = "none" /\ LastError(r) = "unknown"
  \/ Mine(r) = "submitting" /\ host.stage \in {"idle", "down"}
  \/ Mine(r) = "accepted" /\ host.stage = "idle"
  \/ host.stage = "held" /\ host.attempt \notin taken

\* Once no more faults come, every active Run ends or is visibly parked: a
\* deferred or busy input is tried again, a lost Host is reattached, and an
\* interrupted cleanup is finished (deliverActiveRun, reconcileExitedRoleRuns).
RunSettles ==
  \A r \in Runs : runs[r] = "active" ~> (runs[r] # "active" \/ Parked(r))

\* "Stable request ids make a repeated submit idempotent": a Run's input is
\* given to the native session once, even if a pass begins while the Host has
\* yet to register the request of an earlier one.
RepeatedSubmitIdempotent == \A r \in Runs : Cardinality(TakenOf(r)) <= 1
=============================================================================
