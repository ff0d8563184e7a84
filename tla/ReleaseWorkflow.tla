--------------------------- MODULE ReleaseWorkflow ---------------------------
(***************************************************************************)
(* Release workflows and the grants that authorize them:                   *)
(* runReleaseWorkflow (release/releaseWorkflowEngine.ts), the step record  *)
(* (release/releaseWorkflow.ts), the adapter's idempotency records and     *)
(* queries (release/releaseWorkflowPorts.ts), and the store's rule for     *)
(* saving a grant (storage/taskStore.ts).                                  *)
(*                                                                         *)
(* A run is one CLI process; the workflow's lock keeps the runs of one     *)
(* workflow apart (ReleaseLock), so run[w] is the only run of w.  Runs of  *)
(* different workflows interleave and may share a grant.  A run may die at *)
(* any stage, and a command it started may still take effect afterwards.   *)
(* What is saved together is one action; what is awaited is not.           *)
(***************************************************************************)
EXTENDS Naturals, Sequences, FiniteSets, FiniteSetsExt

CONSTANTS
  Workflows,
  Plan,          \* the sequence of step kinds of each workflow
  Grants,
  FirstGrant,    \* the grant every workflow is created with
  MaxUses,       \* maxUses of each grant
  MaxFaults,     \* bound on failures and on interventions of the operator
  MaxAttempts    \* bound on resuming a workflow whose grant is refused

ReleaseStepKinds ==
  {"pr-create-or-reuse", "ci-confirm", "merge", "version-tag", "npm-publish",
   "fresh-install-smoke", "cli-update", "controller-replace", "project-migrate", "post-verify"}

ASSUME ReleaseAssumption ==
  /\ Plan \in [Workflows -> Seq(ReleaseStepKinds)]
  /\ FirstGrant \in Grants
  /\ MaxUses \in Nat /\ MaxFaults \in Nat /\ MaxAttempts \in Nat

VARIABLES
  steps,         \* steps[w][i]: the record of a step
  bound,         \* bound[w]: the grant the workflow is bound to
  grants,
  records,       \* idempotency records: the steps recorded as succeeded
  run,           \* run[w]: the process that runs the workflow
  effects,       \* effects[w][i]: how often the effect was produced, and whether
                 \* the step was reported as failed since then
  orphans,       \* commands whose process is gone and that may still land
  faults

durable == <<steps, bound, grants, records>>
vars == <<steps, bound, grants, records, run, effects, orphans, faults>>

StepsOf(w) == DOMAIN Plan[w]

NoEffect == [times |-> 0, disowned |-> FALSE]
NoResult == [status |-> "pending", identity |-> FALSE]
NoGrant == [used |-> 0, reservations |-> {}, revoked |-> FALSE]
NoRun == [stage |-> "idle", snapshot |-> NoGrant, late |-> FALSE, free |-> FALSE,
          result |-> NoResult]

Init ==
  /\ steps = [w \in Workflows |->
                [i \in StepsOf(w) |-> [status |-> "pending", attempts |-> 0, identity |-> FALSE]]]
  /\ bound = [w \in Workflows |-> FirstGrant]
  /\ grants = [g \in Grants |-> NoGrant]
  /\ records = {}
  /\ run = [w \in Workflows |-> NoRun]
  /\ effects = [w \in Workflows |-> [i \in StepsOf(w) |-> NoEffect]]
  /\ orphans = {}
  /\ faults = 0

-----------------------------------------------------------------------------
(* The kinds of steps, and what the adapter can say about each *)

Irreversible(k) ==
  k \in {"npm-publish", "version-tag", "merge", "controller-replace", "project-migrate",
         "cli-update", "post-verify"}

\* A success whose idempotency record is not durable can be queried later
Identifiable(k) == k \in {"cli-update", "version-tag", "npm-publish", "pr-create-or-reuse"}

\* The identity follows from the frozen plan or from the persisted target
Derivable(k) == k \in {"version-tag", "cli-update"}

\* A query can prove that there is no such effect
Refutable(k) == k \in {"version-tag", "npm-publish"}

\* How a command whose outcome the adapter itself doubts is reported
Doubts(k) ==
  CASE k = "version-tag" -> {[status |-> "unknown", identity |-> TRUE]}
    [] k = "npm-publish" -> [status : {"failed", "unknown"}, identity : {TRUE}]
    [] k = "cli-update"  -> [status : {"unknown"}, identity : BOOLEAN]
    [] OTHER             -> {}

\* A plain failure of these comes before the effect or proves that there is none
Definite(k) == k \in {"version-tag", "cli-update"}

\* A request the other side may still carry out after it was answered with an error
Remote(k) == k \in {"pr-create-or-reuse", "merge", "npm-publish"}

\* A tag, a merge or a pull request that is there is not made again; what is
\* done here runs as often as it is started
RepeatableKinds == {"post-verify", "controller-replace", "project-migrate"}
Repeatable(k) == k \in RepeatableKinds

\* The registry refuses a version that it has
RefusesAgain(k) == k = "npm-publish"

-----------------------------------------------------------------------------
(* The step record *)

Kind(w, i) == Plan[w][i]

\* The first step that is not succeeded; 0 when the workflow is done
Cursor(w) ==
  LET open == {i \in StepsOf(w) : steps[w][i].status # "succeeded"}
  IN  IF open = {} THEN 0 ELSE Min(open)

Record(w) == steps[w][Cursor(w)]

\* startStep and recoverRunningStep: a new attempt, without the old evidence
Started(s) == [status |-> "running", attempts |-> s.attempts + 1, identity |-> FALSE]

\* completeStep, failStep, markStepUnknown
Settled(s, result) ==
  [s EXCEPT !.status = result.status, !.identity = s.identity \/ result.identity]

\* confirmStep, confirmFailedStep, completeStep after a query
Confirmed(s) == [s EXCEPT !.status = "succeeded"]

SaveStep(w, s) == steps' = [steps EXCEPT ![w][Cursor(w)] = s]

Succeeded == [status |-> "succeeded", identity |-> FALSE]
Failed == [status |-> "failed", identity |-> FALSE]

-----------------------------------------------------------------------------
(* Faults: each one uses up one of MaxFaults *)

Fault == faults < MaxFaults /\ faults' = faults + 1
At(w, stage) == run[w].stage = stage
Go(w, stage) == run' = [run EXCEPT ![w].stage = stage]
Finish(w) == run' = [run EXCEPT ![w] = NoRun]

-----------------------------------------------------------------------------
(* The run *)

AttemptKey(w) == <<w, Cursor(w), Record(w).attempts>>

\* Only the exact attempt counts as paid for
GrantUseRecognized(w) == AttemptKey(w) \in grants[bound[w]].reservations

\* The grant gives the next attempt no use
Unauthorized(w) ==
  \/ grants[bound[w]].revoked
  \/ grants[bound[w]].used >= MaxUses /\ ~(Record(w).status = "running" /\ GrantUseRecognized(w))

\* `workflow run' takes the lock and loads the workflow
Begin(w) ==
  /\ At(w, "idle") /\ Cursor(w) # 0
  /\ Unauthorized(w) => Record(w).attempts < MaxAttempts
  /\ Go(w, "loop")
  /\ UNCHANGED <<durable, effects, orphans, faults>>

\* `workflow run --grant': the binding is superseded first
Rebind(w, g) ==
  /\ At(w, "idle") /\ g # bound[w] /\ Fault
  /\ bound' = [bound EXCEPT ![w] = g]
  /\ Go(w, "loop")
  /\ UNCHANGED <<steps, grants, records, effects, orphans>>

Succeed(w) ==
  /\ At(w, "loop") /\ Cursor(w) = 0
  /\ Finish(w)
  /\ UNCHANGED <<durable, effects, orphans, faults>>

There(w, i) == effects[w][i].times > 0

\* What queryStepEffect answers when everything it asks can be reached
QueryStepEffect(w, i, identity) ==
  IF <<w, i>> \in records THEN "exists"
  ELSE IF ~identity /\ ~Derivable(Kind(w, i)) THEN "unknown"
  ELSE IF There(w, i) THEN "exists"
  ELSE IF Refutable(Kind(w, i)) THEN "absent"
  ELSE "unknown"

\* Mutant: a failure without an identity is queried too.
Queried_EveryFailure(w) == Record(w).status \in {"running", "failed", "unknown"}

\* A step that may be in flight is queried before it is tried again
Queried(w) ==
  \/ Record(w).identity
  \/ Record(w).status = "running" /\ Irreversible(Kind(w, Cursor(w)))

\* The next step needs no query, or no query can help
Proceed(w) ==
  /\ At(w, "loop") /\ Cursor(w) # 0 /\ ~Queried(w)
  /\ IF Record(w).status = "unknown"
     THEN Finish(w)
     ELSE run' = [run EXCEPT ![w].stage = "authorize",
                             ![w].free = Record(w).status = "running" /\ GrantUseRecognized(w)]
  /\ UNCHANGED <<durable, effects, orphans, faults>>

\* Mutant: an effect nobody can see counts as absent.
AfterQuery_ResubmitsUnknown(w, answer) == answer # "exists"

\* Only an effect that is proven absent may be submitted again
AfterQuery(w, answer) == answer = "absent"

Query(w) ==
  /\ At(w, "loop") /\ Cursor(w) # 0 /\ Queried(w)
  /\ LET answer == QueryStepEffect(w, Cursor(w), Record(w).identity)
         wasRunning == Record(w).status = "running"
     IN  \/ /\ answer = "exists"
            /\ SaveStep(w, Confirmed(Record(w)))
            /\ UNCHANGED run
         \/ /\ AfterQuery(w, answer)
            /\ SaveStep(w, IF wasRunning THEN Started(Record(w)) ELSE Record(w))
            /\ run' = [run EXCEPT ![w].stage = "authorize",
                                  ![w].free = wasRunning /\ GrantUseRecognized(w)]
         \/ /\ answer # "exists" /\ ~AfterQuery(w, answer)
            /\ Finish(w)
            /\ UNCHANGED steps
  /\ UNCHANGED <<bound, grants, records, effects, orphans, faults>>

\* The query cannot be answered now
QueryFails(w) ==
  /\ At(w, "loop") /\ Cursor(w) # 0 /\ Queried(w) /\ Fault
  /\ Finish(w)
  /\ UNCHANGED <<durable, effects, orphans>>

\* checkGrant: revoked (or expired, or out of scope), or no use left
Allowed(w) ==
  /\ ~grants[bound[w]].revoked
  /\ grants[bound[w]].used < MaxUses \/ run[w].free

\* A denial is written down only on a pending step
Deny(w) ==
  /\ At(w, "authorize") /\ ~Allowed(w)
  /\ IF Record(w).status = "pending"
     THEN SaveStep(w, Settled(Started(Record(w)), Failed))
     ELSE UNCHANGED steps
  /\ Finish(w)
  /\ UNCHANGED <<bound, grants, records, effects, orphans, faults>>

\* The step is saved as running before its use is charged
Authorize(w) ==
  /\ At(w, "authorize") /\ Allowed(w)
  /\ IF Record(w).status = "running" THEN UNCHANGED steps ELSE SaveStep(w, Started(Record(w)))
  /\ run' = IF run[w].free
            THEN [run EXCEPT ![w].stage = "submit", ![w].free = FALSE]
            ELSE [run EXCEPT ![w].stage = "reserve", ![w].snapshot = grants[bound[w]]]
  /\ UNCHANGED <<bound, grants, records, effects, orphans, faults>>

-----------------------------------------------------------------------------
(* Charging a use: a compare-and-swap against the runs of other workflows *)

RecordGrantUse(grant, key) ==
  [grant EXCEPT !.used = @ + 1, !.reservations = @ \cup {key}]

\* Mutant: the last writer wins.
IsValidCapabilityGrantTransition_Blind(existing, candidate) == ~existing.revoked

\* The store's rule: a revoked grant is final, a use advances the counter and
\* keeps every reservation
IsValidCapabilityGrantTransition(existing, candidate) ==
  /\ ~existing.revoked
  /\ candidate.used > existing.used
  /\ existing.reservations \subseteq candidate.reservations

Candidate(w) == RecordGrantUse(run[w].snapshot, AttemptKey(w))

\* late: the clock was read before the concurrent use was stamped, so the
\* store also rejects the repeated save
MaySaveUse(w) ==
  /\ IsValidCapabilityGrantTransition(grants[bound[w]], Candidate(w))
  /\ ~run[w].late

Charging(w) == At(w, "reserve") /\ run[w].snapshot.used < MaxUses

Reserve(w) ==
  /\ Charging(w) /\ MaySaveUse(w)
  /\ grants' = [grants EXCEPT ![bound[w]] = Candidate(w)]
  /\ run' = [run EXCEPT ![w] = [NoRun EXCEPT !.stage = "submit"]]
  /\ UNCHANGED <<steps, bound, records, effects, orphans, faults>>

\* Another use came first: try again from the fresh grant
RetryUse(w) ==
  /\ Charging(w) /\ ~MaySaveUse(w)
  /\ grants[bound[w]].used # run[w].snapshot.used
  /\ \E late \in BOOLEAN :
       run' = [run EXCEPT ![w].snapshot = grants[bound[w]], ![w].late = run[w].late \/ late]
  /\ UNCHANGED <<durable, effects, orphans, faults>>

\* The save is refused although the counter did not move: the run throws and
\* the step stays running
UseRefused(w) ==
  /\ Charging(w) /\ ~MaySaveUse(w)
  /\ grants[bound[w]].used = run[w].snapshot.used
  /\ Finish(w)
  /\ UNCHANGED <<durable, effects, orphans, faults>>

Exhausted(w) ==
  /\ At(w, "reserve") /\ run[w].snapshot.used >= MaxUses
  /\ SaveStep(w, Settled(Record(w), Failed))
  /\ Finish(w)
  /\ UNCHANGED <<bound, grants, records, effects, orphans, faults>>

-----------------------------------------------------------------------------
(* executeStep *)

Result(w, result) == run' = [run EXCEPT ![w].stage = "result", ![w].result = result]

\* A recorded success is replayed, anything else is started
Submit(w) ==
  /\ At(w, "submit")
  /\ IF <<w, Cursor(w)>> \in records THEN Result(w, Succeeded) ELSE Go(w, "command")
  /\ UNCHANGED <<durable, effects, orphans, faults>>

\* The idempotency record cannot be read: nothing is started
RecordUnreadable(w) ==
  /\ At(w, "submit") /\ Fault
  /\ Result(w, Failed)
  /\ UNCHANGED <<durable, effects, orphans>>

Done(x) == [times |-> x.times + 1, disowned |-> FALSE]
Disowned(x) == [times |-> x.times, disowned |-> TRUE]

\* The effect comes about
Produced(w, i) ==
  IF There(w, i) /\ ~Repeatable(Kind(w, i))
  THEN UNCHANGED effects
  ELSE effects' = [effects EXCEPT ![w][i] = Done(effects[w][i])]

Refused(w) == RefusesAgain(Kind(w, Cursor(w))) /\ There(w, Cursor(w))

Land(w) ==
  /\ At(w, "command") /\ ~Refused(w)
  /\ Produced(w, Cursor(w))
  /\ Go(w, "landed")
  /\ UNCHANGED <<durable, orphans, faults>>

\* The version is there already, which is a failure like any other
LandRefused(w) ==
  /\ At(w, "command") /\ Refused(w)
  /\ Result(w, Failed)
  /\ UNCHANGED <<durable, effects, orphans, faults>>

\* A plain failure.  For most kinds it says nothing about the effect: a script
\* ends badly after half of its work, the Controller stopped and did not come
\* back, the answer to a request was lost
CommandFails(w) ==
  /\ At(w, "command") \/ (At(w, "landed") /\ ~Definite(Kind(w, Cursor(w))))
  /\ Fault
  /\ Result(w, Failed)
  /\ \/ /\ At(w, "command") /\ Remote(Kind(w, Cursor(w)))
        /\ orphans' = orphans \cup {<<w, Cursor(w)>>}
     \/ UNCHANGED orphans
  /\ UNCHANGED <<durable, effects>>

\* The outcome is in doubt: it took effect, will do so later, or never will
CommandDoubtful(w) ==
  /\ At(w, "command") \/ At(w, "landed")
  /\ Fault
  /\ \E result \in Doubts(Kind(w, Cursor(w))) : Result(w, result)
  /\ \/ At(w, "command") /\ orphans' = orphans \cup {<<w, Cursor(w)>>}
     \/ UNCHANGED orphans
  /\ UNCHANGED <<durable, effects>>

\* What is recorded when executeStep throws
CommandThrows(k) ==
  IF Irreversible(k) THEN [status |-> "unknown", identity |-> FALSE] ELSE Failed

ExecuteThrows(w) ==
  /\ At(w, "command") \/ At(w, "landed")
  /\ Fault
  /\ Result(w, CommandThrows(Kind(w, Cursor(w))))
  /\ UNCHANGED <<durable, effects, orphans>>

RecordSuccess(w) ==
  /\ At(w, "landed")
  /\ records' = records \cup {<<w, Cursor(w)>>}
  /\ Result(w, Succeeded)
  /\ UNCHANGED <<steps, bound, grants, effects, orphans, faults>>

\* A success whose record is not durable is reported as a timeout
RecordFails(w) ==
  /\ At(w, "landed") /\ Fault
  /\ Result(w, [status |-> "unknown", identity |-> Identifiable(Kind(w, Cursor(w)))])
  /\ UNCHANGED <<durable, effects, orphans>>

\* A failure is reported although the effect is there
Disowns(w) == run[w].result.status = "failed" /\ There(w, Cursor(w))

\* The outcome is saved; a success goes on to the next step
SaveResult(w) ==
  /\ At(w, "result")
  /\ SaveStep(w, Settled(Record(w), run[w].result))
  /\ effects' = IF Disowns(w)
                THEN [effects EXCEPT ![w][Cursor(w)] = Disowned(effects[w][Cursor(w)])]
                ELSE effects
  /\ run' = [run EXCEPT ![w] = IF run[w].result.status = "succeeded"
                               THEN [NoRun EXCEPT !.stage = "loop"] ELSE NoRun]
  /\ UNCHANGED <<bound, grants, records, orphans, faults>>

-----------------------------------------------------------------------------
(* Around the runs *)

\* The process dies; a command it started goes on
Crash(w) ==
  /\ ~At(w, "idle") /\ Fault
  /\ Finish(w)
  /\ orphans' = IF At(w, "command") THEN orphans \cup {<<w, Cursor(w)>>} ELSE orphans
  /\ UNCHANGED <<durable, effects>>

OrphanEnds(w, i) ==
  /\ <<w, i>> \in orphans
  /\ orphans' = orphans \ {<<w, i>>}
  /\ Produced(w, i) \/ UNCHANGED effects
  /\ UNCHANGED <<durable, run, faults>>

\* `grant revoke'
Revoke(g) ==
  /\ ~grants[g].revoked /\ Fault
  /\ grants' = [grants EXCEPT ![g].revoked = TRUE]
  /\ UNCHANGED <<steps, bound, records, run, effects, orphans>>

\* A resource or a plugin spends a use in one transaction
SpendElsewhere(g) ==
  /\ ~grants[g].revoked /\ grants[g].used < MaxUses /\ Fault
  /\ grants' = [grants EXCEPT ![g].used = @ + 1]
  /\ UNCHANGED <<steps, bound, records, run, effects, orphans>>

-----------------------------------------------------------------------------
RunStep(w) ==
  \/ Succeed(w) \/ Proceed(w) \/ Query(w) \/ Deny(w) \/ Authorize(w)
  \/ Reserve(w) \/ RetryUse(w) \/ UseRefused(w) \/ Exhausted(w)
  \/ Submit(w) \/ Land(w) \/ LandRefused(w) \/ RecordSuccess(w) \/ SaveResult(w)

RunFault(w) ==
  \/ QueryFails(w) \/ RecordUnreadable(w) \/ CommandFails(w) \/ CommandDoubtful(w)
  \/ ExecuteThrows(w) \/ RecordFails(w) \/ Crash(w)

Next ==
  \/ \E w \in Workflows : Begin(w) \/ RunStep(w) \/ RunFault(w)
  \/ \E w \in Workflows, g \in Grants : Rebind(w, g)
  \/ \E w \in Workflows : \E i \in StepsOf(w) : OrphanEnds(w, i)
  \/ \E g \in Grants : Revoke(g) \/ SpendElsewhere(g)

\* A run goes on until it ends, and a workflow that is not done is resumed
Fairness ==
  \A w \in Workflows :
    /\ WF_vars(Begin(w)) /\ WF_vars(RunStep(w))
    /\ \A i \in StepsOf(w) : WF_vars(OrphanEnds(w, i))

Spec == Init /\ [][Next]_vars /\ Fairness

-----------------------------------------------------------------------------
(* Properties *)

\* The workflow refines what it promises, whatever dies, fails or answers late:
\* effects in the order of the plan, a step reported as done only once its
\* effect is there, and an effect produced again only by a kind that can repeat
\* it and only after the step was reported as failed (runReleaseWorkflow,
\* executeStep, queryStepEffect).
Contract == INSTANCE ReleasePlan WITH
  done <- [w \in Workflows |-> IF Cursor(w) = 0 THEN Len(Plan[w]) ELSE Cursor(w) - 1]
ImplementsReleasePlan == Contract!Spec

\* No use is spent twice or lost: the counter never passes maxUses, covers
\* every reservation, and every effect was paid for by an attempt of its own
\* step (consumeGrantUse, isValidCapabilityGrantTransition).
UsesAccounted ==
  /\ \A g \in Grants :
       Cardinality(grants[g].reservations) <= grants[g].used /\ grants[g].used <= MaxUses
  /\ \A w \in Workflows : \A i \in StepsOf(w) : There(w, i) =>
       \E g \in Grants, n \in 1..steps[w][i].attempts : <<w, i, n>> \in grants[g].reservations

\* What executeStep must keep: "a retried attempt with the same key must not
\* produce a second side effect" (ReleaseWorkflowPorts).
AtMostOnce == \A w \in Workflows : \A i \in StepsOf(w) : effects[w][i].times <= 1

\* The fate of a step cannot be found out
Unconfirmed(w) ==
  LET answer == QueryStepEffect(w, Cursor(w), Record(w).identity)
  IN  \/ Record(w).status = "unknown" /\ ~Record(w).identity
      \/ /\ Record(w).identity \/ (Record(w).status = "running" /\ Irreversible(Kind(w, Cursor(w))))
         /\ answer = "unknown"

\* The workflow waits for a person
Parked(w) ==
  /\ Cursor(w) # 0 /\ run[w].stage \in {"idle", "loop", "authorize"}
  /\ Unconfirmed(w) \/ Unauthorized(w)

\* A workflow that is resumed after every stop ends or is visibly parked: no
\* crash, lost race or refused use leaves it in a state that no run gets out
\* of and no status shows (runReleaseWorkflow).
WorkflowSettles == \A w \in Workflows : <>[](Cursor(w) = 0 \/ Parked(w))
=============================================================================
