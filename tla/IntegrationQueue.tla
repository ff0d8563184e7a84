--------------------------- MODULE IntegrationQueue ---------------------------
(* The queue that lands the ChangeSets of a Task on its main branch
   (integration/integrationQueueService.ts, integrationQueueEntry.ts), the
   Integration Attempts that do the work (gitIntegrationService.ts,
   integrationAttempt.ts) and the commands of the Task's controllers
   (commands/taskIntegration*Commands.ts).

   Every command is an operating-system process of its own. The processes share
   the Task store, where a write transaction is one step; the branch, which only
   `git update-ref` with an expected old value moves; and the maintenance fence
   of the Project. integrate() works on the Attempt it read when it began, and
   each save replaces the stored Attempt by that copy: `proc[p].copy`.

   integrate() returns the promises of #recoverValidating, #resumeCheckJob and
   #startCheckJob without awaiting them, inside its `try ... finally { release() }`.
   On those paths the fence is free from the first await on and no handler sees an
   error. A process whose errors are handled is therefore exactly one that holds
   the fence. The Project has no VerificationPlan.

   The branch is checked out in the Task's workspace. `update-ref` moves the branch
   alone; the files follow with `read-tree`, a command later. Until then, and for
   good when the process dies in between, the checkout is not clean.

   A commit is the sequence of changes that lead to it. A change that is applied
   on its own base is fast-forwarded and keeps its identity; elsewhere it is
   cherry-picked and the new commit belongs to the Attempt.                      *)
EXTENDS Naturals, Sequences, FiniteSets

CONSTANTS
  Procs,         \* processes that run commands
  Changes,       \* ChangeSets
  Checked,       \* the ChangeSets enqueued with check commands
  OnBase,        \* the ChangeSets made on the commit the branch has at the start
  Enqueued,      \* the ChangeSets that are in the queue at the start
  None,
  MaxEntries, MaxAttempts,   \* bounds: records
  MaxDisturbances,           \* bound: decisions, faults and commits of others together
  Continuers,                \* bound: processes that run `continue` and `queue reconcile`
  Reworked,                  \* bound: ChangeSets whose producer may be sent back to work
  Foreign                    \* bound: what others commit, a ChangeSet by hand or None

ASSUME QueueAssumption ==
  /\ None \notin Procs \cup Changes
  /\ Checked \cup OnBase \cup Reworked \subseteq Changes
  /\ Continuers \subseteq Procs
  /\ Foreign \subseteq Changes \cup {None}
  /\ Enqueued \in Seq(Changes)
  /\ \A i, j \in DOMAIN Enqueued : Enqueued[i] = Enqueued[j] => i = j
  /\ {MaxEntries, MaxAttempts, MaxDisturbances} \subseteq Nat

VARIABLES
  queue,      \* the entries, in the order of their ids
  attempts,   \* the Integration Attempts, in the order of their ids
  work,       \* of each Attempt, the check job and whether its worktree is amid a cherry-pick
  target,     \* the head of the branch
  tree,       \* the checkout of the branch: "clean", "behind" the branch, or "edited"
  binding,    \* the commit the Task record names for the Project
  fence,      \* the process that holds the maintenance fence, or None
  proc,       \* what each process is doing
  stale,      \* ChangeSets whose producer has moved on to another Candidate
  spent       \* decisions, faults and foreign commits so far

vars == <<queue, attempts, work, target, tree, binding, fence, proc, stale, spent>>
store == <<queue, attempts, work>>
outside == <<stale, spent>>

-------------------------------------------------------------------------------
(* Records.                                                                      *)

Entry(cs, status, att, after) == [cs |-> cs, status |-> status, att |-> att, after |-> after]

Attempt(cs, before) ==
  [cs |-> cs, before |-> before, cand |-> before, status |-> "running",
   resolved |-> FALSE, job |-> FALSE]

NoAttempt == [Attempt(None, <<>>) EXCEPT !.status = "none"]

Idle == [pc |-> "idle", cmd |-> "none", e |-> 0, a |-> 0, cs |-> None,
         copy |-> NoAttempt, recovering |-> FALSE, snap |-> <<>>, head |-> <<>>]

(* The transitions the store accepts when an entry is saved over another.        *)
ValidTransition(before, after) ==
  after \in CASE before = "queued"     -> {"queued", "running", "superseded"}
              [] before = "running"    -> {"running", "conflicted", "committed"}
              [] before = "conflicted" -> {"conflicted", "running", "committed", "queued", "superseded"}
              [] OTHER                 -> {before}

Contains(commit, cs) == \E i \in DOMAIN commit : commit[i].cs = cs

FastForwards(copy) == copy.before = <<>> /\ copy.cs \in OnBase

(* The head of the candidate worktree once the source is applied: nothing is
   added when the change is already there (an ancestor, or an empty pick).       *)
AppliedHead(copy, a) ==
  IF Contains(copy.before, copy.cs) THEN copy.before
  ELSE Append(copy.before, [cs |-> copy.cs, by |-> IF FastForwards(copy) THEN 0 ELSE a])

IsPrefixOf(s, t) == Len(s) <= Len(t) /\ s = SubSeq(t, 1, Len(s))

Init ==
  /\ queue = [i \in DOMAIN Enqueued |-> Entry(Enqueued[i], "queued", 0, <<>>)]
  /\ attempts = <<>>
  /\ work = [a \in 1..MaxAttempts |-> [job |-> "none", picking |-> FALSE]]
  /\ target = <<>> /\ tree = "clean" /\ binding = <<>> /\ fence = None
  /\ proc = [p \in Procs |-> Idle]
  /\ stale = {} /\ spent = 0

Goto(p, pc) == proc' = [proc EXCEPT ![p].pc = pc]
Done(p) == proc' = [proc EXCEPT ![p] = Idle]
Start(p, r) == proc' = [proc EXCEPT ![p] = r]
At(p, pc) == proc[p].pc = pc
Disturb == spent < MaxDisturbances /\ spent' = spent + 1

-------------------------------------------------------------------------------
(* Enqueue: the proof that the change is already on the branch is gathered
   before the write transaction, which checks everything again.                  *)

ActiveDuplicate(cs) == \E i \in DOMAIN queue : queue[i].cs = cs /\ queue[i].status # "superseded"

EnqueueRead(p, cs) ==
  /\ At(p, "idle") /\ Len(queue) < MaxEntries
  /\ cs \notin stale /\ ~ActiveDuplicate(cs)
  /\ Start(p, [Idle EXCEPT !.pc = "enqueue", !.cmd = "enqueue", !.cs = cs, !.head = target])
  /\ UNCHANGED <<store, target, tree, binding, fence, outside>>

\* Mutant: the first look for a duplicate is trusted
EnqueueRefused_NoRecheck(cs) == cs \in stale \/ Len(queue) >= MaxEntries

EnqueueRefused(cs) == ActiveDuplicate(cs) \/ cs \in stale \/ Len(queue) >= MaxEntries

(* The proof still holds: the branch is at the head it was gathered for.         *)
Converges(p) ==
  /\ Contains(proc[p].head, proc[p].cs) /\ proc[p].cs \notin Checked
  /\ target = proc[p].head

EnqueueWrite(p) ==
  /\ At(p, "enqueue")
  /\ LET cs == proc[p].cs IN
     IF EnqueueRefused(cs) \/ (Converges(p) /\ Len(attempts) >= MaxAttempts)
     THEN UNCHANGED <<queue, attempts>>
     ELSE IF Converges(p)
          THEN /\ attempts' = Append(attempts, [Attempt(cs, target) EXCEPT !.status = "committed"])
               /\ queue' = Append(queue, Entry(cs, "committed", Len(attempts'), target))
          ELSE /\ queue' = Append(queue, Entry(cs, "queued", 0, <<>>))
               /\ UNCHANGED attempts
  /\ Done(p)
  /\ UNCHANGED <<work, target, tree, binding, fence, outside>>

-------------------------------------------------------------------------------
(* The processor: reconcile, select, claim, integrate, settle, and again.        *)

Listing(entries) ==
  [Idle EXCEPT !.pc = "reconcile", !.cmd = "process", !.e = 1,
               !.snap = IF \E i \in DOMAIN entries : entries[i].status \in {"conflicted", "running"}
                        THEN entries ELSE <<>>]

ProcessStart(p) ==
  /\ At(p, "idle") /\ Start(p, Listing(queue))
  /\ UNCHANGED <<store, target, tree, binding, fence, outside>>

\* Mutant: only a committed Attempt settles its entry
Proven_CommittedOnly(entry) ==
  IF entry.att # 0 /\ entry.status \in {"conflicted", "running"}
     /\ attempts[entry.att].status = "committed"
  THEN [entry EXCEPT !.status = "committed", !.after = attempts[entry.att].cand]
  ELSE entry

(* reconcileTerminalAttempts: what the Attempt of a listed entry proves. The
   entry is the one that was listed, the Attempt is read now.                    *)
Proven(entry) ==
  IF entry.att = 0 \/ entry.status \notin {"conflicted", "running"} THEN entry
  ELSE LET att == attempts[entry.att] IN
       CASE att.status = "committed" -> [entry EXCEPT !.status = "committed", !.after = att.cand]
         [] entry.status = "running" /\ att.status \in {"failed", "blocked"} ->
              [entry EXCEPT !.status = "conflicted"]
         [] OTHER -> entry

(* The listed entries, from the current one on, that have something to save.     *)
Unsettled(p) ==
  {i \in proc[p].e..Len(proc[p].snap) : Proven(proc[p].snap[i]) # proc[p].snap[i]}

ReconcileEntry(p) ==
  /\ At(p, "reconcile")
  /\ \E i \in Unsettled(p) :
       LET new == Proven(proc[p].snap[i]) IN
       /\ \A j \in Unsettled(p) : i <= j
       /\ \/ /\ ValidTransition(queue[i].status, new.status)
             /\ queue' = [queue EXCEPT ![i] = new]
             /\ proc' = [proc EXCEPT ![p].e = i + 1]
          \/ /\ ~ValidTransition(queue[i].status, new.status)
             /\ Done(p) /\ UNCHANGED queue
  /\ UNCHANGED <<attempts, work, target, tree, binding, fence, outside>>

LaneBlocked == \E i \in DOMAIN queue : queue[i].status = "running"

Claimable == {i \in DOMAIN queue : queue[i].status = "queued" /\ ~LaneBlocked}

SelectEntry(p) ==
  /\ At(p, "reconcile") /\ Unsettled(p) = {}
  /\ IF Claimable = {} \/ Len(attempts) >= MaxAttempts
     THEN Done(p)
     ELSE \E i \in Claimable :
            /\ \A j \in Claimable : i <= j
            /\ Start(p, [Idle EXCEPT !.pc = "claim", !.cmd = "process", !.e = i, !.head = target])
  /\ UNCHANGED <<store, target, tree, binding, fence, outside>>

(* One transaction. A ChangeSet of an earlier Candidate becomes conflicted and
   keeps the Attempt it had.                                                     *)
Claim(p) ==
  /\ At(p, "claim")
  /\ LET i == proc[p].e
         cs == queue[i].cs
         skipped == queue[i].status # "queued" \/ LaneBlocked \/ Len(attempts) >= MaxAttempts
         attempt == Attempt(cs, proc[p].head) IN
     \/ /\ skipped
        /\ Start(p, Listing(queue)) /\ UNCHANGED <<queue, attempts>>
     \/ /\ ~skipped /\ cs \in stale
        /\ queue' = [queue EXCEPT ![i].status = "conflicted"]
        /\ Start(p, Listing(queue')) /\ UNCHANGED attempts
     \/ /\ ~skipped /\ cs \notin stale
        /\ attempts' = Append(attempts, attempt)
        /\ queue' = [queue EXCEPT ![i].status = "running", ![i].att = Len(attempts')]
        /\ Start(p, [Idle EXCEPT !.pc = "enter", !.cmd = "process", !.e = i,
                                 !.a = Len(attempts'), !.copy = attempt])
  /\ UNCHANGED <<work, target, tree, binding, fence, outside>>

(* The entry that was claimed is saved with the outcome, over whatever the store
   holds by now.                                                                 *)
Settle(p) ==
  /\ At(p, "settle")
  /\ LET copy == proc[p].copy
         new == IF copy.status = "committed"
                THEN Entry(copy.cs, "committed", proc[p].a, copy.cand)
                ELSE Entry(copy.cs, "conflicted", proc[p].a, <<>>) IN
     \/ /\ ValidTransition(queue[proc[p].e].status, new.status)
        /\ queue' = [queue EXCEPT ![proc[p].e] = new]
        /\ Start(p, Listing(queue'))
     \/ /\ ~ValidTransition(queue[proc[p].e].status, new.status)
        /\ Done(p) /\ UNCHANGED queue
  /\ UNCHANGED <<attempts, work, target, tree, binding, fence, outside>>

-------------------------------------------------------------------------------
(* GitIntegrationService.integrate, for the processor and for `continue`.        *)

Released(p) == IF fence = p THEN None ELSE fence

Save(p, copy) == attempts' = [attempts EXCEPT ![proc[p].a] = copy]

Return(p, copy) ==
  /\ fence' = Released(p)
  /\ IF proc[p].cmd = "process"
     THEN proc' = [proc EXCEPT ![p].pc = "settle", ![p].copy = copy]
     ELSE Done(p)

Conclude(p, copy) == Save(p, copy) /\ Return(p, copy)

Fail(p) == Conclude(p, [proc[p].copy EXCEPT !.status = "failed"])

Throw(p) == fence' = Released(p) /\ Done(p) /\ UNCHANGED attempts

(* An error reaches the handler of integrate() only on the paths it awaits.      *)
Raise(p) ==
  IF fence = p THEN Goto(p, "handle") /\ UNCHANGED <<attempts, fence>> ELSE Throw(p)

(* assertTargetReadyForChecks: the branch is where it is expected, and its one
   checkout is clean.                                                            *)
Ready(expected) == target = expected /\ tree = "clean"

ContinueStart(p, a) ==
  /\ At(p, "idle")
  /\ \/ attempts[a].status \in {"running", "validating"}
     \/ attempts[a].status = "blocked" /\ attempts[a].resolved
  /\ Start(p, [Idle EXCEPT !.pc = "enter", !.cmd = "continue", !.a = a, !.copy = attempts[a]])
  /\ UNCHANGED <<store, target, tree, binding, fence, outside>>

EnterFence(p) ==
  /\ At(p, "enter") /\ fence = None
  /\ fence' = p /\ Goto(p, "prepare")
  /\ UNCHANGED <<store, target, tree, binding, outside>>

(* The worktree of the Attempt is there. An Attempt that was validating, or has a
   check job, goes on without the fence.                                         *)
Prepare(p) ==
  /\ At(p, "prepare")
  /\ LET copy == proc[p].copy
         resumes == copy.status = "running" /\ copy.job IN
     \/ copy.status = "validating" /\ Goto(p, "recover") /\ fence' = None
     \/ resumes /\ Goto(p, "resume") /\ fence' = None
     \/ copy.status # "validating" /\ ~resumes /\ Goto(p, "apply") /\ UNCHANGED fence
  /\ UNCHANGED <<store, target, tree, binding, outside>>

PrepareFails(p) ==
  /\ At(p, "prepare") /\ Disturb
  /\ Fail(p)
  /\ UNCHANGED <<queue, work, target, tree, binding, stale>>

(* A live holder: the command gives up after 250 ms and leaves its claim.        *)
FenceRefused(p) ==
  /\ At(p, "enter") /\ fence \notin {None, p}
  /\ Done(p)
  /\ UNCHANGED <<store, target, tree, binding, fence, outside>>

(* A resolved Attempt goes on with the cherry-pick its worktree stopped at.       *)
CanApply(p) == proc[p].copy.resolved => work[proc[p].a].picking

Picking(p, b) == work' = [work EXCEPT ![proc[p].a].picking = b]

ApplyConflict(p) ==
  /\ At(p, "apply") /\ CanApply(p)
  /\ ~Contains(proc[p].copy.before, proc[p].copy.cs) /\ ~FastForwards(proc[p].copy)
  /\ Conclude(p, [proc[p].copy EXCEPT !.status = "blocked", !.resolved = FALSE])
  /\ Picking(p, TRUE)
  /\ UNCHANGED <<queue, target, tree, binding, outside>>

(* Git fails, or the cherry-pick was completed by an earlier `continue`.         *)
ApplyError(p) ==
  /\ At(p, "apply")
  /\ \/ CanApply(p) /\ Disturb
     \/ ~CanApply(p) /\ UNCHANGED spent
  /\ Fail(p)
  /\ UNCHANGED <<queue, work, target, tree, binding, stale>>

(* assertTargetReadyForChecks, then the checks in this process or in a job.      *)
Applied(p) ==
  /\ At(p, "apply") /\ CanApply(p) /\ Picking(p, FALSE)
  /\ \/ ~Ready(proc[p].copy.before) /\ Fail(p)
     \/ /\ Ready(proc[p].copy.before) /\ UNCHANGED attempts
        /\ IF proc[p].cmd = "continue" /\ proc[p].copy.cs \in Checked
           THEN Goto(p, "job") /\ fence' = None
           ELSE Goto(p, "check") /\ UNCHANGED fence
  /\ UNCHANGED <<queue, target, tree, binding, outside>>

Validating(p) ==
  LET copy == [proc[p].copy EXCEPT !.status = "validating",
                                   !.cand = AppliedHead(proc[p].copy, proc[p].a)] IN
  /\ Save(p, copy)
  /\ proc' = [proc EXCEPT ![p].pc = "advance", ![p].copy = copy]
  /\ UNCHANGED fence

ChecksPass(p) ==
  /\ At(p, "check") /\ Validating(p)
  /\ UNCHANGED <<queue, work, target, tree, binding, outside>>

ChecksFail(p) ==
  /\ At(p, "check") /\ proc[p].copy.cs \in Checked
  /\ Fail(p)
  /\ UNCHANGED <<queue, work, target, tree, binding, outside>>

(* The job is started first, or found again by its Attempt. Only a running Attempt
   can be bound to it: for one that was blocked and resolved, the error escapes.  *)
StartCheckJob(p) ==
  /\ At(p, "job")
  /\ LET a == proc[p].a
         bound == [proc[p].copy EXCEPT !.job = TRUE]
         started == work[a].job \in {"none", "active"} IN
     /\ work' = [work EXCEPT ![a].job = IF started THEN "active" ELSE @]
     /\ \/ proc[p].copy.status # "running" /\ Throw(p)
        \/ /\ proc[p].copy.status = "running" /\ Save(p, bound) /\ UNCHANGED fence
           /\ IF started THEN Done(p)
              ELSE proc' = [proc EXCEPT ![p].pc = "resume", ![p].copy = bound]
  /\ UNCHANGED <<queue, target, tree, binding, outside>>

ResumeCheckJob(p) ==
  /\ At(p, "resume")
  /\ \/ work[proc[p].a].job = "active" /\ Throw(p)
     \/ work[proc[p].a].job = "failed" /\ Fail(p)
     \/ work[proc[p].a].job = "passed" /\ Validating(p)
  /\ UNCHANGED <<queue, work, target, tree, binding, outside>>

(* advanceTargetRef. What refuses it fails the Attempt when it is recovered; else
   it is an error of integrate().                                                *)
Refuse(p) == IF proc[p].recovering THEN Fail(p) ELSE Raise(p)

AdvanceTargetRef(p) ==
  /\ At(p, "advance")
  /\ IF Ready(proc[p].copy.before)
     THEN Goto(p, "swap") /\ UNCHANGED <<attempts, fence>>
     ELSE Refuse(p)
  /\ UNCHANGED <<queue, work, target, tree, binding, outside>>

\* Mutant: update-ref without the expected old value
SwapRef_Always(copy) == TRUE

SwapRef(copy) == target = copy.before

(* update-ref: the branch moves, its checkout does not.                          *)
MoveRef(p) ==
  /\ At(p, "swap")
  /\ LET copy == proc[p].copy IN
     \/ /\ SwapRef(copy)
        /\ target' = copy.cand
        /\ tree' = IF copy.cand = copy.before \/ tree = "edited" THEN tree ELSE "behind"
        /\ Goto(p, "sync") /\ UNCHANGED <<attempts, fence>>
     \/ ~SwapRef(copy) /\ Refuse(p) /\ UNCHANGED <<target, tree>>
  /\ UNCHANGED <<queue, work, binding, outside>>

(* read-tree --reset -u: the files follow, but for those Git does not track.     *)
SyncCheckout(p) ==
  /\ At(p, "sync")
  /\ \/ tree' = IF target = proc[p].copy.cand THEN "clean" ELSE "behind"
     \/ tree = "edited" /\ UNCHANGED tree
  /\ Goto(p, "verify")
  /\ UNCHANGED <<store, target, binding, fence, outside>>

SyncFails(p) ==
  /\ At(p, "sync") /\ Disturb
  /\ Refuse(p)
  /\ UNCHANGED <<queue, work, target, tree, binding, stale>>

VerifyAdvance(p) ==
  /\ At(p, "verify")
  /\ IF Ready(proc[p].copy.cand)
     THEN Goto(p, IF proc[p].recovering THEN "confirm" ELSE "record") /\ UNCHANGED <<attempts, fence>>
     ELSE Refuse(p)
  /\ UNCHANGED <<queue, work, target, tree, binding, outside>>

(* The handler of integrate(): the branch may have moved all the same. An Attempt
   whose branch did but whose checkout is not clean ends failed.                 *)
HandleError(p) ==
  /\ At(p, "handle")
  /\ IF Ready(proc[p].copy.cand)
     THEN Goto(p, "again") /\ UNCHANGED <<attempts, fence>>
     ELSE Fail(p)
  /\ UNCHANGED <<queue, work, target, tree, binding, outside>>

RecordCommitted(p) ==
  /\ proc[p].pc \in {"record", "again"}
  /\ LET copy == proc[p].copy IN
     \/ /\ binding \in {copy.before, copy.cand}
        /\ binding' = copy.cand
        /\ Conclude(p, [copy EXCEPT !.status = "committed"])
     \/ /\ binding \notin {copy.before, copy.cand} /\ UNCHANGED binding
        /\ IF At(p, "again") THEN Fail(p) ELSE Raise(p)
  /\ UNCHANGED <<queue, work, target, tree, outside>>

RecoverValidating(p) ==
  /\ At(p, "recover")
  /\ LET copy == proc[p].copy IN
     \/ /\ target = copy.before
        /\ proc' = [proc EXCEPT ![p].pc = "advance", ![p].recovering = TRUE]
        /\ UNCHANGED <<attempts, fence>>
     \/ /\ target # copy.before /\ target = copy.cand
        /\ Goto(p, "confirm") /\ UNCHANGED <<attempts, fence>>
     \/ target \notin {copy.before, copy.cand} /\ Fail(p)
  /\ UNCHANGED <<queue, work, target, tree, binding, outside>>

(* assertTargetReadyForChecks again, where nobody handles its error: the Attempt
   stays validating.                                                             *)
RecoverConfirm(p) ==
  /\ At(p, "confirm")
  /\ IF Ready(proc[p].copy.cand)
     THEN Goto(p, "record") /\ UNCHANGED <<attempts, fence>>
     ELSE Throw(p)
  /\ UNCHANGED <<queue, work, target, tree, binding, outside>>

-------------------------------------------------------------------------------
(* Decisions: one transaction each, but for `queue reconcile`, which reads the
   entry and its Attempt before it.                                              *)

ResolveManually(a) ==
  /\ attempts[a].status = "blocked" /\ Disturb
  /\ attempts' = [attempts EXCEPT ![a].resolved = TRUE]
  /\ UNCHANGED <<queue, work, target, tree, binding, fence, proc, stale>>

ResolveReject(a) ==
  /\ attempts[a].status = "blocked" /\ Disturb
  /\ attempts' = [attempts EXCEPT ![a].status = "failed"]
  /\ UNCHANGED <<queue, work, target, tree, binding, fence, proc, stale>>

Abort(a) ==
  /\ attempts[a].status \in {"running", "blocked"} /\ Disturb
  /\ attempts' = [attempts EXCEPT ![a].status = "failed"]
  /\ work' = [work EXCEPT ![a].job = IF attempts[a].job /\ @ = "active" THEN "failed" ELSE @]
  /\ UNCHANGED <<queue, target, tree, binding, fence, proc, stale>>

(* assertRecoverableAttempt and resolveBlockedAttempt.                           *)
Recoverable(i) == queue[i].att # 0 => attempts[queue[i].att].status \in {"blocked", "failed"}

WithoutBlocked(i) ==
  [a \in DOMAIN attempts |->
     IF a = queue[i].att /\ attempts[a].status = "blocked"
     THEN [attempts[a] EXCEPT !.status = "failed"] ELSE attempts[a]]

Requeue(i) ==
  /\ Recoverable(i) /\ queue[i].status = "conflicted" /\ Disturb
  /\ attempts' = WithoutBlocked(i)
  /\ queue' = [queue EXCEPT ![i].status = "queued"]
  /\ UNCHANGED <<work, target, tree, binding, fence, proc, stale>>

Supersede(i) ==
  /\ Recoverable(i) /\ queue[i].status \in {"queued", "conflicted"} /\ Disturb
  /\ attempts' = WithoutBlocked(i)
  /\ queue' = [queue EXCEPT ![i].status = "superseded"]
  /\ UNCHANGED <<work, target, tree, binding, fence, proc, stale>>

ReconcileRead(p, i) ==
  /\ At(p, "idle") /\ queue[i].status = "conflicted" /\ queue[i].att # 0
  /\ attempts[queue[i].att].status = "committed"
  /\ Start(p, [Idle EXCEPT !.pc = "write", !.cmd = "reconcile", !.e = i,
                 !.snap = <<Proven(queue[i])>>])
  /\ UNCHANGED <<store, target, tree, binding, fence, outside>>

ReconcileWrite(p) ==
  /\ At(p, "write")
  /\ LET i == proc[p].e IN
     queue' = IF ValidTransition(queue[i].status, "committed")
              THEN [queue EXCEPT ![i] = proc[p].snap[1]] ELSE queue
  /\ Done(p)
  /\ UNCHANGED <<attempts, work, target, tree, binding, fence, outside>>

-------------------------------------------------------------------------------
(* What happens around the commands.                                             *)

(* The producer of a ChangeSet is sent back to work.                             *)
ProducerMovesOn(cs) ==
  /\ stale' = stale \cup {cs} /\ Disturb
  /\ UNCHANGED <<store, target, tree, binding, fence, proc>>

(* Somebody commits on the branch, in its checkout: another change, or the same
   one by hand. What the checkout held uncommitted may go with it.               *)
ForeignCommit(cs) ==
  /\ Disturb
  /\ target' = Append(target, [cs |-> cs, by |-> MaxAttempts + spent'])
  /\ tree' \in {tree, "clean"}
  /\ UNCHANGED <<store, binding, fence, proc, stale>>

(* Somebody leaves files in the checkout that belong to no commit.               *)
EditCheckout ==
  /\ tree = "clean" /\ Disturb
  /\ tree' = "edited"
  /\ UNCHANGED <<store, target, binding, fence, proc, stale>>

(* Somebody makes the checkout clean again.                                      *)
CleanCheckout ==
  /\ tree # "clean" /\ tree' = "clean"
  /\ UNCHANGED <<store, target, binding, fence, proc, outside>>

(* Preparing the Task's workspace refreshes the commit in the Task record.       *)
SynchronizeTask ==
  /\ binding # target /\ binding' = target
  /\ UNCHANGED <<store, target, tree, fence, proc, outside>>

JobEnds(a) ==
  /\ work[a].job = "active"
  /\ \E end \in {"passed", "failed"} : work' = [work EXCEPT ![a].job = end]
  /\ UNCHANGED <<queue, attempts, target, tree, binding, fence, proc, outside>>

(* A process dies; the fence of a dead process is reclaimed.                     *)
Crash(p) ==
  /\ ~At(p, "idle") /\ Disturb
  /\ fence' = Released(p) /\ Done(p)
  /\ UNCHANGED <<store, target, tree, binding, stale>>

-------------------------------------------------------------------------------
Integrate(p) ==
  \/ EnterFence(p) \/ FenceRefused(p) \/ Prepare(p) \/ PrepareFails(p)
  \/ ApplyConflict(p) \/ ApplyError(p) \/ Applied(p)
  \/ ChecksPass(p) \/ ChecksFail(p) \/ StartCheckJob(p) \/ ResumeCheckJob(p)
  \/ AdvanceTargetRef(p) \/ MoveRef(p) \/ SyncCheckout(p) \/ SyncFails(p) \/ VerifyAdvance(p)
  \/ HandleError(p) \/ RecordCommitted(p)
  \/ RecoverValidating(p) \/ RecoverConfirm(p)

ProcStep(p) ==
  \/ EnqueueWrite(p)
  \/ ReconcileEntry(p) \/ SelectEntry(p) \/ Claim(p) \/ Settle(p)
  \/ Integrate(p)
  \/ ReconcileWrite(p)

Command(p) ==
  \/ \E cs \in Changes : EnqueueRead(p, cs)
  \/ ProcessStart(p)
  \/ \E a \in DOMAIN attempts : p \in Continuers /\ ContinueStart(p, a)
  \/ \E i \in DOMAIN queue : p \in Continuers /\ ReconcileRead(p, i)

Decision ==
  \/ \E a \in DOMAIN attempts : ResolveManually(a) \/ ResolveReject(a) \/ Abort(a)
  \/ \E i \in DOMAIN queue : Requeue(i) \/ Supersede(i)

Around ==
  \/ \E cs \in Reworked \ stale : ProducerMovesOn(cs)
  \/ \E cs \in Foreign : ForeignCommit(cs)
  \/ EditCheckout \/ CleanCheckout \/ SynchronizeTask
  \/ \E a \in DOMAIN attempts : JobEnds(a)
  \/ \E p \in Procs : Crash(p)

Next == Decision \/ Around \/ \E p \in Procs : Command(p) \/ ProcStep(p)

(* A live process keeps running and its check jobs end; a controller of the Task
   keeps processing the queue and continues an Attempt that was left behind; the
   Task's workspace is prepared from time to time.                               *)
Fairness ==
  /\ \A p \in Procs : WF_vars(ProcStep(p))
  /\ SF_vars(\E p \in Procs : ProcessStart(p))
  /\ \A a \in 1..MaxAttempts :
       /\ WF_vars(a \in DOMAIN attempts /\ JobEnds(a))
       /\ SF_vars(a \in DOMAIN attempts /\ \E p \in Procs : ContinueStart(p, a))
  /\ WF_vars(SynchronizeTask)

Spec == Init /\ [][Next]_vars /\ Fairness

-------------------------------------------------------------------------------
(* A committed entry names a commit of the branch: what the Task's delivery is
   measured by really landed, whatever processes overlapped, died between the
   swap of the branch and their save, or found the branch moved.                 *)
CommittedLanded ==
  \A i \in DOMAIN queue :
    queue[i].status = "committed" => IsPrefixOf(queue[i].after, target)

(* Two processors never run two entries of the branch at once, and two `enqueue`s
   never leave two live entries of one ChangeSet (the transactions of the claim
   and of enqueue check again what was read before an await).                    *)
QueueExclusive ==
  /\ Cardinality({i \in DOMAIN queue : queue[i].status = "running"}) <= 1
  /\ \A i, j \in DOMAIN queue :
       i # j /\ queue[i].cs = queue[j].cs => "superseded" \in {queue[i].status, queue[j].status}

(* The stall the code has: the branch is at the candidate of the running entry,
   the Attempt is validating, and the checkout is not clean, which is what a death
   between update-ref and read-tree leaves behind. Every `continue` then throws
   at its last look (gitIntegrationService.ts:1020), `abort` refuses a validating
   Attempt, and `requeue` and `supersede` refuse a running entry.                *)
Interrupted ==
  /\ tree # "clean"
  /\ \E i \in DOMAIN queue :
       /\ queue[i].status = "running" /\ queue[i].att # 0
       /\ attempts[queue[i].att].status = "validating"
       /\ attempts[queue[i].att].cand = target

(* A running entry holds the whole branch. Unless it is interrupted as above the
   branch becomes free again: through its own processor, or after a crash, a
   refused fence, an escaped error or a half-moved branch through `continue` and
   the next processor's reconciliation. It holds of every later state too, so
   once somebody has cleaned the checkout the branch is freed without any
   other help.                                                                   *)
LaneFrees == LaneBlocked ~> (~LaneBlocked \/ Interrupted)
===============================================================================
