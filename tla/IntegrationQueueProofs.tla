------------------------ MODULE IntegrationQueueProofs ------------------------
(* The safety of the integration queue for any number of processes, ChangeSets,
   entries, Attempts and faults: the entry that counts as delivered names a commit
   of the branch, one entry at a time holds the branch, and a ChangeSet has one
   live entry.

   The argument. Between its steps a process keeps copies: of the entries it
   listed, of the entry it will write, of the Attempt it works on. The copies age
   in a bounded way, because the store and the branch only grow: an entry keeps
   its ChangeSet, records are never removed, and the branch is only ever moved to
   a commit that continues it. What a copy claims of an older state is therefore
   still true when the process writes it back.                                   *)
EXTENDS IntegrationQueue, FiniteSetTheorems, TLAPS

-------------------------------------------------------------------------------
(* The inductive invariant.                                                      *)

Commits == Seq([cs : Changes \cup {None}, by : Nat])

Entries ==
  [cs : Changes, att : Nat, after : Commits,
   status : {"queued", "running", "conflicted", "committed", "superseded"}]

AttemptRecords ==
  [cs : Changes \cup {None}, before : Commits, cand : Commits,
   status : {"running", "validating", "blocked", "failed", "committed", "none"},
   resolved : BOOLEAN, job : BOOLEAN]

IntegratePcs ==
  {"enter", "prepare", "apply", "check", "job", "resume", "advance", "swap", "sync",
   "verify", "handle", "record", "again", "recover", "confirm", "settle"}

Processes ==
  [pc : IntegratePcs \cup {"idle", "enqueue", "reconcile", "claim", "write"},
   cmd : {"none", "enqueue", "process", "continue", "reconcile"},
   e : Nat, a : Nat, cs : Changes \cup {None}, copy : AttemptRecords,
   recovering : BOOLEAN, snap : Seq(Entries), head : Commits]

(* An entry, stored or copied, names one of the n Attempts, and when it counts as
   delivered a commit of the branch t.                                           *)
EntryOK(entry, n, t) ==
  /\ entry.att \in 0..n
  /\ entry.status = "committed" => IsPrefixOf(entry.after, t)

(* An Attempt, stored or copied, has a candidate that continues the commit it
   began from; the candidate of a committed one is on the branch t.              *)
AttemptOK(att, t) ==
  /\ IsPrefixOf(att.before, att.cand)
  /\ att.status = "committed" => IsPrefixOf(att.cand, t)

(* What a process holds still describes the entry of q and the Attempt it will
   write.                                                                        *)
ProcessOK(r, q, n, t) ==
  /\ AttemptOK(r.copy, t)
  /\ r.pc = "enqueue" => r.cs \in Changes
  /\ r.pc = "claim" => r.e \in 1..Len(q)
  /\ r.pc = "reconcile" =>
       /\ r.e >= 1 /\ Len(r.snap) <= Len(q)
       /\ \A i \in 1..Len(r.snap) : r.snap[i].cs = q[i].cs /\ r.snap[i].att \in 0..n
  /\ r.pc = "write" =>
       /\ r.e \in 1..Len(q) /\ Len(r.snap) = 1
       /\ r.snap[1].cs = q[r.e].cs /\ r.snap[1].status = "committed"
       /\ EntryOK(r.snap[1], n, t)
  /\ r.pc \in IntegratePcs =>
       /\ r.a \in 1..n
       /\ r.cmd = "process" => r.e \in 1..Len(q) /\ q[r.e].cs = r.copy.cs
  /\ r.pc = "settle" => r.cmd = "process"
  /\ r.pc \in {"record", "again"} => IsPrefixOf(r.copy.cand, t)

Types ==
  /\ queue \in Seq(Entries)
  /\ attempts \in Seq(AttemptRecords)
  /\ target \in Commits /\ spent \in Nat
  /\ proc \in [Procs -> Processes]

EntriesOK == \A i \in 1..Len(queue) : EntryOK(queue[i], Len(attempts), target)
AttemptsOK == \A a \in 1..Len(attempts) : AttemptOK(attempts[a], target)
ProcessesOK == \A p \in Procs : ProcessOK(proc[p], queue, Len(attempts), target)

OneRunning ==
  \A i, j \in 1..Len(queue) :
    queue[i].status = "running" /\ queue[j].status = "running" => i = j

LiveOnce ==
  \A i, j \in 1..Len(queue) :
    i # j /\ queue[i].cs = queue[j].cs => "superseded" \in {queue[i].status, queue[j].status}

IInv ==
  /\ Types
  /\ EntriesOK
  /\ AttemptsOK
  /\ ProcessesOK
  /\ OneRunning
  /\ LiveOnce

-------------------------------------------------------------------------------
(* A commit that another one continues.                                          *)

LEMMA PrefixReflexive ==
  ASSUME NEW s \in Commits
  PROVE  IsPrefixOf(s, s)
BY DEF IsPrefixOf, Commits

LEMMA PrefixTransitive ==
  ASSUME NEW s \in Commits, NEW t \in Commits, NEW u \in Commits,
         IsPrefixOf(s, t), IsPrefixOf(t, u)
  PROVE  IsPrefixOf(s, u)
<1> DEFINE C == [cs : Changes \cup {None}, by : Nat]
<1>1. s \in Seq(C) /\ t \in Seq(C) /\ u \in Seq(C)
  BY DEF Commits
<1>2. /\ Len(s) \in Nat /\ Len(t) \in Nat /\ Len(u) \in Nat
      /\ Len(s) <= Len(t) /\ Len(t) <= Len(u)
      /\ s = SubSeq(t, 1, Len(s)) /\ t = SubSeq(u, 1, Len(t))
  BY <1>1 DEF IsPrefixOf
<1> HIDE DEF C
<1>3. \A i \in 1..Len(s) : s[i] = t[i]
  BY <1>1, <1>2
<1>4. \A i \in 1..Len(t) : t[i] = u[i]
  BY <1>1, <1>2
<1>5. \A i \in 1..Len(s) : s[i] = u[i]
  BY <1>2, <1>3, <1>4
<1>6. SubSeq(u, 1, Len(s)) \in Seq(C) /\ Len(SubSeq(u, 1, Len(s))) = Len(s)
  BY <1>1, <1>2
<1>7. \A i \in 1..Len(s) : SubSeq(u, 1, Len(s))[i] = u[i]
  BY <1>1, <1>2
<1> QED
  BY <1>1, <1>2, <1>5, <1>6, <1>7 DEF IsPrefixOf

LEMMA PrefixOfAppend ==
  ASSUME NEW s \in Commits, NEW c \in [cs : Changes \cup {None}, by : Nat]
  PROVE  Append(s, c) \in Commits /\ IsPrefixOf(s, Append(s, c))
BY DEF IsPrefixOf, Commits

(* The candidate continues the commit the change was applied on.                 *)
LEMMA AppliedHeadContinues ==
  ASSUME NEW copy \in AttemptRecords, NEW a \in Nat
  PROVE  AppliedHead(copy, a) \in Commits /\ IsPrefixOf(copy.before, AppliedHead(copy, a))
<1>1. copy.before \in Commits /\ copy.cs \in Changes \cup {None}
  BY DEF AttemptRecords
<1> DEFINE c == [cs |-> copy.cs, by |-> IF copy.before = <<>> THEN 0 ELSE a]
<1>2. c \in [cs : Changes \cup {None}, by : Nat]
  BY <1>1
<1> QED
  BY <1>1, <1>2, PrefixReflexive, PrefixOfAppend DEF AppliedHead

-------------------------------------------------------------------------------
(* What a step may do to the store and the branch: they grow, and an entry keeps
   its ChangeSet.                                                                *)
Grows ==
  /\ Len(queue) <= Len(queue')
  /\ \A i \in 1..Len(queue) : queue'[i].cs = queue[i].cs
  /\ Len(attempts) <= Len(attempts')
  /\ IsPrefixOf(target, target')

(* What was right of a copy stays right.                                         *)
LEMMA CopiesAge ==
  ASSUME queue \in Seq(Entries), attempts \in Seq(AttemptRecords), target \in Commits,
         (queue \in Seq(Entries))', (attempts \in Seq(AttemptRecords))', (target \in Commits)',
         Grows
  PROVE  /\ \A x \in Entries : EntryOK(x, Len(attempts), target) =>
                                 EntryOK(x, Len(attempts'), target')
         /\ \A x \in AttemptRecords : AttemptOK(x, target) => AttemptOK(x, target')
         /\ \A x \in Processes : ProcessOK(x, queue, Len(attempts), target) =>
                                   ProcessOK(x, queue', Len(attempts'), target')
<1>1. \A s \in Commits : IsPrefixOf(s, target) => IsPrefixOf(s, target')
  BY PrefixTransitive DEF Grows
<1>2. \A x \in AttemptRecords : AttemptOK(x, target) => AttemptOK(x, target')
  BY <1>1 DEF AttemptOK, AttemptRecords
<1>3. /\ Len(attempts) \in Nat /\ Len(attempts') \in Nat
      /\ Len(queue) \in Nat /\ Len(queue') \in Nat
  OBVIOUS
<1>4. \A x \in Entries : EntryOK(x, Len(attempts), target) => EntryOK(x, Len(attempts'), target')
  BY <1>1, <1>3 DEF EntryOK, Entries, Grows
<1>5. ASSUME NEW x \in Processes, ProcessOK(x, queue, Len(attempts), target)
      PROVE  ProcessOK(x, queue', Len(attempts'), target')
  <2>1. x.copy \in AttemptRecords /\ x.snap \in Seq(Entries) /\ x.copy.cand \in Commits
    BY DEF Processes, AttemptRecords
  <2>2. AttemptOK(x.copy, target')
    BY <1>2, <1>5, <2>1 DEF ProcessOK
  <2>3. x.pc = "write" => EntryOK(x.snap[1], Len(attempts'), target')
    BY <1>4, <1>5, <2>1 DEF ProcessOK
  <2>4. x.pc \in {"record", "again"} => IsPrefixOf(x.copy.cand, target')
    BY <1>1, <1>5, <2>1 DEF ProcessOK
  <2>5. x.pc \in IntegratePcs =>
          /\ x.a \in 1..Len(attempts')
          /\ x.cmd = "process" => x.e \in 1..Len(queue') /\ queue'[x.e].cs = x.copy.cs
    BY <1>3, <1>5 DEF ProcessOK, Grows
  <2>6. x.pc = "reconcile" =>
          /\ x.e >= 1 /\ Len(x.snap) <= Len(queue')
          /\ \A i \in 1..Len(x.snap) :
               x.snap[i].cs = queue'[i].cs /\ x.snap[i].att \in 0..Len(attempts')
    BY <1>3, <1>5, <2>1 DEF ProcessOK, Grows
  <2> QED
    BY <1>3, <1>5, <2>2, <2>3, <2>4, <2>5, <2>6 DEF ProcessOK, Grows
<1> QED
  BY <1>2, <1>4, <1>5

-------------------------------------------------------------------------------
(* The shapes of the steps.                                                      *)

LEMMA IdleIsOK ==
  /\ Idle \in Processes
  /\ \A q, n, t : ProcessOK(Idle, q, n, t)
<1>1. <<>> \in Commits /\ <<>> \in Seq(Entries)
  BY DEF Commits
<1>2. NoAttempt \in AttemptRecords /\ NoAttempt.before = <<>> /\ NoAttempt.cand = <<>>
      /\ NoAttempt.status = "none"
  BY <1>1 DEF NoAttempt, Attempt, AttemptRecords
<1>3. \A t : AttemptOK(NoAttempt, t)
  BY <1>1, <1>2, PrefixReflexive DEF AttemptOK
<1>4. Idle \in Processes
  BY <1>1, <1>2 DEF Idle, Processes
<1> QED
  BY <1>3, <1>4 DEF Idle, ProcessOK, IntegratePcs

(* A process moves to r; what the store and the branch become is right.          *)
LEMMA ProcessMoves ==
  ASSUME IInv, NEW p \in Procs, NEW r \in Processes, proc' = [proc EXCEPT ![p] = r],
         (queue \in Seq(Entries))', (attempts \in Seq(AttemptRecords))',
         (target \in Commits)', (spent \in Nat)',
         Grows, EntriesOK', AttemptsOK', OneRunning', LiveOnce',
         ProcessOK(r, queue', Len(attempts'), target')
  PROVE  IInv'
<1>1. Types'
  BY DEF IInv, Types
<1>2. ASSUME NEW q \in Procs
      PROVE  ProcessOK(proc'[q], queue', Len(attempts'), target')
  <2>1. CASE q = p
    BY <2>1 DEF IInv, Types
  <2>2. CASE q # p
    <3>1. proc'[q] = proc[q] /\ proc[q] \in Processes
      BY <2>2 DEF IInv, Types
    <3>2. ProcessOK(proc[q], queue, Len(attempts), target)
      BY DEF IInv, ProcessesOK
    <3> QED
      BY <3>1, <3>2, CopiesAge DEF IInv, Types
  <2> QED
    BY <2>1, <2>2
<1> QED
  BY <1>1, <1>2 DEF IInv, ProcessesOK

(* The queue stands, an Attempt may be saved, the branch may move on.            *)
LEMMA AttemptSaved ==
  ASSUME IInv, queue' = queue, (target \in Commits)', IsPrefixOf(target, target'),
         \/ attempts' = attempts
         \/ \E a \in 1..Len(attempts), c \in AttemptRecords :
              attempts' = [attempts EXCEPT ![a] = c] /\ AttemptOK(c, target')
  PROVE  /\ (queue \in Seq(Entries))' /\ (attempts \in Seq(AttemptRecords))'
         /\ Len(attempts') = Len(attempts)
         /\ Grows /\ EntriesOK' /\ AttemptsOK' /\ OneRunning' /\ LiveOnce'
<1>1. (queue \in Seq(Entries))' /\ (attempts \in Seq(AttemptRecords))'
      /\ Len(attempts') = Len(attempts)
  BY DEF IInv, Types
<1>2. Grows
  BY <1>1 DEF IInv, Types, Grows
<1>3. EntriesOK'
  <2>1. \A i \in 1..Len(queue) : queue[i] \in Entries
    BY DEF IInv, Types
  <2> QED
    BY <1>1, <1>2, <2>1, CopiesAge DEF IInv, Types, EntriesOK
<1>4. AttemptsOK'
  <2>1. \A a \in 1..Len(attempts) : attempts[a] \in AttemptRecords /\ AttemptOK(attempts[a], target')
    BY <1>1, <1>2, CopiesAge DEF IInv, Types, AttemptsOK
  <2>2. CASE attempts' = attempts
    BY <2>1, <2>2 DEF AttemptsOK
  <2>3. ASSUME NEW a \in 1..Len(attempts), NEW c \in AttemptRecords,
               attempts' = [attempts EXCEPT ![a] = c], AttemptOK(c, target')
        PROVE  AttemptsOK'
    <3>1. \A b \in 1..Len(attempts') : attempts'[b] = IF b = a THEN c ELSE attempts[b]
      BY <1>1, <2>3 DEF IInv, Types
    <3> QED
      BY <1>1, <2>1, <2>3, <3>1 DEF AttemptsOK
  <2> QED
    BY <2>2, <2>3
<1>5. OneRunning' /\ LiveOnce'
  BY DEF IInv, OneRunning, LiveOnce
<1> QED
  BY <1>1, <1>2, <1>3, <1>4, <1>5

(* One step of integrate(): a process moves, and may save its copy.              *)
LEMMA IntegrateMoves ==
  ASSUME IInv, NEW p \in Procs, NEW r \in Processes, proc' = [proc EXCEPT ![p] = r],
         queue' = queue, (target \in Commits)', IsPrefixOf(target, target'),
         (spent \in Nat)',
         \/ attempts' = attempts
         \/ \E a \in 1..Len(attempts), c \in AttemptRecords :
              attempts' = [attempts EXCEPT ![a] = c] /\ AttemptOK(c, target'),
         ProcessOK(r, queue, Len(attempts), target')
  PROVE  IInv'
<1>1. /\ (queue \in Seq(Entries))' /\ (attempts \in Seq(AttemptRecords))'
      /\ Len(attempts') = Len(attempts)
      /\ Grows /\ EntriesOK' /\ AttemptsOK' /\ OneRunning' /\ LiveOnce'
  BY AttemptSaved
<1>2. ProcessOK(r, queue', Len(attempts'), target')
  BY <1>1
<1> QED
  BY <1>1, <1>2, ProcessMoves

(* A decision or an event: no process moves.                                     *)
LEMMA NobodyMoves ==
  ASSUME IInv, proc' = proc, Types', Grows, EntriesOK', AttemptsOK', OneRunning', LiveOnce'
  PROVE  IInv'
<1>1. ASSUME NEW q \in Procs
      PROVE  ProcessOK(proc'[q], queue', Len(attempts'), target')
  <2>1. proc'[q] = proc[q] /\ proc[q] \in Processes
    BY DEF IInv, Types
  <2>2. ProcessOK(proc[q], queue, Len(attempts), target)
    BY DEF IInv, ProcessesOK
  <2> QED
    BY <2>1, <2>2, CopiesAge DEF IInv, Types
<1> QED
  BY <1>1 DEF IInv, ProcessesOK

(* The queue is written: entry i becomes x, which is no second running entry and
   no superseded entry come back to life.                                        *)
LEMMA EntrySaved ==
  ASSUME IInv, NEW i \in 1..Len(queue), NEW x \in Entries,
         queue' = [queue EXCEPT ![i] = x],
         x.cs = queue[i].cs, EntryOK(x, Len(attempts'), target'),
         queue[i].status = "superseded" => x.status = "superseded",
         x.status = "running" => \A j \in 1..Len(queue) : queue[j].status # "running",
         (attempts \in Seq(AttemptRecords))', (target \in Commits)',
         Len(attempts) <= Len(attempts'), IsPrefixOf(target, target')
  PROVE  /\ (queue \in Seq(Entries))' /\ Len(queue') = Len(queue)
         /\ Grows /\ EntriesOK' /\ OneRunning' /\ LiveOnce'
<1>1. /\ queue \in Seq(Entries) /\ (queue \in Seq(Entries))' /\ Len(queue') = Len(queue)
      /\ \A j \in 1..Len(queue) : queue'[j] = (IF j = i THEN x ELSE queue[j])
  BY DEF IInv, Types
<1>2. Grows
  BY <1>1 DEF Grows
<1>3. EntriesOK'
  <2>1. \A j \in 1..Len(queue) : queue[j] \in Entries /\ EntryOK(queue[j], Len(attempts'), target')
    BY <1>1, <1>2, CopiesAge DEF IInv, Types, EntriesOK
  <2> QED
    BY <1>1, <2>1 DEF EntriesOK
<1>4. OneRunning'
  BY <1>1 DEF IInv, OneRunning
<1>5. LiveOnce'
  BY <1>1 DEF IInv, LiveOnce
<1> QED
  BY <1>1, <1>2, <1>3, <1>4, <1>5

-------------------------------------------------------------------------------
(* integrate(), step by step.                                                    *)

(* What is known of a process inside integrate().                                *)
LEMMA AtWork ==
  ASSUME IInv, NEW p \in Procs, proc[p].pc \in IntegratePcs
  PROVE  /\ proc[p] \in Processes /\ proc[p].copy \in AttemptRecords
         /\ proc[p].a \in 1..Len(attempts) /\ proc[p].a \in Nat
         /\ AttemptOK(proc[p].copy, target)
         /\ ProcessOK(proc[p], queue, Len(attempts), target)
         /\ target \in Commits /\ IsPrefixOf(target, target)
<1>1. proc[p] \in Processes /\ target \in Commits
  BY DEF IInv, Types
<1>2. ProcessOK(proc[p], queue, Len(attempts), target)
  BY DEF IInv, ProcessesOK
<1> QED
  BY <1>1, <1>2, PrefixReflexive DEF ProcessOK, Processes

LEMMA Thrown ==
  ASSUME IInv, NEW p \in Procs, Done(p), queue' = queue, attempts' = attempts,
         target' = target, (spent \in Nat)'
  PROVE  IInv'
<1>1. target \in Commits /\ IsPrefixOf(target, target)
  BY PrefixReflexive DEF IInv, Types
<1> QED
  BY <1>1, IdleIsOK, IntegrateMoves DEF Done

LEMMA Concluded ==
  ASSUME IInv, NEW p \in Procs, proc[p].pc \in IntegratePcs, NEW c \in AttemptRecords,
         c.cs = proc[p].copy.cs, AttemptOK(c, target), Conclude(p, c),
         queue' = queue, target' = target, (spent \in Nat)'
  PROVE  IInv'
<1>1. /\ proc[p] \in Processes /\ proc[p].a \in 1..Len(attempts)
      /\ ProcessOK(proc[p], queue, Len(attempts), target)
      /\ target \in Commits /\ IsPrefixOf(target, target)
  BY AtWork
<1>2. attempts' = [attempts EXCEPT ![proc[p].a] = c]
  BY DEF Conclude, Save
<1>3. CASE proc[p].cmd = "process"
  <2> DEFINE r == [proc[p] EXCEPT !.pc = "settle", !.copy = c]
  <2>1. proc' = [proc EXCEPT ![p] = r]
    BY <1>3 DEF Conclude, Return, IInv, Types
  <2>2. r \in Processes /\ r.copy = c /\ r.pc = "settle" /\ r.cmd = "process"
        /\ r.a = proc[p].a /\ r.e = proc[p].e
    BY <1>1, <1>3 DEF Processes, IntegratePcs
  <2> HIDE DEF r
  <2>3. ProcessOK(r, queue, Len(attempts), target)
    BY <1>1, <1>3, <2>2 DEF ProcessOK, IntegratePcs
  <2> QED
    BY <1>1, <1>2, <2>1, <2>2, <2>3, IntegrateMoves
<1>4. CASE proc[p].cmd # "process"
  <2>1. proc' = [proc EXCEPT ![p] = Idle]
    BY <1>4 DEF Conclude, Return, Done
  <2> QED
    BY <1>1, <1>2, <2>1, IdleIsOK, IntegrateMoves
<1> QED
  BY <1>3, <1>4

LEMMA Failed ==
  ASSUME IInv, NEW p \in Procs, proc[p].pc \in IntegratePcs, Fail(p),
         queue' = queue, target' = target, (spent \in Nat)'
  PROVE  IInv'
<1> DEFINE c == [proc[p].copy EXCEPT !.status = "failed"]
<1>1. proc[p].copy \in AttemptRecords /\ AttemptOK(proc[p].copy, target)
  BY AtWork
<1>2. c \in AttemptRecords /\ c.cs = proc[p].copy.cs /\ AttemptOK(c, target)
  BY <1>1 DEF AttemptRecords, AttemptOK
<1>3. Conclude(p, c)
  BY DEF Fail
<1> HIDE DEF c
<1> QED
  BY <1>2, <1>3, Concluded

LEMMA Went ==
  ASSUME IInv, NEW p \in Procs, proc[p].pc \in IntegratePcs,
         NEW pc \in IntegratePcs \ {"settle"}, Goto(p, pc),
         queue' = queue, attempts' = attempts, (spent \in Nat)',
         (target \in Commits)', IsPrefixOf(target, target'),
         pc \in {"record", "again"} => IsPrefixOf(proc[p].copy.cand, target')
  PROVE  IInv'
<1> DEFINE r == [proc[p] EXCEPT !.pc = pc]
<1>1. /\ proc[p] \in Processes /\ proc[p].copy \in AttemptRecords
      /\ ProcessOK(proc[p], queue, Len(attempts), target)
  BY AtWork
<1>2. proc' = [proc EXCEPT ![p] = r]
  BY DEF Goto, IInv, Types
<1>3. r \in Processes /\ r.copy = proc[p].copy /\ r.pc = pc /\ r.cmd = proc[p].cmd
      /\ r.a = proc[p].a /\ r.e = proc[p].e
  BY <1>1 DEF Processes, IntegratePcs
<1>4. AttemptOK(proc[p].copy, target')
  <2>1. AttemptOK(proc[p].copy, target)
    BY AtWork
  <2> QED
    BY <1>1, <2>1, AttemptSaved, CopiesAge DEF IInv, Types
<1> HIDE DEF r
<1>5. ProcessOK(r, queue, Len(attempts), target')
  BY <1>1, <1>3, <1>4 DEF ProcessOK, IntegratePcs
<1> QED
  BY <1>2, <1>3, <1>5, IntegrateMoves

LEMMA Raised ==
  ASSUME IInv, NEW p \in Procs, proc[p].pc \in IntegratePcs, Raise(p),
         queue' = queue, target' = target, (spent \in Nat)'
  PROVE  IInv'
<1>1. target \in Commits /\ IsPrefixOf(target, target)
  BY AtWork
<1>2. CASE Goto(p, "handle") /\ attempts' = attempts
  BY <1>1, <1>2, Went DEF IntegratePcs
<1>3. CASE Throw(p)
  BY <1>3, Thrown DEF Throw
<1> QED
  BY <1>2, <1>3 DEF Raise

LEMMA Refused ==
  ASSUME IInv, NEW p \in Procs, proc[p].pc \in IntegratePcs, Refuse(p),
         queue' = queue, target' = target, (spent \in Nat)'
  PROVE  IInv'
BY Failed, Raised DEF Refuse

LEMMA Validated ==
  ASSUME IInv, NEW p \in Procs, proc[p].pc \in IntegratePcs, Validating(p),
         queue' = queue, target' = target, (spent \in Nat)'
  PROVE  IInv'
<1> DEFINE c == [proc[p].copy EXCEPT !.status = "validating",
                                     !.cand = AppliedHead(proc[p].copy, proc[p].a)]
           r == [proc[p] EXCEPT !.pc = "advance", !.copy = c]
<1>1. /\ proc[p] \in Processes /\ proc[p].copy \in AttemptRecords
      /\ proc[p].a \in 1..Len(attempts) /\ proc[p].a \in Nat
      /\ ProcessOK(proc[p], queue, Len(attempts), target)
      /\ target \in Commits /\ IsPrefixOf(target, target)
  BY AtWork
<1>2. /\ AppliedHead(proc[p].copy, proc[p].a) \in Commits
      /\ IsPrefixOf(proc[p].copy.before, AppliedHead(proc[p].copy, proc[p].a))
  BY <1>1, AppliedHeadContinues
<1>3. c \in AttemptRecords /\ c.cs = proc[p].copy.cs /\ AttemptOK(c, target)
  BY <1>1, <1>2 DEF AttemptRecords, AttemptOK
<1>4. attempts' = [attempts EXCEPT ![proc[p].a] = c]
  BY DEF Validating, Save
<1>5. proc' = [proc EXCEPT ![p] = r]
  BY DEF Validating, IInv, Types
<1> HIDE DEF c
<1>6. r \in Processes /\ r.copy = c /\ r.pc = "advance" /\ r.cmd = proc[p].cmd
      /\ r.a = proc[p].a /\ r.e = proc[p].e
  BY <1>1, <1>3 DEF Processes, IntegratePcs
<1> HIDE DEF r
<1>7. ProcessOK(r, queue, Len(attempts), target)
  BY <1>1, <1>3, <1>6 DEF ProcessOK, IntegratePcs
<1> QED
  BY <1>1, <1>3, <1>4, <1>5, <1>6, <1>7, IntegrateMoves

LEMMA IntegrateKeepsIInv ==
  ASSUME QueueAssumption, IInv, NEW p \in Procs, Integrate(p)
  PROVE  IInv'
<1> USE DEF At, store, outside
<1>1. spent \in Nat /\ target \in Commits /\ IsPrefixOf(target, target)
  BY PrefixReflexive DEF IInv, Types
<1>2. CASE EnterFence(p)
  <2>1. /\ proc[p].pc \in IntegratePcs /\ UNCHANGED <<queue, attempts, target, spent>>
        /\ Goto(p, "prepare")
    BY <1>2 DEF EnterFence, IntegratePcs
  <2> QED
    BY <1>1, <2>1, Went DEF IntegratePcs
<1>16. CASE Prepare(p)
  <2>1. /\ proc[p].pc \in IntegratePcs /\ UNCHANGED <<queue, attempts, target, spent>>
        /\ \E pc \in {"recover", "resume", "apply"} : Goto(p, pc)
    BY <1>16 DEF Prepare, IntegratePcs
  <2> QED
    BY <1>1, <2>1, Went DEF IntegratePcs
<1>17. CASE PrepareFails(p)
  <2>1. proc[p].pc \in IntegratePcs /\ Fail(p) /\ UNCHANGED <<queue, target>> /\ spent' \in Nat
    BY <1>1, <1>17 DEF PrepareFails, IntegratePcs, Disturb
  <2> QED
    BY <2>1, Failed
<1>3. CASE FenceRefused(p)
  BY <1>1, <1>3, Thrown DEF FenceRefused
<1>4. CASE ApplyConflict(p)
  <2> DEFINE c == [proc[p].copy EXCEPT !.status = "blocked", !.resolved = FALSE]
  <2>1. proc[p].pc \in IntegratePcs /\ Conclude(p, c) /\ UNCHANGED <<queue, target, spent>>
    BY <1>4 DEF ApplyConflict, IntegratePcs
  <2>2. proc[p].copy \in AttemptRecords /\ AttemptOK(proc[p].copy, target)
    BY <2>1, AtWork
  <2>3. c \in AttemptRecords /\ c.cs = proc[p].copy.cs /\ AttemptOK(c, target)
    BY <2>2 DEF AttemptRecords, AttemptOK
  <2> HIDE DEF c
  <2> QED
    BY <1>1, <2>1, <2>3, Concluded
<1>5. CASE ApplyError(p)
  <2>1. proc[p].pc \in IntegratePcs /\ Fail(p) /\ UNCHANGED <<queue, target>> /\ spent' \in Nat
    BY <1>1, <1>5 DEF ApplyError, IntegratePcs, Disturb
  <2> QED
    BY <2>1, Failed
<1>6. CASE Applied(p)
  <2>1. /\ proc[p].pc \in IntegratePcs /\ UNCHANGED <<queue, target, spent>>
        /\ \/ Fail(p)
           \/ attempts' = attempts /\ \E pc \in {"job", "check"} : Goto(p, pc)
    BY <1>6 DEF Applied, IntegratePcs
  <2> QED
    BY <1>1, <2>1, Failed, Went DEF IntegratePcs
<1>7. CASE ChecksPass(p)
  <2>1. proc[p].pc \in IntegratePcs /\ Validating(p) /\ UNCHANGED <<queue, target, spent>>
    BY <1>7 DEF ChecksPass, IntegratePcs
  <2> QED
    BY <1>1, <2>1, Validated
<1>8. CASE ChecksFail(p)
  <2>1. proc[p].pc \in IntegratePcs /\ Fail(p) /\ UNCHANGED <<queue, target, spent>>
    BY <1>8 DEF ChecksFail, IntegratePcs
  <2> QED
    BY <1>1, <2>1, Failed
<1>9. CASE StartCheckJob(p)
  <2> DEFINE c == [proc[p].copy EXCEPT !.job = TRUE]
             r == [proc[p] EXCEPT !.pc = "resume", !.copy = c]
  <2>1. proc[p].pc \in IntegratePcs /\ UNCHANGED <<queue, target, spent>>
    BY <1>9 DEF StartCheckJob, IntegratePcs
  <2>2. /\ proc[p] \in Processes /\ proc[p].copy \in AttemptRecords
        /\ proc[p].a \in 1..Len(attempts) /\ AttemptOK(proc[p].copy, target)
        /\ ProcessOK(proc[p], queue, Len(attempts), target)
    BY <2>1, AtWork
  <2>3. c \in AttemptRecords /\ c.cs = proc[p].copy.cs /\ AttemptOK(c, target)
    BY <2>2 DEF AttemptRecords, AttemptOK
  <2>4. proc \in [Procs -> Processes]
    BY DEF IInv, Types
  <2>5. \/ Throw(p)
        \/ /\ attempts' = [attempts EXCEPT ![proc[p].a] = c]
           /\ Done(p) \/ proc' = [proc EXCEPT ![p] = r]
    BY <1>9, <2>4 DEF StartCheckJob, Save
  <2> HIDE DEF c
  <2>6. r \in Processes /\ r.copy = c /\ r.pc = "resume" /\ r.cmd = proc[p].cmd
        /\ r.a = proc[p].a /\ r.e = proc[p].e
    BY <2>2, <2>3 DEF Processes, IntegratePcs
  <2> HIDE DEF r
  <2>7. ProcessOK(r, queue, Len(attempts), target)
    BY <2>1, <2>2, <2>3, <2>6 DEF ProcessOK, IntegratePcs
  <2>8. CASE Throw(p)
    BY <1>1, <2>1, <2>8, Thrown DEF Throw
  <2>9. CASE /\ attempts' = [attempts EXCEPT ![proc[p].a] = c]
             /\ Done(p) \/ proc' = [proc EXCEPT ![p] = r]
    BY <1>1, <2>1, <2>2, <2>3, <2>6, <2>7, <2>9, IdleIsOK, IntegrateMoves DEF Done
  <2> QED
    BY <2>5, <2>8, <2>9
<1>10. CASE ResumeCheckJob(p)
  <2>1. /\ proc[p].pc \in IntegratePcs /\ UNCHANGED <<queue, target, spent>>
        /\ Throw(p) \/ Fail(p) \/ Validating(p)
    BY <1>10 DEF ResumeCheckJob, IntegratePcs
  <2> QED
    BY <1>1, <2>1, Thrown, Failed, Validated DEF Throw
<1>11. CASE AdvanceTargetRef(p)
  <2>1. /\ proc[p].pc \in IntegratePcs /\ UNCHANGED <<queue, target, spent>>
        /\ \/ Goto(p, "swap") /\ attempts' = attempts
           \/ Refuse(p)
    BY <1>11 DEF AdvanceTargetRef, IntegratePcs
  <2> QED
    BY <1>1, <2>1, Went, Refused DEF IntegratePcs
<1>14. CASE MoveRef(p)
  <2>1. /\ proc[p].pc \in IntegratePcs /\ UNCHANGED <<queue, spent>>
        /\ \/ /\ target = proc[p].copy.before /\ target' = proc[p].copy.cand
              /\ Goto(p, "sync") /\ attempts' = attempts
           \/ target' = target /\ Refuse(p)
    BY <1>14 DEF MoveRef, SwapRef, IntegratePcs
  <2>2. proc[p].copy \in AttemptRecords /\ AttemptOK(proc[p].copy, target)
    BY <2>1, AtWork
  <2>3. /\ proc[p].copy.cand \in Commits
        /\ IsPrefixOf(proc[p].copy.before, proc[p].copy.cand)
    BY <2>2 DEF AttemptRecords, AttemptOK
  <2>4. "sync" \in IntegratePcs \ {"settle"}
    BY DEF IntegratePcs
  <2> QED
    BY <1>1, <2>1, <2>3, <2>4, Went, Refused
<1>18. CASE SyncCheckout(p)
  <2>1. /\ proc[p].pc \in IntegratePcs /\ UNCHANGED <<queue, attempts, target, spent>>
        /\ Goto(p, "verify")
    BY <1>18 DEF SyncCheckout, IntegratePcs
  <2> QED
    BY <1>1, <2>1, Went DEF IntegratePcs
<1>19. CASE SyncFails(p)
  <2>1. proc[p].pc \in IntegratePcs /\ Refuse(p) /\ UNCHANGED <<queue, target>> /\ spent' \in Nat
    BY <1>1, <1>19 DEF SyncFails, IntegratePcs, Disturb
  <2> QED
    BY <2>1, Refused
<1>20. CASE VerifyAdvance(p)
  <2>1. /\ proc[p].pc \in IntegratePcs /\ UNCHANGED <<queue, target, spent>>
        /\ \/ /\ target = proc[p].copy.cand /\ attempts' = attempts
              /\ \E pc \in {"confirm", "record"} : Goto(p, pc)
           \/ Refuse(p)
    BY <1>20 DEF VerifyAdvance, Ready, IntegratePcs
  <2> QED
    BY <1>1, <2>1, Went, Refused DEF IntegratePcs
<1>21. CASE HandleError(p)
  <2>1. /\ proc[p].pc \in IntegratePcs /\ UNCHANGED <<queue, target, spent>>
        /\ \/ target = proc[p].copy.cand /\ Goto(p, "again") /\ attempts' = attempts
           \/ Fail(p)
    BY <1>21 DEF HandleError, Ready, IntegratePcs
  <2> QED
    BY <1>1, <2>1, Went, Failed DEF IntegratePcs
<1>12. CASE RecordCommitted(p)
  <2> DEFINE c == [proc[p].copy EXCEPT !.status = "committed"]
  <2>1. /\ proc[p].pc \in IntegratePcs /\ proc[p].pc \in {"record", "again"}
        /\ UNCHANGED <<queue, target, spent>>
        /\ Conclude(p, c) \/ Raise(p) \/ Fail(p)
    BY <1>12 DEF RecordCommitted, IntegratePcs
  <2>2. /\ proc[p].copy \in AttemptRecords /\ AttemptOK(proc[p].copy, target)
        /\ ProcessOK(proc[p], queue, Len(attempts), target)
    BY <2>1, AtWork
  <2>3. c \in AttemptRecords /\ c.cs = proc[p].copy.cs /\ AttemptOK(c, target)
    BY <2>1, <2>2 DEF AttemptRecords, AttemptOK, ProcessOK
  <2> HIDE DEF c
  <2> QED
    BY <1>1, <2>1, <2>3, Concluded, Raised, Failed
<1>13. CASE RecoverValidating(p)
  <2> DEFINE r == [proc[p] EXCEPT !.pc = "advance", !.recovering = TRUE]
  <2>1. /\ proc[p].pc \in IntegratePcs /\ UNCHANGED <<queue, target, spent>>
        /\ \/ proc' = [proc EXCEPT ![p] = r] /\ attempts' = attempts
           \/ Goto(p, "confirm") /\ attempts' = attempts
           \/ Fail(p)
    BY <1>13 DEF RecoverValidating, IntegratePcs, IInv, Types
  <2>2. /\ proc[p] \in Processes /\ proc[p].copy \in AttemptRecords
        /\ ProcessOK(proc[p], queue, Len(attempts), target)
    BY <2>1, AtWork
  <2>3. r \in Processes /\ r.copy = proc[p].copy /\ r.pc = "advance" /\ r.cmd = proc[p].cmd
        /\ r.a = proc[p].a /\ r.e = proc[p].e
    BY <2>2 DEF Processes, IntegratePcs
  <2> HIDE DEF r
  <2>4. ProcessOK(r, queue, Len(attempts), target)
    BY <2>1, <2>2, <2>3 DEF ProcessOK, IntegratePcs
  <2>5. CASE proc' = [proc EXCEPT ![p] = r] /\ attempts' = attempts
    BY <1>1, <2>1, <2>3, <2>4, <2>5, IntegrateMoves
  <2>6. "confirm" \in IntegratePcs \ {"settle"}
    BY DEF IntegratePcs
  <2> QED
    BY <1>1, <2>1, <2>5, <2>6, Went, Failed
<1>15. CASE RecoverConfirm(p)
  <2>1. /\ proc[p].pc \in IntegratePcs /\ UNCHANGED <<queue, target, spent>>
        /\ \/ target = proc[p].copy.cand /\ Goto(p, "record") /\ attempts' = attempts
           \/ Throw(p)
    BY <1>15 DEF RecoverConfirm, Ready, IntegratePcs
  <2>2. "record" \in IntegratePcs \ {"settle"}
    BY DEF IntegratePcs
  <2> QED
    BY <1>1, <2>1, <2>2, Went, Thrown DEF Throw
<1> QED
  BY <1>2, <1>3, <1>4, <1>5, <1>6, <1>7, <1>8, <1>9, <1>10, <1>11, <1>12, <1>13,
     <1>14, <1>15, <1>16, <1>17, <1>18, <1>19, <1>20, <1>21 DEF Integrate

-------------------------------------------------------------------------------
(* The processor and `enqueue`.                                                  *)

LEMMA ListingIsOK ==
  ASSUME NEW q \in Seq(Entries), NEW n \in Nat, NEW t,
         \A i \in 1..Len(q) : q[i].att \in 0..n
  PROVE  Listing(q) \in Processes /\ ProcessOK(Listing(q), q, n, t)
<1> DEFINE L == Listing(q)
<1>1. /\ Idle \in Processes /\ AttemptOK(Idle.copy, t)
  BY IdleIsOK DEF ProcessOK
<1>2. /\ L \in Processes /\ L.copy = Idle.copy /\ L.pc = "reconcile" /\ L.e = 1
      /\ L.snap \in {q, <<>>}
  <2> DEFINE S == IF \E i \in DOMAIN q : q[i].status \in {"conflicted", "running"}
                  THEN q ELSE <<>>
  <2>1. L = [Idle EXCEPT !.pc = "reconcile", !.cmd = "process", !.e = 1, !.snap = S]
    BY DEF Listing
  <2>2. S \in {q, <<>>} /\ S \in Seq(Entries)
    OBVIOUS
  <2> HIDE DEF S, L
  <2> QED
    BY <1>1, <2>1, <2>2 DEF Processes
<1> HIDE DEF L
<1>3. ProcessOK(L, q, n, t)
  <2>1. CASE L.snap = q
    BY <1>1, <1>2, <2>1 DEF ProcessOK, IntegratePcs
  <2>2. CASE L.snap = <<>>
    <3>1. Len(L.snap) = 0 /\ Len(q) \in Nat
      BY <2>2
    <3> QED
      BY <1>1, <1>2, <3>1 DEF ProcessOK, IntegratePcs
  <2> QED
    BY <1>2, <2>1, <2>2
<1> QED
  BY <1>2, <1>3 DEF L

(* A process only moves: it read the store, or gave up.                          *)
LEMMA ReaderMoves ==
  ASSUME IInv, NEW p \in Procs, NEW r \in Processes, proc' = [proc EXCEPT ![p] = r],
         queue' = queue, attempts' = attempts, target' = target, (spent \in Nat)',
         ProcessOK(r, queue, Len(attempts), target)
  PROVE  IInv'
<1>1. target \in Commits /\ IsPrefixOf(target, target)
  BY PrefixReflexive DEF IInv, Types
<1> QED
  BY <1>1, IntegrateMoves

LEMMA StoreFacts ==
  ASSUME IInv
  PROVE  /\ queue \in Seq(Entries) /\ attempts \in Seq(AttemptRecords) /\ target \in Commits
         /\ spent \in Nat /\ Len(queue) \in Nat /\ Len(attempts) \in Nat
         /\ proc \in [Procs -> Processes]
         /\ DOMAIN queue = 1..Len(queue) /\ DOMAIN attempts = 1..Len(attempts)
         /\ \A i \in 1..Len(queue) : queue[i] \in Entries /\ queue[i].att \in 0..Len(attempts)
         /\ \A i \in 1..Len(queue) : EntryOK(queue[i], Len(attempts), target)
         /\ \A a \in 1..Len(attempts) : attempts[a] \in AttemptRecords
         /\ \A a \in 1..Len(attempts) : AttemptOK(attempts[a], target)
         /\ \A p \in Procs : ProcessOK(proc[p], queue, Len(attempts), target)
         /\ IsPrefixOf(target, target)
<1>1. Types
  BY DEF IInv
<1>2. target \in Commits /\ IsPrefixOf(target, target)
  BY <1>1, PrefixReflexive DEF Types
<1> QED
  BY <1>1, <1>2 DEF IInv, Types, EntriesOK, AttemptsOK, ProcessesOK, EntryOK

(* The queue gets a new entry, of a ChangeSet without a live one.                *)
LEMMA EntryAppended ==
  ASSUME IInv, NEW x \in Entries, queue' = Append(queue, x),
         ~ActiveDuplicate(x.cs), x.status # "running",
         EntryOK(x, Len(attempts'), target'),
         (attempts \in Seq(AttemptRecords))', (target \in Commits)',
         Len(attempts) <= Len(attempts'), IsPrefixOf(target, target')
  PROVE  (queue \in Seq(Entries))' /\ Grows /\ EntriesOK' /\ OneRunning' /\ LiveOnce'
<1>1. /\ queue \in Seq(Entries) /\ (queue \in Seq(Entries))' /\ Len(queue') = Len(queue) + 1
      /\ Len(queue) \in Nat
      /\ \A j \in 1..Len(queue') : queue'[j] = (IF j = Len(queue) + 1 THEN x ELSE queue[j])
  BY StoreFacts
<1>2. Grows
  BY <1>1 DEF Grows
<1>3. EntriesOK'
  <2>1. \A j \in 1..Len(queue) : queue[j] \in Entries /\ EntryOK(queue[j], Len(attempts'), target')
    BY <1>1, <1>2, CopiesAge, StoreFacts
  <2> QED
    BY <1>1, <2>1 DEF EntriesOK
<1>4. OneRunning'
  BY <1>1 DEF IInv, OneRunning
<1>5. LiveOnce'
  <2>1. \A i \in 1..Len(queue) : queue[i].cs = x.cs => queue[i].status = "superseded"
    BY StoreFacts DEF ActiveDuplicate
  <2> QED
    BY <1>1, <2>1 DEF IInv, LiveOnce
<1> QED
  BY <1>1, <1>2, <1>3, <1>4, <1>5

(* A new Attempt.                                                                *)
LEMMA AttemptAppended ==
  ASSUME IInv, NEW c \in AttemptRecords, attempts' = Append(attempts, c),
         AttemptOK(c, target), target' = target
  PROVE  /\ (attempts \in Seq(AttemptRecords))' /\ Len(attempts') = Len(attempts) + 1
         /\ AttemptsOK'
<1>1. /\ (attempts \in Seq(AttemptRecords))' /\ Len(attempts') = Len(attempts) + 1
      /\ Len(attempts) \in Nat
      /\ \A a \in 1..Len(attempts') : attempts'[a] = IF a = Len(attempts) + 1 THEN c ELSE attempts[a]
  BY StoreFacts
<1>2. AttemptsOK'
  BY <1>1, StoreFacts DEF AttemptsOK
<1> QED
  BY <1>1, <1>2

LEMMA NewAttemptIsOK ==
  ASSUME NEW cs \in Changes, NEW before \in Commits, NEW t
  PROVE  /\ Attempt(cs, before) \in AttemptRecords
         /\ AttemptOK(Attempt(cs, before), t)
         /\ Attempt(cs, before).cs = cs /\ Attempt(cs, before).cand = before
BY PrefixReflexive DEF Attempt, AttemptRecords, AttemptOK

LEMMA EnqueueWriteKeepsIInv ==
  ASSUME IInv, NEW p \in Procs, EnqueueWrite(p)
  PROVE  IInv'
<1> USE DEF At, outside
<1> DEFINE cs == proc[p].cs
           c == [Attempt(cs, target) EXCEPT !.status = "committed"]
<1>1. /\ cs \in Changes /\ UNCHANGED <<target, spent>> /\ proc' = [proc EXCEPT ![p] = Idle]
  BY StoreFacts DEF EnqueueWrite, ProcessOK, Done
<1>2. Idle \in Processes /\ ProcessOK(Idle, queue', Len(attempts'), target')
  BY IdleIsOK
<1>3. CASE UNCHANGED <<queue, attempts>>
  BY <1>1, <1>2, <1>3, StoreFacts, IntegrateMoves, IdleIsOK
<1>4. CASE /\ ~EnqueueRefused(cs)
           /\ attempts' = Append(attempts, c)
           /\ queue' = Append(queue, Entry(cs, "committed", Len(attempts'), target))
  <2> DEFINE x == Entry(cs, "committed", Len(attempts'), target)
  <2>1. c \in AttemptRecords /\ AttemptOK(c, target)
    BY <1>1, StoreFacts DEF Attempt, AttemptRecords, AttemptOK
  <2> HIDE DEF c
  <2>2. /\ (attempts \in Seq(AttemptRecords))' /\ Len(attempts') = Len(attempts) + 1
        /\ AttemptsOK'
    BY <1>1, <1>4, <2>1, AttemptAppended
  <2>3. x \in Entries /\ x.cs = cs /\ x.status # "running" /\ EntryOK(x, Len(attempts'), target')
    BY <1>1, <2>2, StoreFacts DEF Entry, Entries, EntryOK
  <2> HIDE DEF x
  <2>4. ~ActiveDuplicate(x.cs)
    BY <1>4, <2>3 DEF EnqueueRefused
  <2>5. queue' = Append(queue, x)
    BY <1>4 DEF x
  <2>6. (queue \in Seq(Entries))' /\ Grows /\ EntriesOK' /\ OneRunning' /\ LiveOnce'
    BY <1>1, <2>2, <2>3, <2>4, <2>5, StoreFacts, EntryAppended
  <2> QED
    BY <1>1, <1>2, <2>2, <2>6, StoreFacts, ProcessMoves
<1>5. CASE /\ ~EnqueueRefused(cs) /\ attempts' = attempts
           /\ queue' = Append(queue, Entry(cs, "queued", 0, <<>>))
  <2> DEFINE x == Entry(cs, "queued", 0, <<>>)
  <2>1. x \in Entries /\ x.cs = cs /\ x.status # "running" /\ EntryOK(x, Len(attempts'), target')
    BY <1>1, <1>5, StoreFacts DEF Entry, Entries, EntryOK, Commits
  <2> HIDE DEF x
  <2>2. ~ActiveDuplicate(x.cs)
    BY <1>5, <2>1 DEF EnqueueRefused
  <2>3. queue' = Append(queue, x)
    BY <1>5 DEF x
  <2>4. (queue \in Seq(Entries))' /\ Grows /\ EntriesOK' /\ OneRunning' /\ LiveOnce'
    BY <1>1, <1>5, <2>1, <2>2, <2>3, StoreFacts, EntryAppended
  <2>5. AttemptsOK'
    BY <1>1, <1>5 DEF AttemptsOK, IInv
  <2> QED
    BY <1>1, <1>2, <1>5, <2>4, <2>5, StoreFacts, ProcessMoves
<1> QED
  BY <1>3, <1>4, <1>5 DEF EnqueueWrite

(* What the store refuses keeps a superseded entry out of the queue for good.    *)
LEMMA SupersededIsFinal ==
  \A after : ValidTransition("superseded", after) => after = "superseded"
BY DEF ValidTransition

(* What an Attempt proves of a listed entry.                                     *)
LEMMA ProvenIsOK ==
  ASSUME IInv, NEW x \in Entries, x.att \in 0..Len(attempts), Proven(x) # x
  PROVE  /\ Proven(x) \in Entries /\ Proven(x).cs = x.cs
         /\ Proven(x).status \in {"committed", "conflicted"}
         /\ EntryOK(Proven(x), Len(attempts), target)
         /\ attempts[x.att].status = "committed" => Proven(x).status = "committed"
<1> DEFINE att == attempts[x.att]
<1>1. x.att # 0 /\ x.status \in {"conflicted", "running"}
  BY DEF Proven
<1>2. att \in AttemptRecords /\ att.cand \in Commits /\ AttemptOK(att, target)
  <2>1. x.att \in 1..Len(attempts)
    BY <1>1, StoreFacts DEF Entries
  <2> QED
    BY <2>1, StoreFacts DEF AttemptRecords
<1>3. Proven(x) = CASE att.status = "committed" ->
                         [x EXCEPT !.status = "committed", !.after = att.cand]
                    [] x.status = "running" /\ att.status \in {"failed", "blocked"} ->
                         [x EXCEPT !.status = "conflicted"]
                    [] OTHER -> x
  BY <1>1 DEF Proven
<1> HIDE DEF att
<1>4. \/ att.status = "committed" /\ Proven(x) = [x EXCEPT !.status = "committed", !.after = att.cand]
      \/ att.status # "committed" /\ Proven(x) = [x EXCEPT !.status = "conflicted"]
  BY <1>3
<1>5. CASE att.status = "committed"
  BY <1>2, <1>4, <1>5 DEF Entries, EntryOK, AttemptOK, att
<1>6. CASE att.status # "committed"
  BY <1>4, <1>6 DEF Entries, EntryOK, att
<1> QED
  BY <1>5, <1>6

LEMMA ReconcileEntryKeepsIInv ==
  ASSUME IInv, NEW p \in Procs, ReconcileEntry(p)
  PROVE  IInv'
<1>1. PICK i \in Unsettled(p) :
        \/ /\ ValidTransition(queue[i].status, Proven(proc[p].snap[i]).status)
           /\ queue' = [queue EXCEPT ![i] = Proven(proc[p].snap[i])]
           /\ proc' = [proc EXCEPT ![p].e = i + 1]
        \/ Done(p) /\ UNCHANGED queue
  BY DEF ReconcileEntry
<1> DEFINE x == proc[p].snap[i]
<1>2. /\ UNCHANGED <<attempts, target, spent>> /\ proc[p].pc = "reconcile"
  BY DEF ReconcileEntry, outside, At
<1>3. proc[p] \in Processes /\ ProcessOK(proc[p], queue, Len(attempts), target)
  BY StoreFacts
<1>4. /\ i \in 1..Len(queue) /\ i \in Nat /\ i \in 1..Len(proc[p].snap)
      /\ x \in Entries /\ x.cs = queue[i].cs /\ x.att \in 0..Len(attempts) /\ Proven(x) # x
  <2>1. i \in proc[p].e..Len(proc[p].snap) /\ Proven(x) # x
    BY DEF Unsettled
  <2>2. proc[p].snap \in Seq(Entries) /\ proc[p].e \in Nat /\ Len(proc[p].snap) \in Nat
    BY <1>3 DEF Processes
  <2>3. i \in 1..Len(proc[p].snap)
    BY <1>2, <1>3, <2>1, <2>2 DEF ProcessOK
  <2> QED
    BY <1>2, <1>3, <2>1, <2>2, <2>3, StoreFacts DEF ProcessOK
<1>5. /\ Proven(x) \in Entries /\ Proven(x).cs = queue[i].cs
      /\ Proven(x).status \in {"committed", "conflicted"}
      /\ EntryOK(Proven(x), Len(attempts), target)
  BY <1>4, ProvenIsOK
<1>6. CASE Done(p) /\ UNCHANGED queue
  BY <1>2, <1>6, StoreFacts, Thrown
<1>7. CASE /\ ValidTransition(queue[i].status, Proven(x).status)
           /\ queue' = [queue EXCEPT ![i] = Proven(x)]
           /\ proc' = [proc EXCEPT ![p].e = i + 1]
  <2>1. queue[i].status # "superseded"
    BY <1>5, <1>7, SupersededIsFinal
  <2>2. /\ (queue \in Seq(Entries))' /\ Len(queue') = Len(queue)
        /\ Grows /\ EntriesOK' /\ OneRunning' /\ LiveOnce'
    <3> DEFINE y == Proven(x)
    <3>1. /\ y \in Entries /\ y.cs = queue[i].cs /\ y.status # "running"
          /\ EntryOK(y, Len(attempts'), target') /\ queue' = [queue EXCEPT ![i] = y]
      BY <1>2, <1>5, <1>7
    <3>2. /\ (attempts \in Seq(AttemptRecords))' /\ (target \in Commits)'
          /\ Len(attempts) <= Len(attempts') /\ IsPrefixOf(target, target')
      BY <1>2, StoreFacts
    <3> HIDE DEF y, x
    <3> QED
      BY <1>4, <2>1, <3>1, <3>2, EntrySaved
  <2> DEFINE r == [proc[p] EXCEPT !.e = i + 1]
  <2>3. proc' = [proc EXCEPT ![p] = r]
    BY <1>7, StoreFacts
  <2>4. ProcessOK(proc[p], queue', Len(attempts'), target')
    BY <1>2, <1>3, <2>2, CopiesAge, StoreFacts
  <2>5. /\ r \in Processes /\ r.copy = proc[p].copy /\ r.pc = "reconcile" /\ r.e = i + 1
        /\ r.snap = proc[p].snap
    <3>1. i + 1 \in Nat
      BY <1>4
    <3> QED
      BY <1>2, <1>3, <3>1 DEF Processes
  <2> HIDE DEF r
  <2>6. ProcessOK(r, queue', Len(attempts'), target')
    BY <1>2, <1>4, <2>4, <2>5 DEF ProcessOK, IntegratePcs
  <2>7. AttemptsOK'
    BY <1>2 DEF IInv, AttemptsOK
  <2> QED
    BY <1>2, <2>2, <2>3, <2>5, <2>6, <2>7, StoreFacts, ProcessMoves
<1> QED
  BY <1>1, <1>6, <1>7

LEMMA SelectEntryKeepsIInv ==
  ASSUME IInv, NEW p \in Procs, SelectEntry(p)
  PROVE  IInv'
<1>1. UNCHANGED <<queue, attempts, target, spent>>
  BY DEF SelectEntry, store, outside
<1>2. CASE Done(p)
  BY <1>1, <1>2, StoreFacts, Thrown
<1>3. ASSUME NEW i \in Claimable,
             Start(p, [Idle EXCEPT !.pc = "claim", !.cmd = "process", !.e = i, !.head = target])
      PROVE  IInv'
  <2> DEFINE r == [Idle EXCEPT !.pc = "claim", !.cmd = "process", !.e = i, !.head = target]
  <2>1. i \in 1..Len(queue) /\ i \in Nat
    BY StoreFacts DEF Claimable
  <2>2. Idle \in Processes /\ AttemptOK(Idle.copy, target)
    BY IdleIsOK DEF ProcessOK
  <2>3. r \in Processes /\ r.copy = Idle.copy /\ r.pc = "claim" /\ r.e = i
    BY <2>1, <2>2, StoreFacts DEF Processes
  <2>4. proc' = [proc EXCEPT ![p] = r]
    BY <1>3 DEF Start
  <2> HIDE DEF r
  <2>5. ProcessOK(r, queue, Len(attempts), target)
    BY <2>1, <2>2, <2>3 DEF ProcessOK, IntegratePcs
  <2> QED
    BY <1>1, <2>3, <2>4, <2>5, StoreFacts, ReaderMoves
<1> QED
  BY <1>2, <1>3 DEF SelectEntry

LEMMA SettleKeepsIInv ==
  ASSUME IInv, NEW p \in Procs, Settle(p)
  PROVE  IInv'
<1> DEFINE copy == proc[p].copy
           i == proc[p].e
           x == IF copy.status = "committed"
                THEN Entry(copy.cs, "committed", proc[p].a, copy.cand)
                ELSE Entry(copy.cs, "conflicted", proc[p].a, <<>>)
<1>1. UNCHANGED <<attempts, target, spent>> /\ proc[p].pc = "settle"
  BY DEF Settle, outside, At
<1>2. /\ proc[p] \in Processes /\ copy \in AttemptRecords /\ proc[p].a \in 1..Len(attempts)
      /\ AttemptOK(copy, target) /\ proc[p].a \in Nat
      /\ ProcessOK(proc[p], queue, Len(attempts), target)
  BY <1>1, AtWork DEF IntegratePcs
<1>3. i \in 1..Len(queue) /\ queue[i].cs = copy.cs
  BY <1>1, <1>2 DEF ProcessOK, IntegratePcs
<1>4. /\ x \in Entries /\ x.cs = queue[i].cs /\ x.status \in {"committed", "conflicted"}
      /\ EntryOK(x, Len(attempts), target)
  <2>1. copy.cs \in Changes /\ copy.cand \in Commits /\ <<>> \in Commits
    BY <1>2, <1>3, StoreFacts DEF Entries, AttemptRecords, Commits
  <2>2. CASE copy.status = "committed"
    BY <1>2, <1>3, <2>1, <2>2, StoreFacts DEF Entry, Entries, EntryOK, AttemptOK
  <2>3. CASE copy.status # "committed"
    BY <1>2, <1>3, <2>1, <2>3, StoreFacts DEF Entry, Entries, EntryOK
  <2> QED
    BY <2>2, <2>3
<1>5. \/ /\ ValidTransition(queue[i].status, x.status)
         /\ queue' = [queue EXCEPT ![i] = x]
         /\ Start(p, Listing(queue'))
      \/ Done(p) /\ UNCHANGED queue
  BY DEF Settle
<1> HIDE DEF x
<1>6. CASE Done(p) /\ UNCHANGED queue
  BY <1>1, <1>6, StoreFacts, Thrown
<1>7. CASE /\ ValidTransition(queue[i].status, x.status)
           /\ queue' = [queue EXCEPT ![i] = x]
           /\ Start(p, Listing(queue'))
  <2>1. queue[i].status # "superseded"
    BY <1>4, <1>7, SupersededIsFinal
  <2>2. /\ (queue \in Seq(Entries))' /\ Len(queue') = Len(queue)
        /\ Grows /\ EntriesOK' /\ OneRunning' /\ LiveOnce'
    <3>1. x.status # "running" /\ EntryOK(x, Len(attempts'), target')
      BY <1>1, <1>4
    <3>2. /\ (attempts \in Seq(AttemptRecords))' /\ (target \in Commits)'
          /\ Len(attempts) <= Len(attempts') /\ IsPrefixOf(target, target')
      BY <1>1, StoreFacts
    <3> HIDE DEF i
    <3> QED
      BY <1>3, <1>4, <1>7, <2>1, <3>1, <3>2, EntrySaved
  <2>3. AttemptsOK'
    BY <1>1 DEF IInv, AttemptsOK
  <2>4. /\ Listing(queue') \in Processes
        /\ ProcessOK(Listing(queue'), queue', Len(attempts'), target')
    <3>1. \A j \in 1..Len(queue') : queue'[j].att \in 0..Len(attempts')
      BY <2>2 DEF EntriesOK, EntryOK
    <3> QED
      BY <1>1, <2>2, <3>1, StoreFacts, ListingIsOK
  <2>5. proc' = [proc EXCEPT ![p] = Listing(queue')]
    BY <1>7 DEF Start
  <2> QED
    BY <1>1, <2>2, <2>3, <2>4, <2>5, StoreFacts, ProcessMoves
<1> QED
  BY <1>5, <1>6, <1>7

LEMMA ListTheQueue ==
  ASSUME IInv, EntriesOK', (queue \in Seq(Entries))', (attempts \in Seq(AttemptRecords))'
  PROVE  /\ Listing(queue') \in Processes
         /\ ProcessOK(Listing(queue'), queue', Len(attempts'), target')
<1>1. /\ \A j \in 1..Len(queue') : queue'[j].att \in 0..Len(attempts')
      /\ Len(attempts') \in Nat
  BY DEF EntriesOK, EntryOK
<1> QED
  BY <1>1, ListingIsOK

LEMMA ClaimKeepsIInv ==
  ASSUME IInv, NEW p \in Procs, Claim(p)
  PROVE  IInv'
<1> DEFINE i == proc[p].e
           cs == queue[i].cs
           attempt == Attempt(cs, proc[p].head)
<1>1. proc[p].pc = "claim" /\ UNCHANGED <<target, spent>>
  BY DEF Claim, At, outside
<1>2. proc[p] \in Processes /\ i \in 1..Len(queue) /\ proc[p].head \in Commits
  BY <1>1, StoreFacts DEF ProcessOK, Processes
<1>3. queue[i] \in Entries /\ cs \in Changes /\ EntryOK(queue[i], Len(attempts), target)
  BY <1>2, StoreFacts DEF Entries
<1>4. \/ Start(p, Listing(queue)) /\ UNCHANGED <<queue, attempts>>
      \/ /\ queue[i].status = "queued"
         /\ queue' = [queue EXCEPT ![i].status = "conflicted"]
         /\ Start(p, Listing(queue')) /\ UNCHANGED attempts
      \/ /\ queue[i].status = "queued" /\ ~LaneBlocked
         /\ attempts' = Append(attempts, attempt)
         /\ queue' = [queue EXCEPT ![i].status = "running", ![i].att = Len(attempts')]
         /\ Start(p, [Idle EXCEPT !.pc = "enter", !.cmd = "process", !.e = i,
                                  !.a = Len(attempts'), !.copy = attempt])
  BY DEF Claim
<1>5. CASE Start(p, Listing(queue)) /\ UNCHANGED <<queue, attempts>>
  <2>1. Listing(queue) \in Processes /\ ProcessOK(Listing(queue), queue, Len(attempts), target)
    BY StoreFacts, ListingIsOK
  <2> QED
    BY <1>1, <1>5, <2>1, StoreFacts, ReaderMoves DEF Start
<1>6. CASE /\ queue[i].status = "queued"
           /\ queue' = [queue EXCEPT ![i].status = "conflicted"]
           /\ Start(p, Listing(queue')) /\ UNCHANGED attempts
  <2> DEFINE x == [queue[i] EXCEPT !.status = "conflicted"]
  <2>1. queue' = [queue EXCEPT ![i] = x]
    BY <1>2, <1>6, StoreFacts
  <2>2. /\ x \in Entries /\ x.cs = queue[i].cs /\ x.status = "conflicted"
        /\ EntryOK(x, Len(attempts'), target')
    BY <1>1, <1>3, <1>6 DEF Entries, EntryOK
  <2>3. /\ (attempts \in Seq(AttemptRecords))' /\ (target \in Commits)'
        /\ Len(attempts) <= Len(attempts') /\ IsPrefixOf(target, target')
    BY <1>1, <1>6, StoreFacts
  <2> HIDE DEF x, i
  <2>4. /\ (queue \in Seq(Entries))' /\ Grows /\ EntriesOK' /\ OneRunning' /\ LiveOnce'
    BY <1>2, <1>6, <2>1, <2>2, <2>3, EntrySaved
  <2>5. /\ Listing(queue') \in Processes
        /\ ProcessOK(Listing(queue'), queue', Len(attempts'), target')
    BY <2>3, <2>4, ListTheQueue
  <2>6. AttemptsOK' /\ proc' = [proc EXCEPT ![p] = Listing(queue')]
    BY <1>1, <1>6 DEF IInv, AttemptsOK, Start
  <2> QED
    BY <1>1, <2>3, <2>4, <2>5, <2>6, StoreFacts, ProcessMoves
<1>7. CASE /\ queue[i].status = "queued" /\ ~LaneBlocked
           /\ attempts' = Append(attempts, attempt)
           /\ queue' = [queue EXCEPT ![i].status = "running", ![i].att = Len(attempts')]
           /\ Start(p, [Idle EXCEPT !.pc = "enter", !.cmd = "process", !.e = i,
                                    !.a = Len(attempts'), !.copy = attempt])
  <2> DEFINE n == Len(attempts')
             x == [queue[i] EXCEPT !.status = "running", !.att = n]
             r == [Idle EXCEPT !.pc = "enter", !.cmd = "process", !.e = i,
                               !.a = n, !.copy = attempt]
  <2>1. /\ attempt \in AttemptRecords /\ attempt.cs = cs
        /\ AttemptOK(attempt, target)
    BY <1>2, <1>3, NewAttemptIsOK
  <2> HIDE DEF attempt
  <2>2. (attempts \in Seq(AttemptRecords))' /\ n = Len(attempts) + 1 /\ AttemptsOK'
    BY <1>1, <1>7, <2>1, AttemptAppended
  <2>3. /\ (target \in Commits)' /\ Len(attempts) <= Len(attempts')
        /\ IsPrefixOf(target, target') /\ n \in Nat /\ n \in 1..n
    BY <1>1, <2>2, StoreFacts
  <2>4. queue' = [queue EXCEPT ![i] = x]
    BY <1>2, <1>7, StoreFacts
  <2>5. x \in Entries /\ x.cs = queue[i].cs /\ x.status = "running" /\ x.att = n
    BY <1>3, <2>3 DEF Entries
  <2>6. EntryOK(x, Len(attempts'), target')
    BY <2>3, <2>5 DEF EntryOK
  <2>7. \A j \in 1..Len(queue) : queue[j].status # "running"
    BY <1>7, StoreFacts DEF LaneBlocked
  <2>8. proc' = [proc EXCEPT ![p] = r]
    BY <1>7 DEF Start
  <2>9. /\ r \in Processes /\ r.pc = "enter" /\ r.e = i /\ r.a = n /\ r.copy = attempt
    BY <1>2, <2>1, <2>3, IdleIsOK DEF Processes, IntegratePcs
  <2> HIDE DEF x, r, i, n
  <2>10. /\ (queue \in Seq(Entries))' /\ Len(queue') = Len(queue)
         /\ Grows /\ EntriesOK' /\ OneRunning' /\ LiveOnce'
    BY <1>2, <1>7, <2>2, <2>3, <2>4, <2>5, <2>6, <2>7, EntrySaved
  <2>11. queue'[i].cs = cs
    BY <1>2, <2>4, <2>5, StoreFacts
  <2>12. ProcessOK(r, queue', Len(attempts'), target')
    BY <1>1, <1>2, <2>1, <2>3, <2>9, <2>10, <2>11 DEF ProcessOK, IntegratePcs, n
  <2> QED
    BY <1>1, <2>2, <2>3, <2>8, <2>9, <2>10, <2>12, StoreFacts, ProcessMoves
<1> QED
  BY <1>4, <1>5, <1>6, <1>7

LEMMA ReconcileWriteKeepsIInv ==
  ASSUME IInv, NEW p \in Procs, ReconcileWrite(p)
  PROVE  IInv'
<1> DEFINE i == proc[p].e
           x == proc[p].snap[1]
<1>1. proc[p].pc = "write" /\ UNCHANGED <<attempts, target, spent>> /\ Done(p)
  BY DEF ReconcileWrite, At, outside
<1>2. proc[p] \in Processes /\ ProcessOK(proc[p], queue, Len(attempts), target)
  BY StoreFacts
<1>3. /\ i \in 1..Len(queue) /\ x.cs = queue[i].cs /\ x.status = "committed"
      /\ EntryOK(x, Len(attempts'), target')
  BY <1>1, <1>2 DEF ProcessOK
<1>4. x \in Entries
  <2>1. proc[p].snap \in Seq(Entries) /\ Len(proc[p].snap) = 1
    BY <1>1, <1>2 DEF Processes, ProcessOK
  <2> QED
    BY <2>1
<1>5. \/ queue' = queue
      \/ ValidTransition(queue[i].status, "committed") /\ queue' = [queue EXCEPT ![i] = x]
  BY DEF ReconcileWrite
<1>6. CASE queue' = queue
  BY <1>1, <1>6, StoreFacts, Thrown
<1>7. CASE ValidTransition(queue[i].status, "committed") /\ queue' = [queue EXCEPT ![i] = x]
  <2>1. queue[i].status # "superseded"
    BY <1>7, SupersededIsFinal
  <2>2. /\ (attempts \in Seq(AttemptRecords))' /\ (target \in Commits)'
        /\ Len(attempts) <= Len(attempts') /\ IsPrefixOf(target, target') /\ AttemptsOK'
    BY <1>1, StoreFacts DEF AttemptsOK
  <2> HIDE DEF i, x
  <2>3. (queue \in Seq(Entries))' /\ Grows /\ EntriesOK' /\ OneRunning' /\ LiveOnce'
    BY <1>3, <1>4, <1>7, <2>1, <2>2, EntrySaved
  <2> QED
    BY <1>1, <2>2, <2>3, StoreFacts, IdleIsOK, ProcessMoves DEF Done
<1> QED
  BY <1>5, <1>6, <1>7

LEMMA CommandKeepsIInv ==
  ASSUME IInv, NEW p \in Procs, Command(p)
  PROVE  IInv'
<1> USE DEF Start, store, outside
<1>0. Idle \in Processes /\ AttemptOK(Idle.copy, target)
  BY IdleIsOK DEF ProcessOK
<1>1. ASSUME NEW cs \in Changes, EnqueueRead(p, cs)
      PROVE  IInv'
  <2> DEFINE r == [Idle EXCEPT !.pc = "enqueue", !.cmd = "enqueue", !.cs = cs, !.head = target]
  <2>1. UNCHANGED <<queue, attempts, target, spent>> /\ proc' = [proc EXCEPT ![p] = r]
    BY <1>1 DEF EnqueueRead
  <2>2. r \in Processes /\ r.pc = "enqueue" /\ r.cs = cs /\ r.copy = Idle.copy
    BY <1>0, StoreFacts DEF Processes
  <2> HIDE DEF r
  <2>3. ProcessOK(r, queue, Len(attempts), target)
    BY <1>0, <2>2 DEF ProcessOK, IntegratePcs
  <2> QED
    BY <2>1, <2>2, <2>3, StoreFacts, ReaderMoves
<1>2. CASE ProcessStart(p)
  <2>1. Listing(queue) \in Processes /\ ProcessOK(Listing(queue), queue, Len(attempts), target)
    BY StoreFacts, ListingIsOK
  <2> QED
    BY <1>2, <2>1, StoreFacts, ReaderMoves DEF ProcessStart
<1>3. ASSUME NEW a \in DOMAIN attempts, ContinueStart(p, a)
      PROVE  IInv'
  <2> DEFINE r == [Idle EXCEPT !.pc = "enter", !.cmd = "continue", !.a = a, !.copy = attempts[a]]
  <2>1. UNCHANGED <<queue, attempts, target, spent>> /\ proc' = [proc EXCEPT ![p] = r]
    BY <1>3 DEF ContinueStart
  <2>2. /\ a \in 1..Len(attempts) /\ a \in Nat /\ attempts[a] \in AttemptRecords
        /\ AttemptOK(attempts[a], target)
    BY StoreFacts
  <2>3. r \in Processes /\ r.pc = "enter" /\ r.cmd = "continue" /\ r.a = a /\ r.copy = attempts[a]
    BY <1>0, <2>2 DEF Processes, IntegratePcs
  <2> HIDE DEF r
  <2>4. ProcessOK(r, queue, Len(attempts), target)
    BY <2>2, <2>3 DEF ProcessOK, IntegratePcs
  <2> QED
    BY <2>1, <2>3, <2>4, StoreFacts, ReaderMoves
<1>4. ASSUME NEW i \in DOMAIN queue, ReconcileRead(p, i)
      PROVE  IInv'
  <2> DEFINE x == Proven(queue[i])
             r == [Idle EXCEPT !.pc = "write", !.cmd = "reconcile", !.e = i, !.snap = <<x>>]
  <2>1. /\ UNCHANGED <<queue, attempts, target, spent>> /\ proc' = [proc EXCEPT ![p] = r]
        /\ queue[i].status = "conflicted" /\ queue[i].att # 0
        /\ attempts[queue[i].att].status = "committed"
    BY <1>4 DEF ReconcileRead
  <2>2. /\ i \in 1..Len(queue) /\ i \in Nat /\ queue[i] \in Entries
        /\ queue[i].att \in 0..Len(attempts)
    BY StoreFacts
  <2>3. x # queue[i]
    <3>1. x = [queue[i] EXCEPT !.status = "committed", !.after = attempts[queue[i].att].cand]
      BY <2>1 DEF Proven
    <3>2. x.status = "committed"
      BY <2>2, <3>1 DEF Entries
    <3> QED
      BY <2>1, <3>2
  <2>4. /\ x \in Entries /\ x.cs = queue[i].cs /\ x.status = "committed"
        /\ EntryOK(x, Len(attempts), target)
    BY <2>1, <2>2, <2>3, ProvenIsOK
  <2> HIDE DEF x
  <2>5. <<x>> \in Seq(Entries) /\ Len(<<x>>) = 1 /\ <<x>>[1] = x
    BY <2>4
  <2>6. r \in Processes /\ r.pc = "write" /\ r.e = i /\ r.snap = <<x>> /\ r.copy = Idle.copy
    BY <1>0, <2>2, <2>5 DEF Processes
  <2> HIDE DEF r
  <2>7. ProcessOK(r, queue, Len(attempts), target)
    BY <1>0, <2>2, <2>4, <2>5, <2>6 DEF ProcessOK, IntegratePcs
  <2> QED
    BY <2>1, <2>6, <2>7, StoreFacts, ReaderMoves
<1> QED
  BY <1>1, <1>2, <1>3, <1>4 DEF Command

-------------------------------------------------------------------------------
(* Decisions and what happens around the commands.                               *)

(* A decision on an Attempt.                                                     *)
LEMMA AttemptDecided ==
  ASSUME IInv, NEW a \in 1..Len(attempts), NEW c \in AttemptRecords,
         attempts' = [attempts EXCEPT ![a] = c], AttemptOK(c, target),
         queue' = queue, target' = target, (spent \in Nat)', proc' = proc
  PROVE  IInv'
<1>1. /\ (queue \in Seq(Entries))' /\ (attempts \in Seq(AttemptRecords))'
      /\ Grows /\ EntriesOK' /\ AttemptsOK' /\ OneRunning' /\ LiveOnce'
  BY StoreFacts, AttemptSaved
<1>2. Types'
  BY <1>1, StoreFacts DEF Types
<1> QED
  BY <1>1, <1>2, NobodyMoves

(* A decision on an entry, which ends its blocked Attempt.                       *)
LEMMA EntryDecided ==
  ASSUME IInv, NEW i \in 1..Len(queue), NEW st \in {"queued", "superseded"},
         queue[i].status \in {"queued", "conflicted"},
         attempts' = WithoutBlocked(i), queue' = [queue EXCEPT ![i].status = st],
         target' = target, (spent \in Nat)', proc' = proc
  PROVE  IInv'
<1> DEFINE x == [queue[i] EXCEPT !.status = st]
<1>1. /\ (attempts \in Seq(AttemptRecords))' /\ Len(attempts') = Len(attempts)
      /\ \A a \in 1..Len(attempts) :
           attempts'[a] \in {attempts[a], [attempts[a] EXCEPT !.status = "failed"]}
  <2> DEFINE A(a) == IF a = queue[i].att /\ attempts[a].status = "blocked"
                     THEN [attempts[a] EXCEPT !.status = "failed"] ELSE attempts[a]
  <2>1. \A a \in 1..Len(attempts) :
          /\ A(a) \in AttemptRecords
          /\ A(a) \in {attempts[a], [attempts[a] EXCEPT !.status = "failed"]}
    BY StoreFacts DEF AttemptRecords
  <2>2. attempts' = [a \in 1..Len(attempts) |-> A(a)]
    BY StoreFacts DEF WithoutBlocked
  <2> HIDE DEF A
  <2>3. attempts' \in Seq(AttemptRecords) /\ Len(attempts') = Len(attempts)
    BY <2>1, <2>2, StoreFacts
  <2> QED
    BY <2>1, <2>2, <2>3
<1>2. AttemptsOK'
  <2>1. ASSUME NEW a \in 1..Len(attempts) PROVE AttemptOK(attempts'[a], target)
    <3>1. attempts[a] \in AttemptRecords /\ AttemptOK(attempts[a], target)
      BY StoreFacts
    <3>2. AttemptOK([attempts[a] EXCEPT !.status = "failed"], target)
      BY <3>1 DEF AttemptRecords, AttemptOK
    <3> QED
      BY <1>1, <3>1, <3>2
  <2> QED
    BY <1>1, <2>1 DEF AttemptsOK
<1>3. /\ (target \in Commits)' /\ Len(attempts) <= Len(attempts') /\ IsPrefixOf(target, target')
  BY <1>1, StoreFacts
<1>4. queue' = [queue EXCEPT ![i] = x]
  BY StoreFacts
<1>5. queue[i] \in Entries /\ EntryOK(queue[i], Len(attempts), target)
  BY StoreFacts
<1>6. /\ x \in Entries /\ x.cs = queue[i].cs /\ x.status = st
      /\ EntryOK(x, Len(attempts'), target')
  BY <1>1, <1>5 DEF Entries, EntryOK
<1> HIDE DEF x
<1>7. (queue \in Seq(Entries))' /\ Grows /\ EntriesOK' /\ OneRunning' /\ LiveOnce'
  BY <1>1, <1>3, <1>4, <1>6, EntrySaved
<1>8. Types'
  BY <1>1, <1>3, <1>7, StoreFacts DEF Types
<1> QED
  BY <1>2, <1>7, <1>8, NobodyMoves

LEMMA DecisionKeepsIInv ==
  ASSUME IInv, Decision
  PROVE  IInv'
<1>1. ASSUME NEW a \in DOMAIN attempts, ResolveManually(a) \/ ResolveReject(a) \/ Abort(a)
      PROVE  IInv'
  <2>1. /\ a \in 1..Len(attempts) /\ attempts[a] \in AttemptRecords
        /\ AttemptOK(attempts[a], target) /\ attempts \in Seq(AttemptRecords)
    BY StoreFacts
  <2>2. UNCHANGED <<queue, target, proc>> /\ spent' \in Nat
    BY <1>1, StoreFacts DEF ResolveManually, ResolveReject, Abort, Disturb
  <2>3. CASE ResolveManually(a)
    <3> DEFINE c == [attempts[a] EXCEPT !.resolved = TRUE]
    <3>1. c \in AttemptRecords /\ AttemptOK(c, target)
      BY <2>1 DEF AttemptRecords, AttemptOK
    <3>2. attempts' = [attempts EXCEPT ![a] = c]
      BY <2>1, <2>3 DEF ResolveManually
    <3> HIDE DEF c
    <3> QED
      BY <2>1, <2>2, <3>1, <3>2, AttemptDecided
  <2>4. CASE ResolveReject(a) \/ Abort(a)
    <3> DEFINE c == [attempts[a] EXCEPT !.status = "failed"]
    <3>1. c \in AttemptRecords /\ AttemptOK(c, target)
      BY <2>1 DEF AttemptRecords, AttemptOK
    <3>2. attempts' = [attempts EXCEPT ![a] = c]
      BY <2>1, <2>4 DEF ResolveReject, Abort
    <3> HIDE DEF c
    <3> QED
      BY <2>1, <2>2, <3>1, <3>2, AttemptDecided
  <2> QED
    BY <1>1, <2>3, <2>4
<1>2. ASSUME NEW i \in DOMAIN queue, Requeue(i) \/ Supersede(i)
      PROVE  IInv'
  <2>1. /\ i \in 1..Len(queue) /\ queue[i].status \in {"queued", "conflicted"}
        /\ attempts' = WithoutBlocked(i) /\ UNCHANGED <<target, proc>> /\ spent' \in Nat
        /\ \E st \in {"queued", "superseded"} : queue' = [queue EXCEPT ![i].status = st]
    BY <1>2, StoreFacts DEF Requeue, Supersede, Disturb
  <2> QED
    BY <2>1, EntryDecided
<1> QED
  BY <1>1, <1>2 DEF Decision

LEMMA AroundKeepsIInv ==
  ASSUME QueueAssumption, IInv, Around
  PROVE  IInv'
<1> USE DEF store, outside
<1>1. CASE \E p \in Procs : Crash(p)
  BY <1>1, StoreFacts, Thrown DEF Crash, Disturb
<1>2. ASSUME UNCHANGED <<queue, attempts, proc>>, (target \in Commits)',
             IsPrefixOf(target, target'), (spent \in Nat)'
      PROVE  IInv'
  <2>1. /\ (queue \in Seq(Entries))' /\ (attempts \in Seq(AttemptRecords))'
        /\ Grows /\ EntriesOK' /\ AttemptsOK' /\ OneRunning' /\ LiveOnce'
    BY <1>2, AttemptSaved
  <2>2. Types'
    BY <1>2, <2>1, StoreFacts DEF Types
  <2> QED
    BY <1>2, <2>1, <2>2, NobodyMoves
<1>3. ASSUME NEW cs \in Foreign, ForeignCommit(cs)
      PROVE  IInv'
  <2> DEFINE c == [cs |-> cs, by |-> MaxAttempts + spent']
  <2>1. UNCHANGED <<queue, attempts, proc>> /\ target' = Append(target, c)
    BY <1>3 DEF ForeignCommit
  <2>9. spent' \in Nat
    BY <1>3, StoreFacts DEF ForeignCommit, Disturb
  <2>2. cs \in Changes \cup {None} /\ \A k \in Nat : MaxAttempts + k \in Nat
    BY DEF QueueAssumption
  <2>3. c \in [cs : Changes \cup {None}, by : Nat]
    <3>1. MaxAttempts + spent' \in Nat
      BY <2>9, <2>2
    <3> QED
      BY <2>2, <3>1
  <2> HIDE DEF c
  <2>4. target' \in Commits /\ IsPrefixOf(target, target')
    BY <2>1, <2>3, StoreFacts, PrefixOfAppend
  <2> QED
    BY <1>2, <2>1, <2>4, <2>9
<1>4. CASE \/ \E cs \in Reworked \ stale : ProducerMovesOn(cs)
           \/ EditCheckout \/ CleanCheckout \/ SynchronizeTask
           \/ \E a \in DOMAIN attempts : JobEnds(a)
  <2>1. UNCHANGED <<queue, attempts, proc, target>> /\ spent' \in Nat
    BY <1>4, StoreFacts DEF ProducerMovesOn, EditCheckout, CleanCheckout, SynchronizeTask, JobEnds, Disturb
  <2> QED
    BY <1>2, <2>1, StoreFacts
<1> QED
  BY <1>1, <1>3, <1>4 DEF Around

-------------------------------------------------------------------------------
LEMMA InitIInv ==
  ASSUME QueueAssumption, Init
  PROVE  IInv
<1>1. <<>> \in Commits
  BY DEF Commits
<1>2. /\ Enqueued \in Seq(Changes) /\ Len(Enqueued) \in Nat
      /\ \A i, j \in 1..Len(Enqueued) : Enqueued[i] = Enqueued[j] => i = j
      /\ queue = [i \in 1..Len(Enqueued) |-> Entry(Enqueued[i], "queued", 0, <<>>)]
  BY DEF QueueAssumption, Init
<1>3. /\ attempts = <<>> /\ target = <<>> /\ spent = 0 /\ proc = [p \in Procs |-> Idle]
  BY DEF Init
<1>4. /\ queue \in Seq(Entries) /\ Len(queue) = Len(Enqueued)
      /\ \A i \in 1..Len(queue) :
           queue[i].cs = Enqueued[i] /\ queue[i].status = "queued" /\ queue[i].att = 0
  <2>1. \A i \in 1..Len(Enqueued) : Entry(Enqueued[i], "queued", 0, <<>>) \in Entries
    BY <1>1, <1>2 DEF Entry, Entries
  <2>2. queue \in Seq(Entries) /\ Len(queue) = Len(Enqueued)
    BY <1>2, <2>1
  <2> QED
    BY <1>2, <2>2 DEF Entry
<1>5. Types
  BY <1>1, <1>3, <1>4, IdleIsOK DEF Types
<1>6. EntriesOK /\ AttemptsOK
  BY <1>3, <1>4 DEF EntriesOK, AttemptsOK, EntryOK
<1>7. ProcessesOK
  BY <1>3, IdleIsOK DEF ProcessesOK
<1>8. OneRunning /\ LiveOnce
  BY <1>2, <1>4 DEF OneRunning, LiveOnce
<1> QED
  BY <1>5, <1>6, <1>7, <1>8 DEF IInv

LEMMA NextIInv ==
  ASSUME QueueAssumption, IInv, [Next]_vars
  PROVE  IInv'
<1>1. CASE UNCHANGED vars
  BY <1>1 DEF vars, IInv, Types, EntriesOK, AttemptsOK, ProcessesOK, OneRunning, LiveOnce
<1>2. ASSUME NEW p \in Procs, ProcStep(p)
      PROVE  IInv'
  BY <1>2, EnqueueWriteKeepsIInv, ReconcileEntryKeepsIInv, SelectEntryKeepsIInv,
     ClaimKeepsIInv, SettleKeepsIInv, IntegrateKeepsIInv, ReconcileWriteKeepsIInv DEF ProcStep
<1> QED
  BY <1>1, <1>2, CommandKeepsIInv, DecisionKeepsIInv, AroundKeepsIInv DEF Next

LEMMA Invariance == Spec => []IInv
BY QueueAssumption, InitIInv, NextIInv, PTL DEF Spec

-------------------------------------------------------------------------------
(* The results.                                                                  *)

(* For any number of processes, ChangeSets, faults and commits of others, an entry
   that counts as delivered names a commit of the branch
   (integrationQueueService.ts, the settlement of a claimed entry and the two
   reconciliations; gitIntegrationService.ts, the swap of the branch).           *)
THEOREM CommittedLandedTheorem == Spec => []CommittedLanded
<1>1. IInv => CommittedLanded
  BY StoreFacts DEF CommittedLanded, EntryOK
<1> QED
  BY <1>1, Invariance, PTL

(* For any number of processes that process the queue and enqueue into it, one
   entry at a time holds the branch, and no ChangeSet has two live entries
   (integrationQueueService.ts, the transactions of the claim and of enqueue).   *)
THEOREM QueueExclusiveTheorem == Spec => []QueueExclusive
<1>1. IInv => QueueExclusive
  <2> SUFFICES ASSUME IInv PROVE QueueExclusive
    OBVIOUS
  <2> DEFINE R == {i \in DOMAIN queue : queue[i].status = "running"}
  <2>1. \A i, j \in R : i = j
    BY StoreFacts DEF IInv, OneRunning
  <2> HIDE DEF R
  <2>2. R = {} \/ \E i : R = {i}
    BY <2>1
  <2>3. R = {} => Cardinality(R) = 0
    BY FS_EmptySet
  <2>4. ASSUME NEW i, R = {i} PROVE Cardinality(R) = 1
    BY <2>4, FS_Singleton
  <2>5. Cardinality(R) <= 1
    BY <2>2, <2>3, <2>4
  <2>6. \A i, j \in DOMAIN queue :
          i # j /\ queue[i].cs = queue[j].cs => "superseded" \in {queue[i].status, queue[j].status}
    BY StoreFacts DEF IInv, LiveOnce
  <2> QED
    BY <2>5, <2>6 DEF QueueExclusive, R
<1> QED
  BY <1>1, Invariance, PTL

(* A step of anybody leaves the branch alone or continues it.                    *)
LEMMA BranchContinues ==
  ASSUME IInv, Next
  PROVE  IsPrefixOf(target, target')
<1> USE DEF outside
<1>1. CASE target' = target
  BY <1>1, StoreFacts
<1>2. ASSUME NEW p \in Procs, target = proc[p].copy.before, target' = proc[p].copy.cand
      PROVE  IsPrefixOf(target, target')
  BY <1>2, StoreFacts DEF ProcessOK, AttemptOK
<1>3. ASSUME NEW cs \in Foreign, ForeignCommit(cs)
      PROVE  IsPrefixOf(target, target')
  <2> DEFINE c == [cs |-> cs, by |-> MaxAttempts + spent']
  <2>1. target' = Append(target, c)
    BY <1>3 DEF ForeignCommit
  <2>2. spent' \in Nat
    BY <1>3, StoreFacts DEF ForeignCommit, Disturb
  <2>3. cs \in Changes \cup {None}
    BY QueueAssumption DEF QueueAssumption
  <2>4. MaxAttempts + spent' \in Nat
    <3>1. \A k \in Nat : MaxAttempts + k \in Nat
      BY QueueAssumption DEF QueueAssumption
    <3> QED
      BY <2>2, <3>1
  <2>5. c \in [cs : Changes \cup {None}, by : Nat]
    BY <2>3, <2>4
  <2> HIDE DEF c
  <2> QED
    BY <2>1, <2>5, StoreFacts, PrefixOfAppend
<1>4. CASE Decision
  BY <1>1, <1>4 DEF Decision, ResolveManually, ResolveReject, Abort, Requeue, Supersede
<1>5. CASE Around
  BY <1>1, <1>3, <1>5 DEF Around, ProducerMovesOn, EditCheckout, CleanCheckout, SynchronizeTask, JobEnds, Crash
<1>6. ASSUME NEW p \in Procs, Command(p)
      PROVE  target' = target
  BY <1>6 DEF Command, EnqueueRead, ProcessStart, ContinueStart, ReconcileRead
<1>7. ASSUME NEW p \in Procs, Integrate(p)
      PROVE  IsPrefixOf(target, target')
  BY <1>1, <1>2, <1>7
     DEF Integrate, EnterFence, FenceRefused, Prepare, PrepareFails, ApplyConflict, ApplyError,
         Applied, ChecksPass, ChecksFail, StartCheckJob, ResumeCheckJob, AdvanceTargetRef,
         MoveRef, SwapRef, SyncCheckout, SyncFails, VerifyAdvance, HandleError,
         RecordCommitted, RecoverValidating, RecoverConfirm
<1>8. ASSUME NEW p \in Procs, ProcStep(p)
      PROVE  IsPrefixOf(target, target')
  BY <1>1, <1>7, <1>8
     DEF ProcStep, EnqueueWrite, ReconcileEntry, SelectEntry, Claim, Settle, ReconcileWrite
<1> QED
  BY <1>1, <1>4, <1>5, <1>6, <1>8 DEF Next

(* The branch only moves to commits that continue it, whatever commands overlap,
   are refused or die: what has landed is never taken back
   (gitIntegrationService.ts, advanceTargetRef).                                 *)
THEOREM BranchNeverRewound == Spec => [][IsPrefixOf(target, target')]_vars
<1>1. IInv /\ [Next]_vars => [IsPrefixOf(target, target')]_vars
  BY BranchContinues
<1> QED
  BY <1>1, Invariance, PTL DEF Spec
===============================================================================
