------------------------ MODULE ReleaseWorkflowProofs ------------------------
(***************************************************************************)
(* Release workflows for any number of workflows, grants, uses and faults  *)
(* and any plans: no use of a grant is spent twice or lost, and the        *)
(* workflow implements ReleasePlan, its effects in the order of the plan   *)
(* and none of them repeated on the strength of a crash or a doubt.        *)
(*                                                                         *)
(* The argument.  A workflow has done the first d steps of its plan, step  *)
(* d+1 is at work, and the others are untouched.  A run that is about to   *)
(* start a command that runs as often as it is started knows that its way  *)
(* is clear: no earlier one took effect or still may, or the step was      *)
(* reported as failed since then.  A step that is pending or failed has    *)
(* its way clear, and one that was left running, or whose outcome is       *)
(* unknown, is not started again, since no query can refute it.            *)
(***************************************************************************)
EXTENDS ReleaseWorkflow, FiniteSetTheorems, TLAPS

-----------------------------------------------------------------------------
(* The inductive invariant.  Of workflow w: d is the number of steps done, s
   its step records, r its run, l its effects, R the idempotency records, O the
   commands whose process is gone, G the grants. *)

Statuses == {"pending", "running", "succeeded", "failed", "unknown"}
StepRecords == [status : Statuses, attempts : Nat, identity : BOOLEAN]
Results == [status : Statuses, identity : BOOLEAN]
Reservations == Workflows \X Nat \X Nat
GrantRecords == [used : Nat, reservations : SUBSET Reservations, revoked : BOOLEAN]
Stages == {"idle", "loop", "authorize", "reserve", "submit", "command", "landed", "result"}
Runs == [stage : Stages, snapshot : GrantRecords, late : BOOLEAN, free : BOOLEAN,
         result : Results]

EffectRecords == [times : Nat, disowned : BOOLEAN]

Size(w) == Len(Plan[w])

\* Nothing was produced, or the step was reported as failed since then
Clear(x) == x.times = 0 \/ x.disowned

\* The first d steps are done, and nothing happened beyond the next one
InOrder(w, d, s, l, R, O) ==
  /\ d \in 0..Size(w)
  /\ \A i \in 1..Size(w) :
       /\ s[i].status = "succeeded" <=> i <= d
       /\ i <= d => l[i].times > 0
       /\ <<w, i>> \in R => l[i].times > 0
       /\ i > d + 1 => s[i].status = "pending" /\ l[i].times = 0 /\ <<w, i>> \notin O

\* What a run has reached of the step at work
Working(w, d, s, r, l, R) ==
  /\ r.stage \notin {"idle", "loop"} => d < Size(w)
  /\ r.stage \in {"reserve", "submit", "command", "landed", "result"} =>
       s[d + 1].status = "running"
  /\ r.stage = "command" => <<w, d + 1>> \notin R
  /\ r.stage = "landed" => l[d + 1].times > 0
  /\ r.stage = "result" =>
       /\ r.result.status \in {"succeeded", "failed", "unknown"}
       /\ r.result.status = "succeeded" => l[d + 1].times > 0

\* Why a command that runs as often as it is started is not started twice on a doubt
StartedOnce(w, d, s, r, l, R, O) ==
  \A i \in 1..Size(w) : Repeatable(Plan[w][i]) =>
    /\ ~s[i].identity
    /\ s[i].status \in {"pending", "failed"} => Clear(l[i])
    /\ <<w, i>> \in O => /\ i = d + 1 /\ s[i].status = "running" /\ Clear(l[i])
                         /\ <<w, i>> \notin R /\ r.stage \in {"idle", "loop"}
    /\ i = d + 1 /\ r.stage \in {"authorize", "reserve", "submit", "command"} => Clear(l[i])
    /\ i = d + 1 /\ r.stage = "result" => ~r.result.identity

\* One of the first n attempts of step i has its use
Paid(w, i, n, G) == \E g \in Grants : \E k \in 1..n : <<w, i, k>> \in G[g].reservations

PaidFor(w, d, s, r, l, O, G) ==
  /\ \A i \in 1..Size(w) :
       /\ s[i].status = "running" => s[i].attempts >= 1
       /\ l[i].times > 0 \/ <<w, i>> \in O => Paid(w, i, s[i].attempts, G)
  /\ r.free => r.stage = "authorize"
  /\ r.free \/ r.stage \in {"submit", "command", "landed"} =>
       Paid(w, d + 1, s[d + 1].attempts, G)

\* A grant, stored or copied, counts at least its reservations
GrantOK(x) ==
  /\ IsFiniteSet(x.reservations)
  /\ Cardinality(x.reservations) <= x.used /\ x.used <= MaxUses

Typed(w, s, r, l) ==
  /\ s \in [1..Size(w) -> StepRecords]
  /\ r \in Runs /\ GrantOK(r.snapshot)
  /\ l \in [1..Size(w) -> EffectRecords]

WorkflowOK(w, d, s, r, l, R, O, G) ==
  /\ Typed(w, s, r, l)
  /\ InOrder(w, d, s, l, R, O)
  /\ Working(w, d, s, r, l, R)
  /\ StartedOnce(w, d, s, r, l, R, O)
  /\ PaidFor(w, d, s, r, l, O, G)

Shape ==
  /\ DOMAIN steps = Workflows /\ steps = [w \in Workflows |-> steps[w]]
  /\ run \in [Workflows -> Runs]
  /\ DOMAIN effects = Workflows /\ effects = [w \in Workflows |-> effects[w]]
  /\ bound \in [Workflows -> Grants]
  /\ grants \in [Grants -> GrantRecords]
  /\ \A g \in Grants : GrantOK(grants[g])

IInv ==
  /\ Shape
  /\ \A w \in Workflows : \E d \in 0..Size(w) :
       WorkflowOK(w, d, steps[w], run[w], effects[w], records, orphans, grants)

-----------------------------------------------------------------------------
(* Facts about the operators *)

LEMMA PlanFacts ==
  ASSUME NEW w \in Workflows
  PROVE  Size(w) \in Nat /\ StepsOf(w) = 1..Size(w)
BY ReleaseAssumption DEF ReleaseAssumption, Size, StepsOf

\* The cursor of a workflow that has done its first d steps
CursorOf(w, s) ==
  LET open == {i \in StepsOf(w) : s[i].status # "succeeded"}
  IN  IF open = {} THEN 0 ELSE Min(open)

LEMMA CursorIs ==
  ASSUME NEW w \in Workflows, NEW d \in 0..Size(w), NEW s,
         \A i \in 1..Size(w) : s[i].status = "succeeded" <=> i <= d
  PROVE  CursorOf(w, s) = IF d = Size(w) THEN 0 ELSE d + 1
<1> DEFINE open == {i \in StepsOf(w) : s[i].status # "succeeded"}
<1>1. Size(w) \in Nat /\ StepsOf(w) = 1..Size(w) /\ d \in Nat
  BY PlanFacts
<1>2. \A i : i \in open <=> i \in 1..Size(w) /\ i > d
  BY <1>1
<1>3. CursorOf(w, s) = IF open = {} THEN 0 ELSE Min(open)
  BY DEF CursorOf
<1> HIDE DEF open
<1>4. CASE d = Size(w)
  BY <1>1, <1>2, <1>3, <1>4
<1>5. CASE d # Size(w)
  <2>1. d + 1 \in open /\ \A y \in open : d + 1 <= y
    BY <1>1, <1>2, <1>5
  <2>2. \A x \in open : (\A y \in open : x <= y) => x = d + 1
    BY <1>1, <1>2, <2>1
  <2>3. Min(open) = d + 1
    BY <2>1, <2>2 DEF Min
  <2> QED
    BY <1>3, <1>5, <2>1, <2>3
<1> QED
  BY <1>4, <1>5

LEMMA NoRunFacts ==
  /\ NoGrant \in GrantRecords /\ GrantOK(NoGrant)
  /\ NoRun \in Runs /\ NoRun.snapshot = NoGrant /\ NoRun.stage = "idle" /\ ~NoRun.free
<1>1. NoGrant \in GrantRecords /\ NoGrant.reservations = {} /\ NoGrant.used = 0
  BY DEF NoGrant, GrantRecords
<1>2. GrantOK(NoGrant)
  BY <1>1, FS_EmptySet, ReleaseAssumption DEF GrantOK, ReleaseAssumption
<1>3. NoRun \in Runs /\ NoRun.snapshot = NoGrant /\ NoRun.stage = "idle" /\ ~NoRun.free
  BY <1>1 DEF NoRun, Runs, NoResult, Results, Statuses, Stages
<1> QED
  BY <1>1, <1>2, <1>3

\* A run at rest claims nothing
LEMMA RunAtRest ==
  ASSUME NEW w \in Workflows, NEW d, NEW s, NEW q, NEW l, NEW R, NEW O, NEW G,
         WorkflowOK(w, d, s, q, l, R, O, G),
         NEW r \in Runs, GrantOK(r.snapshot), r.stage \in {"idle", "loop"}, ~r.free
  PROVE  WorkflowOK(w, d, s, r, l, R, O, G)
BY DEF WorkflowOK, Typed, Working, StartedOnce, PaidFor

\* What paid for a step goes on paying for it
LEMMA StillPaid ==
  ASSUME NEW w, NEW i, NEW n \in Nat, NEW m \in Nat, n <= m, NEW G, NEW H,
         \A g \in Grants : G[g].reservations \subseteq H[g].reservations,
         Paid(w, i, n, G)
  PROVE  Paid(w, i, m, H)
BY DEF Paid

-----------------------------------------------------------------------------
(* A step of workflow w: e steps are done after it *)

\* What the step is to ReleasePlan
Moves(w, d, e) ==
  \/ e = d /\ effects' = effects
  \/ /\ e = d /\ d < Size(w)
     /\ effects[w][d + 1].times = 0 \/ (Repeatable(Plan[w][d + 1]) /\ Clear(effects[w][d + 1]))
     /\ effects' = [effects EXCEPT ![w][d + 1] = Done(effects[w][d + 1])]
  \/ /\ e = d /\ d < Size(w) /\ effects[w][d + 1].times > 0
     /\ effects' = [effects EXCEPT ![w][d + 1] = Disowned(effects[w][d + 1])]
  \/ e = d + 1 /\ effects[w][d + 1].times > 0 /\ effects' = effects

Acts(w, d, e) ==
  /\ Shape'
  /\ \A v \in Workflows \ {w} :
       /\ steps'[v] = steps[v] /\ run'[v] = run[v] /\ effects'[v] = effects[v]
       /\ \A i : <<v, i>> \in records' <=> <<v, i>> \in records
       /\ \A i : <<v, i>> \in orphans' <=> <<v, i>> \in orphans
  /\ \A g \in Grants : grants[g].reservations \subseteq grants'[g].reservations
  /\ WorkflowOK(w, e, steps'[w], run'[w], effects'[w], records', orphans', grants')
  /\ Moves(w, d, e)

\* The other workflows keep what they have
LEMMA OthersStand ==
  ASSUME NEW v \in Workflows, NEW d \in 0..Size(v),
         WorkflowOK(v, d, steps[v], run[v], effects[v], records, orphans, grants),
         steps'[v] = steps[v], run'[v] = run[v], effects'[v] = effects[v],
         \A i : <<v, i>> \in records' <=> <<v, i>> \in records,
         \A i : <<v, i>> \in orphans' <=> <<v, i>> \in orphans,
         \A g \in Grants : grants[g].reservations \subseteq grants'[g].reservations
  PROVE  WorkflowOK(v, d, steps'[v], run'[v], effects'[v], records', orphans', grants')
<1>1. \A i, n : Paid(v, i, n, grants) => Paid(v, i, n, grants')
  BY DEF Paid
<1>2. PaidFor(v, d, steps'[v], run'[v], effects'[v], orphans', grants')
  BY <1>1 DEF WorkflowOK, PaidFor
<1>3. InOrder(v, d, steps'[v], effects'[v], records', orphans')
  BY DEF WorkflowOK, InOrder
<1>4. StartedOnce(v, d, steps'[v], run'[v], effects'[v], records', orphans')
  BY DEF WorkflowOK, StartedOnce
<1>5. Working(v, d, steps'[v], run'[v], effects'[v], records')
  BY DEF WorkflowOK, Working
<1> QED
  BY <1>2, <1>3, <1>4, <1>5 DEF WorkflowOK

LEMMA ActsKeepsIInv ==
  ASSUME IInv, NEW w \in Workflows, NEW d, NEW e \in 0..Size(w), Acts(w, d, e)
  PROVE  IInv'
<1>1. ASSUME NEW v \in Workflows
      PROVE  \E f \in 0..Size(v) :
               WorkflowOK(v, f, steps'[v], run'[v], effects'[v], records', orphans', grants')
  <2>1. CASE v = w
    BY <2>1 DEF Acts
  <2>2. CASE v # w
    <3>1. PICK f \in 0..Size(v) :
            WorkflowOK(v, f, steps[v], run[v], effects[v], records, orphans, grants)
      BY DEF IInv
    <3>2. WorkflowOK(v, f, steps'[v], run'[v], effects'[v], records', orphans', grants')
      BY <2>2, <3>1, OthersStand DEF Acts
    <3> QED
      BY <3>2
  <2> QED
    BY <2>1, <2>2
<1> QED
  BY <1>1 DEF IInv, Acts

\* Only the run of w moves, and perhaps its binding
LEMMA RunMoves ==
  ASSUME Shape, NEW w \in Workflows, NEW d, NEW r, run' = [run EXCEPT ![w] = r],
         UNCHANGED <<steps, effects, records, orphans, grants>>,
         bound' \in [Workflows -> Grants],
         WorkflowOK(w, d, steps[w], r, effects[w], records, orphans, grants)
  PROVE  Acts(w, d, d)
<1>1. Shape'
  BY DEF Shape, WorkflowOK, Typed
<1>2. run'[w] = r /\ \A v \in Workflows \ {w} : run'[v] = run[v]
  BY DEF Shape
<1> QED
  BY <1>1, <1>2 DEF Acts, Moves

-----------------------------------------------------------------------------
(* The actions *)

OK(w, d) ==
  /\ d \in 0..Size(w)
  /\ WorkflowOK(w, d, steps[w], run[w], effects[w], records, orphans, grants)

\* The step at work
LEMMA AtWork ==
  ASSUME NEW w \in Workflows, NEW d, OK(w, d)
  PROVE  /\ d \in Nat /\ Size(w) \in Nat /\ run[w] \in Runs /\ GrantOK(run[w].snapshot)
         /\ steps[w] \in [1..Size(w) -> StepRecords] /\ effects[w] \in [1..Size(w) -> EffectRecords]
         /\ Cursor(w) = 0 <=> d = Size(w)
         /\ Cursor(w) # 0 => Cursor(w) = d + 1
         /\ d # Size(w) => /\ Cursor(w) = d + 1 /\ d + 1 \in 1..Size(w) /\ d < Size(w)
                           /\ Record(w) = steps[w][d + 1] /\ Record(w) \in StepRecords
                           /\ Record(w).status # "succeeded"
                           /\ Kind(w, Cursor(w)) = Plan[w][d + 1]
         /\ run[w].stage \notin {"idle", "loop"} => d # Size(w)
<1>1. d \in Nat /\ Size(w) \in Nat /\ d <= Size(w)
  BY PlanFacts DEF OK
<1>2. Cursor(w) = IF d = Size(w) THEN 0 ELSE d + 1
  <2>1. CursorOf(w, steps[w]) = IF d = Size(w) THEN 0 ELSE d + 1
    BY CursorIs DEF OK, WorkflowOK, InOrder
  <2> QED
    BY <2>1 DEF Cursor, CursorOf
<1>3. /\ steps[w] \in [1..Size(w) -> StepRecords] /\ effects[w] \in [1..Size(w) -> EffectRecords]
      /\ run[w] \in Runs /\ GrantOK(run[w].snapshot)
  BY DEF OK, WorkflowOK, Typed
<1>4. run[w].stage \notin {"idle", "loop"} => d # Size(w)
  BY <1>1 DEF OK, WorkflowOK, Working
<1>5. d # Size(w) => d + 1 \in 1..Size(w) /\ ~(d + 1 <= d)
  BY <1>1
<1>6. d # Size(w) => steps[w][d + 1].status # "succeeded"
  BY <1>5 DEF OK, WorkflowOK, InOrder
<1> QED
  BY <1>1, <1>2, <1>3, <1>4, <1>5, <1>6 DEF Record, Kind

\* A run begins, or ends without a trace
LEMMA RestActs ==
  ASSUME Shape, NEW w \in Workflows, NEW d, OK(w, d),
         UNCHANGED <<steps, effects, records, orphans, grants>>,
         bound' \in [Workflows -> Grants],
         Finish(w) \/ (At(w, "idle") /\ Go(w, "loop"))
  PROVE  Acts(w, d, d)
<1>1. run[w] \in Runs /\ GrantOK(run[w].snapshot)
  BY AtWork
<1>2. CASE Finish(w)
  <2>1. WorkflowOK(w, d, steps[w], NoRun, effects[w], records, orphans, grants)
    BY NoRunFacts, RunAtRest DEF OK
  <2> QED
    BY <1>2, <2>1, RunMoves DEF Finish
<1>3. CASE At(w, "idle") /\ Go(w, "loop")
  <2> DEFINE r == [run[w] EXCEPT !.stage = "loop"]
  <2>1. run' = [run EXCEPT ![w] = r]
    BY <1>3 DEF Go
  <2>2. ~run[w].free
    BY <1>1, <1>3 DEF OK, WorkflowOK, PaidFor, At
  <2>3. r \in Runs /\ r.stage = "loop" /\ r.snapshot = run[w].snapshot /\ ~r.free
    BY <1>1, <2>2 DEF Runs, Stages
  <2> HIDE DEF r
  <2>4. WorkflowOK(w, d, steps[w], r, effects[w], records, orphans, grants)
    BY <1>1, <2>3, RunAtRest DEF OK
  <2> QED
    BY <2>1, <2>4, RunMoves
<1> QED
  BY <1>2, <1>3

\* The run of w goes on, the rest of the world stands
LEMMA ProceedActs ==
  ASSUME Shape, NEW w \in Workflows, NEW d, OK(w, d), Proceed(w)
  PROVE  Acts(w, d, d)
<1>1. UNCHANGED <<steps, effects, records, orphans, grants, bound>> /\ bound' \in [Workflows -> Grants]
  BY DEF Proceed, durable, Shape
<1>2. CASE Finish(w)
  BY <1>1, <1>2, RestActs
<1>3. CASE ~Finish(w)
  <2> DEFINE f == Record(w).status = "running" /\ GrantUseRecognized(w)
             r == [run[w] EXCEPT !.stage = "authorize", !.free = f]
             s == steps[w][d + 1]
  <2>1. /\ run' = [run EXCEPT ![w] = r] /\ Record(w).status # "unknown" /\ Cursor(w) # 0
        /\ ~Queried(w)
    BY <1>3 DEF Proceed
  <2>2. /\ d # Size(w) /\ Record(w) = s /\ s \in StepRecords /\ run[w] \in Runs
        /\ Kind(w, Cursor(w)) = Plan[w][d + 1] /\ Cursor(w) = d + 1
        /\ GrantOK(run[w].snapshot) /\ d + 1 \in 1..Size(w) /\ d < Size(w) /\ d \in Nat
    BY <2>1, AtWork
  <2>3. f \in BOOLEAN
    BY DEF GrantUseRecognized
  <2>4. f => Paid(w, d + 1, s.attempts, grants)
    <3>1. SUFFICES ASSUME f PROVE Paid(w, d + 1, s.attempts, grants)
      OBVIOUS
    <3>2. s.attempts \in 1..s.attempts
      <4>1. s.attempts \in Nat /\ s.status = "running"
        BY <2>2, <3>1 DEF StepRecords
      <4>2. s.attempts >= 1
        BY <2>2, <4>1 DEF OK, WorkflowOK, PaidFor
      <4> QED
        BY <4>1, <4>2
    <3>3. <<w, d + 1, s.attempts>> \in grants[bound[w]].reservations /\ bound[w] \in Grants
      BY <2>2, <3>1 DEF GrantUseRecognized, AttemptKey, Shape
    <3> QED
      BY <3>2, <3>3 DEF Paid
  <2>5. Repeatable(Plan[w][d + 1]) => Clear(effects[w][d + 1]) /\ <<w, d + 1>> \notin orphans
    <3>1. SUFFICES ASSUME Repeatable(Plan[w][d + 1])
                   PROVE  Clear(effects[w][d + 1]) /\ <<w, d + 1>> \notin orphans
      OBVIOUS
    <3>2. s.status \notin {"running", "succeeded", "unknown"}
      <4>1. Irreversible(Plan[w][d + 1])
        BY <3>1 DEF Repeatable, RepeatableKinds, Irreversible
      <4>2. s.status # "succeeded"
        BY <2>2, AtWork
      <4> QED
        BY <2>1, <2>2, <4>1, <4>2 DEF Queried
    <3> QED
      BY <2>2, <3>1, <3>2 DEF OK, WorkflowOK, StartedOnce, StepRecords, Statuses
  <2>6. /\ r \in Runs /\ r.stage = "authorize" /\ r.snapshot = run[w].snapshot /\ r.free = f
    BY <2>2, <2>3 DEF Runs, Stages
  <2> HIDE DEF r, f
  <2>7. WorkflowOK(w, d, steps[w], r, effects[w], records, orphans, grants)
    <3>1. Typed(w, steps[w], r, effects[w])
      BY <2>2, <2>6 DEF OK, WorkflowOK, Typed
    <3>2. Working(w, d, steps[w], r, effects[w], records)
      BY <2>2, <2>6 DEF Working
    <3>3. StartedOnce(w, d, steps[w], r, effects[w], records, orphans)
      BY <2>5, <2>6 DEF OK, WorkflowOK, StartedOnce
    <3>4. PaidFor(w, d, steps[w], r, effects[w], orphans, grants)
      BY <2>4, <2>6 DEF OK, WorkflowOK, PaidFor
    <3> QED
      BY <3>1, <3>2, <3>3, <3>4 DEF OK, WorkflowOK
  <2> QED
    BY <1>1, <2>1, <2>7, RunMoves
<1> QED
  BY <1>2, <1>3

\* What a run r at the step d + 1 must know
RunFits(w, d, s, r, l, R, O, G) ==
  /\ r \in Runs /\ GrantOK(r.snapshot)
  /\ Working(w, d, s, r, l, R)
  /\ r.free => r.stage = "authorize"
  /\ r.free \/ r.stage \in {"submit", "command", "landed"} =>
       Paid(w, d + 1, s[d + 1].attempts, G)
  /\ Repeatable(Plan[w][d + 1]) =>
       /\ <<w, d + 1>> \in O => r.stage \in {"idle", "loop"}
       /\ r.stage \in {"authorize", "reserve", "submit", "command"} => Clear(l[d + 1])
       /\ r.stage = "result" => ~r.result.identity

LEMMA RunFitting ==
  ASSUME NEW w \in Workflows, NEW d, NEW s, NEW q, NEW l, NEW R, NEW O, NEW G,
         WorkflowOK(w, d, s, q, l, R, O, G), NEW r, RunFits(w, d, s, r, l, R, O, G)
  PROVE  WorkflowOK(w, d, s, r, l, R, O, G)
<1>1. StartedOnce(w, d, s, r, l, R, O)
  BY DEF WorkflowOK, StartedOnce, RunFits
<1>2. PaidFor(w, d, s, r, l, O, G)
  BY DEF WorkflowOK, PaidFor, RunFits
<1> QED
  BY <1>1, <1>2 DEF WorkflowOK, Typed, RunFits

\* The record of the step at work is replaced by x, the step goes on
LEMMA RecordSaved ==
  ASSUME NEW w \in Workflows, NEW d \in 0..Size(w), d < Size(w),
         NEW s, NEW q, NEW l, NEW R, NEW O, NEW G, WorkflowOK(w, d, s, q, l, R, O, G),
         NEW x \in StepRecords, x.status # "succeeded",
         x.attempts >= s[d + 1].attempts, x.status = "running" => x.attempts >= 1,
         Repeatable(Plan[w][d + 1]) =>
           /\ ~x.identity
           /\ x.status \in {"pending", "failed"} => Clear(l[d + 1])
           /\ <<w, d + 1>> \notin O
  PROVE  WorkflowOK(w, d, [s EXCEPT ![d + 1] = x], NoRun, l, R, O, G)
<1> DEFINE t == [s EXCEPT ![d + 1] = x]
<1>1. d \in Nat /\ Size(w) \in Nat /\ d + 1 \in 1..Size(w) /\ ~(d + 1 <= d) /\ ~(d + 1 > d + 1)
  BY PlanFacts
<1>2. /\ s \in [1..Size(w) -> StepRecords] /\ t \in [1..Size(w) -> StepRecords]
      /\ t[d + 1] = x /\ \A i \in 1..Size(w) : i # d + 1 => t[i] = s[i]
  BY <1>1 DEF WorkflowOK, Typed
<1> HIDE DEF t
<1>3. Typed(w, t, NoRun, l)
  BY <1>2, NoRunFacts DEF WorkflowOK, Typed
<1>4. InOrder(w, d, t, l, R, O)
  BY <1>1, <1>2 DEF WorkflowOK, InOrder
<1>5. Working(w, d, t, NoRun, l, R)
  BY NoRunFacts DEF Working
<1>6. StartedOnce(w, d, t, NoRun, l, R, O)
  BY <1>1, <1>2, NoRunFacts DEF WorkflowOK, StartedOnce
<1>7. PaidFor(w, d, t, NoRun, l, O, G)
  <2>1. \A i \in 1..Size(w) : /\ t[i].attempts \in Nat /\ s[i].attempts \in Nat
                              /\ s[i].attempts <= t[i].attempts
    BY <1>1, <1>2 DEF StepRecords
  <2>2. \A i \in 1..Size(w) : Paid(w, i, s[i].attempts, G) => Paid(w, i, t[i].attempts, G)
    BY <2>1, StillPaid
  <2>3. \A i \in 1..Size(w) : l[i].times > 0 \/ <<w, i>> \in O => Paid(w, i, t[i].attempts, G)
    BY <2>2 DEF WorkflowOK, PaidFor
  <2>4. \A i \in 1..Size(w) : t[i].status = "running" => t[i].attempts >= 1
    BY <1>2 DEF WorkflowOK, PaidFor
  <2> QED
    BY <2>3, <2>4, NoRunFacts DEF PaidFor
<1> QED
  BY <1>3, <1>4, <1>5, <1>6, <1>7 DEF WorkflowOK, t

\* The step at work is done
LEMMA StepDone ==
  ASSUME NEW w \in Workflows, NEW d \in 0..Size(w), d < Size(w),
         NEW s, NEW q, NEW l, NEW R, NEW O, NEW G, WorkflowOK(w, d, s, q, l, R, O, G),
         NEW x \in StepRecords, x.status = "succeeded", l[d + 1].times > 0,
         x.attempts = s[d + 1].attempts,
         Repeatable(Plan[w][d + 1]) => ~x.identity /\ <<w, d + 1>> \notin O
  PROVE  WorkflowOK(w, d + 1, [s EXCEPT ![d + 1] = x], NoRun, l, R, O, G)
<1> DEFINE t == [s EXCEPT ![d + 1] = x]
<1>1. d \in Nat /\ Size(w) \in Nat /\ d + 1 \in 1..Size(w) /\ d + 1 \in 0..Size(w)
  BY PlanFacts
<1>2. /\ s \in [1..Size(w) -> StepRecords] /\ t \in [1..Size(w) -> StepRecords]
      /\ t[d + 1] = x /\ \A i \in 1..Size(w) : i # d + 1 => t[i] = s[i]
  BY <1>1 DEF WorkflowOK, Typed
<1> HIDE DEF t
<1>3. Typed(w, t, NoRun, l)
  BY <1>2, NoRunFacts DEF WorkflowOK, Typed
<1>4. InOrder(w, d + 1, t, l, R, O)
  <2>1. ASSUME NEW i \in 1..Size(w)
        PROVE  /\ t[i].status = "succeeded" <=> i <= d + 1
               /\ i <= d + 1 => l[i].times > 0
               /\ <<w, i>> \in R => l[i].times > 0
               /\ i > (d + 1) + 1 => t[i].status = "pending" /\ l[i].times = 0 /\ <<w, i>> \notin O
    <3>1. CASE i = d + 1
      BY <1>1, <1>2, <3>1
    <3>2. CASE i < d + 1
      BY <1>1, <1>2, <3>2 DEF WorkflowOK, InOrder
    <3>3. CASE i > d + 1
      BY <1>1, <1>2, <3>3 DEF WorkflowOK, InOrder
    <3> QED
      BY <1>1, <3>1, <3>2, <3>3
  <2> QED
    BY <1>1, <2>1 DEF InOrder
<1>5. Working(w, d + 1, t, NoRun, l, R)
  BY NoRunFacts DEF Working
<1>6. StartedOnce(w, d + 1, t, NoRun, l, R, O)
  BY <1>1, <1>2, NoRunFacts DEF WorkflowOK, StartedOnce
<1>7. PaidFor(w, d + 1, t, NoRun, l, O, G)
  <2>1. \A i \in 1..Size(w) : t[i].attempts = s[i].attempts
    BY <1>1, <1>2
  <2> QED
    BY <1>2, <2>1, NoRunFacts DEF WorkflowOK, PaidFor
<1> QED
  BY <1>3, <1>4, <1>5, <1>6, <1>7 DEF WorkflowOK, t

\* The step at work is saved and the run of w moves
LEMMA StepMoves ==
  ASSUME Shape, NEW w \in Workflows, NEW d, NEW e, OK(w, d), d < Size(w), NEW x, NEW r,
         SaveStep(w, x), run' = [run EXCEPT ![w] = r],
         UNCHANGED <<bound, effects, records, orphans, grants>>,
         e = d \/ (e = d + 1 /\ effects[w][d + 1].times > 0),
         WorkflowOK(w, e, [steps[w] EXCEPT ![d + 1] = x], r, effects[w], records, orphans, grants)
  PROVE  Acts(w, d, e)
<1>4. d # Size(w) /\ Cursor(w) = d + 1
  BY AtWork
<1>1. steps' = [steps EXCEPT ![w] = [steps[w] EXCEPT ![d + 1] = x]]
  BY <1>4 DEF SaveStep
<1>2. Shape'
  BY <1>1 DEF Shape, WorkflowOK, Typed
<1>3. /\ run'[w] = r /\ \A v \in Workflows \ {w} : run'[v] = run[v]
      /\ steps'[w] = [steps[w] EXCEPT ![d + 1] = x]
      /\ \A v \in Workflows \ {w} : steps'[v] = steps[v]
  BY <1>1 DEF Shape
<1> QED
  BY <1>2, <1>3 DEF Acts, Moves

LEMMA StartedFacts ==
  ASSUME NEW s \in StepRecords
  PROVE  /\ Started(s) \in StepRecords /\ Started(s).status = "running"
         /\ Started(s).attempts = s.attempts + 1 /\ ~Started(s).identity
         /\ Started(s).attempts >= s.attempts /\ Started(s).attempts >= 1
BY DEF StepRecords, Statuses, Started

LEMMA SettledFacts ==
  ASSUME NEW s \in StepRecords, NEW res \in Results
  PROVE  /\ Settled(s, res) \in StepRecords /\ Settled(s, res).status = res.status
         /\ Settled(s, res).attempts = s.attempts
         /\ Settled(s, res).identity = (s.identity \/ res.identity)
         /\ s.attempts \in Nat
<1>1. /\ s.identity \in BOOLEAN /\ res.identity \in BOOLEAN /\ res.status \in Statuses
      /\ s.attempts \in Nat
  BY DEF StepRecords, Results
<1>2. (s.identity \/ res.identity) \in BOOLEAN
  OBVIOUS
<1> DEFINE b == s.identity \/ res.identity
<1>3. Settled(s, res) = [s EXCEPT !.status = res.status, !.identity = b] /\ b \in BOOLEAN
  BY <1>2 DEF Settled
<1> HIDE DEF b
<1>4. /\ Settled(s, res) \in StepRecords /\ Settled(s, res).status = res.status
      /\ Settled(s, res).attempts = s.attempts /\ Settled(s, res).identity = b
  BY <1>1, <1>3 DEF StepRecords
<1> QED
  BY <1>1, <1>4 DEF b

\* The attempt that is at work has its use when the grant names it
LEMMA RecognizedIsPaid ==
  ASSUME Shape, NEW w \in Workflows, NEW d, OK(w, d), d < Size(w),
         Record(w).status = "running", GrantUseRecognized(w)
  PROVE  Paid(w, d + 1, steps[w][d + 1].attempts, grants)
<1> DEFINE s == steps[w][d + 1]
<1>1. /\ Record(w) = s /\ s \in StepRecords /\ Cursor(w) = d + 1 /\ d + 1 \in 1..Size(w)
  BY AtWork
<1>2. s.attempts \in 1..s.attempts
  <2>1. s.attempts \in Nat /\ s.status = "running"
    BY <1>1 DEF StepRecords
  <2>2. s.attempts >= 1
    BY <1>1, <2>1 DEF OK, WorkflowOK, PaidFor
  <2> QED
    BY <2>1, <2>2
<1>3. <<w, d + 1, s.attempts>> \in grants[bound[w]].reservations /\ bound[w] \in Grants
  BY <1>1 DEF GrantUseRecognized, AttemptKey, Shape
<1> QED
  BY <1>2, <1>3 DEF Paid

LEMMA QueryActs ==
  ASSUME Shape, NEW w \in Workflows, NEW d, OK(w, d), Query(w)
  PROVE  \E e \in 0..Size(w) : Acts(w, d, e)
<1> DEFINE s == steps[w][d + 1]
           answer == QueryStepEffect(w, Cursor(w), Record(w).identity)
           wasRunning == Record(w).status = "running"
<1>1. /\ UNCHANGED <<bound, grants, records, effects, orphans>> /\ run[w].stage = "loop"
      /\ Cursor(w) # 0 /\ bound' \in [Workflows -> Grants]
  BY DEF Query, At, Shape
<1>2. /\ d # Size(w) /\ d < Size(w) /\ d \in 0..Size(w) /\ d \in Nat /\ d + 1 \in 1..Size(w)
      /\ Record(w) = s /\ s \in StepRecords /\ s.status # "succeeded" /\ Cursor(w) = d + 1
      /\ Kind(w, d + 1) = Plan[w][d + 1] /\ run[w] \in Runs /\ GrantOK(run[w].snapshot)
      /\ effects[w][d + 1] \in EffectRecords /\ d + 1 \in 0..Size(w)
      /\ steps[w] \in [1..Size(w) -> StepRecords]
  <2>1. /\ d # Size(w) /\ d < Size(w) /\ d \in Nat /\ Size(w) \in Nat /\ d + 1 \in 1..Size(w)
        /\ Record(w) = s /\ s \in StepRecords /\ s.status # "succeeded" /\ Cursor(w) = d + 1
    BY <1>1, AtWork
  <2>2. /\ run[w] \in Runs /\ GrantOK(run[w].snapshot)
        /\ effects[w] \in [1..Size(w) -> EffectRecords] /\ steps[w] \in [1..Size(w) -> StepRecords]
    BY AtWork
  <2> QED
    BY <2>1, <2>2 DEF Kind
<1>3. ~run[w].free
  BY <1>1 DEF OK, WorkflowOK, PaidFor
<1>4. ASSUME answer = "exists", SaveStep(w, Confirmed(s)), run' = run
      PROVE  Acts(w, d, d + 1)
  <2> DEFINE x == Confirmed(s)
  <2>1. effects[w][d + 1].times > 0
    <3>1. <<w, d + 1>> \in records \/ effects[w][d + 1].times > 0
      BY <1>2, <1>4 DEF QueryStepEffect, There
    <3> QED
      BY <1>2, <3>1 DEF OK, WorkflowOK, InOrder
  <2>2. x \in StepRecords /\ x.status = "succeeded" /\ x.attempts = s.attempts
        /\ x.identity = s.identity
    BY <1>2 DEF Confirmed, StepRecords, Statuses
  <2>3. Repeatable(Plan[w][d + 1]) => ~x.identity
    BY <1>2, <2>2 DEF OK, WorkflowOK, StartedOnce
  <2>7. Repeatable(Plan[w][d + 1]) => <<w, d + 1>> \notin orphans
    <3>1. SUFFICES ASSUME Repeatable(Plan[w][d + 1]) PROVE <<w, d + 1>> \notin orphans
      OBVIOUS
    <3>2. ~s.identity /\ ~Derivable(Plan[w][d + 1])
      BY <1>2, <2>2, <2>3, <3>1 DEF Derivable, Repeatable, RepeatableKinds
    <3>3. <<w, d + 1>> \in records
      BY <1>2, <1>4, <3>2 DEF QueryStepEffect
    <3> QED
      BY <1>2, <3>1, <3>3 DEF OK, WorkflowOK, StartedOnce
  <2> HIDE DEF x
  <2>4. WorkflowOK(w, d + 1, [steps[w] EXCEPT ![d + 1] = x], NoRun, effects[w], records, orphans, grants)
    BY <1>2, <2>1, <2>2, <2>3, <2>7, StepDone DEF OK
  <2>5. WorkflowOK(w, d + 1, [steps[w] EXCEPT ![d + 1] = x], run[w], effects[w], records, orphans, grants)
    BY <1>1, <1>2, <1>3, <2>4, RunAtRest
  <2>6. run' = [run EXCEPT ![w] = run[w]]
    BY <1>4 DEF Shape
  <2> QED
    BY <1>1, <1>2, <1>4, <2>1, <2>5, <2>6, StepMoves DEF x
<1>5. ASSUME AfterQuery(w, answer), SaveStep(w, IF wasRunning THEN Started(s) ELSE s),
             run' = [run EXCEPT ![w].stage = "authorize",
                                ![w].free = wasRunning /\ GrantUseRecognized(w)]
      PROVE  Acts(w, d, d)
  <2> DEFINE x == IF wasRunning THEN Started(s) ELSE s
             f == wasRunning /\ GrantUseRecognized(w)
             r == [run[w] EXCEPT !.stage = "authorize", !.free = f]
             t == [steps[w] EXCEPT ![d + 1] = x]
  <2>1. ~Repeatable(Plan[w][d + 1])
    <3>1. answer = "absent"
      BY <1>5 DEF AfterQuery
    <3>2. Refutable(Plan[w][d + 1])
      BY <1>2, <3>1 DEF QueryStepEffect
    <3> QED
      BY <3>2 DEF Refutable, Repeatable, RepeatableKinds
  <2>2. /\ x \in StepRecords /\ x.status # "succeeded" /\ x.attempts >= s.attempts
        /\ x.status = "running" => x.attempts >= 1
        /\ x.attempts \in Nat /\ s.attempts \in Nat
    <3>1. CASE wasRunning
      BY <1>2, <3>1, StartedFacts DEF StepRecords
    <3>2. CASE ~wasRunning
      BY <1>2, <3>2 DEF StepRecords
    <3> QED
      BY <3>1, <3>2
  <2>3. f \in BOOLEAN
    BY DEF GrantUseRecognized
  <2>4. f => Paid(w, d + 1, s.attempts, grants)
    BY <1>2, RecognizedIsPaid
  <2>5. run' = [run EXCEPT ![w] = r]
    BY <1>5
  <2>6. /\ r \in Runs /\ r.stage = "authorize" /\ r.snapshot = run[w].snapshot /\ r.free = f
    BY <1>2, <2>3 DEF Runs, Stages
  <2>7. t[d + 1] = x
    BY <1>2
  <2> HIDE DEF r, f, x
  <2>8. WorkflowOK(w, d, t, NoRun, effects[w], records, orphans, grants)
    BY <1>2, <2>1, <2>2, RecordSaved DEF OK
  <2>9. f => Paid(w, d + 1, x.attempts, grants)
    BY <2>2, <2>4, StillPaid
  <2> HIDE DEF t
  <2>10. RunFits(w, d, t, r, effects[w], records, orphans, grants)
    BY <1>2, <2>1, <2>6, <2>7, <2>9 DEF RunFits, Working
  <2>11. WorkflowOK(w, d, t, r, effects[w], records, orphans, grants)
    BY <2>8, <2>10, RunFitting
  <2> QED
    BY <1>1, <1>2, <1>5, <2>5, <2>11, StepMoves DEF t, x
<1>6. ASSUME Finish(w), UNCHANGED steps
      PROVE  Acts(w, d, d)
  BY <1>1, <1>6, RestActs
<1> QED
  BY <1>2, <1>4, <1>5, <1>6 DEF Query

-----------------------------------------------------------------------------
(* Where a run stands, and what the other steps do to it *)

LEMMA RunStands ==
  ASSUME NEW w \in Workflows, NEW d, OK(w, d), run[w].stage \notin {"idle", "loop"}
  PROVE  /\ d # Size(w) /\ d < Size(w) /\ d \in 0..Size(w) /\ d \in Nat /\ d + 1 \in 1..Size(w)
         /\ Record(w) = steps[w][d + 1] /\ steps[w][d + 1] \in StepRecords
         /\ Record(w).status # "succeeded" /\ Cursor(w) = d + 1
         /\ Kind(w, Cursor(w)) = Plan[w][d + 1] /\ effects[w][d + 1] \in EffectRecords
         /\ run[w] \in Runs /\ GrantOK(run[w].snapshot)
         /\ RunFits(w, d, steps[w], run[w], effects[w], records, orphans, grants)
<1>1. /\ d # Size(w) /\ d < Size(w) /\ d \in Nat /\ Size(w) \in Nat /\ d + 1 \in 1..Size(w)
      /\ Record(w) = steps[w][d + 1] /\ steps[w][d + 1] \in StepRecords
      /\ Record(w).status # "succeeded" /\ Cursor(w) = d + 1
      /\ Kind(w, Cursor(w)) = Plan[w][d + 1]
  BY AtWork
<1>2. /\ run[w] \in Runs /\ GrantOK(run[w].snapshot) /\ effects[w] \in [1..Size(w) -> EffectRecords]
  BY AtWork
<1>3. RunFits(w, d, steps[w], run[w], effects[w], records, orphans, grants)
  BY <1>1, <1>2 DEF OK, WorkflowOK, PaidFor, StartedOnce, RunFits
<1> QED
  BY <1>1, <1>2, <1>3

\* Of the durable state only the records and the orphans of w change
OthersKept(w) ==
  \A v \in Workflows \ {w} : \A i : /\ <<v, i>> \in records' <=> <<v, i>> \in records
                                    /\ <<v, i>> \in orphans' <=> <<v, i>> \in orphans

LEMMA WorldMoves ==
  ASSUME Shape, NEW w \in Workflows, NEW d, NEW r, run' = [run EXCEPT ![w] = r],
         UNCHANGED <<steps, bound, effects, grants>>, OthersKept(w),
         WorkflowOK(w, d, steps[w], r, effects[w], records', orphans', grants)
  PROVE  Acts(w, d, d)
<1>1. Shape'
  BY DEF Shape, WorkflowOK, Typed
<1>2. run'[w] = r /\ \A v \in Workflows \ {w} : run'[v] = run[v]
  BY DEF Shape
<1> QED
  BY <1>1, <1>2 DEF Acts, Moves, OthersKept

LEMMA FitActs ==
  ASSUME Shape, NEW w \in Workflows, NEW d, OK(w, d), NEW r, run' = [run EXCEPT ![w] = r],
         UNCHANGED <<steps, bound, effects, records, orphans, grants>>,
         RunFits(w, d, steps[w], r, effects[w], records, orphans, grants)
  PROVE  Acts(w, d, d)
<1>1. WorkflowOK(w, d, steps[w], r, effects[w], records, orphans, grants)
  BY RunFitting DEF OK
<1>2. bound' \in [Workflows -> Grants]
  BY DEF Shape
<1> QED
  BY <1>1, <1>2, RunMoves

\* The step at work is recorded as succeeded once its effect is there
LEMMA RecordAdded ==
  ASSUME NEW w \in Workflows, NEW d \in Nat, NEW s, NEW r, NEW l, NEW R, NEW O, NEW G,
         WorkflowOK(w, d, s, r, l, R, O, G), l[d + 1].times > 0, r.stage = "result"
  PROVE  WorkflowOK(w, d, s, r, l, R \cup {<<w, d + 1>>}, O, G)
<1> DEFINE Q == R \cup {<<w, d + 1>>}
<1>1. \A i : <<w, i>> \in Q <=> <<w, i>> \in R \/ i = d + 1
  OBVIOUS
<1> HIDE DEF Q
<1>2. InOrder(w, d, s, l, Q, O)
  BY <1>1 DEF WorkflowOK, InOrder
<1>3. Working(w, d, s, r, l, Q)
  BY DEF WorkflowOK, Working
<1>4. StartedOnce(w, d, s, r, l, Q, O)
  BY <1>1 DEF WorkflowOK, StartedOnce
<1> QED
  BY <1>2, <1>3, <1>4 DEF WorkflowOK, Q

\* The process of the step at work is gone, its command is not
LEMMA OrphanAdded ==
  ASSUME NEW w \in Workflows, NEW d \in Nat, NEW s, NEW r, NEW l, NEW R, NEW O, NEW G,
         WorkflowOK(w, d, s, r, l, R, O, G), Paid(w, d + 1, s[d + 1].attempts, G),
         Repeatable(Plan[w][d + 1]) =>
           /\ s[d + 1].status = "running" /\ Clear(l[d + 1])
           /\ <<w, d + 1>> \notin R /\ r.stage \in {"idle", "loop"}
  PROVE  WorkflowOK(w, d, s, r, l, R, O \cup {<<w, d + 1>>}, G)
<1> DEFINE Q == O \cup {<<w, d + 1>>}
<1>1. \A i : <<w, i>> \in Q <=> <<w, i>> \in O \/ i = d + 1
  OBVIOUS
<1> HIDE DEF Q
<1>2. InOrder(w, d, s, l, R, Q)
  <2>1. ~(d + 1 > d + 1)
    OBVIOUS
  <2> QED
    BY <1>1, <2>1 DEF WorkflowOK, InOrder
<1>3. StartedOnce(w, d, s, r, l, R, Q)
  BY <1>1 DEF WorkflowOK, StartedOnce
<1>4. PaidFor(w, d, s, r, l, Q, G)
  BY <1>1 DEF WorkflowOK, PaidFor
<1> QED
  BY <1>2, <1>3, <1>4 DEF WorkflowOK, Q

LEMMA OrphanGone ==
  ASSUME NEW w \in Workflows, NEW d, NEW s, NEW r, NEW l, NEW R, NEW O, NEW Q, NEW G,
         WorkflowOK(w, d, s, r, l, R, O, G), Q \subseteq O
  PROVE  WorkflowOK(w, d, s, r, l, R, Q, G)
<1>1. InOrder(w, d, s, l, R, Q)
  BY DEF WorkflowOK, InOrder
<1>2. StartedOnce(w, d, s, r, l, R, Q)
  BY DEF WorkflowOK, StartedOnce
<1>3. PaidFor(w, d, s, r, l, Q, G)
  BY DEF WorkflowOK, PaidFor
<1> QED
  BY <1>1, <1>2, <1>3 DEF WorkflowOK

LEMMA EffectFacts ==
  ASSUME NEW x \in EffectRecords
  PROVE  /\ Done(x) \in EffectRecords /\ Done(x).times > 0
         /\ Disowned(x) \in EffectRecords /\ Disowned(x).times = x.times /\ Clear(Disowned(x))
         /\ x.times \in Nat /\ (x.times = 0 <=> ~(x.times > 0))
BY DEF EffectRecords, Done, Disowned, Clear

\* The effect of the step at work comes about
LEMMA EffectAdded ==
  ASSUME NEW w \in Workflows, NEW d \in Nat, d < Size(w),
         NEW s, NEW r, NEW l, NEW R, NEW O, NEW G,
         WorkflowOK(w, d, s, r, l, R, O, G), Paid(w, d + 1, s[d + 1].attempts, G),
         NEW y \in EffectRecords, y.times > 0,
         Repeatable(Plan[w][d + 1]) =>
           /\ s[d + 1].status = "running" /\ <<w, d + 1>> \notin O
           /\ r.stage \in {"idle", "loop"}
  PROVE  WorkflowOK(w, d, s, r, [l EXCEPT ![d + 1] = y], R, O, G)
<1> DEFINE m == [l EXCEPT ![d + 1] = y]
<1>1. Size(w) \in Nat /\ d + 1 \in 1..Size(w) /\ ~(d + 1 > d + 1)
  BY PlanFacts
<1>2. /\ l \in [1..Size(w) -> EffectRecords] /\ m \in [1..Size(w) -> EffectRecords]
      /\ m[d + 1].times > 0 /\ \A i \in 1..Size(w) : i # d + 1 => m[i] = l[i]
  BY <1>1 DEF WorkflowOK, Typed
<1> HIDE DEF m
<1>3. Typed(w, s, r, m)
  BY <1>2 DEF WorkflowOK, Typed
<1>4. InOrder(w, d, s, m, R, O)
  BY <1>1, <1>2 DEF WorkflowOK, InOrder
<1>5. Working(w, d, s, r, m, R)
  BY <1>2 DEF WorkflowOK, Working
<1>6. StartedOnce(w, d, s, r, m, R, O)
  BY <1>1, <1>2 DEF WorkflowOK, StartedOnce
<1>7. PaidFor(w, d, s, r, m, O, G)
  BY <1>1, <1>2 DEF WorkflowOK, PaidFor
<1> QED
  BY <1>3, <1>4, <1>5, <1>6, <1>7 DEF WorkflowOK, m

\* A failure is reported of a step that had its effect
LEMMA EffectDisowned ==
  ASSUME NEW w \in Workflows, NEW d \in Nat, d < Size(w),
         NEW s, NEW r, NEW l, NEW R, NEW O, NEW G,
         WorkflowOK(w, d, s, r, l, R, O, G),
         NEW y \in EffectRecords, y.times = l[d + 1].times, Clear(y), y.times > 0
  PROVE  WorkflowOK(w, d, s, r, [l EXCEPT ![d + 1] = y], R, O, G)
<1> DEFINE m == [l EXCEPT ![d + 1] = y]
<1>1. Size(w) \in Nat /\ d + 1 \in 1..Size(w) /\ ~(d + 1 > d + 1)
  BY PlanFacts
<1>2. /\ l \in [1..Size(w) -> EffectRecords] /\ m \in [1..Size(w) -> EffectRecords]
      /\ m[d + 1] = y /\ \A i \in 1..Size(w) : i # d + 1 => m[i] = l[i]
  BY <1>1 DEF WorkflowOK, Typed
<1> HIDE DEF m
<1>3. /\ \A i \in 1..Size(w) : m[i].times = l[i].times
      /\ \A i \in 1..Size(w) : Clear(l[i]) => Clear(m[i])
  BY <1>2
<1>4. Typed(w, s, r, m)
  BY <1>2 DEF WorkflowOK, Typed
<1>5. InOrder(w, d, s, m, R, O)
  BY <1>3 DEF WorkflowOK, InOrder
<1>6. Working(w, d, s, r, m, R)
  BY <1>1, <1>2 DEF WorkflowOK, Working
<1>7. StartedOnce(w, d, s, r, m, R, O)
  BY <1>3 DEF WorkflowOK, StartedOnce
<1>8. PaidFor(w, d, s, r, m, O, G)
  BY <1>3 DEF WorkflowOK, PaidFor
<1> QED
  BY <1>4, <1>5, <1>6, <1>7, <1>8 DEF WorkflowOK, m

\* More reservations take nothing away
LEMMA GrantsGrow ==
  ASSUME NEW w \in Workflows, NEW d, NEW s, NEW r, NEW l, NEW R, NEW O, NEW G, NEW H,
         WorkflowOK(w, d, s, r, l, R, O, G),
         \A g \in Grants : G[g].reservations \subseteq H[g].reservations
  PROVE  WorkflowOK(w, d, s, r, l, R, O, H)
<1>1. \A i, n : Paid(w, i, n, G) => Paid(w, i, n, H)
  BY DEF Paid
<1>2. PaidFor(w, d, s, r, l, O, H)
  BY <1>1 DEF WorkflowOK, PaidFor
<1> QED
  BY <1>2 DEF WorkflowOK

-----------------------------------------------------------------------------
(* The actions of a run, up to the command *)

LEMMA BeginsOrEnds ==
  ASSUME Shape, NEW w \in Workflows, NEW d, OK(w, d),
         Begin(w) \/ Succeed(w) \/ QueryFails(w) \/ UseRefused(w)
           \/ (\E g \in Grants : Rebind(w, g))
  PROVE  Acts(w, d, d)
<1>1. bound' \in [Workflows -> Grants]
  BY DEF Shape, Begin, Succeed, QueryFails, UseRefused, Rebind, durable
<1>2. UNCHANGED <<steps, effects, records, orphans, grants>>
  BY DEF Begin, Succeed, QueryFails, UseRefused, Rebind, durable
<1>3. Finish(w) \/ (At(w, "idle") /\ Go(w, "loop"))
  BY DEF Begin, Succeed, QueryFails, UseRefused, Rebind
<1> QED
  BY <1>1, <1>2, <1>3, RestActs

LEMMA FailedIsResult ==
  /\ Failed \in Results /\ Failed.status = "failed" /\ ~Failed.identity
  /\ Succeeded \in Results /\ Succeeded.status = "succeeded" /\ ~Succeeded.identity
BY DEF Failed, Succeeded, Results, Statuses

\* The step at work is settled as not done, and the run ends
LEMMA GivesUp ==
  ASSUME Shape, NEW w \in Workflows, NEW d, OK(w, d), run[w].stage \notin {"idle", "loop"},
         NEW x \in StepRecords, x.status # "succeeded", x.status # "running",
         x.attempts >= steps[w][d + 1].attempts,
         Repeatable(Plan[w][d + 1]) =>
           /\ ~x.identity
           /\ x.status \in {"pending", "failed"} => Clear(effects[w][d + 1]),
         SaveStep(w, x), Finish(w), UNCHANGED <<bound, grants, records, effects, orphans>>
  PROVE  Acts(w, d, d)
<1>1. d < Size(w) /\ d \in 0..Size(w)
      /\ RunFits(w, d, steps[w], run[w], effects[w], records, orphans, grants)
  BY RunStands
<1>2. Repeatable(Plan[w][d + 1]) => <<w, d + 1>> \notin orphans
  BY <1>1 DEF RunFits
<1>3. WorkflowOK(w, d, [steps[w] EXCEPT ![d + 1] = x], NoRun, effects[w], records, orphans, grants)
  BY <1>1, <1>2, RecordSaved DEF OK
<1>4. run' = [run EXCEPT ![w] = NoRun]
  BY DEF Finish
<1> QED
  BY <1>1, <1>3, <1>4, StepMoves

LEMMA DenyActs ==
  ASSUME Shape, NEW w \in Workflows, NEW d, OK(w, d), Deny(w)
  PROVE  Acts(w, d, d)
<1>1. /\ UNCHANGED <<bound, grants, records, effects, orphans>> /\ Finish(w)
      /\ run[w].stage = "authorize" /\ bound' \in [Workflows -> Grants]
  BY DEF Deny, At, Shape
<1>2. CASE UNCHANGED steps
  BY <1>1, <1>2, RestActs
<1>3. CASE steps' # steps
  <2> DEFINE s == steps[w][d + 1]
             x == Settled(Started(s), Failed)
  <2>1. /\ s \in StepRecords /\ Record(w) = s
        /\ RunFits(w, d, steps[w], run[w], effects[w], records, orphans, grants)
    BY <1>1, RunStands
  <2>2. SaveStep(w, x)
    BY <1>3, <2>1 DEF Deny
  <2>3. /\ x \in StepRecords /\ x.status = "failed" /\ x.attempts >= s.attempts /\ ~x.identity
    BY <2>1, StartedFacts, SettledFacts, FailedIsResult
  <2>4. Repeatable(Plan[w][d + 1]) => Clear(effects[w][d + 1])
    BY <1>1, <2>1 DEF RunFits
  <2> HIDE DEF x
  <2> QED
    BY <1>1, <2>1, <2>2, <2>3, <2>4, GivesUp
<1> QED
  BY <1>2, <1>3

LEMMA ExhaustedActs ==
  ASSUME Shape, NEW w \in Workflows, NEW d, OK(w, d), Exhausted(w)
  PROVE  Acts(w, d, d)
<1> DEFINE s == steps[w][d + 1]
           x == Settled(s, Failed)
<1>1. /\ UNCHANGED <<bound, grants, records, effects, orphans>> /\ Finish(w)
      /\ run[w].stage = "reserve"
  BY DEF Exhausted, At
<1>2. /\ s \in StepRecords /\ Record(w) = s /\ d + 1 \in 1..Size(w)
      /\ RunFits(w, d, steps[w], run[w], effects[w], records, orphans, grants)
  BY <1>1, RunStands
<1>3. SaveStep(w, x)
  BY <1>2 DEF Exhausted
<1>4. /\ x \in StepRecords /\ x.status = "failed" /\ x.attempts >= s.attempts
      /\ x.identity = s.identity
  <2>1. /\ x \in StepRecords /\ x.status = "failed" /\ x.attempts = s.attempts
        /\ x.identity = (s.identity \/ Failed.identity) /\ s.attempts \in Nat
        /\ s.identity \in BOOLEAN
    BY <1>2, SettledFacts, FailedIsResult DEF StepRecords
  <2> QED
    BY <2>1, FailedIsResult
<1>5. Repeatable(Plan[w][d + 1]) => ~s.identity
  BY <1>2 DEF OK, WorkflowOK, StartedOnce
<1>6. Repeatable(Plan[w][d + 1]) => Clear(effects[w][d + 1])
  BY <1>1, <1>2 DEF RunFits
<1> HIDE DEF x
<1> QED
  BY <1>1, <1>2, <1>3, <1>4, <1>5, <1>6, GivesUp

LEMMA AuthorizeActs ==
  ASSUME Shape, NEW w \in Workflows, NEW d, OK(w, d), Authorize(w)
  PROVE  Acts(w, d, d)
<1> DEFINE s == steps[w][d + 1]
           x == IF s.status = "running" THEN s ELSE Started(s)
           t == [steps[w] EXCEPT ![d + 1] = x]
           r == IF run[w].free THEN [run[w] EXCEPT !.stage = "submit", !.free = FALSE]
                ELSE [run[w] EXCEPT !.stage = "reserve", !.snapshot = grants[bound[w]]]
<1>1. UNCHANGED <<bound, grants, records, effects, orphans>> /\ run[w].stage = "authorize"
  BY DEF Authorize, At
<1>2. /\ s \in StepRecords /\ Record(w) = s /\ d + 1 \in 1..Size(w) /\ s.status # "succeeded"
      /\ d < Size(w) /\ d \in 0..Size(w) /\ d \in Nat /\ Cursor(w) = d + 1
      /\ run[w] \in Runs /\ GrantOK(run[w].snapshot)
      /\ RunFits(w, d, steps[w], run[w], effects[w], records, orphans, grants)
  BY <1>1, RunStands
<1>3. SaveStep(w, x)
  <2>1. CASE s.status = "running"
    <3>1. steps' = steps
      BY <1>2, <2>1 DEF Authorize
    <3>2. steps[w] = [steps[w] EXCEPT ![d + 1] = s]
      BY <1>2 DEF OK, WorkflowOK, Typed
    <3>3. steps = [steps EXCEPT ![w] = steps[w]]
      BY DEF Shape
    <3> QED
      BY <1>2, <2>1, <3>1, <3>2, <3>3 DEF SaveStep
  <2>2. CASE s.status # "running"
    BY <1>2, <2>2 DEF Authorize
  <2> QED
    BY <2>1, <2>2
<1>4. /\ x \in StepRecords /\ x.status = "running" /\ x.attempts >= s.attempts
      /\ x.attempts >= 1 /\ x.attempts \in Nat /\ s.attempts \in Nat
  <2>1. CASE s.status = "running"
    <3>1. s.attempts >= 1
      BY <1>2, <2>1 DEF OK, WorkflowOK, PaidFor
    <3> QED
      BY <1>2, <2>1, <3>1 DEF StepRecords
  <2>2. CASE s.status # "running"
    BY <1>2, <2>2, StartedFacts DEF StepRecords
  <2> QED
    BY <2>1, <2>2
<1>5. Repeatable(Plan[w][d + 1]) =>
        ~x.identity /\ <<w, d + 1>> \notin orphans /\ Clear(effects[w][d + 1])
  <2>1. Repeatable(Plan[w][d + 1]) => <<w, d + 1>> \notin orphans /\ Clear(effects[w][d + 1])
    BY <1>1, <1>2 DEF RunFits
  <2>2. Repeatable(Plan[w][d + 1]) => ~s.identity
    BY <1>2 DEF OK, WorkflowOK, StartedOnce
  <2> QED
    BY <1>2, <2>1, <2>2, StartedFacts
<1>6. run' = [run EXCEPT ![w] = r]
  BY DEF Authorize
<1>7. /\ r \in Runs /\ GrantOK(r.snapshot) /\ ~r.free /\ r.stage \in {"reserve", "submit"}
      /\ r.stage = "submit" => run[w].free
  BY <1>2 DEF Runs, Stages, Shape
<1>8. t[d + 1] = x
  BY <1>2 DEF OK, WorkflowOK, Typed
<1> HIDE DEF r, x
<1>9. WorkflowOK(w, d, t, NoRun, effects[w], records, orphans, grants)
  BY <1>2, <1>4, <1>5, RecordSaved DEF OK
<1>10. r.stage = "submit" => Paid(w, d + 1, x.attempts, grants)
  <2>1. run[w].free => Paid(w, d + 1, s.attempts, grants)
    BY <1>2 DEF RunFits
  <2> QED
    BY <1>4, <1>7, <2>1, StillPaid
<1> HIDE DEF t
<1>11. RunFits(w, d, t, r, effects[w], records, orphans, grants)
  BY <1>2, <1>4, <1>5, <1>7, <1>8, <1>10 DEF RunFits, Working
<1>12. WorkflowOK(w, d, t, r, effects[w], records, orphans, grants)
  BY <1>9, <1>11, RunFitting
<1> QED
  BY <1>1, <1>2, <1>3, <1>6, <1>12, StepMoves DEF t

\* The use is charged: the candidate is a grant in order
LEMMA CandidateOK ==
  ASSUME NEW x \in GrantRecords, GrantOK(x), x.used < MaxUses, NEW key \in Reservations
  PROVE  /\ RecordGrantUse(x, key) \in GrantRecords /\ GrantOK(RecordGrantUse(x, key))
         /\ key \in RecordGrantUse(x, key).reservations
<1> DEFINE y == RecordGrantUse(x, key)
<1>1. /\ y \in GrantRecords /\ y.used = x.used + 1 /\ y.reservations = x.reservations \cup {key}
      /\ x.used \in Nat
  <2> DEFINE K == x.reservations \cup {key}
  <2>1. K \in SUBSET Reservations /\ x.used \in Nat /\ x.revoked \in BOOLEAN
    BY DEF GrantRecords
  <2>2. y = [used |-> x.used + 1, reservations |-> K, revoked |-> x.revoked]
    <3>1. x = [used |-> x.used, reservations |-> x.reservations, revoked |-> x.revoked]
      BY DEF GrantRecords
    <3>2. y = [x EXCEPT !.used = x.used + 1, !.reservations = K]
      BY DEF RecordGrantUse
    <3> HIDE DEF K, y
    <3> QED
      BY <3>1, <3>2
  <2>3. x.used + 1 \in Nat
    BY <2>1
  <2> HIDE DEF K, y
  <2>4. y \in GrantRecords /\ y.used = x.used + 1 /\ y.reservations = K
    BY <2>1, <2>2, <2>3 DEF GrantRecords
  <2> QED
    BY <2>1, <2>4 DEF K
<1> HIDE DEF y
<1>2. /\ IsFiniteSet(x.reservations) /\ Cardinality(x.reservations) <= x.used
      /\ Cardinality(x.reservations) \in Nat
  BY FS_CardinalityType DEF GrantOK
<1>3. /\ IsFiniteSet(y.reservations)
      /\ \/ Cardinality(y.reservations) = Cardinality(x.reservations)
         \/ Cardinality(y.reservations) = Cardinality(x.reservations) + 1
  <2>1. /\ IsFiniteSet(x.reservations \cup {key})
        /\ Cardinality(x.reservations \cup {key}) =
             IF key \in x.reservations THEN Cardinality(x.reservations)
             ELSE Cardinality(x.reservations) + 1
    BY <1>2, FS_AddElement
  <2> QED
    BY <1>1, <2>1
<1>4. MaxUses \in Nat
  BY ReleaseAssumption DEF ReleaseAssumption
<1>5. GrantOK(y)
  BY <1>1, <1>2, <1>3, <1>4 DEF GrantOK
<1> QED
  BY <1>1, <1>5 DEF y

LEMMA ReserveActs ==
  ASSUME Shape, NEW w \in Workflows, NEW d, OK(w, d), Reserve(w)
  PROVE  Acts(w, d, d)
<1> DEFINE s == steps[w][d + 1]
           b == bound[w]
           key == <<w, d + 1, s.attempts>>
           y == RecordGrantUse(run[w].snapshot, key)
           r == [NoRun EXCEPT !.stage = "submit"]
<1>1. /\ UNCHANGED <<steps, bound, records, effects, orphans>> /\ run[w].stage = "reserve"
      /\ run[w].snapshot.used < MaxUses /\ run' = [run EXCEPT ![w] = r]
  BY DEF Reserve, At, Charging
<1>2. /\ s \in StepRecords /\ Record(w) = s /\ d + 1 \in 1..Size(w) /\ d < Size(w) /\ d \in Nat
      /\ Cursor(w) = d + 1 /\ run[w] \in Runs /\ GrantOK(run[w].snapshot)
      /\ RunFits(w, d, steps[w], run[w], effects[w], records, orphans, grants)
  BY <1>1, RunStands
<1>3. s.attempts \in 1..s.attempts /\ key \in Reservations /\ s.status = "running"
  <2>1. s.status = "running" /\ s.attempts \in Nat
    BY <1>1, <1>2 DEF RunFits, Working, StepRecords
  <2>2. s.attempts >= 1
    BY <1>2, <2>1 DEF OK, WorkflowOK, PaidFor
  <2> QED
    BY <1>2, <2>1, <2>2 DEF Reservations
<1>4. /\ Candidate(w) = y /\ grants' = [grants EXCEPT ![b] = y] /\ b \in Grants
      /\ grants[b].reservations \subseteq y.reservations
  BY <1>2 DEF Reserve, Candidate, AttemptKey, Shape, MaySaveUse, IsValidCapabilityGrantTransition
<1>5. y \in GrantRecords /\ GrantOK(y) /\ key \in y.reservations
  BY <1>1, <1>2, <1>3, CandidateOK DEF Runs
<1> HIDE DEF y
<1>6. /\ grants' \in [Grants -> GrantRecords] /\ \A g \in Grants : GrantOK(grants'[g])
      /\ grants'[b] = y
      /\ \A g \in Grants : grants[g].reservations \subseteq grants'[g].reservations
  BY <1>4, <1>5 DEF Shape
<1>7. Paid(w, d + 1, s.attempts, grants')
  BY <1>3, <1>4, <1>5, <1>6 DEF Paid
<1>8. r \in Runs /\ r.stage = "submit" /\ r.snapshot = NoGrant /\ ~r.free
  BY NoRunFacts DEF NoRun, Runs, Stages
<1> HIDE DEF r
<1>9. WorkflowOK(w, d, steps[w], run[w], effects[w], records, orphans, grants')
  BY <1>6, GrantsGrow DEF OK
<1>10. RunFits(w, d, steps[w], r, effects[w], records, orphans, grants')
  BY <1>1, <1>2, <1>3, <1>7, <1>8, NoRunFacts DEF RunFits, Working
<1>11. WorkflowOK(w, d, steps[w], r, effects[w], records, orphans, grants')
  BY <1>9, <1>10, RunFitting
<1>12. run'[w] = r /\ (\A v \in Workflows \ {w} : run'[v] = run[v])
       /\ run' \in [Workflows -> Runs]
  BY <1>1, <1>8 DEF Shape
<1>13. Shape'
  BY <1>1, <1>6, <1>12 DEF Shape
<1> QED
  BY <1>1, <1>6, <1>11, <1>12, <1>13 DEF Acts, Moves

LEMMA RetryUseActs ==
  ASSUME Shape, NEW w \in Workflows, NEW d, OK(w, d), RetryUse(w)
  PROVE  Acts(w, d, d)
<1>1. PICK late \in BOOLEAN :
        run' = [run EXCEPT ![w].snapshot = grants[bound[w]], ![w].late = run[w].late \/ late]
  BY DEF RetryUse
<1> DEFINE b == run[w].late \/ late
           r == [run[w] EXCEPT !.snapshot = grants[bound[w]], !.late = b]
<1>2. /\ UNCHANGED <<steps, bound, grants, records, effects, orphans>>
      /\ run[w].stage = "reserve" /\ run' = [run EXCEPT ![w] = r]
  BY <1>1 DEF RetryUse, Charging, At, durable
<1>3. run[w] \in Runs /\ RunFits(w, d, steps[w], run[w], effects[w], records, orphans, grants)
  BY <1>2, RunStands
<1>4. grants[bound[w]] \in GrantRecords /\ GrantOK(grants[bound[w]])
  BY DEF Shape
<1>5. b \in BOOLEAN
  BY <1>3 DEF Runs
<1> HIDE DEF b
<1>6. /\ r \in Runs /\ r.stage = "reserve" /\ r.snapshot = grants[bound[w]]
      /\ r.free = run[w].free
  BY <1>2, <1>3, <1>4, <1>5 DEF Runs
<1> HIDE DEF r
<1>7. RunFits(w, d, steps[w], r, effects[w], records, orphans, grants)
  BY <1>2, <1>3, <1>4, <1>6 DEF RunFits, Working
<1> QED
  BY <1>2, <1>7, FitActs

-----------------------------------------------------------------------------
(* The command and its outcome *)

\* What may be reported of the step at work
MayReport(w, d, res) ==
  /\ res \in Results /\ res.status \in {"succeeded", "failed", "unknown"}
  /\ res.status = "succeeded" => effects[w][d + 1].times > 0
  /\ Repeatable(Plan[w][d + 1]) => ~res.identity

LEMMA ResultOK ==
  ASSUME Shape, NEW w \in Workflows, NEW d, OK(w, d),
         run[w].stage \in {"submit", "command", "landed"}, NEW res, MayReport(w, d, res),
         Result(w, res)
  PROVE  \E r : /\ run' = [run EXCEPT ![w] = r] /\ r.stage = "result"
                /\ WorkflowOK(w, d, steps[w], r, effects[w], records, orphans, grants)
<1> DEFINE r == [run[w] EXCEPT !.stage = "result", !.result = res]
<1>1. run' = [run EXCEPT ![w] = r]
  BY DEF Result
<1>2. /\ run[w] \in Runs /\ GrantOK(run[w].snapshot) /\ d < Size(w)
      /\ RunFits(w, d, steps[w], run[w], effects[w], records, orphans, grants)
  BY RunStands
<1>3. ~run[w].free
  BY <1>2 DEF RunFits
<1>4. /\ r \in Runs /\ r.stage = "result" /\ r.result = res /\ ~r.free
      /\ r.snapshot = run[w].snapshot
  BY <1>2, <1>3 DEF Runs, Stages, MayReport
<1> HIDE DEF r
<1>5. RunFits(w, d, steps[w], r, effects[w], records, orphans, grants)
  BY <1>2, <1>4 DEF RunFits, Working, MayReport
<1>6. WorkflowOK(w, d, steps[w], r, effects[w], records, orphans, grants)
  BY <1>5, RunFitting DEF OK
<1> QED
  BY <1>1, <1>4, <1>6

LEMMA ResultActs ==
  ASSUME Shape, NEW w \in Workflows, NEW d, OK(w, d),
         run[w].stage \in {"submit", "command", "landed"}, NEW res, MayReport(w, d, res),
         Result(w, res), UNCHANGED <<steps, bound, effects, records, orphans, grants>>
  PROVE  Acts(w, d, d)
<1>1. PICK r : /\ run' = [run EXCEPT ![w] = r]
               /\ WorkflowOK(w, d, steps[w], r, effects[w], records, orphans, grants)
  BY ResultOK
<1>2. bound' \in [Workflows -> Grants]
  BY DEF Shape
<1> QED
  BY <1>1, <1>2, RunMoves

\* The effect of the step at work, once its command was started
LEMMA WhileCommanding ==
  ASSUME NEW w \in Workflows, NEW d, OK(w, d), run[w].stage \in {"submit", "command", "landed"}
  PROVE  /\ Repeatable(Plan[w][d + 1]) => Irreversible(Plan[w][d + 1])
         /\ Repeatable(Plan[w][d + 1]) /\ run[w].stage # "landed" => Clear(effects[w][d + 1])
         /\ run[w].stage = "landed" => effects[w][d + 1].times > 0
         /\ run[w].stage = "command" => <<w, d + 1>> \notin records
         /\ Repeatable(Plan[w][d + 1]) => <<w, d + 1>> \notin orphans
         /\ Paid(w, d + 1, steps[w][d + 1].attempts, grants)
         /\ steps[w][d + 1].status = "running"
<1>1. RunFits(w, d, steps[w], run[w], effects[w], records, orphans, grants)
  BY RunStands
<1>2. Repeatable(Plan[w][d + 1]) => Irreversible(Plan[w][d + 1])
  BY DEF Repeatable, RepeatableKinds, Irreversible
<1> QED
  BY <1>1, <1>2 DEF RunFits, Working

LEMMA SubmitActs ==
  ASSUME Shape, NEW w \in Workflows, NEW d, OK(w, d), Submit(w)
  PROVE  Acts(w, d, d)
<1>1. /\ run[w].stage = "submit"
      /\ UNCHANGED <<steps, bound, effects, records, orphans, grants>>
  BY DEF Submit, At, durable
<1>2. /\ d + 1 \in 1..Size(w) /\ Cursor(w) = d + 1 /\ run[w] \in Runs
      /\ RunFits(w, d, steps[w], run[w], effects[w], records, orphans, grants)
  BY <1>1, RunStands
<1>3. CASE <<w, d + 1>> \in records
  <2>1. effects[w][d + 1].times > 0
    BY <1>2, <1>3 DEF OK, WorkflowOK, InOrder
  <2>2. MayReport(w, d, Succeeded)
    BY <2>1, FailedIsResult DEF MayReport
  <2>3. Result(w, Succeeded)
    BY <1>2, <1>3 DEF Submit
  <2> QED
    BY <1>1, <2>2, <2>3, ResultActs
<1>4. CASE <<w, d + 1>> \notin records
  <2> DEFINE r == [run[w] EXCEPT !.stage = "command"]
  <2>1. run' = [run EXCEPT ![w] = r]
    BY <1>2, <1>4 DEF Submit, Go
  <2>2. /\ r \in Runs /\ r.stage = "command" /\ r.snapshot = run[w].snapshot
        /\ r.free = run[w].free
    BY <1>2 DEF Runs, Stages
  <2> HIDE DEF r
  <2>3. RunFits(w, d, steps[w], r, effects[w], records, orphans, grants)
    BY <1>1, <1>2, <1>4, <2>2 DEF RunFits, Working
  <2> QED
    BY <1>1, <2>1, <2>3, FitActs
<1> QED
  BY <1>3, <1>4

\* The command, or what it needs, reports that it did not work
LEMMA CommandReports ==
  ASSUME Shape, NEW w \in Workflows, NEW d, OK(w, d),
         RecordUnreadable(w) \/ LandRefused(w) \/ ExecuteThrows(w) \/ RecordFails(w)
  PROVE  Acts(w, d, d)
<1>1. /\ run[w].stage \in {"submit", "command", "landed"}
      /\ UNCHANGED <<steps, bound, effects, records, orphans, grants>>
  BY DEF RecordUnreadable, LandRefused, ExecuteThrows, RecordFails, At, durable
<1>2. Kind(w, Cursor(w)) = Plan[w][d + 1]
  BY <1>1, RunStands
<1>3. CASE RecordUnreadable(w) \/ LandRefused(w)
  <2>1. Result(w, Failed)
    BY <1>3 DEF RecordUnreadable, LandRefused
  <2>2. MayReport(w, d, Failed)
    BY FailedIsResult DEF MayReport
  <2> QED
    BY <1>1, <2>1, <2>2, ResultActs
<1>4. CASE ExecuteThrows(w)
  <2> DEFINE res == CommandThrows(Plan[w][d + 1])
  <2>1. Result(w, res)
    BY <1>2, <1>4 DEF ExecuteThrows
  <2>2. /\ res \in Results /\ ~res.identity /\ res.status \in {"failed", "unknown"}
    BY DEF CommandThrows, Failed, Results, Statuses
  <2> HIDE DEF res
  <2>3. MayReport(w, d, res)
    BY <2>2 DEF MayReport
  <2> QED
    BY <1>1, <2>1, <2>3, ResultActs
<1>5. CASE RecordFails(w)
  <2> DEFINE b == Identifiable(Plan[w][d + 1])
             res == [status |-> "unknown", identity |-> b]
  <2>1. Result(w, res)
    BY <1>2, <1>5 DEF RecordFails
  <2>2. b \in BOOLEAN /\ (Repeatable(Plan[w][d + 1]) => ~b)
    BY DEF Identifiable, Repeatable, RepeatableKinds
  <2> HIDE DEF b
  <2>3. res \in Results /\ res.status = "unknown" /\ res.identity = b
    BY <2>2 DEF Results, Statuses
  <2> HIDE DEF res
  <2>4. MayReport(w, d, res)
    BY <2>2, <2>3 DEF MayReport
  <2> QED
    BY <1>1, <2>1, <2>4, ResultActs
<1> QED
  BY <1>3, <1>4, <1>5

\* No command that runs as often as it is started is doubtful
LEMMA DoubtsFacts ==
  ASSUME NEW k, NEW res \in Doubts(k)
  PROVE  res \in Results /\ res.status \in {"failed", "unknown"} /\ ~Repeatable(k)
<1>1. CASE k = "version-tag"
  <2>1. res = [status |-> "unknown", identity |-> TRUE]
    BY <1>1 DEF Doubts
  <2> QED
    BY <1>1, <2>1 DEF Results, Statuses, Repeatable, RepeatableKinds
<1>2. CASE k = "npm-publish"
  BY <1>2 DEF Doubts, Results, Statuses, Repeatable, RepeatableKinds
<1>3. CASE k = "cli-update"
  BY <1>3 DEF Doubts, Results, Statuses, Repeatable, RepeatableKinds
<1>4. CASE k \notin {"version-tag", "npm-publish", "cli-update"}
  BY <1>4 DEF Doubts
<1> QED
  BY <1>1, <1>2, <1>3, <1>4

\* A report that may leave an orphan behind
LEMMA ReportActs ==
  ASSUME Shape, NEW w \in Workflows, NEW d, OK(w, d),
         run[w].stage \in {"submit", "command", "landed"}, NEW res, MayReport(w, d, res),
         Result(w, res), UNCHANGED <<steps, bound, effects, records, grants>>,
         \/ orphans' = orphans
         \/ ~Repeatable(Plan[w][d + 1]) /\ orphans' = orphans \cup {<<w, Cursor(w)>>}
  PROVE  Acts(w, d, d)
<1>1. Cursor(w) = d + 1 /\ d \in Nat
  BY RunStands
<1>2. PICK r : /\ run' = [run EXCEPT ![w] = r]
               /\ WorkflowOK(w, d, steps[w], r, effects[w], records, orphans, grants)
  BY ResultOK
<1>3. Paid(w, d + 1, steps[w][d + 1].attempts, grants)
  BY WhileCommanding
<1>4. ~Repeatable(Plan[w][d + 1]) =>
        WorkflowOK(w, d, steps[w], r, effects[w], records, orphans \cup {<<w, d + 1>>}, grants)
  BY <1>1, <1>2, <1>3, OrphanAdded
<1>5. WorkflowOK(w, d, steps[w], r, effects[w], records', orphans', grants)
  BY <1>1, <1>2, <1>4
<1>6. OthersKept(w)
  BY <1>1 DEF OthersKept
<1> QED
  BY <1>2, <1>5, <1>6, WorldMoves

LEMMA CommandFailsActs ==
  ASSUME Shape, NEW w \in Workflows, NEW d, OK(w, d), CommandFails(w)
  PROVE  Acts(w, d, d)
<1>1. /\ run[w].stage \in {"submit", "command", "landed"} /\ Result(w, Failed)
      /\ UNCHANGED <<steps, bound, effects, records, grants>>
  BY DEF CommandFails, At, durable
<1>2. Kind(w, Cursor(w)) = Plan[w][d + 1]
  BY <1>1, RunStands
<1>3. Remote(Plan[w][d + 1]) => ~Repeatable(Plan[w][d + 1])
  BY DEF Remote, Repeatable, RepeatableKinds
<1>4. \/ orphans' = orphans
      \/ ~Repeatable(Plan[w][d + 1]) /\ orphans' = orphans \cup {<<w, Cursor(w)>>}
  BY <1>2, <1>3 DEF CommandFails
<1>5. MayReport(w, d, Failed)
  BY FailedIsResult DEF MayReport
<1> QED
  BY <1>1, <1>4, <1>5, ReportActs

LEMMA CommandDoubtfulActs ==
  ASSUME Shape, NEW w \in Workflows, NEW d, OK(w, d), CommandDoubtful(w)
  PROVE  Acts(w, d, d)
<1>1. /\ run[w].stage \in {"submit", "command", "landed"}
      /\ UNCHANGED <<steps, bound, effects, records, grants>>
  BY DEF CommandDoubtful, At, durable
<1>2. Kind(w, Cursor(w)) = Plan[w][d + 1]
  BY <1>1, RunStands
<1>3. PICK res \in Doubts(Plan[w][d + 1]) : Result(w, res)
  BY <1>2 DEF CommandDoubtful
<1>4. /\ res \in Results /\ res.status \in {"failed", "unknown"}
      /\ ~Repeatable(Plan[w][d + 1])
  BY <1>3, DoubtsFacts
<1>5. MayReport(w, d, res)
  BY <1>4 DEF MayReport
<1>6. orphans' = orphans \/ orphans' = orphans \cup {<<w, Cursor(w)>>}
  BY DEF CommandDoubtful
<1> QED
  BY <1>1, <1>3, <1>4, <1>5, <1>6, ReportActs

LEMMA RecordSuccessActs ==
  ASSUME Shape, NEW w \in Workflows, NEW d, OK(w, d), RecordSuccess(w)
  PROVE  Acts(w, d, d)
<1>1. /\ run[w].stage = "landed" /\ Result(w, Succeeded)
      /\ UNCHANGED <<steps, bound, effects, orphans, grants>>
  BY DEF RecordSuccess, At
<1>2. Cursor(w) = d + 1 /\ d \in Nat
  BY <1>1, RunStands
<1>3. effects[w][d + 1].times > 0
  BY <1>1, WhileCommanding
<1>4. MayReport(w, d, Succeeded)
  BY <1>3, FailedIsResult DEF MayReport
<1>5. PICK r : /\ run' = [run EXCEPT ![w] = r] /\ r.stage = "result"
               /\ WorkflowOK(w, d, steps[w], r, effects[w], records, orphans, grants)
  BY <1>1, <1>4, ResultOK
<1>6. WorkflowOK(w, d, steps[w], r, effects[w], records \cup {<<w, d + 1>>}, orphans, grants)
  BY <1>2, <1>3, <1>5, RecordAdded
<1>7. records' = records \cup {<<w, d + 1>>}
  BY <1>2 DEF RecordSuccess
<1>8. OthersKept(w)
  BY <1>1, <1>7 DEF OthersKept
<1>9. WorkflowOK(w, d, steps[w], r, effects[w], records', orphans', grants)
  BY <1>1, <1>6, <1>7
<1> QED
  BY <1>1, <1>5, <1>8, <1>9, WorldMoves

LEMMA CrashActs ==
  ASSUME Shape, NEW w \in Workflows, NEW d, OK(w, d), Crash(w)
  PROVE  Acts(w, d, d)
<1>1. /\ run[w].stage # "idle" /\ run' = [run EXCEPT ![w] = NoRun] /\ Finish(w)
      /\ UNCHANGED <<steps, bound, effects, records, grants>> /\ bound' \in [Workflows -> Grants]
  BY DEF Crash, At, durable, Finish, Shape
<1>2. CASE run[w].stage # "command"
  <2>1. UNCHANGED orphans
    BY <1>2 DEF Crash, At
  <2> QED
    BY <1>1, <2>1, RestActs
<1>3. CASE run[w].stage = "command"
  <2>1. Cursor(w) = d + 1 /\ d \in Nat
    BY <1>3, RunStands
  <2>2. WorkflowOK(w, d, steps[w], NoRun, effects[w], records, orphans, grants)
    BY NoRunFacts, RunAtRest DEF OK
  <2>3. /\ Paid(w, d + 1, steps[w][d + 1].attempts, grants) /\ <<w, d + 1>> \notin records
        /\ steps[w][d + 1].status = "running"
        /\ Repeatable(Plan[w][d + 1]) => Clear(effects[w][d + 1])
    BY <1>3, WhileCommanding
  <2>4. NoRun.stage \in {"idle", "loop"}
    BY NoRunFacts
  <2>5. WorkflowOK(w, d, steps[w], NoRun, effects[w], records, orphans \cup {<<w, d + 1>>}, grants)
    BY <2>1, <2>2, <2>3, <2>4, OrphanAdded
  <2>6. orphans' = orphans \cup {<<w, d + 1>>}
    BY <1>3, <2>1 DEF Crash, At
  <2>7. OthersKept(w)
    BY <1>1, <2>6 DEF OthersKept
  <2>8. WorkflowOK(w, d, steps[w], NoRun, effects[w], records', orphans', grants)
    BY <1>1, <2>5, <2>6
  <2> QED
    BY <1>1, <2>7, <2>8, WorldMoves
<1> QED
  BY <1>2, <1>3

\* An effect comes about now or was there before
Lands(w, d) ==
  \/ /\ effects[w][d + 1].times = 0 \/ (Repeatable(Plan[w][d + 1]) /\ Clear(effects[w][d + 1]))
     /\ effects' = [effects EXCEPT ![w][d + 1] = Done(effects[w][d + 1])]
  \/ effects[w][d + 1].times > 0 /\ effects' = effects

LEMMA ProducedLands ==
  ASSUME Shape, NEW w \in Workflows, NEW d, OK(w, d), d < Size(w), Produced(w, d + 1),
         Repeatable(Plan[w][d + 1]) => Clear(effects[w][d + 1])
  PROVE  Lands(w, d)
<1>1. effects[w][d + 1] \in EffectRecords
  <2>1. d # Size(w) => d + 1 \in 1..Size(w)
    BY AtWork
  <2>2. effects[w] \in [1..Size(w) -> EffectRecords] /\ d \in Nat /\ Size(w) \in Nat
    BY AtWork
  <2> QED
    BY <2>1, <2>2
<1>2. effects[w][d + 1].times = 0 <=> ~(effects[w][d + 1].times > 0)
  BY <1>1, EffectFacts
<1>3. CASE There(w, d + 1) /\ ~Repeatable(Plan[w][d + 1])
  BY <1>3 DEF Produced, Lands, Kind, There
<1>4. CASE ~There(w, d + 1) \/ Repeatable(Plan[w][d + 1])
  BY <1>2, <1>4 DEF Produced, Lands, Kind, There
<1> QED
  BY <1>3, <1>4

\* Both ways the step at work has its effect afterwards
LEMMA LandsOK ==
  ASSUME Shape, NEW w \in Workflows, NEW d, OK(w, d), d < Size(w), Lands(w, d),
         NEW r, NEW O, WorkflowOK(w, d, steps[w], r, effects[w], records, O, grants),
         Paid(w, d + 1, steps[w][d + 1].attempts, grants),
         Repeatable(Plan[w][d + 1]) =>
           /\ steps[w][d + 1].status = "running" /\ <<w, d + 1>> \notin O
           /\ r.stage \in {"idle", "loop"}
  PROVE  /\ WorkflowOK(w, d, steps[w], r, effects'[w], records, O, grants)
         /\ effects'[w][d + 1].times > 0
         /\ \A v \in Workflows \ {w} : effects'[v] = effects[v]
         /\ DOMAIN effects' = Workflows /\ effects' = [v \in Workflows |-> effects'[v]]
         /\ Moves(w, d, d)
<1>1. /\ effects[w] \in [1..Size(w) -> EffectRecords] /\ d + 1 \in 1..Size(w) /\ d \in Nat
      /\ effects = [v \in Workflows |-> effects[v]]
  <2>1. d # Size(w)
    BY AtWork
  <2> QED
    BY <2>1, AtWork DEF Shape
<1>2. CASE /\ effects[w][d + 1].times = 0 \/ (Repeatable(Plan[w][d + 1]) /\ Clear(effects[w][d + 1]))
           /\ effects' = [effects EXCEPT ![w][d + 1] = Done(effects[w][d + 1])]
  <2> DEFINE y == Done(effects[w][d + 1])
             m == [effects[w] EXCEPT ![d + 1] = y]
  <2>1. y \in EffectRecords /\ y.times > 0
    BY <1>1, EffectFacts
  <2>2. Moves(w, d, d)
    BY <1>2 DEF Moves
  <2>3. effects' = [effects EXCEPT ![w][d + 1] = y]
    BY <1>2
  <2> HIDE DEF y
  <2>4. WorkflowOK(w, d, steps[w], r, m, records, O, grants)
    BY <1>1, <2>1, EffectAdded
  <2>5. m[d + 1].times > 0
    BY <1>1, <2>1
  <2>6. effects' = [effects EXCEPT ![w] = m]
    BY <2>3
  <2> HIDE DEF m
  <2>7. /\ effects'[w] = m /\ \A v \in Workflows \ {w} : effects'[v] = effects[v]
        /\ DOMAIN effects' = Workflows /\ effects' = [v \in Workflows |-> effects'[v]]
    BY <1>1, <2>6
  <2> QED
    BY <2>2, <2>4, <2>5, <2>7
<1>3. CASE effects[w][d + 1].times > 0 /\ effects' = effects
  BY <1>3 DEF Moves, Shape
<1> QED
  BY <1>2, <1>3 DEF Lands

LEMMA LandActs ==
  ASSUME Shape, NEW w \in Workflows, NEW d, OK(w, d), Land(w)
  PROVE  Acts(w, d, d)
<1> DEFINE r == [run[w] EXCEPT !.stage = "landed"]
<1>1. /\ run[w].stage = "command" /\ run' = [run EXCEPT ![w] = r]
      /\ UNCHANGED <<steps, bound, records, orphans, grants>>
  BY DEF Land, At, Go, durable
<1>2. /\ Cursor(w) = d + 1 /\ d < Size(w) /\ run[w] \in Runs /\ d + 1 \in 1..Size(w)
      /\ RunFits(w, d, steps[w], run[w], effects[w], records, orphans, grants)
  BY <1>1, RunStands
<1>3. /\ Repeatable(Plan[w][d + 1]) => Clear(effects[w][d + 1]) /\ <<w, d + 1>> \notin orphans
      /\ steps[w][d + 1].status = "running"
      /\ Paid(w, d + 1, steps[w][d + 1].attempts, grants)
  BY <1>1, WhileCommanding
<1>4. Lands(w, d)
  BY <1>2, <1>3, ProducedLands DEF Land
<1>5. WorkflowOK(w, d, steps[w], NoRun, effects[w], records, orphans, grants)
  BY NoRunFacts, RunAtRest DEF OK
<1>6. NoRun.stage \in {"idle", "loop"}
  BY NoRunFacts
<1>7. /\ WorkflowOK(w, d, steps[w], NoRun, effects'[w], records, orphans, grants)
      /\ effects'[w][d + 1].times > 0
      /\ \A v \in Workflows \ {w} : effects'[v] = effects[v]
      /\ DOMAIN effects' = Workflows /\ effects' = [v \in Workflows |-> effects'[v]]
      /\ Moves(w, d, d)
  BY <1>2, <1>3, <1>4, <1>5, <1>6, LandsOK
<1>8. /\ r \in Runs /\ r.stage = "landed" /\ r.snapshot = run[w].snapshot
      /\ r.free = run[w].free
  BY <1>2 DEF Runs, Stages
<1> HIDE DEF r
<1>9. RunFits(w, d, steps[w], r, effects'[w], records, orphans, grants)
  BY <1>1, <1>2, <1>3, <1>7, <1>8 DEF RunFits, Working
<1>10. WorkflowOK(w, d, steps[w], r, effects'[w], records, orphans, grants)
  BY <1>7, <1>9, RunFitting
<1>11. run'[w] = r /\ (\A v \in Workflows \ {w} : run'[v] = run[v])
       /\ run' \in [Workflows -> Runs]
  BY <1>1, <1>8 DEF Shape
<1>12. Shape'
  BY <1>1, <1>7, <1>11 DEF Shape
<1> QED
  BY <1>1, <1>7, <1>10, <1>11, <1>12 DEF Acts

\* A command whose process is gone takes effect, or never will
LEMMA OrphanEndsActs ==
  ASSUME Shape, NEW w \in Workflows, NEW d, OK(w, d), NEW i \in StepsOf(w), OrphanEnds(w, i)
  PROVE  Acts(w, d, d)
<1> DEFINE O == orphans \ {<<w, i>>}
<1>1. /\ <<w, i>> \in orphans /\ orphans' = O /\ (Produced(w, i) \/ UNCHANGED effects)
      /\ UNCHANGED <<steps, bound, records, grants, run>>
  BY DEF OrphanEnds, durable
<1>2. d \in Nat /\ Size(w) \in Nat /\ i \in 1..Size(w)
      /\ effects[w] \in [1..Size(w) -> EffectRecords]
  BY AtWork, PlanFacts
<1>3. WorkflowOK(w, d, steps[w], run[w], effects[w], records, O, grants)
  BY OrphanGone DEF OK
<1>4. \A v \in Workflows \ {w} :
        /\ \A k : <<v, k>> \in records' <=> <<v, k>> \in records
        /\ \A k : <<v, k>> \in orphans' <=> <<v, k>> \in orphans
  BY <1>1
<1>5. CASE UNCHANGED effects
  BY <1>1, <1>3, <1>4, <1>5 DEF Acts, Moves, Shape
<1>6. CASE Produced(w, i) /\ i <= d
  <2>1. effects[w][i].times > 0 /\ ~Repeatable(Plan[w][i])
    <3>1. ~(i = d + 1)
      BY <1>2, <1>6
    <3> QED
      BY <1>1, <1>2, <1>6, <3>1 DEF OK, WorkflowOK, InOrder, StartedOnce
  <2>2. effects' = effects
    BY <1>6, <2>1 DEF Produced, Kind, There
  <2> QED
    BY <1>5, <2>2
<1>7. CASE Produced(w, i) /\ i > d
  <2>1. i = d + 1 /\ d < Size(w)
    <3>1. ~(i > d + 1)
      BY <1>1, <1>2 DEF OK, WorkflowOK, InOrder
    <3> QED
      BY <1>2, <1>7, <3>1
  <2>2. /\ Paid(w, d + 1, steps[w][d + 1].attempts, grants)
        /\ Repeatable(Plan[w][d + 1]) =>
             /\ steps[w][d + 1].status = "running" /\ Clear(effects[w][d + 1])
             /\ run[w].stage \in {"idle", "loop"}
    BY <1>1, <1>2, <2>1 DEF OK, WorkflowOK, StartedOnce, PaidFor
  <2>3. Lands(w, d)
    BY <1>7, <2>1, <2>2, ProducedLands
  <2>4. <<w, d + 1>> \notin O
    BY <2>1
  <2> HIDE DEF O
  <2>5. /\ WorkflowOK(w, d, steps[w], run[w], effects'[w], records, O, grants)
        /\ \A v \in Workflows \ {w} : effects'[v] = effects[v]
        /\ DOMAIN effects' = Workflows /\ effects' = [v \in Workflows |-> effects'[v]]
        /\ Moves(w, d, d)
    BY <1>3, <2>1, <2>2, <2>3, <2>4, LandsOK
  <2>6. Shape'
    BY <1>1, <2>5 DEF Shape
  <2> QED
    BY <1>1, <1>4, <2>5, <2>6 DEF Acts
<1> QED
  BY <1>1, <1>2, <1>5, <1>6, <1>7

\* A failure that changes nothing leaves the way clear
LEMMA DisownChanges ==
  ASSUME Shape, NEW w \in Workflows, NEW i, effects[w] \in [1..Size(w) -> EffectRecords],
         i \in 1..Size(w), effects[w][i].times > 0,
         effects' = [effects EXCEPT ![w][i] = Disowned(effects[w][i])], effects' = effects
  PROVE  Clear(effects[w][i])
<1>1. effects'[w][i] = Disowned(effects[w][i])
  BY DEF Shape
<1>2. effects[w][i] \in EffectRecords
  OBVIOUS
<1> QED
  BY <1>1, <1>2, EffectFacts

\* The outcome is saved
LEMMA SaveResultActs ==
  ASSUME Shape, NEW w \in Workflows, NEW d, OK(w, d), SaveResult(w)
  PROVE  \E e \in 0..Size(w) : Acts(w, d, e)
<1> DEFINE s == steps[w][d + 1]
           res == run[w].result
           x == Settled(s, res)
<1>1. run[w].stage = "result" /\ UNCHANGED <<bound, grants, records, orphans>>
  BY DEF SaveResult, At
<1>2. /\ Record(w) = s /\ s \in StepRecords /\ d < Size(w) /\ d \in 0..Size(w) /\ d \in Nat
      /\ d + 1 \in 1..Size(w) /\ run[w] \in Runs /\ Cursor(w) = d + 1
      /\ effects[w][d + 1] \in EffectRecords
      /\ RunFits(w, d, steps[w], run[w], effects[w], records, orphans, grants)
  BY <1>1, RunStands
<1>3. /\ res \in Results /\ res.status \in {"succeeded", "failed", "unknown"}
      /\ res.status = "succeeded" => effects[w][d + 1].times > 0
      /\ Repeatable(Plan[w][d + 1]) => ~res.identity
  BY <1>1, <1>2 DEF RunFits, Working, Runs
<1>4. /\ x \in StepRecords /\ x.status = res.status /\ x.attempts = s.attempts
      /\ x.identity = (s.identity \/ res.identity) /\ s.attempts \in Nat
  BY <1>2, <1>3, SettledFacts
<1>5. Repeatable(Plan[w][d + 1]) => ~s.identity
  BY <1>2 DEF OK, WorkflowOK, StartedOnce
<1>6. Repeatable(Plan[w][d + 1]) => ~x.identity
  BY <1>3, <1>4, <1>5
<1>7. SaveStep(w, x)
  BY <1>2 DEF SaveResult
<1>8. x.attempts >= s.attempts
  BY <1>4
<1>9. There(w, d + 1) <=> effects[w][d + 1].times > 0
  BY DEF There
<1>10. effects' = IF res.status = "failed" /\ effects[w][d + 1].times > 0
                 THEN [effects EXCEPT ![w][d + 1] = Disowned(effects[w][d + 1])]
                 ELSE effects
  BY <1>2, <1>9 DEF SaveResult, Disowns
<1> HIDE DEF x, res
<1>11. CASE res.status = "succeeded"
  <2> DEFINE r == [NoRun EXCEPT !.stage = "loop"]
             t == [steps[w] EXCEPT ![d + 1] = x]
  <2>7. Repeatable(Plan[w][d + 1]) => <<w, d + 1>> \notin orphans
    BY <1>1, <1>2 DEF RunFits
  <2>1. WorkflowOK(w, d + 1, t, NoRun, effects[w], records, orphans, grants)
    BY <1>2, <1>3, <1>4, <1>6, <1>11, <2>7, StepDone DEF OK
  <2>2. r \in Runs /\ r.stage = "loop" /\ r.snapshot = NoGrant /\ ~r.free
    BY NoRunFacts DEF NoRun, Runs, Stages
  <2>3. run' = [run EXCEPT ![w] = r] /\ effects' = effects
    BY <1>10, <1>11 DEF SaveResult, res
  <2> HIDE DEF r
  <2>4. WorkflowOK(w, d + 1, t, r, effects[w], records, orphans, grants)
    BY <2>1, <2>2, NoRunFacts, RunAtRest
  <2>5. Acts(w, d, d + 1)
    BY <1>1, <1>2, <1>3, <1>7, <1>11, <2>3, <2>4, StepMoves
  <2>6. d + 1 \in 0..Size(w)
    BY <1>2
  <2> QED
    BY <2>5, <2>6
<1>12. ASSUME res.status # "succeeded"
       PROVE  Finish(w)
  BY <1>12 DEF SaveResult, Finish, res
<1>13. CASE res.status # "succeeded" /\ effects' = effects
  <2>1. x.status \in {"pending", "failed"} => Clear(effects[w][d + 1])
    <3>1. CASE res.status = "failed" /\ effects[w][d + 1].times > 0
      <4>1. effects[w] \in [1..Size(w) -> EffectRecords]
        BY DEF OK, WorkflowOK, Typed
      <4> QED
        BY <1>2, <1>10, <1>13, <3>1, <4>1, DisownChanges
    <3>2. CASE res.status = "failed" /\ ~(effects[w][d + 1].times > 0)
      <4>1. effects[w][d + 1].times = 0
        BY <1>2, <3>2, EffectFacts
      <4> QED
        BY <4>1 DEF Clear
    <3> QED
      BY <1>3, <1>4, <3>1, <3>2
  <2>2. Acts(w, d, d)
    BY <1>1, <1>2, <1>3, <1>4, <1>6, <1>7, <1>8, <1>12, <1>13, <2>1, GivesUp
  <2> QED
    BY <1>2, <2>2
<1>14. CASE res.status = "failed" /\ effects[w][d + 1].times > 0
  <2> DEFINE y == Disowned(effects[w][d + 1])
             m == [effects[w] EXCEPT ![d + 1] = y]
             t == [steps[w] EXCEPT ![d + 1] = x]
  <2>1. /\ y \in EffectRecords /\ y.times = effects[w][d + 1].times /\ Clear(y) /\ y.times > 0
    BY <1>2, <1>14, EffectFacts
  <2>2. effects' = [effects EXCEPT ![w][d + 1] = y]
    BY <1>10, <1>14
  <2>3. Moves(w, d, d)
    BY <1>2, <1>14, <2>2 DEF Moves
  <2> HIDE DEF y
  <2>4. WorkflowOK(w, d, steps[w], run[w], m, records, orphans, grants)
    BY <1>2, <2>1, EffectDisowned DEF OK
  <2>5. effects[w] \in [1..Size(w) -> EffectRecords]
    BY DEF OK, WorkflowOK, Typed
  <2>6. m[d + 1] = y /\ effects' = [effects EXCEPT ![w] = m]
    BY <1>2, <2>2, <2>5
  <2> HIDE DEF m
  <2>7. Repeatable(Plan[w][d + 1]) => <<w, d + 1>> \notin orphans
    BY <1>1, <1>2 DEF RunFits
  <2>8. WorkflowOK(w, d, t, NoRun, m, records, orphans, grants)
    BY <1>2, <1>4, <1>6, <1>8, <1>14, <2>1, <2>4, <2>6, <2>7, RecordSaved
  <2>9. /\ steps' = [steps EXCEPT ![w] = t] /\ run' = [run EXCEPT ![w] = NoRun]
    BY <1>2, <1>7, <1>12, <1>14 DEF SaveStep, Finish
  <2> HIDE DEF t
  <2>10. /\ DOMAIN steps' = Workflows /\ steps' = [v \in Workflows |-> steps'[v]]
         /\ steps'[w] = t /\ \A v \in Workflows \ {w} : steps'[v] = steps[v]
    BY <2>9 DEF Shape
  <2>11. /\ DOMAIN effects' = Workflows /\ effects' = [v \in Workflows |-> effects'[v]]
         /\ effects'[w] = m /\ \A v \in Workflows \ {w} : effects'[v] = effects[v]
    BY <2>6 DEF Shape
  <2>12. /\ run' \in [Workflows -> Runs]
         /\ run'[w] = NoRun /\ \A v \in Workflows \ {w} : run'[v] = run[v]
    BY <2>9, NoRunFacts DEF Shape
  <2>13. Shape'
    BY <1>1, <2>10, <2>11, <2>12 DEF Shape
  <2>14. Acts(w, d, d)
    BY <1>1, <2>3, <2>8, <2>10, <2>11, <2>12, <2>13 DEF Acts
  <2> QED
    BY <1>2, <2>14
<1> QED
  BY <1>3, <1>10, <1>11, <1>13, <1>14

\* The grant changes under the runs
LEMMA GrantChanges ==
  ASSUME Shape, NEW g \in Grants, Revoke(g) \/ SpendElsewhere(g)
  PROVE  /\ Shape' /\ UNCHANGED <<steps, bound, records, run, effects, orphans>>
         /\ \A h \in Grants : grants[h].reservations \subseteq grants'[h].reservations
<1>1. UNCHANGED <<steps, bound, records, run, effects, orphans>>
  BY DEF Revoke, SpendElsewhere
<1> DEFINE x == grants[g]
<1>2. /\ x \in GrantRecords /\ GrantOK(x) /\ x.used \in Nat /\ x.revoked \in BOOLEAN
      /\ x = [used |-> x.used, reservations |-> x.reservations, revoked |-> x.revoked]
      /\ x.reservations \in SUBSET Reservations /\ MaxUses \in Nat
      /\ IsFiniteSet(x.reservations) /\ Cardinality(x.reservations) \in Nat
  BY FS_CardinalityType, ReleaseAssumption DEF Shape, GrantOK, GrantRecords, ReleaseAssumption
<1>3. PICK y : /\ grants' = [grants EXCEPT ![g] = y]
               /\ y \in GrantRecords /\ GrantOK(y) /\ y.reservations = x.reservations
  <2>1. CASE Revoke(g)
    <3> DEFINE y == [used |-> x.used, reservations |-> x.reservations, revoked |-> TRUE]
    <3>1. grants' = [grants EXCEPT ![g] = [x EXCEPT !.revoked = TRUE]]
      BY <2>1 DEF Revoke
    <3>2. [x EXCEPT !.revoked = TRUE] = y
      <4>1. \A b : [x EXCEPT !.revoked = b] =
                    [used |-> x.used, reservations |-> x.reservations, revoked |-> b]
        BY <1>2
      <4> QED
        BY <4>1, Zenon
    <3>3. y \in GrantRecords /\ GrantOK(y) /\ y.reservations = x.reservations
      BY <1>2 DEF GrantRecords, GrantOK
    <3> QED
      BY <3>1, <3>2, <3>3
  <2>2. CASE SpendElsewhere(g)
    <3> DEFINE y == [used |-> x.used + 1, reservations |-> x.reservations, revoked |-> x.revoked]
    <3>1. grants' = [grants EXCEPT ![g] = [x EXCEPT !.used = x.used + 1]] /\ x.used < MaxUses
      BY <2>2 DEF SpendElsewhere
    <3>2. [x EXCEPT !.used = x.used + 1] = y
      BY <1>2
    <3>3. y \in GrantRecords /\ GrantOK(y) /\ y.reservations = x.reservations
      BY <1>2, <3>1 DEF GrantRecords, GrantOK
    <3> QED
      BY <3>1, <3>2, <3>3
  <2> QED
    BY <2>1, <2>2
<1> HIDE DEF x
<1>4. /\ grants' \in [Grants -> GrantRecords] /\ \A h \in Grants : GrantOK(grants'[h])
      /\ \A h \in Grants : grants[h].reservations \subseteq grants'[h].reservations
  BY <1>3 DEF Shape, x
<1> QED
  BY <1>1, <1>4 DEF Shape

-----------------------------------------------------------------------------
(* Every step is one of these *)

GrantsOnly ==
  /\ Shape' /\ UNCHANGED <<steps, records, run, effects, orphans>>
  /\ \A g \in Grants : grants[g].reservations \subseteq grants'[g].reservations

LEMMA StepActs ==
  ASSUME IInv, Next
  PROVE  \/ \E w \in Workflows : \E d, e \in 0..Size(w) : OK(w, d) /\ Acts(w, d, e)
         \/ GrantsOnly
<1>1. Shape
  BY DEF IInv
<1>2. ASSUME NEW w \in Workflows
      PROVE  \E d \in 0..Size(w) : OK(w, d)
  BY <1>2 DEF IInv, OK
<1>3. ASSUME NEW w \in Workflows, Begin(w) \/ RunStep(w) \/ RunFault(w)
      PROVE  \E d, e \in 0..Size(w) : OK(w, d) /\ Acts(w, d, e)
  <2>1. PICK d \in 0..Size(w) : OK(w, d)
    BY <1>2
  <2>2. CASE Begin(w) \/ Succeed(w) \/ QueryFails(w) \/ UseRefused(w)
    BY <1>1, <2>1, <2>2, BeginsOrEnds
  <2>3. CASE Proceed(w)
    BY <1>1, <2>1, <2>3, ProceedActs
  <2>4. CASE Query(w)
    BY <1>1, <2>1, <2>4, QueryActs
  <2>5. CASE Deny(w)
    BY <1>1, <2>1, <2>5, DenyActs
  <2>6. CASE Authorize(w)
    BY <1>1, <2>1, <2>6, AuthorizeActs
  <2>7. CASE Reserve(w)
    BY <1>1, <2>1, <2>7, ReserveActs
  <2>8. CASE RetryUse(w)
    BY <1>1, <2>1, <2>8, RetryUseActs
  <2>9. CASE Exhausted(w)
    BY <1>1, <2>1, <2>9, ExhaustedActs
  <2>10. CASE Submit(w)
    BY <1>1, <2>1, <2>10, SubmitActs
  <2>11. CASE Land(w)
    BY <1>1, <2>1, <2>11, LandActs
  <2>12. CASE RecordSuccess(w)
    BY <1>1, <2>1, <2>12, RecordSuccessActs
  <2>13. CASE SaveResult(w)
    BY <1>1, <2>1, <2>13, SaveResultActs
  <2>14. CASE RecordUnreadable(w) \/ LandRefused(w) \/ ExecuteThrows(w) \/ RecordFails(w)
    BY <1>1, <2>1, <2>14, CommandReports
  <2>15. CASE CommandDoubtful(w)
    BY <1>1, <2>1, <2>15, CommandDoubtfulActs
  <2>16. CASE Crash(w)
    BY <1>1, <2>1, <2>16, CrashActs
  <2>17. CASE CommandFails(w)
    BY <1>1, <2>1, <2>17, CommandFailsActs
  <2> QED
    BY <1>3, <2>2, <2>3, <2>4, <2>5, <2>6, <2>7, <2>8, <2>9, <2>10, <2>11, <2>12, <2>13, <2>14,
       <2>15, <2>16, <2>17 DEF RunStep, RunFault
<1>4. ASSUME NEW w \in Workflows, NEW g \in Grants, Rebind(w, g)
      PROVE  \E d, e \in 0..Size(w) : OK(w, d) /\ Acts(w, d, e)
  <2>1. PICK d \in 0..Size(w) : OK(w, d)
    BY <1>2
  <2> QED
    BY <1>1, <1>4, <2>1, BeginsOrEnds
<1>5. ASSUME NEW w \in Workflows, NEW i \in StepsOf(w), OrphanEnds(w, i)
      PROVE  \E d, e \in 0..Size(w) : OK(w, d) /\ Acts(w, d, e)
  <2>1. PICK d \in 0..Size(w) : OK(w, d)
    BY <1>2
  <2> QED
    BY <1>1, <1>5, <2>1, OrphanEndsActs
<1>6. ASSUME NEW g \in Grants, Revoke(g) \/ SpendElsewhere(g)
      PROVE  GrantsOnly
  BY <1>1, <1>6, GrantChanges DEF GrantsOnly
<1> QED
  BY <1>3, <1>4, <1>5, <1>6 DEF Next

LEMMA InitIInv == Init => IInv
<1> SUFFICES ASSUME Init PROVE IInv
  OBVIOUS
<1>1. Shape
  BY NoRunFacts, ReleaseAssumption DEF Shape, Init, ReleaseAssumption
<1>2. ASSUME NEW w \in Workflows
      PROVE  \E d \in 0..Size(w) :
               WorkflowOK(w, d, steps[w], run[w], effects[w], records, orphans, grants)
  <2>1. Size(w) \in Nat /\ StepsOf(w) = 1..Size(w) /\ 0 \in 0..Size(w)
    BY PlanFacts
  <2>2. /\ run[w] = NoRun /\ records = {} /\ orphans = {}
        /\ steps[w] \in [1..Size(w) -> StepRecords] /\ effects[w] \in [1..Size(w) -> EffectRecords]
        /\ \A i \in 1..Size(w) : /\ steps[w][i].status = "pending" /\ ~steps[w][i].identity
                                 /\ effects[w][i].times = 0
    BY <2>1 DEF Init, StepRecords, Statuses, NoEffect, EffectRecords
  <2>3. Typed(w, steps[w], run[w], effects[w])
    BY <2>2, NoRunFacts DEF Typed
  <2>4. InOrder(w, 0, steps[w], effects[w], records, orphans)
    BY <2>1, <2>2 DEF InOrder
  <2>5. Working(w, 0, steps[w], run[w], effects[w], records)
    BY <2>2, NoRunFacts DEF Working
  <2>6. StartedOnce(w, 0, steps[w], run[w], effects[w], records, orphans)
    BY <2>2, NoRunFacts DEF StartedOnce, Clear
  <2>7. PaidFor(w, 0, steps[w], run[w], effects[w], orphans, grants)
    BY <2>2, NoRunFacts DEF PaidFor
  <2> QED
    BY <2>1, <2>3, <2>4, <2>5, <2>6, <2>7 DEF WorkflowOK
<1> QED
  BY <1>1, <1>2 DEF IInv

LEMMA NextIInv == IInv /\ [Next]_vars => IInv'
<1> SUFFICES ASSUME IInv, [Next]_vars PROVE IInv'
  OBVIOUS
<1>1. CASE GrantsOnly
  <2>1. ASSUME NEW v \in Workflows
        PROVE  \E f \in 0..Size(v) :
                 WorkflowOK(v, f, steps'[v], run'[v], effects'[v], records', orphans', grants')
    <3>1. PICK f \in 0..Size(v) :
            WorkflowOK(v, f, steps[v], run[v], effects[v], records, orphans, grants)
      BY DEF IInv
    <3>2. WorkflowOK(v, f, steps[v], run[v], effects[v], records, orphans, grants')
      BY <1>1, <3>1, GrantsGrow DEF GrantsOnly
    <3> QED
      BY <1>1, <3>2 DEF GrantsOnly
  <2> QED
    BY <1>1, <2>1 DEF IInv, GrantsOnly
<1>2. CASE \E w \in Workflows : \E d, e \in 0..Size(w) : OK(w, d) /\ Acts(w, d, e)
  BY <1>2, ActsKeepsIInv
<1>3. CASE UNCHANGED vars
  BY <1>3 DEF vars, IInv, Shape
<1> QED
  BY <1>1, <1>2, <1>3, StepActs

LEMMA Invariance == Spec => []IInv
BY InitIInv, NextIInv, PTL DEF Spec

-----------------------------------------------------------------------------
(* The theorems *)

\* Of any number of workflows that share grants, charge them at the same time,
\* crash and resume: a grant counts every reservation, is never used more often
\* than it allows, and no effect comes about that no attempt of its own step
\* paid for (consumeGrantUse, isValidCapabilityGrantTransition).
THEOREM UsesAccountedTheorem == Spec => []UsesAccounted
<1>1. IInv => UsesAccounted
  <2> SUFFICES ASSUME IInv PROVE UsesAccounted
    OBVIOUS
  <2>1. \A g \in Grants :
          Cardinality(grants[g].reservations) <= grants[g].used /\ grants[g].used <= MaxUses
    BY DEF IInv, Shape, GrantOK
  <2>2. ASSUME NEW w \in Workflows, NEW i \in StepsOf(w), There(w, i)
        PROVE  \E g \in Grants, n \in 1..steps[w][i].attempts :
                 <<w, i, n>> \in grants[g].reservations
    <3>1. PICK d \in 0..Size(w) :
            WorkflowOK(w, d, steps[w], run[w], effects[w], records, orphans, grants)
      BY DEF IInv
    <3>2. i \in 1..Size(w) /\ effects[w][i].times > 0
      BY <2>2, PlanFacts DEF There
    <3>3. Paid(w, i, steps[w][i].attempts, grants)
      BY <3>1, <3>2 DEF WorkflowOK, PaidFor
    <3> QED
      BY <3>3 DEF Paid
  <2> QED
    BY <2>1, <2>2 DEF UsesAccounted
<1> QED
  BY <1>1, Invariance, PTL

\* What ReleasePlan sees of the steps that are done
DoneOf(w) == IF Cursor(w) = 0 THEN Len(Plan[w]) ELSE Cursor(w) - 1

LEMMA DoneIs ==
  ASSUME NEW w \in Workflows, NEW d \in 0..Size(w), NEW e \in 0..Size(w),
         \A i \in 1..Size(w) : steps[w][i].status = "succeeded" <=> i <= d,
         \A i \in 1..Size(w) : steps'[w][i].status = "succeeded" <=> i <= e
  PROVE  DoneOf(w) = d /\ DoneOf(w)' = e
<1>1. Size(w) \in Nat /\ Size(w) = Len(Plan[w])
  BY PlanFacts DEF Size
<1>2. Cursor(w) = CursorOf(w, steps[w]) /\ Cursor(w)' = CursorOf(w, steps'[w])
  BY DEF Cursor, CursorOf
<1>3. /\ CursorOf(w, steps[w]) = IF d = Size(w) THEN 0 ELSE d + 1
      /\ CursorOf(w, steps'[w]) = IF e = Size(w) THEN 0 ELSE e + 1
  BY CursorIs
<1> QED
  BY <1>1, <1>2, <1>3 DEF DoneOf

LEMMA StepRefines == IInv /\ Next => [Contract!Next]_Contract!vars
<1> SUFFICES ASSUME IInv, Next PROVE [Contract!Next]_Contract!vars
  OBVIOUS
<1> DEFINE D == [v \in Workflows |-> DoneOf(v)]
<1>1. D = [v \in Workflows |-> IF Cursor(v) = 0 THEN Len(Plan[v]) ELSE Cursor(v) - 1]
  BY DEF DoneOf
<1>2. D' = [v \in Workflows |-> DoneOf(v)']
  OBVIOUS
<1>3. ASSUME NEW v \in Workflows, steps'[v] = steps[v]
      PROVE  DoneOf(v)' = DoneOf(v)
  BY <1>3 DEF DoneOf, Cursor
<1>4. CASE GrantsOnly
  <2>1. UNCHANGED <<effects, D>>
    BY <1>2, <1>3, <1>4 DEF GrantsOnly
  <2> QED
    BY <2>1 DEF Contract!vars, DoneOf
<1>5. ASSUME NEW w \in Workflows, NEW d \in 0..Size(w), NEW e \in 0..Size(w),
             OK(w, d), Acts(w, d, e)
      PROVE  [Contract!Next]_Contract!vars
  <2>1. DoneOf(w) = d /\ DoneOf(w)' = e
    BY <1>5, DoneIs DEF OK, Acts, WorkflowOK, InOrder
  <2>2. \A v \in Workflows \ {w} : DoneOf(v)' = DoneOf(v)
    BY <1>3, <1>5 DEF Acts
  <2>3. /\ Size(w) \in Nat /\ DOMAIN Plan[w] = 1..Size(w) /\ d \in Nat
    BY PlanFacts DEF StepsOf
  <2>4. D' = [D EXCEPT ![w] = e] /\ D[w] = d
    BY <1>2, <2>1, <2>2
  <2> HIDE DEF D
  <2>5. CASE e = d /\ effects' = effects
    <3>1. D' = D
      BY <1>1, <2>4, <2>5
    <3> QED
      BY <2>5, <3>1 DEF Contract!vars, D, DoneOf
  <2>6. CASE /\ e = d /\ d < Size(w)
             /\ effects[w][d + 1].times = 0
                  \/ (Repeatable(Plan[w][d + 1]) /\ Clear(effects[w][d + 1]))
             /\ effects' = [effects EXCEPT ![w][d + 1] = Done(effects[w][d + 1])]
    <3>1. D' = D /\ d + 1 \in {D[w] + 1} \cap DOMAIN Plan[w]
      BY <1>1, <2>3, <2>4, <2>6
    <3>2. Contract!MayProduce(w, d + 1)
      BY <2>6 DEF Contract!MayProduce, Repeatable, Clear
    <3>3. Contract!Produce(w)
      BY <2>6, <3>1, <3>2 DEF Contract!Produce, Contract!Due, D, DoneOf, Done
    <3> QED
      BY <3>3 DEF Contract!Next
  <2>8. CASE /\ e = d /\ d < Size(w) /\ effects[w][d + 1].times > 0
             /\ effects' = [effects EXCEPT ![w][d + 1] = Disowned(effects[w][d + 1])]
    <3>1. D' = D /\ d + 1 \in {D[w] + 1} \cap DOMAIN Plan[w]
      BY <1>1, <2>3, <2>4, <2>8
    <3>2. Contract!Disown(w)
      BY <2>8, <3>1 DEF Contract!Disown, Contract!Due, D, DoneOf, Disowned
    <3> QED
      BY <3>2 DEF Contract!Next
  <2>7. CASE e = d + 1 /\ effects[w][d + 1].times > 0 /\ effects' = effects
    <3>1. d + 1 \in {D[w] + 1} \cap DOMAIN Plan[w] /\ D' = [D EXCEPT ![w] = d + 1]
      BY <2>3, <2>4, <2>7
    <3>2. Contract!Report(w)
      BY <2>7, <3>1 DEF Contract!Report, Contract!Due, D, DoneOf
    <3> QED
      BY <3>2 DEF Contract!Next
  <2> QED
    BY <1>5, <2>5, <2>6, <2>7, <2>8 DEF Acts, Moves
<1> QED
  BY <1>4, <1>5, StepActs

\* Whatever dies, fails, answers late or is resumed, and however many workflows
\* run: every effect comes about in the order of the plan, a step is reported as
\* done only once its effect is there, and an effect comes about again only for a
\* kind that can repeat it and only after the step was reported as failed
\* (runReleaseWorkflow, executeStep, queryStepEffect).
THEOREM Refinement == Spec => ImplementsReleasePlan
<1>1. Init => Contract!Init
  <2> SUFFICES ASSUME Init PROVE Contract!Init
    OBVIOUS
  <2>1. effects = [w \in Workflows |->
                    [i \in DOMAIN Plan[w] |-> [times |-> 0, disowned |-> FALSE]]]
    BY DEF Init, StepsOf, NoEffect
  <2>2. ASSUME NEW w \in Workflows PROVE DoneOf(w) = 0
    <3>1. Size(w) \in Nat /\ StepsOf(w) = 1..Size(w) /\ Size(w) = Len(Plan[w])
      BY PlanFacts DEF Size
    <3>2. \A i \in 1..Size(w) : steps[w][i].status = "succeeded" <=> i <= 0
      BY <3>1 DEF Init
    <3>3. CursorOf(w, steps[w]) = IF 0 = Size(w) THEN 0 ELSE 0 + 1
      BY <3>1, <3>2, CursorIs
    <3>4. Cursor(w) = CursorOf(w, steps[w])
      BY DEF Cursor, CursorOf
    <3> QED
      BY <3>1, <3>3, <3>4 DEF DoneOf
  <2> QED
    BY <2>1, <2>2 DEF Contract!Init, DoneOf
<1>2. IInv /\ [Next]_vars => [Contract!Next]_Contract!vars
  <2> SUFFICES ASSUME IInv, [Next]_vars PROVE [Contract!Next]_Contract!vars
    OBVIOUS
  <2>1. CASE Next
    BY <2>1, StepRefines
  <2>2. CASE UNCHANGED vars
    BY <2>2 DEF vars, Contract!vars, Cursor
  <2> QED
    BY <2>1, <2>2
<1> QED
  BY <1>1, <1>2, Invariance, PTL DEF Spec, ImplementsReleasePlan, Contract!Spec
=============================================================================
