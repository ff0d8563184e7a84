----------------------------- MODULE ReleasePlan -----------------------------
(***************************************************************************)
(* What a release workflow promises to the people who grant it: the        *)
(* effects of its plan are produced in the order of the plan, and a step   *)
(* is reported as done only after its effect was produced.  An effect is   *)
(* produced again only where the outside world lets it be repeated, and    *)
(* only after the step was reported as failed: never on the strength of a  *)
(* crash or of an outcome that is in doubt.  A workflow may stop at any    *)
(* point.                                                                  *)
(***************************************************************************)
EXTENDS Naturals, Sequences

CONSTANTS
  Workflows,
  Plan,            \* the sequence of steps of each workflow
  RepeatableKinds  \* the kinds of steps whose effect can be produced again

VARIABLES
  effects,     \* effects[w][i]: how often the effect of step i was produced, and
               \* whether the step was reported as failed since then
  done         \* done[w]: how many steps are reported as done

vars == <<effects, done>>

Init ==
  /\ effects = [w \in Workflows |->
                  [i \in DOMAIN Plan[w] |-> [times |-> 0, disowned |-> FALSE]]]
  /\ done = [w \in Workflows |-> 0]

\* The next step of the plan, if one is left
Due(w) == {done[w] + 1} \cap DOMAIN Plan[w]

MayProduce(w, i) ==
  \/ effects[w][i].times = 0
  \/ Plan[w][i] \in RepeatableKinds /\ effects[w][i].disowned

Produce(w) ==
  \E i \in Due(w) :
    /\ MayProduce(w, i)
    /\ effects' = [effects EXCEPT ![w][i] =
                     [times |-> effects[w][i].times + 1, disowned |-> FALSE]]
    /\ UNCHANGED done

\* The step is reported as failed although its effect is there
Disown(w) ==
  \E i \in Due(w) :
    /\ effects[w][i].times > 0
    /\ effects' = [effects EXCEPT ![w][i] =
                     [times |-> effects[w][i].times, disowned |-> TRUE]]
    /\ UNCHANGED done

Report(w) ==
  \E i \in Due(w) :
    /\ effects[w][i].times > 0
    /\ done' = [done EXCEPT ![w] = i]
    /\ UNCHANGED effects

Next == \E w \in Workflows : Produce(w) \/ Disown(w) \/ Report(w)

Spec == Init /\ [][Next]_vars
=============================================================================
