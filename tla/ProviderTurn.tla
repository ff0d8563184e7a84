------------------------------ MODULE ProviderTurn ------------------------------
(***************************************************************************)
(* The durable record of one input submitted to a Provider, from           *)
(* runtime/providerRuntimeIdentity.ts: the `run' of a Provider binding.    *)
(* Attempts are numbers; 0 stands for an input that did not come from Yui  *)
(* (a direct native turn).  Conversations, authority epochs and timestamps *)
(* are left out: here one Conversation is written by the Controller.       *)
(***************************************************************************)
EXTENDS Naturals

NoTurn == [attempt |-> 0, status |-> "none"]

TurnStatuses == {"none", "submitting", "accepted", "completed", "cancelled",
                 "rejected", "deferred", "delivery-unknown"}

\* providerTurnIsActive: the input is not known to be over
Active(turn) == turn.status \in {"submitting", "accepted", "delivery-unknown"}

\* beginProviderTurn, for a binding that is not active
Begin(a) == [attempt |-> a, status |-> "submitting"]

\* recordStructuredProviderAcceptance over acceptProviderTurn
Accept(turn) ==
  IF turn.status \in {"submitting", "delivery-unknown"}
  THEN [turn EXCEPT !.status = "accepted"] ELSE turn

\* settleProviderTurnSubmission throws unless the turn can take the status
CanSettle(turn, a, status) ==
  /\ turn.attempt = a
  /\ \/ turn.status \in {"submitting", status}
     \/ turn.status = "delivery-unknown" /\ status = "rejected"

\* settleProviderTurn after the acceptance a terminal implies
EndTurn(turn) ==
  IF Active(turn) THEN [turn EXCEPT !.status = "completed"] ELSE turn

\* cancelQuiescentProviderInput
CancelQuiescent(turn) ==
  IF Active(turn) THEN [turn EXCEPT !.status = "cancelled"] ELSE turn
=============================================================================
