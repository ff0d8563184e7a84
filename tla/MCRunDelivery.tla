----------------------------- MODULE MCRunDelivery -----------------------------
(* RunDelivery for TLC *)
EXTENDS RunDelivery
=============================================================================
