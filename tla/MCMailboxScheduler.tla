------------------------ MODULE MCMailboxScheduler ------------------------
(* Instances of MailboxScheduler for TLC. *)
EXTENDS MailboxScheduler
=============================================================================
