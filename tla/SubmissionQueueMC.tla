------------------------- MODULE SubmissionQueueMC -------------------------
(* Small instances of the submission queue for TLC. *)
EXTENDS SubmissionQueue
=============================================================================
