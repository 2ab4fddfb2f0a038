------------------------- MODULE CompletionQueueMC -------------------------
(* Small instances of the completion queue for TLC. *)
EXTENDS CompletionQueue
=============================================================================
