------------------------------ MODULE GetCqeMC ------------------------------
(* Small instances of the waiting calls for TLC. *)
EXTENDS GetCqe
=============================================================================
