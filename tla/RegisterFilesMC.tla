-------------------------- MODULE RegisterFilesMC --------------------------
(* Two threads and tables of two sizes, on either side of what one raise   *)
(* reaches: a stale raise for the small one is too low for the large one.  *)
EXTENDS RegisterFiles
=============================================================================
