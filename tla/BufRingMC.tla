----------------------------- MODULE BufRingMC -----------------------------
(* Small buffer rings for TLC: the indices wrap after two rounds. *)
EXTENDS BufRing
=============================================================================
