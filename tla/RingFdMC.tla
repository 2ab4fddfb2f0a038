------------------------------ MODULE RingFdMC ------------------------------
(* Few descriptors and indices, so that numbers are reused and collide. *)
EXTENDS RingFd
=============================================================================
