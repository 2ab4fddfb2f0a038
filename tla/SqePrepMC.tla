------------------------------ MODULE SqePrepMC ------------------------------
(* SqePrep with a four-bit unsigned int and the slots at both ends.        *)
EXTENDS SqePrep
=============================================================================
