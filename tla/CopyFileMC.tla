------------------------------ MODULE CopyFileMC ------------------------------
(* CopyFile with three blocks, the last one short, two of them in flight.  *)
EXTENDS CopyFile
=============================================================================
