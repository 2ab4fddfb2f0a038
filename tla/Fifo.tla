-------------------------------- MODULE Fifo --------------------------------
(***************************************************************************)
(* What a shared ring promises: entries leave in the order in which they   *)
(* were put, each exactly once, with the value they were put with, and     *)
(* none before the producer published it.                                  *)
(***************************************************************************)
EXTENDS Integers, Sequences

CONSTANTS
  Vals,  \* the values an entry can hold
  Cap    \* how many entries the queue holds at most

VARIABLES
  fifo,     \* entries put and not yet taken, oldest first
  visible,  \* how many of them the consumer may take
  out       \* what the last Take returned

vars == <<fifo, visible, out>>

Init ==
  /\ fifo = <<>>
  /\ visible = 0
  /\ out = <<>>

Put(v) ==
  /\ Len(fifo) < Cap
  /\ fifo' = Append(fifo, v)
  /\ UNCHANGED <<visible, out>>

Publish ==
  /\ \E n \in visible + 1 .. Len(fifo) : visible' = n
  /\ UNCHANGED <<fifo, out>>

Take(n) ==
  /\ n <= visible
  /\ out' = SubSeq(fifo, 1, n)
  /\ fifo' = SubSeq(fifo, n + 1, Len(fifo))
  /\ visible' = visible - n

Next ==
  \/ \E v \in Vals : Put(v)
  \/ Publish
  \/ \E n \in 1 .. visible : Take(n)

Spec == Init /\ [][Next]_vars
=============================================================================
