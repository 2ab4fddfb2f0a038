---------------------------- MODULE RingFdProofs ----------------------------
(***************************************************************************)
(* The names of a ring, for any descriptors, indices and kernel: proofs.   *)
(***************************************************************************)
EXTENDS RingFd, TLAPS

(* Which names the ring has follows from struct io_uring: the open          *)
(* descriptor is ring_fd, the registered index is enter_ring_fd, and a      *)
(* ring without descriptor can be registered through its index.             *)
Naming ==
  /\ \A n \in Fds : fds[n] = "ring" <=> alive /\ n = ring_fd
  /\ \A n \in Indices : indices[n] = "ring" <=> alive /\ reg_ring /\ n = enter_ring_fd
  /\ alive /\ reg_ring => enter_ring_fd \in Indices
  /\ alive /\ ~reg_ring => enter_ring_fd = ring_fd
  /\ alive => (reg_reg_ring <=> reg_ring /\ RegRegRing)
  /\ alive /\ reg_ring /\ ring_fd = -1 => RegRegRing
  /\ target # "other"

Inv == TypeOK /\ Naming

\* The set-up establishes the invariant.
LEMMA InitInv == Init => Inv
  BY RingFdAssumption DEF Init, Inv, TypeOK, Naming

\* Every call, and whatever the rest of the process does, preserves it.
LEMMA NextInv == Inv /\ [Next]_vars => Inv'
<1> SUFFICES ASSUME Inv, [Next]_vars PROVE Inv'
  OBVIOUS
<1> USE RingFdAssumption DEF Inv, TypeOK, Naming, Returns, Lookup, Free, fdVars
<1>1. ASSUME NEW fdOnly \in FdOnly, QueueInit(fdOnly) PROVE Inv'
  <2>1. fdOnly \in BOOLEAN
    OBVIOUS
  <2>2. CASE fdOnly
    BY <1>1, <2>1, <2>2 DEF QueueInit
  <2>3. CASE ~fdOnly
    BY <1>1, <2>1, <2>3 DEF QueueInit
  <2> QED
    BY <2>2, <2>3
<1>2. CASE QueueExit
  BY <1>2 DEF QueueExit, RegisterTarget, Unregistered
<1>3. CASE RegisterRingFd
  <2>1. CASE ret' = 1
    <3>1. ~reg_ring /\ alive /\ RegisterTarget = "ring"
      BY <1>3, <2>1 DEF RegisterRingFd, EEXIST, EBUSY, EBADF
    <3>2. PICK n \in Free(indices) : indices' = [indices EXCEPT ![n] = "ring"] /\ enter_ring_fd' = n
      BY <1>3, <2>1 DEF RegisterRingFd, EEXIST, EBUSY, EBADF
    <3>3. /\ reg_ring' = TRUE /\ reg_reg_ring' = RegRegRing /\ target' = "ring"
          /\ UNCHANGED <<fds, ring_fd, alive>>
      BY <1>3, <2>1 DEF RegisterRingFd, EEXIST, EBUSY, EBADF
    <3>4. n \in Indices /\ ring_fd \in Fds
      BY <3>1, <3>2 DEF RegisterTarget
    <3>5. TypeOK'
      BY <3>2, <3>3, <3>4
    <3>6. \A i \in Indices : indices'[i] = "ring" <=> alive' /\ reg_ring' /\ i = enter_ring_fd'
      BY <3>1, <3>2, <3>3, <3>4
    <3>7. Naming'
      BY <3>1, <3>2, <3>3, <3>4, <3>6
    <3> QED
      BY <3>5, <3>7
  <2>2. CASE ret' # 1
    <3>1. UNCHANGED <<fds, indices, fdVars, alive>> /\ target' \in {"none", RegisterTarget} /\ alive
      BY <1>3, <2>2 DEF RegisterRingFd
    <3>2. RegisterTarget \in {"ring", "none"}
      BY <3>1 DEF RegisterTarget
    <3> QED
      BY <3>1, <3>2
  <2> QED
    BY <2>1, <2>2
<1>4. CASE UnregisterRingFd
  <2>1. CASE reg_ring
    <3>1. /\ indices' = Unregistered
          /\ enter_ring_fd' = ring_fd /\ ~reg_ring' /\ ~reg_reg_ring'
          /\ UNCHANGED <<fds, ring_fd, alive>> /\ target' = "ring"
      BY <1>4, <2>1 DEF UnregisterRingFd
    <3>2. reg_ring' \in BOOLEAN /\ reg_reg_ring' \in BOOLEAN
      BY <1>4, <2>1 DEF UnregisterRingFd
    <3>3. /\ indices' \in [Indices -> {"ring", "other", "none"}]
          /\ \A n \in Indices : indices'[n] # "ring"
      BY <2>1, <3>1 DEF Unregistered
    <3>4. TypeOK'
      BY <3>1, <3>2, <3>3
    <3>5. \A n \in Fds : fds'[n] = "ring" <=> alive' /\ n = ring_fd'
      BY <3>1
    <3>6. Naming'
      BY <3>1, <3>3, <3>5
    <3> QED
      BY <3>4, <3>6
  <2>2. CASE ~reg_ring
    BY <1>4, <2>2 DEF UnregisterRingFd
  <2> QED
    BY <2>1, <2>2
<1>5. CASE CloseRingFd
  BY <1>5 DEF CloseRingFd
<1>6. CASE Enter \/ Register \/ RegisterNapi
  BY <1>6 DEF Enter, Register, RegisterNapi, EnterTarget, RegisterTarget, NapiTarget
<1>7. CASE Others
  BY <1>7 DEF Others
<1>8. CASE UNCHANGED vars
  BY <1>8 DEF vars
<1> QED
  BY <1>1, <1>2, <1>3, <1>4, <1>5, <1>6, <1>7, <1>8 DEF Next

\* The invariant of the proofs holds in every reachable state.
THEOREM Invariance == Spec => []Inv
  BY InitInv, NextInv, PTL DEF Spec

\* No system call of liburing reaches a file or a ring that is not this one.
THEOREM NoMistakenFile == Spec => []NeverAnotherFile
<1>1. Inv => NeverAnotherFile
  BY RingFdAssumption DEF Inv, TypeOK, Naming, NeverAnotherFile, EnterTarget, RegisterTarget, NapiTarget, Lookup
<1> QED
  BY <1>1, Invariance, PTL

\* A ring the kernel knows under some name is reached by the enter calls and do_register.
THEOREM AlwaysReachable == Spec => []Reachable
<1>1. Inv => Reachable
  BY RingFdAssumption DEF Inv, TypeOK, Naming, Reachable, Names, EnterTarget, RegisterTarget, Lookup
<1> QED
  BY <1>1, Invariance, PTL

\* io_uring_queue_exit gives back every name of the ring.
THEOREM ExitLeavesNothing == Spec => []NothingLeft
<1>1. Inv => NothingLeft
  BY RingFdAssumption DEF Inv, TypeOK, Naming, NothingLeft, Names
<1> QED
  BY <1>1, Invariance, PTL
=============================================================================
