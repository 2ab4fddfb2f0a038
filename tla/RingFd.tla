------------------------------- MODULE RingFd -------------------------------
(***************************************************************************)
(* How a ring is named in system calls: by its file descriptor ring_fd or  *)
(* by a registered index, enter_ring_fd.  Setting up, registering,         *)
(* unregistering and closing change both, do_register and the enter calls  *)
(* choose between them, and the rest of the process opens and closes       *)
(* descriptors that may get the same numbers.                              *)
(***************************************************************************)
EXTENDS Integers

CONSTANTS
  Fds,         \* file descriptors of the process
  Indices,     \* registered ring indices of the task
  RegRegRing,  \* features & IORING_FEAT_REG_REG_RING
  FdOnly       \* flags & IORING_SETUP_REGISTERED_FD_ONLY: the choices of the application

ASSUME RingFdAssumption ==
  /\ Fds \subseteq Nat /\ Indices \subseteq Nat
  /\ RegRegRing \in BOOLEAN /\ FdOnly \subseteq BOOLEAN
  /\ TRUE \in FdOnly => RegRegRing

EINVAL == -22
EEXIST == -17
EBADF == -9
EBUSY == -16
EOPNOTSUPP == -95

VARIABLES
  fds,       \* what each file descriptor refers to: "ring", "other", "none"
  indices,   \* what each registered index refers to
  ring_fd, enter_ring_fd,   \* of struct io_uring
  reg_ring, reg_reg_ring,   \* int_flags & INT_FLAG_REG_RING, INT_FLAG_REG_REG_RING
  alive,     \* between io_uring_queue_init and io_uring_queue_exit
  call,      \* the last call
  ret,       \* what it returned
  target     \* what its system call reached

fdVars == <<ring_fd, enter_ring_fd, reg_ring, reg_reg_ring>>
vars == <<fds, indices, fdVars, alive, call, ret, target>>

Free(table) == {n \in DOMAIN table : table[n] = "none"}

\* What a system call on number n of a table reaches.
Lookup(table, n) == IF n \in DOMAIN table THEN table[n] ELSE "none"

\* io_uring_enter(2) with IORING_ENTER_REGISTERED_RING for a registered ring
EnterTarget == Lookup(IF reg_ring THEN indices ELSE fds, enter_ring_fd)

\* do_register
RegisterTarget ==
  IF reg_reg_ring THEN Lookup(indices, enter_ring_fd) ELSE Lookup(fds, ring_fd)

NapiTarget == Lookup(fds, ring_fd)

Init ==
  /\ fds = [n \in Fds |-> "none"] /\ indices = [n \in Indices |-> "none"]
  /\ ring_fd = -1 /\ enter_ring_fd = -1 /\ reg_ring = FALSE /\ reg_reg_ring = FALSE
  /\ alive = FALSE /\ call = "none" /\ ret = 0 /\ target = "none"

Returns(c, r, t) == call' = c /\ ret' = r /\ target' = t
-----------------------------------------------------------------------------
(* Set-up and teardown *)

\* The end of __io_uring_queue_init_params, with IORING_SETUP_REGISTERED_FD_ONLY or not
QueueInit(fdOnly) ==
  /\ ~alive /\ alive' = TRUE
  /\ reg_ring' = fdOnly /\ reg_reg_ring' = fdOnly
  /\ \/ /\ fdOnly
        /\ \E n \in Free(indices) : indices' = [indices EXCEPT ![n] = "ring"] /\ enter_ring_fd' = n
        /\ ring_fd' = -1
        /\ UNCHANGED fds
     \/ /\ ~fdOnly
        /\ \E n \in Free(fds) : fds' = [fds EXCEPT ![n] = "ring"] /\ enter_ring_fd' = n
        /\ ring_fd' = enter_ring_fd'
        /\ UNCHANGED indices
  /\ Returns("queue_init", 0, "ring")

\* The kernel drops the index up.offset of IORING_UNREGISTER_RING_FDS.
Unregistered == [n \in DOMAIN indices |-> IF n = enter_ring_fd THEN "none" ELSE indices[n]]

\* Plausible bug: the registered index is kept.
QueueExit_KeepsIndex ==
  /\ alive /\ alive' = FALSE
  /\ fds' = [n \in DOMAIN fds |-> IF n = ring_fd THEN "none" ELSE fds[n]]
  /\ Returns("queue_exit", 0, IF reg_ring THEN RegisterTarget ELSE Lookup(fds, ring_fd))
  /\ UNCHANGED <<indices, fdVars>>

\* The end of io_uring_queue_exit: io_uring_unregister_ring_fd, then close.
QueueExit ==
  /\ alive /\ alive' = FALSE
  /\ IF reg_ring /\ RegisterTarget = "ring"
     THEN /\ indices' = Unregistered
          /\ enter_ring_fd' = ring_fd /\ reg_ring' = FALSE /\ reg_reg_ring' = FALSE
     ELSE UNCHANGED <<indices, enter_ring_fd, reg_ring, reg_reg_ring>>
  /\ fds' = [n \in DOMAIN fds |-> IF n = ring_fd THEN "none" ELSE fds[n]]
  /\ Returns("queue_exit", 0, IF reg_ring THEN RegisterTarget ELSE Lookup(fds, ring_fd))
  /\ UNCHANGED ring_fd
-----------------------------------------------------------------------------
(* Registering and closing the descriptor *)

RegisterRingFd ==
  /\ alive
  /\ \/ /\ reg_ring
        /\ Returns("register_ring_fd", EEXIST, "none")
        /\ UNCHANGED <<indices, enter_ring_fd, reg_ring, reg_reg_ring>>
     \/ /\ ~reg_ring /\ (RegisterTarget # "ring" \/ Free(indices) = {})
        /\ Returns("register_ring_fd", IF RegisterTarget = "ring" THEN EBUSY ELSE EBADF, RegisterTarget)
        /\ UNCHANGED <<indices, enter_ring_fd, reg_ring, reg_reg_ring>>
     \/ /\ ~reg_ring /\ RegisterTarget = "ring"
        /\ \E n \in Free(indices) : indices' = [indices EXCEPT ![n] = "ring"] /\ enter_ring_fd' = n
        /\ reg_ring' = TRUE /\ reg_reg_ring' = RegRegRing
        /\ Returns("register_ring_fd", 1, "ring")
  /\ UNCHANGED <<fds, ring_fd, alive>>

\* Plausible bug: enter_ring_fd keeps the index.
UnregisterRingFd_KeepsIndex ==
  /\ alive /\ reg_ring /\ RegisterTarget = "ring"
  /\ indices' = Unregistered
  /\ reg_ring' = FALSE /\ reg_reg_ring' = FALSE
  /\ Returns("unregister_ring_fd", 1, "ring")
  /\ UNCHANGED <<fds, ring_fd, enter_ring_fd, alive>>

UnregisterRingFd ==
  /\ alive
  /\ \/ /\ ~reg_ring
        /\ Returns("unregister_ring_fd", EINVAL, "none")
        /\ UNCHANGED <<indices, enter_ring_fd, reg_ring, reg_reg_ring>>
     \/ /\ reg_ring /\ RegisterTarget = "ring"
        /\ indices' = Unregistered
        /\ enter_ring_fd' = ring_fd /\ reg_ring' = FALSE /\ reg_reg_ring' = FALSE
        /\ Returns("unregister_ring_fd", 1, "ring")
  /\ UNCHANGED <<fds, ring_fd, alive>>

\* Plausible bug: ring_fd is not reset.
CloseRingFd_KeepsFd ==
  /\ alive /\ RegRegRing /\ reg_ring /\ ring_fd # -1
  /\ fds' = [fds EXCEPT ![ring_fd] = "none"]
  /\ Returns("close_ring_fd", 1, "ring")
  /\ UNCHANGED <<indices, fdVars, alive>>

CloseRingFd ==
  /\ alive
  /\ \/ /\ ~RegRegRing \/ ~reg_ring \/ ring_fd = -1
        /\ Returns("close_ring_fd",
                   IF ~RegRegRing THEN EOPNOTSUPP ELSE IF ~reg_ring THEN EINVAL ELSE EBADF, "none")
        /\ UNCHANGED <<fds, ring_fd>>
     \/ /\ RegRegRing /\ reg_ring /\ ring_fd # -1
        /\ fds' = [fds EXCEPT ![ring_fd] = "none"]
        /\ ring_fd' = -1
        /\ Returns("close_ring_fd", 1, Lookup(fds, ring_fd))
  /\ UNCHANGED <<indices, enter_ring_fd, reg_ring, reg_reg_ring, alive>>
-----------------------------------------------------------------------------
(* The other calls, which only use the names *)

Enter == alive /\ Returns("enter", 0, EnterTarget) /\ UNCHANGED <<fds, indices, fdVars, alive>>

Register == alive /\ Returns("register", 0, RegisterTarget) /\ UNCHANGED <<fds, indices, fdVars, alive>>

RegisterNapi == alive /\ Returns("napi", 0, NapiTarget) /\ UNCHANGED <<fds, indices, fdVars, alive>>

\* The rest of the process opens and closes descriptors and rings of its own.
Others ==
  /\ \/ /\ \E n \in Fds : \/ fds[n] = "none" /\ fds' = [fds EXCEPT ![n] = "other"]
                          \/ fds[n] = "other" /\ fds' = [fds EXCEPT ![n] = "none"]
        /\ UNCHANGED indices
     \/ /\ \E n \in Indices : \/ indices[n] = "none" /\ indices' = [indices EXCEPT ![n] = "other"]
                              \/ indices[n] = "other" /\ indices' = [indices EXCEPT ![n] = "none"]
        /\ UNCHANGED fds
  /\ UNCHANGED <<fdVars, alive, call, ret, target>>
-----------------------------------------------------------------------------
Next ==
  \/ \E fdOnly \in FdOnly : QueueInit(fdOnly)
  \/ QueueExit \/ RegisterRingFd \/ UnregisterRingFd \/ CloseRingFd
  \/ Enter \/ Register \/ RegisterNapi \/ Others

Spec == Init /\ [][Next]_vars
-----------------------------------------------------------------------------
(* Properties *)

Names(table) == {n \in DOMAIN table : table[n] = "ring"}

\* Every variable holds a value of its type.
TypeOK ==
  /\ fds \in [Fds -> {"ring", "other", "none"}]
  /\ indices \in [Indices -> {"ring", "other", "none"}]
  /\ ring_fd \in Fds \cup {-1} /\ enter_ring_fd \in Fds \cup Indices \cup {-1}
  /\ reg_ring \in BOOLEAN /\ reg_reg_ring \in BOOLEAN /\ alive \in BOOLEAN
  /\ target \in {"ring", "other", "none"}

(* No call ever reaches a file or a ring that is not this one, whatever    *)
(* numbers were reused in between.                                         *)
NeverAnotherFile == target # "other" /\ (alive => "other" \notin {EnterTarget, RegisterTarget, NapiTarget})

(* As long as the kernel holds the ring under some name, the enter calls   *)
(* and do_register reach it.                                               *)
Reachable ==
  alive /\ (Names(fds) # {} \/ Names(indices) # {}) =>
    EnterTarget = "ring" /\ RegisterTarget = "ring"

(* io_uring_queue_exit leaves no descriptor and no registered index of the *)
(* ring behind, in whatever order it was registered and closed.            *)
NothingLeft == ~alive => Names(fds) = {} /\ Names(indices) = {}
=============================================================================
