--------------------------- MODULE RegisterFiles ---------------------------
(* Registering a file table: io_uring_register_files, _tags and _sparse.   *)
(* The kernel refuses a table larger than RLIMIT_NOFILE with -EMFILE; the  *)
(* three functions then raise the soft limit once and try again.  The      *)
(* limit belongs to the process, and the read and the write of             *)
(* increase_rlimit_nofile are two system calls, so threads that register   *)
(* the tables of different rings meet here.                                *)
EXTENDS Integers

CONSTANTS Threads, Tables, Limits
(* The threads, the numbers of files they register, and the values the two *)
(* limits may start with.                                                  *)

ASSUME RegisterAssumption == Tables \subseteq Nat /\ Limits \subseteq Nat

VARIABLES rlim_cur,     \* soft limit of the process
          rlim_max,     \* hard limit
          pc,           \* where each thread is
          nr,           \* the number of files of its call
          did_increase, \* it has been to increase_rlimit_nofile
          seen,         \* the soft limit it read there, or Unread
          ret,          \* result of its last call
          lowered       \* another thread lowered the limit after that read

vars == <<rlim_cur, rlim_max, pc, nr, did_increase, seen, ret, lowered>>

EMFILE == -24
EBUSY == -16    \* for every other error of the kernel
Unread == -1

Init ==
  /\ rlim_max \in Limits /\ rlim_cur \in {l \in Limits : l <= rlim_max}
  /\ pc = [t \in Threads |-> "idle"]
  /\ nr \in [Threads -> Tables]
  /\ did_increase = [t \in Threads |-> FALSE]
  /\ seen = [t \in Threads |-> Unread]
  /\ ret = [t \in Threads |-> 0]
  /\ lowered = [t \in Threads |-> FALSE]

Call(t, n) ==
  /\ pc[t] = "idle"
  /\ pc' = [pc EXCEPT ![t] = "register"]
  /\ nr' = [nr EXCEPT ![t] = n]
  /\ did_increase' = [did_increase EXCEPT ![t] = FALSE]
  /\ UNCHANGED <<rlim_cur, rlim_max, seen, ret, lowered>>

KRegister(n) == IF n > rlim_cur THEN {EMFILE} ELSE {0, EBUSY}

\* Plausible bug: the flag is not tested.
Retries_Always(t, res) == res = EMFILE
Retries(t, res) == res = EMFILE /\ ~did_increase[t]

DoRegister(t) ==
  /\ pc[t] = "register"
  /\ \E res \in KRegister(nr[t]) :
       \/ /\ Retries(t, res)
          /\ pc' = [pc EXCEPT ![t] = "getrlimit"]
          /\ did_increase' = [did_increase EXCEPT ![t] = TRUE]
          /\ UNCHANGED ret
       \/ /\ ~Retries(t, res)
          /\ pc' = [pc EXCEPT ![t] = "idle"]
          /\ ret' = [ret EXCEPT ![t] = res]
          /\ UNCHANGED did_increase
  /\ UNCHANGED <<rlim_cur, rlim_max, nr, seen, lowered>>

\* getrlimit fails: increase_rlimit_nofile returns, its result is ignored.
GetRlimitFails(t) ==
  /\ pc[t] = "getrlimit"
  /\ pc' = [pc EXCEPT ![t] = "register"]
  /\ seen' = [seen EXCEPT ![t] = Unread]
  /\ UNCHANGED <<rlim_cur, rlim_max, nr, did_increase, ret, lowered>>

GetRlimit(t) ==
  /\ pc[t] = "getrlimit"
  /\ seen' = [seen EXCEPT ![t] = rlim_cur]
  /\ lowered' = [lowered EXCEPT ![t] = FALSE]
  /\ pc' = [pc EXCEPT ![t] = IF rlim_cur < nr[t] THEN "setrlimit" ELSE "register"]
  /\ UNCHANGED <<rlim_cur, rlim_max, nr, did_increase, ret>>

\* Plausible bug: the limit becomes what was missing.
Raised_Missing(t) == nr[t] - seen[t]
Raised(t) == seen[t] + nr[t]

(* Above the hard limit setrlimit fails, which nobody looks at.  It sets   *)
(* what was read plus nr, whatever the limit has become since.             *)
SetRlimit(t) ==
  /\ pc[t] = "setrlimit"
  /\ rlim_cur' = IF Raised(t) <= rlim_max THEN Raised(t) ELSE rlim_cur
  /\ lowered' = [u \in Threads |-> lowered[u] \/ (u # t /\ rlim_cur' < rlim_cur)]
  /\ pc' = [pc EXCEPT ![t] = "register"]
  /\ UNCHANGED <<rlim_max, nr, did_increase, seen, ret>>

Step(t) == DoRegister(t) \/ GetRlimitFails(t) \/ GetRlimit(t) \/ SetRlimit(t)

Next == \E t \in Threads : Step(t) \/ \E n \in Tables : Call(t, n)

Spec == Init /\ [][Next]_vars

\* A call that was made runs on.
FairSpec == Spec /\ \A t \in Threads : WF_vars(Step(t))
-----------------------------------------------------------------------------
(* Properties *)

(* -EMFILE reaches the caller only after a retry, and only if the limit    *)
(* could not be read, the raise went over the hard limit, or another       *)
(* thread's stale raise took the limit back down in between: without       *)
(* those, raising once is enough, though other threads raise it too.       *)
RaiseSuffices ==
  \A t \in Threads :
    pc[t] = "idle" /\ ret[t] = EMFILE =>
      /\ did_increase[t]
      /\ seen[t] = Unread \/ seen[t] + nr[t] > rlim_max \/ lowered[t]

(* Every call returns, whatever the limits and the other threads: the      *)
(* retry is taken once.                                                    *)
CallReturns == \A t \in Threads : pc[t] # "idle" ~> pc[t] = "idle"
=============================================================================
