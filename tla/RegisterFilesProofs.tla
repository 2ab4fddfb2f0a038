------------------------ MODULE RegisterFilesProofs ------------------------
(* RaiseSuffices for any number of threads, tables and limits. *)
EXTENDS RegisterFiles, TLAPS

TypeInv ==
  /\ rlim_cur \in Nat /\ rlim_max \in Nat
  /\ pc \in [Threads -> {"idle", "register", "getrlimit", "setrlimit"}]
  /\ nr \in [Threads -> Nat]
  /\ did_increase \in [Threads -> BOOLEAN]
  /\ seen \in [Threads -> Nat \cup {Unread}]
  /\ ret \in [Threads -> {0, EBUSY, EMFILE}]
  /\ lowered \in [Threads -> BOOLEAN]

Excused(t) == seen[t] = Unread \/ seen[t] + nr[t] > rlim_max \/ lowered[t]

(* What makes RaiseSuffices inductive: between its getrlimit and its       *)
(* setrlimit a thread has a limit it read, and when it is back at the      *)
(* registration the table fits or there is an excuse.                      *)
RetryInv ==
  \A t \in Threads :
    /\ pc[t] \in {"getrlimit", "setrlimit"} => did_increase[t]
    /\ pc[t] = "setrlimit" => seen[t] # Unread
    /\ pc[t] = "register" /\ did_increase[t] => nr[t] <= rlim_cur \/ Excused(t)

Inv == TypeInv /\ RetryInv /\ RaiseSuffices

LEMMA InitInv == Init => Inv
<1> SUFFICES ASSUME Init PROVE Inv
  OBVIOUS
<1>1. did_increase \in [Threads -> BOOLEAN] /\ lowered \in [Threads -> BOOLEAN]
  BY Zenon DEF Init
<1>2. TypeInv
  BY <1>1, RegisterAssumption DEF Init, TypeInv, Unread
<1>3. RetryInv
  BY DEF Init, RetryInv
<1>4. RaiseSuffices
  BY DEF Init, RaiseSuffices, EMFILE
<1> QED BY <1>2, <1>3, <1>4 DEF Inv

LEMMA CallInv == ASSUME Inv, NEW t \in Threads, NEW n \in Tables, Call(t, n) PROVE Inv'
BY RegisterAssumption DEF Call, Inv, TypeInv, RetryInv, RaiseSuffices, Excused, Unread, EMFILE, EBUSY

LEMMA DoRegisterInv == ASSUME Inv, NEW t \in Threads, DoRegister(t) PROVE Inv'
<1>1. PICK res \in KRegister(nr[t]) :
        \/ /\ Retries(t, res)
           /\ pc' = [pc EXCEPT ![t] = "getrlimit"]
           /\ did_increase' = [did_increase EXCEPT ![t] = TRUE]
           /\ UNCHANGED ret
        \/ /\ ~Retries(t, res)
           /\ pc' = [pc EXCEPT ![t] = "idle"]
           /\ ret' = [ret EXCEPT ![t] = res]
           /\ UNCHANGED did_increase
  BY DEF DoRegister
<1>2. res \in {0, EBUSY, EMFILE} /\ (res = EMFILE => nr[t] > rlim_cur)
  BY DEF KRegister, EMFILE, EBUSY
<1>3. TypeInv'
  BY <1>1, <1>2 DEF DoRegister, Inv, TypeInv, Retries
<1>4. RetryInv'
  BY <1>1, <1>2 DEF DoRegister, Inv, TypeInv, RetryInv, Excused, Retries
<1>5. RaiseSuffices'
  BY <1>1, <1>2 DEF DoRegister, Inv, TypeInv, RetryInv, RaiseSuffices, Excused, Retries, Unread, EMFILE, EBUSY
<1> QED BY <1>3, <1>4, <1>5 DEF Inv

LEMMA RlimitReadInv ==
  ASSUME Inv, NEW t \in Threads, GetRlimitFails(t) \/ GetRlimit(t)
  PROVE  Inv'
<1>1. CASE GetRlimitFails(t)
  BY <1>1 DEF GetRlimitFails, Inv, TypeInv, RetryInv, RaiseSuffices, Excused, Unread, EMFILE, EBUSY
<1>2. CASE GetRlimit(t)
  BY <1>2 DEF GetRlimit, Inv, TypeInv, RetryInv, RaiseSuffices, Excused, Unread, EMFILE, EBUSY
<1> QED BY <1>1, <1>2

LEMMA SetRlimitInv == ASSUME Inv, NEW t \in Threads, SetRlimit(t) PROVE Inv'
<1>1. TypeInv'
  BY DEF SetRlimit, Raised, Inv, TypeInv, RetryInv, Unread
<1>2. \A u \in Threads : lowered[u] => lowered'[u]
  BY DEF SetRlimit
<1>3. \A u \in Threads \ {t} : lowered'[u] \/ rlim_cur <= rlim_cur'
  <2> SUFFICES ASSUME NEW u \in Threads \ {t}, rlim_cur' < rlim_cur PROVE lowered'[u]
    BY <1>1 DEF Inv, TypeInv
  <2> QED BY Zenon DEF SetRlimit
<1>4. RetryInv'
  BY <1>1, <1>2, <1>3 DEF SetRlimit, Raised, Inv, TypeInv, RetryInv, Excused, Unread
<1>5. RaiseSuffices'
  BY <1>1, <1>2 DEF SetRlimit, Inv, TypeInv, RaiseSuffices
<1> QED BY <1>1, <1>4, <1>5 DEF Inv

(* Whatever the number of threads that register tables at the same time,   *)
(* io_uring_register_files returns -EMFILE only after one retry, and only  *)
(* when the limit could not be read or raised or was lowered meanwhile.    *)
THEOREM RaiseSufficesAlways == Spec => []RaiseSuffices
<1>1. Inv /\ [Next]_vars => Inv'
  <2> SUFFICES ASSUME Inv, [Next]_vars PROVE Inv'
    OBVIOUS
  <2>1. CASE UNCHANGED vars
    BY <2>1 DEF vars, Inv, TypeInv, RetryInv, RaiseSuffices, Excused
  <2>2. CASE Next
    BY <2>2, CallInv, DoRegisterInv, RlimitReadInv, SetRlimitInv DEF Next, Step
  <2> QED BY <2>1, <2>2
<1>2. Inv => RaiseSuffices
  BY DEF Inv
<1> QED BY <1>1, <1>2, InitInv, PTL DEF Spec
=============================================================================
