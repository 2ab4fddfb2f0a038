-------------------------- MODULE CompletionQueue --------------------------
(***************************************************************************)
(* The completion side of a ring: struct io_uring_cq, reaping with         *)
(* io_uring_peek_batch_cqe or io_uring_for_each_cqe, io_uring_cq_advance,  *)
(* and the kernel that posts.  The kernel keeps what does not fit into a   *)
(* full ring in a backlog and raises IORING_SQ_CQ_OVERFLOW; completions    *)
(* that need the task to run raise IORING_SQ_TASKRUN.  Both are handled    *)
(* only by an io_uring_enter(2) with IORING_ENTER_GETEVENTS.               *)
(***************************************************************************)
EXTENDS RingIndex, Sequences

CONSTANTS
  Stride,     \* 1 << shift: a CQE takes two array elements with CQE32
  Vals,       \* what a CQE can say
  None,       \* an element never written
  MaxPending, \* bound: completions in the backlog or waiting for the task to run
  MaxWork     \* bound: completions waiting for the task to run

ASSUME CqAssumption ==
  /\ Stride \in {1, 2}
  /\ None \notin Vals
  /\ MaxPending \in Nat /\ MaxWork \in Nat

VARIABLES
  cqes,      \* the CQE array
  khead,     \* *cq->khead
  ktail,     \* *cq->ktail
  cached,    \* the kernel's own tail, ahead of *ktail
  backlog,   \* the kernel's overflow list
  overflow,  \* *sq->kflags & IORING_SQ_CQ_OVERFLOW
  work,      \* completions waiting for the task to run
  taskrun,   \* *sq->kflags & IORING_SQ_TASKRUN
  pc,        \* where the application is
  count,     \* io_uring_peek_batch_cqe's count
  checked,   \* io_uring_peek_batch_cqe's overflow_checked
  ret,       \* what it returned last
  quota,     \* completions the running io_uring_enter(2) still has to post
  held,      \* indices of the CQEs the application has pointers to
  out,       \* what it read from the CQEs it gave back last
  missed     \* since the running call began, something was always pending

ringVars == <<cqes, khead, ktail, cached>>
pendVars == <<backlog, overflow, work, taskrun>>
callVars == <<pc, count, checked, ret, quota>>
appVars == <<held, out>>
vars == <<ringVars, pendVars, callVars, appVars, missed>>

Elements == 0 .. Entries * Stride - 1

\* Plausible bug: the shift of CQE32 rings is forgotten.
Slot_NoShift(i) == Mask(i)

\* &cq->cqes[io_uring_cqe_index(ring, index, ring_mask)]
Slot(i) == Mask(i) * Stride

\* where the kernel writes the CQE of its tail
KSlot(i) == (i % Entries) * Stride

\* io_uring_cq_ready
CqReady == Sub(ktail, khead)

\* Plausible bugs: one of the two flags is forgotten.
NeedsFlush_OverflowOnly == overflow

NeedsFlush_TaskrunOnly == taskrun

\* cq_ring_needs_flush
NeedsFlush == overflow \/ taskrun

\* There is something to reap.
Pending == ktail # khead \/ overflow \/ taskrun

Init ==
  /\ cqes = [e \in Elements |-> None]
  /\ khead = 0 /\ ktail = 0 /\ cached = 0
  /\ backlog = <<>> /\ overflow = FALSE
  /\ work = <<>> /\ taskrun = FALSE
  /\ pc = "idle" /\ count = 0 /\ checked = FALSE /\ ret = 0 /\ quota = 0
  /\ held = {} /\ out = <<>>
  /\ missed = FALSE

\* In every step but the first of a call.
Observe == missed' = (missed /\ Pending')
-----------------------------------------------------------------------------
(* The kernel. *)

RoomInRing == backlog = <<>> /\ Sub(cached, khead) < Entries

\* Post v: into the ring, or behind a backlog or a full ring.
KPost(v) ==
  \/ /\ RoomInRing
     /\ cqes' = [cqes EXCEPT ![KSlot(cached)] = v]
     /\ cached' = Add(cached, 1)
     /\ UNCHANGED <<backlog, overflow>>
  \/ /\ ~RoomInRing
     /\ backlog' = Append(backlog, v)
     /\ overflow' = TRUE
     /\ UNCHANGED <<cqes, cached>>

\* A request completes outside of the application's task, ...
KComplete(v) ==
  /\ RoomInRing \/ Len(backlog) + Len(work) < MaxPending
  /\ KPost(v)
  /\ UNCHANGED <<khead, ktail, work, taskrun, callVars, appVars>>
  /\ Observe

\* ... and its CQE becomes visible; ...
KCommit ==
  /\ ktail # cached
  /\ ktail' = cached
  /\ UNCHANGED <<cqes, khead, cached, pendVars, callVars, appVars>>
  /\ Observe

\* ... or it leaves work to the task.
KWork(v) ==
  /\ Len(backlog) + Len(work) < MaxPending /\ Len(work) < MaxWork
  /\ work' = Append(work, v)
  /\ taskrun' = TRUE
  /\ UNCHANGED <<ringVars, backlog, overflow, callVars, appVars>>
  /\ Observe

\* Inside io_uring_enter(2): run what was left to the task when it entered, ...
KRunWork ==
  /\ pc = "get_events" /\ quota > 0
  /\ KPost(Head(work))
  /\ work' = Tail(work)
  /\ taskrun' = (Tail(work) # <<>>)
  /\ quota' = quota - 1
  /\ UNCHANGED <<khead, ktail, pc, count, checked, ret, appVars>>
  /\ Observe

Smaller(m, n) == IF m < n THEN m ELSE n

\* ... then refill the ring from the backlog and return.
KFlush ==
  /\ pc = "get_events" /\ quota = 0
  /\ LET n == Smaller(Entries - Sub(cached, khead), Len(backlog)) IN
       /\ cqes' = [e \in Elements |->
                     IF \E k \in 1 .. n : e = KSlot(Add(cached, k - 1))
                     THEN backlog[CHOOSE k \in 1 .. n : e = KSlot(Add(cached, k - 1))]
                     ELSE cqes[e]]
       /\ cached' = Add(cached, n)
       /\ ktail' = cached'
       /\ backlog' = SubSeq(backlog, n + 1, Len(backlog))
       /\ overflow' = (backlog' # <<>>)
  /\ checked' = TRUE
  /\ pc' = "peek"
  /\ UNCHANGED <<khead, work, taskrun, count, ret, quota, appVars>>
  /\ Observe
-----------------------------------------------------------------------------
(* The application: io_uring_peek_batch_cqe *)

PeekBatch(n) ==
  /\ pc = "idle"
  /\ pc' = "peek"
  /\ count' = n
  /\ checked' = FALSE
  /\ missed' = Pending
  /\ UNCHANGED <<ringVars, pendVars, ret, quota, appVars>>

\* Plausible bug: count is not clamped to what is ready.
PeekReady_NoClamp ==
  /\ pc = "peek" /\ CqReady # 0
  /\ ret' = count
  /\ held' = held \cup Window(khead, Add(khead, ret'))
  /\ pc' = "idle"
  /\ UNCHANGED <<ringVars, pendVars, count, checked, quota, out>>
  /\ Observe

PeekReady ==
  /\ pc = "peek" /\ CqReady # 0
  /\ ret' = Smaller(count, CqReady)
  /\ held' = held \cup Window(khead, Add(khead, ret'))
  /\ pc' = "idle"
  /\ UNCHANGED <<ringVars, pendVars, count, checked, quota, out>>
  /\ Observe

PeekEmpty ==
  /\ pc = "peek" /\ CqReady = 0
  /\ pc' = IF checked THEN "idle" ELSE "check_flush"
  /\ ret' = 0
  /\ UNCHANGED <<ringVars, pendVars, count, checked, quota, appVars>>
  /\ Observe

\* Either io_uring_get_events enters the kernel, or the call returns 0.
PeekFlush ==
  /\ pc = "check_flush"
  /\ pc' = IF NeedsFlush THEN "get_events" ELSE "idle"
  /\ quota' = IF NeedsFlush THEN Len(work) ELSE quota
  /\ UNCHANGED <<ringVars, pendVars, count, checked, ret, appVars>>
  /\ Observe
-----------------------------------------------------------------------------
(* The application: io_uring_for_each_cqe, io_uring_cq_advance *)

\* The loop reaches the CQE after the ones it has.
ForEachCqe ==
  /\ pc = "idle"
  /\ \E i \in Idx :
       /\ held = Window(khead, i) /\ i # ktail /\ Sub(i, khead) < CqReady
       /\ held' = held \cup {i}
  /\ UNCHANGED <<ringVars, pendVars, callVars, out>>
  /\ Observe

\* Plausible bug: the head is moved to the tail instead of by nr.
CqAdvance_ToTail(nr) ==
  /\ pc = "idle"
  /\ Window(khead, Add(khead, nr)) \subseteq held
  /\ out' = [k \in 1 .. nr |-> cqes[Slot(Add(khead, k - 1))]]
  /\ khead' = ktail
  /\ held' = held \ Window(khead, Add(khead, nr))
  /\ UNCHANGED <<cqes, ktail, cached, pendVars, callVars>>
  /\ Observe

\* The application has read the CQEs it gives back; io_uring_cqe_seen is nr = 1.
CqAdvance(nr) ==
  /\ pc = "idle"
  /\ Window(khead, Add(khead, nr)) \subseteq held
  /\ out' = [k \in 1 .. nr |-> cqes[Slot(Add(khead, k - 1))]]
  /\ khead' = Add(khead, nr)
  /\ held' = held \ Window(khead, Add(khead, nr))
  /\ UNCHANGED <<cqes, ktail, cached, pendVars, callVars>>
  /\ Observe
-----------------------------------------------------------------------------
KernelSteps == KCommit \/ KRunWork \/ KFlush

CallSteps == PeekReady \/ PeekEmpty \/ PeekFlush

Next ==
  \/ \E v \in Vals : KComplete(v) \/ KWork(v)
  \/ KernelSteps
  \/ \E n \in 1 .. Entries : PeekBatch(n)
  \/ CallSteps
  \/ ForEachCqe
  \/ \E nr \in 1 .. Entries : CqAdvance(nr)

Spec == Init /\ [][Next]_vars

(* An application that keeps reaping: it calls io_uring_peek_batch_cqe for *)
(* ever and gives back what it got.  Calls and the kernel run on; nothing  *)
(* makes a request complete.                                               *)
Reaping ==
  /\ WF_vars(KCommit) /\ WF_vars(KRunWork) /\ WF_vars(KFlush)
  /\ WF_vars(CallSteps)
  /\ WF_vars(held = {} /\ \E n \in 1 .. Entries : PeekBatch(n))
  /\ SF_vars(\E nr \in 1 .. Entries : CqAdvance(nr))

ReapingSpec == Spec /\ Reaping
-----------------------------------------------------------------------------
(* Properties *)

(* The CQEs the application has pointers to are visible ones it has not    *)
(* given back, so at most a ring of them.                                  *)
HeldAreVisible == held \subseteq Window(khead, ktail) /\ Sub(cached, khead) <= Entries

(* The kernel never overwrites a CQE between the call that returned its    *)
(* address and the io_uring_cq_advance that gives it back: the application *)
(* may use it in place.                                                    *)
HeldStable == [][\A i \in held : i \in held' => cqes'[Slot(i)] = cqes[Slot(i)]]_vars

(* io_uring_peek_batch_cqe returns 0 only if at some instant of the call   *)
(* there was nothing to reap: no CQE in the ring, none overflowed, none    *)
(* waiting for the task to run.                                            *)
ZeroMeansNothing == pc = "idle" /\ ret = 0 => ~missed

Queue == INSTANCE Fifo WITH
  Cap <- Entries + MaxPending,
  fifo <- [k \in 1 .. Sub(cached, khead) |-> cqes[KSlot(Add(khead, k - 1))]] \o backlog,
  visible <- CqReady

(* Every posted completion reaches the application once, in the order of   *)
(* posting, whether or not it went through the backlog.                    *)
ReapsInOrder == Queue!Spec

In(v, s) == \E k \in DOMAIN s : s[k] = v

(* To an application that keeps reaping, what overflowed is delivered: no  *)
(* CQE enters the ring before it, so the ring runs empty and               *)
(* io_uring_peek_batch_cqe enters the kernel.  What waits for the task is  *)
(* delivered if the application catches up again and again: as long as     *)
(* each call finds a CQE in the ring, none of them enters the kernel.      *)
BacklogIsDelivered ==
  \A v \in Vals :
    /\ In(v, backlog) ~> In(v, out)
    /\ []<>(pc = "check_flush") => (In(v, work) ~> In(v, out))
=============================================================================
