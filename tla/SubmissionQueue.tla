-------------------------- MODULE SubmissionQueue --------------------------
(***************************************************************************)
(* The submission side of a ring: struct io_uring_sq, get_sqe, flushing    *)
(* and submitting, and the kernel that consumes what was flushed.          *)
(*                                                                         *)
(* Two threads run concurrently when the ring uses IORING_SETUP_SQPOLL:    *)
(* the submitter and the kernel's SQ thread.  Without SQPOLL the kernel    *)
(* consumes inside the submitter's own io_uring_enter(2).                  *)
(*                                                                         *)
(* The submitter's plain and relaxed stores reach memory late and in any   *)
(* order (sqeBuf, tailBuf); a release store reaches it after every store   *)
(* before it, and io_uring_smp_mb() waits until all of them have.          *)
(***************************************************************************)
EXTENDS RingIndex

CONSTANTS
  SqPoll,  \* ring->flags & IORING_SETUP_SQPOLL
  Stride,  \* 1 << shift: an SQE takes two array elements with SQE128
  Reqs,    \* what the application may write into an SQE
  None     \* no request

ASSUME SqAssumption ==
  /\ SqPoll \in BOOLEAN
  /\ Stride \in {1, 2}
  /\ None \notin Reqs
  /\ None \notin Idx

VARIABLES
  sqe_head, sqe_tail,  \* library-private indices
  sqes,                \* the SQE array as other CPUs see it
  sqeBuf,              \* SQE stores that have not reached memory
  tailBuf,             \* store to *ktail that has not, None if there is none
  ktail,               \* *sq->ktail
  khead,               \* *sq->khead
  needWakeup,          \* *sq->kflags & IORING_SQ_NEED_WAKEUP
  pc,                  \* where the submitter is
  head,                \* the value of *khead the submitter saw last
  submitted,           \* what __io_uring_flush_sq returned, less what was taken
  cqNeedsEnter,        \* getevents || wait_nr || cq_ring_needs_enter(ring)
  wake,                \* flags & IORING_ENTER_SQ_WAKEUP
  kpc,                 \* where the SQ thread is
  cached,              \* the kernel's own head, ahead of *khead
  taken                \* the request the kernel read last

libVars == <<sqe_head, sqe_tail>>
memVars == <<sqes, sqeBuf, tailBuf, ktail>>
subVars == <<pc, head, submitted, cqNeedsEnter, wake>>
kernVars == <<khead, needWakeup, kpc, cached, taken>>
vars == <<libVars, memVars, subVars, kernVars>>

Elements == 0 .. Entries * Stride - 1

\* Plausible bug: the shift of SQE128 rings is forgotten.
Slot_NoShift(i) == Mask(i)

\* &sq->sqes[(index & ring_mask) << shift]
Slot(i) == Mask(i) * Stride

\* where the kernel reads the SQE of its head
KSlot(i) == (i % Entries) * Stride

NoStores == [e \in Elements |-> None]

Init ==
  /\ sqe_head = 0 /\ sqe_tail = 0
  /\ sqes = NoStores /\ sqeBuf = NoStores /\ tailBuf = None
  /\ ktail = 0 /\ khead = 0 /\ needWakeup = FALSE
  /\ pc = "idle" /\ head = 0 /\ submitted = 0
  /\ cqNeedsEnter = FALSE /\ wake = FALSE
  /\ kpc = "poll" /\ cached = 0 /\ taken = None
-----------------------------------------------------------------------------
(* The submitter: _io_uring_get_sqe and the application's prep call. *)

GetSqeLoad ==
  /\ pc = "idle"
  /\ head' = khead
  /\ pc' = "get_sqe"
  /\ UNCHANGED <<libVars, memVars, submitted, cqNeedsEnter, wake, kernVars>>

\* Plausible bug: the bound is tested on the index before the new SQE.
GetSqeCheck_OffByOne ==
  /\ pc = "get_sqe"
  /\ \/ /\ Sub(sqe_tail, head) <= Entries
        /\ sqe_tail' = Add(sqe_tail, 1)
        /\ pc' = "fill"
     \/ /\ Sub(sqe_tail, head) > Entries
        /\ pc' = "idle"
        /\ UNCHANGED sqe_tail
  /\ UNCHANGED <<sqe_head, memVars, head, submitted, cqNeedsEnter, wake, kernVars>>

GetSqeCheck ==
  /\ pc = "get_sqe"
  /\ \/ /\ Sub(Add(sqe_tail, 1), head) <= Entries
        /\ sqe_tail' = Add(sqe_tail, 1)
        /\ pc' = "fill"
     \/ /\ Sub(Add(sqe_tail, 1), head) > Entries
        /\ pc' = "idle"
        /\ UNCHANGED sqe_tail
  /\ UNCHANGED <<sqe_head, memVars, head, submitted, cqNeedsEnter, wake, kernVars>>

\* The application fills in the SQE it was handed.
FillSqe(r) ==
  /\ pc = "fill"
  /\ sqeBuf' = [sqeBuf EXCEPT ![Slot(Sub(sqe_tail, 1))] = r]
  /\ pc' = "idle"
  /\ UNCHANGED <<libVars, sqes, tailBuf, ktail, head, submitted, cqNeedsEnter, wake, kernVars>>
-----------------------------------------------------------------------------
(* The submitter: __io_uring_flush_sq, __io_uring_submit. *)

\* Plausible bug: with nothing new to flush, report nothing to submit.
FlushSq_ReturnsEarly(needs) ==
  /\ pc = "idle"
  /\ sqe_head' = sqe_tail
  /\ \/ sqe_head # sqe_tail /\ tailBuf' = sqe_tail /\ pc' = "flush_sq" /\ UNCHANGED submitted
     \/ sqe_head = sqe_tail /\ submitted' = 0 /\ pc' = "needs_enter" /\ UNCHANGED tailBuf
  /\ cqNeedsEnter' = needs
  /\ wake' = FALSE
  /\ UNCHANGED <<sqe_tail, sqes, sqeBuf, ktail, head, kernVars>>

FlushSq(needs) ==
  /\ pc = "idle"
  /\ sqe_head' = sqe_tail
  /\ tailBuf' = IF sqe_head # sqe_tail THEN sqe_tail ELSE tailBuf
  /\ cqNeedsEnter' = needs
  /\ wake' = FALSE
  /\ pc' = "flush_sq"
  /\ UNCHANGED <<sqe_tail, sqes, sqeBuf, ktail, head, submitted, kernVars>>

\* What the plain load of *khead can give: the SQ thread stores to it all the
\* while, so any value from the one the submitter saw last to the current one.
HeadSeen == IF SqPoll THEN Window(head, khead) \cup {khead} ELSE {khead}

FlushLoad ==
  /\ pc = "flush_sq"
  /\ \E h \in HeadSeen :
       /\ head' = h
       /\ submitted' = Sub(sqe_tail, h)
  /\ pc' = "needs_enter"
  /\ UNCHANGED <<libVars, memVars, cqNeedsEnter, wake, kernVars>>

NothingToSubmit ==
  /\ pc = "needs_enter" /\ submitted = 0
  /\ pc' = IF cqNeedsEnter THEN "enter" ELSE "idle"
  /\ UNCHANGED <<libVars, memVars, head, submitted, cqNeedsEnter, wake, kernVars>>

MustEnter ==
  /\ pc = "needs_enter" /\ submitted # 0 /\ ~SqPoll
  /\ pc' = "enter"
  /\ UNCHANGED <<libVars, memVars, head, submitted, cqNeedsEnter, wake, kernVars>>

\* Plausible bug: no barrier between the tail store and the flags load.
Fence_NoBarrier ==
  /\ pc = "needs_enter" /\ submitted # 0 /\ SqPoll
  /\ pc' = "read_flags"
  /\ UNCHANGED <<libVars, memVars, head, submitted, cqNeedsEnter, wake, kernVars>>

\* io_uring_smp_mb() in sq_ring_needs_enter
Fence ==
  /\ pc = "needs_enter" /\ submitted # 0 /\ SqPoll
  /\ sqeBuf = NoStores /\ tailBuf = None
  /\ pc' = "read_flags"
  /\ UNCHANGED <<libVars, memVars, head, submitted, cqNeedsEnter, wake, kernVars>>

\* Plausible bug: the call enters without IORING_ENTER_SQ_WAKEUP.
ReadFlags_NoWake ==
  /\ pc = "read_flags"
  /\ pc' = IF needWakeup \/ cqNeedsEnter THEN "enter" ELSE "idle"
  /\ UNCHANGED <<libVars, memVars, head, submitted, cqNeedsEnter, wake, kernVars>>

ReadFlags ==
  /\ pc = "read_flags"
  /\ wake' = needWakeup
  /\ pc' = IF needWakeup \/ cqNeedsEnter THEN "enter" ELSE "idle"
  /\ UNCHANGED <<libVars, memVars, head, submitted, cqNeedsEnter, kernVars>>

\* __sys_io_uring_enter on an SQPOLL ring: it wakes the thread if asked to.
EnterSqPoll ==
  /\ pc = "enter" /\ SqPoll
  /\ kpc' = IF wake /\ kpc \in {"flagged", "asleep"} THEN "woken" ELSE kpc
  /\ pc' = "idle"
  /\ UNCHANGED <<libVars, memVars, head, submitted, cqNeedsEnter, wake,
                 khead, needWakeup, cached, taken>>

\* __sys_io_uring_enter otherwise: the task itself consumes, and sees its own stores.
EnterTask ==
  /\ pc = "enter" /\ ~SqPoll
  /\ sqes' = [e \in Elements |-> IF sqeBuf[e] # None THEN sqeBuf[e] ELSE sqes[e]]
  /\ sqeBuf' = NoStores
  /\ ktail' = IF tailBuf # None THEN tailBuf ELSE ktail
  /\ tailBuf' = None
  /\ pc' = "in_kernel"
  /\ UNCHANGED <<libVars, head, submitted, cqNeedsEnter, wake, kernVars>>
-----------------------------------------------------------------------------
(* io_uring_sq_ready, io_uring_sq_space_left, io_uring_sqring_wait *)

SqReady == Sub(sqe_tail, khead)

SqSpaceLeft == Entries - SqReady

\* It returns at once on a ring that is not SQPOLL or that has room.
SqringWait ==
  /\ pc = "idle" /\ SqPoll
  /\ SqSpaceLeft = 0
  /\ pc' = "sqring_wait"
  /\ UNCHANGED <<libVars, memVars, head, submitted, cqNeedsEnter, wake, kernVars>>
-----------------------------------------------------------------------------
(* The kernel. *)

\* Read one SQE: the SQ thread, or the task inside io_uring_enter(2).
KTake ==
  /\ \/ SqPoll /\ kpc = "poll"
     \/ ~SqPoll /\ pc = "in_kernel" /\ submitted > 0
  /\ cached # ktail
  /\ taken' = sqes[KSlot(cached)]
  /\ cached' = Add(cached, 1)
  /\ submitted' = IF SqPoll THEN submitted ELSE submitted - 1
  /\ UNCHANGED <<libVars, memVars, pc, head, cqNeedsEnter, wake, khead, needWakeup, kpc>>

\* The SQ thread gives the slots of a batch back.
KCommit ==
  /\ SqPoll /\ kpc = "poll" /\ khead # cached
  /\ khead' = cached
  /\ UNCHANGED <<libVars, memVars, subVars, needWakeup, kpc, cached, taken>>

\* io_uring_enter(2) returns, possibly short of what it was asked to submit.
KReturn ==
  /\ pc = "in_kernel"
  /\ khead' = cached
  /\ pc' = "idle"
  /\ UNCHANGED <<libVars, memVars, head, submitted, cqNeedsEnter, wake,
                 needWakeup, kpc, cached, taken>>

\* The SQ thread found nothing for sq_thread_idle: announce the sleep, ...
KIdle ==
  /\ SqPoll /\ kpc = "poll" /\ cached = ktail /\ khead = cached
  /\ needWakeup' = TRUE
  /\ kpc' = "flagged"
  /\ UNCHANGED <<libVars, memVars, subVars, khead, cached, taken>>

\* ... look once more, and sleep.
KRecheck ==
  /\ kpc = "flagged"
  /\ kpc' = IF cached # ktail THEN "woken" ELSE "asleep"
  /\ UNCHANGED <<libVars, memVars, subVars, khead, needWakeup, cached, taken>>

KResume ==
  /\ kpc = "woken"
  /\ needWakeup' = FALSE
  /\ kpc' = "poll"
  /\ UNCHANGED <<libVars, memVars, subVars, khead, cached, taken>>

\* The kernel lets a task waiting with IORING_ENTER_SQ_WAIT go.
KSpace ==
  /\ pc = "sqring_wait"
  /\ Sub(ktail, khead) < Entries
  /\ pc' = "idle"
  /\ UNCHANGED <<libVars, memVars, head, submitted, cqNeedsEnter, wake, kernVars>>
-----------------------------------------------------------------------------
(* Memory: the submitter's stores become visible. *)

CommitSqe(e) ==
  /\ sqeBuf[e] # None
  /\ sqes' = [sqes EXCEPT ![e] = sqeBuf[e]]
  /\ sqeBuf' = [sqeBuf EXCEPT ![e] = None]
  /\ UNCHANGED <<libVars, tailBuf, ktail, subVars, kernVars>>

\* Plausible bug: a relaxed store of the tail on an SQPOLL ring.
CommitTail_Relaxed ==
  /\ tailBuf # None
  /\ ktail' = tailBuf
  /\ tailBuf' = None
  /\ UNCHANGED <<libVars, sqes, sqeBuf, subVars, kernVars>>

\* io_uring_smp_store_release with SQPOLL, IO_URING_WRITE_ONCE without.
CommitTail ==
  /\ tailBuf # None
  /\ SqPoll => sqeBuf = NoStores
  /\ ktail' = tailBuf
  /\ tailBuf' = None
  /\ UNCHANGED <<libVars, sqes, sqeBuf, subVars, kernVars>>
-----------------------------------------------------------------------------
SubmitSteps ==
  FlushLoad \/ NothingToSubmit \/ MustEnter \/ Fence \/ ReadFlags \/ EnterSqPoll \/ EnterTask

Submitter ==
  \/ GetSqeLoad \/ GetSqeCheck \/ \E r \in Reqs : FillSqe(r)
  \/ \E needs \in BOOLEAN : FlushSq(needs)
  \/ SubmitSteps
  \/ SqringWait

Kernel == KTake \/ KCommit \/ KReturn \/ KIdle \/ KRecheck \/ KResume \/ KSpace

Memory == (\E e \in Elements : CommitSqe(e)) \/ CommitTail

Next == Submitter \/ Kernel \/ Memory

Spec == Init /\ [][Next]_vars

(* A call that was made runs on, the awake SQ thread works on what it sees, *)
(* stores reach memory.  Nothing makes the application call, and nothing    *)
(* makes the thread go to sleep.                                            *)
Fairness ==
  /\ WF_vars(SubmitSteps)
  /\ WF_vars(KTake /\ SqPoll) /\ WF_vars(KCommit) /\ WF_vars(KRecheck) /\ WF_vars(KResume)
  /\ WF_vars(KSpace)
  /\ WF_vars(Memory)

FairSpec == Spec /\ Fairness
-----------------------------------------------------------------------------
(* Properties *)

\* Every variable holds a value of its C type.
TypeOK ==
  /\ sqe_head \in Idx /\ sqe_tail \in Idx
  /\ sqes \in [Elements -> Reqs \cup {None}]
  /\ sqeBuf \in [Elements -> Reqs \cup {None}]
  /\ tailBuf \in Idx \cup {None}
  /\ ktail \in Idx /\ khead \in Idx /\ head \in Idx /\ cached \in Idx
  /\ needWakeup \in BOOLEAN /\ cqNeedsEnter \in BOOLEAN /\ wake \in BOOLEAN
  /\ pc \in {"idle", "get_sqe", "fill", "flush_sq", "needs_enter", "read_flags",
             "enter", "in_kernel", "sqring_wait"}
  /\ submitted \in Idx
  /\ kpc \in {"poll", "flagged", "asleep", "woken"}
  /\ taken \in Reqs \cup {None}

(* The five indices never overtake each other, and at most ring_entries    *)
(* SQEs are outstanding, across the wrap of the unsigned counters: what    *)
(* get_sqe's  next - head <= ring_entries  is there for.                   *)
IndexOrder ==
  /\ Sub(cached, khead) <= Sub(ktail, khead)
  /\ Sub(ktail, khead) <= Sub(sqe_head, khead)
  /\ Sub(sqe_head, khead) <= Sub(sqe_tail, khead)
  /\ Sub(sqe_tail, khead) <= Entries

(* While the kernel may read the array, no SQE it may read next is one     *)
(* get_sqe has just handed out or one with a store still on its way:       *)
(* the release store of *ktail orders the SQE stores before it.            *)
SlotOwnership ==
  SqPoll \/ pc = "in_kernel" =>
    \A i \in Window(cached, ktail) :
      /\ sqeBuf[KSlot(i)] = None
      /\ pc = "fill" => KSlot(i) # Slot(Sub(sqe_tail, 1))

(* __io_uring_flush_sq over-estimates at worst: what it returns is never   *)
(* less than what is outstanding (a short submit included), nor more than  *)
(* the ring holds.                                                         *)
FlushEstimate ==
  pc \in {"needs_enter", "read_flags"} => SqReady <= submitted /\ submitted <= Entries

(* When no submit call is running, a sleeping SQ thread has consumed all   *)
(* that was flushed: the full barrier between the store of *ktail and the  *)
(* load of *kflags loses no wake-up.                                       *)
NoLostWakeup ==
  kpc = "asleep" /\ pc \in {"idle", "get_sqe", "fill", "sqring_wait"} => cached = sqe_head

\* What the submitter last stored into an element.
Stored(e) == IF sqeBuf[e] # None THEN sqeBuf[e] ELSE sqes[e]

\* How many SQEs are filled in and not yet read by the kernel.
Filled == Sub(sqe_tail, cached) - (IF pc = "fill" THEN 1 ELSE 0)

Queue == INSTANCE Fifo WITH
  Vals <- Reqs, Cap <- Entries,
  fifo <- [k \in 1 .. Filled |-> Stored(Slot(Add(cached, k - 1)))],
  visible <- Sub(sqe_head, cached),
  out <- IF taken = None THEN <<>> ELSE <<taken>>

(* The submission queue is a FIFO: the kernel reads every request once, in *)
(* get_sqe order, as the application filled it in, and none before it was  *)
(* flushed.                                                                *)
SubmitsInOrder == Queue!Spec

(* With SQPOLL, whatever was flushed is consumed: the thread is awake or   *)
(* the flushing call wakes it.                                             *)
FlushedIsTaken ==
  \A i \in Idx : i \in Window(cached, sqe_head) ~> i \notin Window(cached, sqe_head)

(* io_uring_sqring_wait returns: a full ring has an SQ thread at work on   *)
(* it, or was not flushed and the kernel sees room in it.                  *)
SqringWaitReturns == pc = "sqring_wait" ~> pc # "sqring_wait"
=============================================================================
