------------------------------- MODULE GetCqe -------------------------------
(***************************************************************************)
(* Waiting for completions: _io_uring_get_cqe and the calls built on it,   *)
(* io_uring_peek_cqe, io_uring_wait_cqe, io_uring_wait_cqe_nr,             *)
(* io_uring_wait_cqes and io_uring_submit_and_wait_timeout, on kernels     *)
(* with IORING_FEAT_EXT_ARG and without.  The two rings are the FIFOs that *)
(* SubmissionQueue and CompletionQueue implement; requests complete and    *)
(* timers fire at any time.                                                *)
(***************************************************************************)
EXTENDS Integers, Sequences

CONSTANTS
  Rings,      \* the rings considered, each as the set of its flags and features
  SqEntries,  \* size of the SQ ring
  CqEntries,  \* size of the CQ ring
  Apis,       \* the calls the application makes
  MaxWait,    \* bound: wait_nr on a ring with EXT_ARG
  MaxLegacyWait,  \* bound: wait_nr on a ring without
  MaxReqs,    \* bound: requests of the application under way
  MaxTimers   \* bound: internal timeouts under way

ASSUME GetCqeAssumption ==
  /\ Rings \subseteq SUBSET {"EXT_ARG", "SQPOLL", "IOPOLL"}
  /\ SqEntries \in Nat \ {0} /\ CqEntries \in Nat \ {0}
  /\ Apis \subseteq {"peek_cqe", "wait_cqe", "wait_cqe_nr", "wait_cqes",
                     "submit_and_wait_timeout"}
  /\ MaxWait \in 1 .. CqEntries /\ MaxLegacyWait \in 1 .. MaxWait /\ MaxReqs \in Nat /\ MaxTimers \in Nat

Request == -1   \* an SQE of the application

EINTR == -4
EAGAIN == -11
ETIME == -62

VARIABLES
  ring,      \* ring->flags and ring->features
  sq,        \* SQEs not yet consumed: Request, or the count of an internal timeout
  flushed,   \* how many of them are flushed
  inflight,  \* requests of the application in the kernel
  timers,    \* completions each internal timeout in the kernel still counts on, 0 for none
  cq,        \* the CQ ring: "app", and of internal timeouts "fired" (-ETIME), "counted" (0)
  late,      \* completions that reach the ring only through io_uring_enter(2)
  pc,        \* where the call is
  api,       \* which call
  ts,        \* its timeout argument is not NULL
  submit, wait_nr, has_ts,  \* struct get_data
  looped, err, cqe,         \* locals of _io_uring_get_cqe
  available,                \* nr_available
  getevents,                \* flags & IORING_ENTER_GETEVENTS
  accepted,  \* SQEs the running io_uring_enter(2) accepted
  expired,   \* an IORING_OP_TIMEOUT completed since it began to wait
  sent       \* SQEs the kernel accepted during the call

ringVars == <<sq, flushed, inflight, timers, cq, late>>
argVars == <<ring, api, ts, wait_nr, has_ts>>
loopVars == <<submit, looped, err, cqe, available, getevents>>
enterVars == <<accepted, expired>>
vars == <<ringVars, pc, argVars, loopVars, enterVars, sent>>

ExtArg == "EXT_ARG" \in ring
SqPoll == "SQPOLL" \in ring
IoPoll == "IOPOLL" \in ring

\* The wait_nr arguments considered.
WaitNrs == 0 .. (IF ExtArg THEN MaxWait ELSE MaxLegacyWait)

IsTimer(c) == c \in {"fired", "counted"}

Count(s, k) == Len(SelectSeq(s, LAMBDA x : x = k))

IsCount(e) == e # Request

\* how many internal timeouts are anywhere on their way
TimersUnderWay ==
  Len(SelectSeq(sq, IsCount)) + Len(timers) + Len(SelectSeq(cq \o late, IsTimer))

\* cq_ring_needs_enter: completions outside the ring raise a flag, but not with IOPOLL
NeedsEnter == IoPoll \/ late # <<>>

Init ==
  /\ ring \in Rings
  /\ sq = <<>> /\ flushed = 0 /\ inflight = 0 /\ timers = <<>> /\ cq = <<>> /\ late = <<>>
  /\ pc = "idle" /\ api = "none" /\ ts = FALSE
  /\ submit = 0 /\ wait_nr = 0 /\ has_ts = FALSE
  /\ looped = FALSE /\ err = 0 /\ cqe = "NULL" /\ available = 0 /\ getevents = FALSE
  /\ accepted = 0 /\ expired = FALSE /\ sent = 0
-----------------------------------------------------------------------------
(* The application between calls *)

\* io_uring_get_sqe and a prep call
PrepSqe ==
  /\ pc = "idle"
  /\ Len(sq) < SqEntries
  /\ Count(sq, Request) + inflight + Len(cq) + Len(late) < MaxReqs
  /\ sq' = Append(sq, Request)
  /\ UNCHANGED <<flushed, inflight, timers, cq, late, pc, argVars, loopVars, enterVars, sent>>

\* io_uring_cqe_seen for the CQE the last call returned
CqeSeen ==
  /\ pc = "idle" /\ cqe # "NULL"
  /\ cq' = Tail(cq)
  /\ cqe' = "NULL"
  /\ api' = "none"
  /\ UNCHANGED <<sq, flushed, inflight, timers, late, pc, ring, ts, wait_nr, has_ts,
                 submit, looped, err, available, getevents, enterVars, sent>>
-----------------------------------------------------------------------------
(* Entry points *)

\* Plausible bug: the timeout does not reach the kernel.
Begin_TsDropped(a, nr, timed, first) ==
  /\ pc = "idle"
  /\ a \in Apis
  /\ api' = a /\ wait_nr' = nr /\ ts' = timed
  /\ has_ts' = FALSE
  /\ pc' = first
  /\ looped' = FALSE /\ err' = 0 /\ cqe' = "NULL" /\ sent' = 0
  /\ UNCHANGED <<ring, inflight, timers, cq, late, available, getevents, enterVars>>

Begin(a, nr, timed, first) ==
  /\ pc = "idle"
  /\ a \in Apis
  /\ api' = a /\ wait_nr' = nr /\ ts' = timed
  /\ has_ts' = (timed /\ ExtArg)
  /\ pc' = first
  /\ looped' = FALSE /\ err' = 0 /\ cqe' = "NULL" /\ sent' = 0
  /\ UNCHANGED <<ring, inflight, timers, cq, late, available, getevents, enterVars>>

\* io_uring_peek_cqe and io_uring_wait_cqe look once before the loop.
PeekOrWaitCqe ==
  /\ \/ Begin("peek_cqe", 0, FALSE, "quick_peek")
     \/ Begin("wait_cqe", 1, FALSE, "quick_peek")
  /\ submit' = 0
  /\ UNCHANGED <<sq, flushed>>

WaitCqeNr(nr) ==
  /\ Begin("wait_cqe_nr", nr, FALSE, "peek")
  /\ submit' = 0
  /\ UNCHANGED <<sq, flushed>>

WaitCqes(nr, timed) ==
  /\ Begin("wait_cqes", nr, timed, IF timed /\ ~ExtArg THEN "submit_timeout" ELSE "peek")
  /\ submit' = 0
  /\ timed /\ ~ExtArg => TimersUnderWay < MaxTimers
  /\ UNCHANGED <<sq, flushed>>

SubmitAndWaitTimeout(nr, timed) ==
  /\ \/ /\ timed /\ ~ExtArg
        /\ TimersUnderWay < MaxTimers
        /\ Begin("submit_and_wait_timeout", nr, timed, "submit_timeout")
        /\ submit' = 0
        /\ UNCHANGED flushed
     \/ /\ ~timed \/ ExtArg
        /\ Begin("submit_and_wait_timeout", nr, timed, "peek")
        /\ submit' = Len(sq)
        /\ flushed' = Len(sq)
  /\ UNCHANGED sq

Return(e, c) ==
  /\ pc' = "idle"
  /\ err' = e
  /\ cqe' = c

\* What the kernel took: the application's requests and the internal timeouts.
Consume(k) ==
  LET new == SubSeq(sq, 1, k) IN
  /\ inflight' = inflight + Count(new, Request)
  /\ timers' = timers \o SelectSeq(new, IsCount)
  /\ sq' = SubSeq(sq, k + 1, Len(sq))

\* __io_uring_submit_timeout, when there is an SQE for the timeout
SubmitTimeout ==
  /\ pc \in {"submit_timeout", "second_get_sqe"} /\ Len(sq) < SqEntries
  /\ sq' = Append(sq, wait_nr)
  /\ flushed' = Len(sq')
  /\ submit' = Len(sq')
  /\ pc' = "peek"
  /\ UNCHANGED <<inflight, timers, cq, late, argVars, looped, err, cqe, available, getevents,
                 enterVars, sent>>

\* io_uring_enter(2) with IORING_ENTER_GETEVENTS moves what fits into the ring.
FlushLate ==
  LET room == CqEntries - Len(cq)
      n    == IF Len(late) < room THEN Len(late) ELSE room
  IN  /\ cq' = cq \o SubSeq(late, 1, n)
      /\ late' = SubSeq(late, n + 1, Len(late))

\* ... when io_uring_submit has to make room first, and may fail, ...
SubmitTimeoutFull ==
  /\ pc = "submit_timeout" /\ Len(sq) = SqEntries
  /\ \/ /\ SqPoll
        /\ flushed' = Len(sq)
        /\ pc' = "second_get_sqe"
        /\ UNCHANGED <<sq, inflight, timers, sent, err, cqe>>
     \/ /\ ~SqPoll
        /\ \E k \in 1 .. Len(sq) : Consume(k) /\ flushed' = Len(sq) - k /\ sent' = sent + k
        /\ pc' = "second_get_sqe"
        /\ UNCHANGED <<err, cqe>>
     \/ /\ flushed' = Len(sq)
        /\ Return(EAGAIN, cqe)
        /\ UNCHANGED <<sq, inflight, timers, sent>>
  /\ IF NeedsEnter THEN FlushLate ELSE UNCHANGED <<cq, late>>
  /\ UNCHANGED <<argVars, submit, looped, available, getevents, enterVars>>

\* ... and when there is still no room after it.
SubmitTimeoutNoRoom ==
  /\ pc = "second_get_sqe" /\ Len(sq) = SqEntries
  /\ Return(EAGAIN, cqe)
  /\ UNCHANGED <<ringVars, argVars, submit, looped, available, getevents, enterVars, sent>>
-----------------------------------------------------------------------------
(* One turn of the loop in _io_uring_get_cqe *)

\* Plausible bug: internal timeouts are taken for completions of the application.
AtTimer_Never == FALSE

\* The first CQE has user_data LIBURING_UDATA_TIMEOUT.
AtTimer == ~ExtArg /\ Len(cq) > 0 /\ IsTimer(Head(cq))

\* __io_uring_peek_cqe drops internal timeouts (only without EXT_ARG) ...
PeekTimer ==
  /\ pc \in {"quick_peek", "peek"}
  /\ AtTimer
  /\ cq' = Tail(cq)
  /\ cqe' = "NULL"
  /\ \/ Head(cq) = "counted" /\ UNCHANGED <<pc, err>>
     \/ Head(cq) = "fired" /\ pc = "quick_peek" /\ pc' = "peek" /\ UNCHANGED err
     \/ Head(cq) = "fired" /\ pc = "peek" /\ pc' = "idle"
        /\ err' = IF err = 0 THEN ETIME ELSE err
  /\ UNCHANGED <<sq, flushed, inflight, timers, late, argVars, submit, looped, available,
                 getevents, enterVars, sent>>

\* ... and finds the first CQE of the application, or none.
Peek ==
  /\ pc \in {"quick_peek", "peek"}
  /\ ~AtTimer
  /\ cqe' = IF cq = <<>> THEN "NULL" ELSE Head(cq)
  /\ available' = Len(cq)
  /\ pc' = IF pc = "peek" THEN "decide" ELSE IF cq = <<>> THEN "peek" ELSE "idle"
  /\ UNCHANGED <<ringVars, argVars, submit, looped, err, getevents, enterVars, sent>>

NothingAsked == cqe = "NULL" /\ wait_nr = 0 /\ submit = 0

GiveUp == NothingAsked /\ (looped \/ ~NeedsEnter)

\* Plausible bug: one CQE is enough.
WantsEvents_AnyCqe == cqe = "NULL"

WantsEvents == wait_nr > available \/ NothingAsked

\* Plausible bug: the call enters without IORING_ENTER_GETEVENTS.
Enter_NoGetevents ==
  /\ getevents' = NothingAsked
  /\ pc' = "enter"
  /\ UNCHANGED <<err, cqe>>

\* The flags of the io_uring_enter(2) call.
Enter ==
  /\ getevents' = WantsEvents
  /\ pc' = "enter"
  /\ UNCHANGED <<err, cqe>>

\* sq_ring_needs_enter: with SQPOLL only if the thread sleeps.
Decide ==
  /\ pc = "decide"
  /\ \E sqEnter \in IF submit = 0 THEN {FALSE} ELSE IF SqPoll THEN BOOLEAN ELSE {TRUE} :
       \/ /\ GiveUp
          /\ Return(IF err = 0 THEN EAGAIN ELSE err, cqe)
          /\ UNCHANGED getevents
       \/ /\ ~GiveUp /\ ~WantsEvents /\ ~sqEnter
          /\ Return(err, cqe)
          /\ UNCHANGED getevents
       \/ /\ ~GiveUp /\ (WantsEvents \/ sqEnter) /\ looped /\ has_ts
          /\ Return(IF cqe = "NULL" /\ err = 0 THEN ETIME ELSE err, cqe)
          /\ UNCHANGED getevents
       \/ /\ ~GiveUp /\ (WantsEvents \/ sqEnter) /\ ~(looped /\ has_ts)
          /\ Enter
  /\ UNCHANGED <<ringVars, argVars, submit, looped, available, enterVars, sent>>

\* Plausible bug: the same count is submitted again.
Entered_SubmitKept(r) ==
  /\ \/ r < 0 /\ Return(IF err = 0 THEN r ELSE err, cqe) /\ UNCHANGED looped
     \/ /\ r >= 0
        /\ pc' = IF cqe # "NULL" THEN "idle" ELSE "peek"
        /\ looped' = (looped \/ cqe = "NULL")
        /\ err' = IF cqe = "NULL" /\ ~looped THEN r ELSE err
        /\ UNCHANGED cqe
  /\ UNCHANGED submit

\* After __sys_io_uring_enter2 returned r.
Entered(r) ==
  \/ /\ r < 0
     /\ Return(IF err = 0 THEN r ELSE err, cqe)
     /\ UNCHANGED <<submit, looped>>
  \/ /\ r >= 0
     /\ submit' = submit - r
     /\ pc' = IF cqe # "NULL" THEN "idle" ELSE "peek"
     /\ looped' = (looped \/ cqe = "NULL")
     /\ err' = IF cqe = "NULL" /\ ~looped THEN r ELSE err
     /\ UNCHANGED cqe
-----------------------------------------------------------------------------
(* The kernel: io_uring_enter(2) *)

\* Accept SQEs.  An SQPOLL ring leaves them to its thread and reports them all.
EnterSubmit(k) ==
  /\ pc = "enter" /\ k <= submit
  /\ SqPoll => k = submit
  /\ \/ SqPoll /\ UNCHANGED <<sq, flushed, inflight, timers>>
     \/ ~SqPoll /\ Consume(k) /\ flushed' = flushed - k
  /\ sent' = sent + k
  /\ accepted' = k
  /\ expired' = FALSE
  /\ \/ k = submit /\ getevents /\ pc' = "waiting" /\ UNCHANGED <<submit, looped, err, cqe>>
     \/ k = submit /\ ~getevents /\ Entered(k)
     \/ k < submit /\ Entered(IF k = 0 THEN EAGAIN ELSE k)
  /\ UNCHANGED <<cq, late, argVars, available, getevents>>

\* In the wait, what was left outside reaches the ring.
KFlush ==
  /\ pc = "waiting" /\ late # <<>> /\ Len(cq) < CqEntries
  /\ cq' = Append(cq, Head(late))
  /\ late' = Tail(late)
  /\ UNCHANGED <<sq, flushed, inflight, timers, pc, argVars, loopVars, enterVars, sent>>

\* The wait ends: enough CQEs or an IORING_OP_TIMEOUT; the call's own timeout; a signal.
KWaitEnds(e) ==
  /\ pc = "waiting"
  /\ late = <<>> \/ Len(cq) = CqEntries
  /\ \/ e = 0 /\ (Len(cq) >= wait_nr \/ expired)
     \/ e = ETIME /\ has_ts
     \/ e = EINTR /\ Len(cq) < wait_nr
  /\ Entered(IF accepted > 0 THEN accepted ELSE e)
  /\ UNCHANGED <<ringVars, argVars, available, getevents, enterVars, sent>>

\* The SQPOLL thread consumes what is flushed.
KThread ==
  /\ SqPoll /\ flushed > 0
  /\ Consume(1)
  /\ flushed' = flushed - 1
  /\ UNCHANGED <<cq, late, pc, argVars, loopVars, enterVars, sent>>

\* Post completions: into the ring, or outside of it.
KPost(s) ==
  \/ /\ ~IoPoll /\ late = <<>> /\ Len(cq) + Len(s) <= CqEntries
     /\ cq' = cq \o s
     /\ UNCHANGED late
  \/ /\ late' = late \o s
     /\ UNCHANGED cq

\* A request completes, and with it the internal timeouts that counted on it.
KComplete ==
  /\ inflight > 0
  /\ inflight' = inflight - 1
  /\ KPost(<<"app">> \o [t \in 1 .. Count(timers, 1) |-> "counted"])
  /\ timers' = [t \in 1 .. Len(timers) - Count(timers, 1) |->
                  LET n == SelectSeq(timers, LAMBDA x : x # 1)[t] IN IF n = 0 THEN 0 ELSE n - 1]
  /\ expired' = (expired \/ Count(timers, 1) > 0)
  /\ UNCHANGED <<sq, flushed, pc, argVars, loopVars, accepted, sent>>

\* An internal timeout fires.
KFire ==
  /\ timers # <<>>
  /\ timers' = Tail(timers)
  /\ KPost(<<"fired">>)
  /\ expired' = TRUE
  /\ UNCHANGED <<sq, flushed, inflight, pc, argVars, loopVars, accepted, sent>>
-----------------------------------------------------------------------------
Running ==
  \/ SubmitTimeout \/ SubmitTimeoutFull \/ SubmitTimeoutNoRoom
  \/ PeekTimer \/ Peek \/ Decide
  \/ \E k \in 0 .. SqEntries : EnterSubmit(k)
  \/ KFlush \/ KWaitEnds(0) \/ KWaitEnds(ETIME)

Next ==
  \/ PrepSqe \/ CqeSeen
  \/ PeekOrWaitCqe
  \/ \E nr \in WaitNrs : WaitCqeNr(nr)
  \/ \E nr \in WaitNrs, timed \in BOOLEAN : WaitCqes(nr, timed) \/ SubmitAndWaitTimeout(nr, timed)
  \/ Running \/ KWaitEnds(EINTR)
  \/ KThread \/ KComplete \/ KFire

Spec == Init /\ [][Next]_vars

(* A call runs on, accepted requests complete, timers fire and the SQPOLL  *)
(* thread works; no signal has to arrive and no call has to be made.       *)
FairSpec == Spec /\ WF_vars(Running) /\ WF_vars(KComplete) /\ WF_vars(KFire) /\ WF_vars(KThread)
-----------------------------------------------------------------------------
(* Properties *)

Returned(a) == pc = "idle" /\ api \in a

(* "Returns 0 with cqe_ptr filled in on success, -errno on failure": a     *)
(* call that submits nothing never returns a count, its success has a CQE, *)
(* and no call hands out the CQE of an internal timeout, however the loop  *)
(* of _io_uring_get_cqe was left.  What io_uring_submit_and_wait_timeout   *)
(* returns is never more than the kernel accepted, and if the kernel       *)
(* accepted nothing a timed wait without a CQE fails.                      *)
WaitContract ==
  /\ Returned(Apis \ {"submit_and_wait_timeout"}) /\ (ts => ExtArg) =>
       err <= 0 /\ (err = 0 => cqe # "NULL")
  /\ Returned(Apis) => cqe \in {"NULL", "app"}
  /\ Returned({"submit_and_wait_timeout"}) =>
       err <= sent /\ (ts /\ wait_nr > 0 /\ cqe = "NULL" /\ sent = 0 => err < 0)

(* io_uring_wait_cqe_nr succeeds only once wait_nr completions of the      *)
(* application are in the ring, though the kernel returns for other        *)
(* reasons too.  (Without EXT_ARG only for wait_nr up to 1: nr_available   *)
(* counts the CQEs of left-over internal timeouts.)                        *)
WaitsForAll == Returned({"wait_cqe_nr"}) /\ err = 0 => Count(cq, "app") >= wait_nr

(* What _io_uring_get_cqe asks the kernel to submit is what is flushed and *)
(* not yet consumed, however often it enters and however little is taken.  *)
SubmitsWhatIsLeft ==
  ~SqPoll /\ pc = "enter" /\ submit # 0 => submit = flushed

(* A call with a timeout returns, whatever completes or does not.          *)
TimedCallReturns == (pc # "idle" /\ ts) ~> pc = "idle"

(* A call returns if requests enough for it have completed or are with the *)
(* kernel, though the completion may lie outside the ring.                 *)
WaitReturns ==
  (pc # "idle" /\ inflight + Count(cq \o late, "app") >= wait_nr) ~> pc = "idle"
=============================================================================
