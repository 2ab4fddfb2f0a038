------------------------------- MODULE CopyFile -------------------------------
(***************************************************************************)
(* examples/io_uring-cp.c: copying a file with up to QD reads and writes   *)
(* in flight.  Each block has an io_data that is read in full, then        *)
(* written in full; short transfers and -EAGAIN are queued again.          *)
(*                                                                         *)
(* A byte is named by its position in the source, so that dest and the     *)
(* buffers show which byte arrived where.  The rings are the FIFOs of      *)
(* SubmissionQueue and CompletionQueue.                                    *)
(***************************************************************************)
EXTENDS Integers, Sequences, FiniteSets

CONSTANTS
    QD, BS,         \* the queue depth and the block size
    FileSize        \* the size of the source, in bytes

ASSUME CopyAssumption ==
    QD \in Nat \ {0} /\ BS \in Nat \ {0} /\ FileSize \in Nat

Positions == 0 .. FileSize - 1
Blocks == {o \in Positions : o % BS = 0}
None == -1
EAGAIN == -11
EIO == -5

VARIABLES
    pc,             \* the loop of copy_file that is next, or "done", "abort"
    insize, write_left, offset, reads, writes,      \* locals of copy_file
    data,           \* the io_data of each block; read = "free" if there is none
    sq, inflight, cq,   \* queued SQEs, requests in the kernel, CQEs
    buf,            \* the bytes in each io_data's buffer
    dest,           \* the bytes of the destination file
    ret,            \* what copy_file returned
    failed,         \* an io_uring_submit or a malloc has failed
    lossy           \* the last loop took a short write or a read for a write

locals == <<insize, write_left, offset, reads, writes>>
kernelVars == <<sq, inflight, cq, buf, dest>>
vars == <<pc, locals, data, kernelVars, ret, failed, lossy>>

Free == [read |-> "free", offset |-> 0, base |-> 0, len |-> 0, first_len |-> 0]

Init ==
    /\ pc = "outer"
    /\ insize = FileSize /\ write_left = FileSize
    /\ offset = 0 /\ reads = 0 /\ writes = 0
    /\ data = [b \in Blocks |-> Free]
    /\ sq = <<>> /\ inflight = {} /\ cq = <<>>
    /\ buf = [b \in Blocks |-> [i \in 0 .. BS - 1 |-> None]]
    /\ dest = [p \in Positions |-> None]
    /\ ret = None /\ failed = FALSE /\ lossy = FALSE

-----------------------------------------------------------------------------
(* The kernel *)

\* A request moves n bytes and completes with n, or fails without moving any.
KComplete(b, res) ==
    LET d == data[b]
        n == IF res > 0 THEN res ELSE 0
    IN  /\ b \in inflight
        /\ inflight' = inflight \ {b}
        /\ cq' = Append(cq, [b |-> b, res |-> res])
        /\ IF d.read = "yes"
           THEN /\ buf' = [buf EXCEPT ![b] = [i \in 0 .. BS - 1 |->
                        IF i \in d.base .. d.base + n - 1
                        THEN d.offset + i - d.base ELSE @[i]]]
                /\ UNCHANGED dest
           ELSE /\ dest' = [q \in Positions |->
                        IF q \in d.offset .. d.offset + n - 1
                        THEN buf[b][d.base + q - d.offset] ELSE dest[q]]
                /\ UNCHANGED buf
        /\ UNCHANGED <<pc, locals, data, sq, ret, failed, lossy>>

KTransfer == \E b \in inflight : \E n \in 1 .. data[b].len : KComplete(b, n)
KRefuse == \E b \in inflight, e \in {EAGAIN, EIO} : KComplete(b, e)

\* io_uring_submit of the SQEs in q: the kernel takes them all, or the call
\* fails and they stay for the next one.
Submit(q, ok) ==
    /\ sq' = IF ok THEN <<>> ELSE q
    /\ inflight' = IF ok THEN inflight \cup {q[i] : i \in DOMAIN q} ELSE inflight

-----------------------------------------------------------------------------
(* copy_file *)

\* Plausible bug: requests of the other direction not counted.
RoomForRead_Reads(n) == reads + n < QD

\* reads + writes < QD, after n more reads
RoomForRead(n) == reads + n + writes < QD

SizeAt(o) == IF FileSize - o > BS THEN BS ELSE FileSize - o

\* queue_read
ReadOf(o) ==
    [read |-> "yes", offset |-> o, base |-> 0, len |-> SizeAt(o),
     first_len |-> SizeAt(o)]

\* "Queue up as many reads as we can" and submit them.  The loop ends early if
\* queue_read gets no memory or no SQE.
QueueReads ==
    /\ pc = "outer"
    /\ insize # 0 \/ write_left # 0
    /\ \E n \in 0 .. Cardinality(Blocks) :
          LET stop == offset + n * BS         \* where the next read would start
              new == [i \in 1 .. n |-> offset + (i - 1) * BS]
              more == stop < FileSize /\ RoomForRead(n)
          IN  /\ \A i \in 0 .. n - 1 :
                    /\ offset + i * BS < FileSize
                    /\ RoomForRead(i)
                    /\ Len(sq) + i < QD
              /\ data' = [b \in Blocks |-> IF \E i \in 1 .. n : new[i] = b
                                           THEN ReadOf(b) ELSE data[b]]
              /\ insize' = IF stop < FileSize THEN FileSize - stop ELSE 0
              /\ offset' = FileSize - insize'
              /\ reads' = reads + n
              /\ \E ok \in BOOLEAN :
                    /\ IF n > 0 THEN Submit(sq \o new, ok)
                       ELSE ok /\ UNCHANGED <<sq, inflight>>
                    /\ pc' = IF ok THEN "wait" ELSE "drain"
                    /\ failed' = (failed \/ ~ok \/ more)
    /\ UNCHANGED <<write_left, writes, cq, buf, dest, ret, lossy>>

LeaveLoops ==
    /\ pc = "outer"
    /\ insize = 0 /\ write_left = 0
    /\ pc' = "drain"
    /\ UNCHANGED <<locals, data, kernelVars, ret, failed, lossy>>

\* "Short read/write, adjust and requeue"
Advanced(d, n) == [d EXCEPT !.base = @ + n, !.len = @ - n, !.offset = @ + n]

\* Plausible bug: iov_len left as the last short read left it.
WriteOf_KeepsLen(b, d) == [d EXCEPT !.read = "no", !.offset = b, !.base = 0]

\* queue_write
WriteOf(b, d) ==
    [d EXCEPT !.read = "no", !.offset = b, !.base = 0, !.len = d.first_len]

\* Is the request of this CQE queued once more, as it is or for the rest?
Requeues(c) == c.res = EAGAIN \/ (c.res >= 0 /\ c.res # data[c.b].len)

\* Plausible bug: the SQE is left to whatever submits next.
QueuePrepped_NoSubmit(b, d) ==
    /\ data' = [data EXCEPT ![b] = d]
    /\ sq' = Append(sq, b)
    /\ UNCHANGED <<inflight, failed>>

\* queue_prepped and io_uring_submit, whose result is ignored
QueuePrepped(b, d) ==
    /\ data' = [data EXCEPT ![b] = d]
    /\ \E ok \in BOOLEAN :
          /\ Submit(Append(sq, b), ok)
          /\ failed' = (failed \/ ~ok)

\* One CQE of the main loop.  The assertion of queue_prepped needs a free SQE.
HandleCqe ==
    LET c == Head(cq)
        d == data[c.b]
    IN  /\ pc \in {"wait", "peek"}
        /\ cq # <<>>
        /\ \/ /\ c.res < 0 /\ c.res # EAGAIN
              /\ ret' = 1 /\ pc' = "done"
              /\ UNCHANGED <<cq, data, sq, inflight, failed, write_left, reads, writes>>
           \/ /\ c.res >= 0 \/ c.res = EAGAIN
              /\ Requeues(c) \/ d.read = "yes"
              /\ Len(sq) = QD
              /\ pc' = "abort"
              /\ UNCHANGED <<cq, data, sq, inflight, failed, write_left, reads, writes, ret>>
           \/ /\ Requeues(c)
              /\ Len(sq) < QD
              /\ QueuePrepped(c.b, IF c.res = EAGAIN THEN d ELSE Advanced(d, c.res))
              /\ cq' = Tail(cq)
              /\ pc' = "peek"
              /\ UNCHANGED <<write_left, reads, writes, ret>>
           \/ /\ ~Requeues(c) /\ c.res # EIO
              /\ d.read = "yes" /\ Len(sq) < QD
              /\ QueuePrepped(c.b, WriteOf(c.b, d))
              /\ write_left' = write_left - d.first_len
              /\ reads' = reads - 1 /\ writes' = writes + 1
              /\ cq' = Tail(cq)
              /\ pc' = IF write_left' = 0 THEN "outer" ELSE "peek"
              /\ UNCHANGED ret
           \/ /\ ~Requeues(c) /\ c.res # EIO
              /\ d.read = "no"
              /\ data' = [data EXCEPT ![c.b] = Free]
              /\ writes' = writes - 1
              /\ cq' = Tail(cq)
              /\ pc' = "peek"
              /\ UNCHANGED <<sq, inflight, failed, write_left, reads, ret>>
        /\ UNCHANGED <<insize, offset, buf, dest, lossy>>

\* io_uring_peek_cqe finds nothing.
NothingMore ==
    /\ pc = "peek" /\ cq = <<>>
    /\ pc' = "outer"
    /\ UNCHANGED <<locals, data, kernelVars, ret, failed, lossy>>

\* io_uring_wait_cqe is interrupted, in either loop.
WaitFails ==
    /\ pc = "wait" \/ (pc = "drain" /\ writes # 0)
    /\ ret' = 1 /\ pc' = "done"
    /\ UNCHANGED <<locals, data, kernelVars, failed, lossy>>

\* "wait out pending writes"
Drain ==
    LET c == Head(cq)
    IN  /\ pc = "drain" /\ writes # 0 /\ cq # <<>>
        /\ IF c.res < 0
           THEN /\ ret' = 1 /\ pc' = "done"
                /\ UNCHANGED <<data, writes, cq, lossy>>
           ELSE /\ data' = [data EXCEPT ![c.b] = Free]
                /\ writes' = writes - 1
                /\ cq' = Tail(cq)
                /\ lossy' = (lossy \/ c.res # data[c.b].len \/ data[c.b].read = "yes")
                /\ UNCHANGED <<ret, pc>>
        /\ UNCHANGED <<insize, write_left, offset, reads, sq, inflight, buf, dest, failed>>

Return ==
    /\ pc = "drain" /\ writes = 0
    /\ ret' = 0 /\ pc' = "done"
    /\ UNCHANGED <<locals, data, kernelVars, failed, lossy>>

\* The process is over.
Over == pc \in {"done", "abort"} /\ UNCHANGED vars

CopyStep == QueueReads \/ LeaveLoops \/ HandleCqe \/ NothingMore \/ Drain \/ Return

Next == KTransfer \/ KRefuse \/ CopyStep \/ WaitFails \/ Over

\* The program runs on, and the kernel does not refuse a request for ever.
Spec == Init /\ [][Next]_vars /\ WF_vars(CopyStep) /\ SF_vars(KTransfer)

-----------------------------------------------------------------------------
(* Properties *)

\* reads and writes count the requests of each kind, at most QD together, and
\* each block under way is in exactly one place: an SQE not yet submitted, the
\* kernel, or a CQE not yet seen.  So no io_data is used after it was freed,
\* and the assertion of queue_prepped never fails, even if every submit does.
Accounting ==
    LET under(r) == Cardinality({b \in Blocks : data[b].read = r})
        places(b) == Cardinality({i \in DOMAIN sq : sq[i] = b})
                         + Cardinality({i \in DOMAIN cq : cq[i].b = b})
                         + (IF b \in inflight THEN 1 ELSE 0)
    IN  /\ pc # "abort"
        /\ pc \in {"outer", "wait", "peek"} =>
            /\ reads = under("yes") /\ writes = under("no")
            /\ reads + writes <= QD
            /\ \A b \in Blocks : places(b) = IF data[b].read = "free" THEN 0 ELSE 1

\* However reads and writes are cut short, refused and reordered, a byte of the
\* destination is the byte of the source at the same place or not yet written;
\* and copy_file returns 0 only when all was copied, unless a submit or a malloc
\* failed or the last loop of copy_file, which does not look, met a short write.
CopiesExactly ==
    /\ \A q \in Positions : dest[q] \in {None, q}
    /\ ret = 0 /\ ~failed /\ ~lossy => \A q \in Positions : dest[q] = q

\* copy_file returns if no submit and no malloc fails.
CopyReturns == <>(pc = "done" \/ failed)
=============================================================================
