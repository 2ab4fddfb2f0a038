------------------------------- MODULE UdpEcho -------------------------------
(***************************************************************************)
(* examples/io_uring-udp.c: an echo server with one multishot recvmsg, a   *)
(* ring of provided buffers and a sendmsg per datagram, and the accessors  *)
(* of liburing.h for what such a recvmsg leaves in a buffer.               *)
(*                                                                         *)
(* The rings are the FIFOs of SubmissionQueue, CompletionQueue and         *)
(* BufRing.  A datagram has a sender and a length; lengths are in bytes,   *)
(* with small sizes for the parts of a buffer.                             *)
(***************************************************************************)
EXTENDS Integers, Sequences, FiniteSets

CONSTANTS
    QD,             \* entries of the SQ ring
    Buffers,        \* BUFFERS, the number of provided buffers
    BufferSize,     \* the size of one
    OutSize,        \* sizeof(struct io_uring_recvmsg_out)
    NameLen, ControlLen,    \* msg_namelen and msg_controllen of ctx->msg
    Datagrams       \* what clients send: [from, len, namelen]

ASSUME UdpAssumption ==
    /\ QD \in Nat \ {0} /\ Buffers \in Nat \ {0}
    /\ BufferSize >= OutSize + NameLen + ControlLen

Bids == 0 .. Buffers - 1
RecvData == Buffers + 1         \* user_data of the recvmsg; a send has its buffer
ENOBUFS == -105
EIO == -5

VARIABLES
    pc,         \* "loop", "wait", "batch" or "stopped"
    sq,         \* the user_data of the SQEs not yet submitted
    cq,         \* CQEs not yet advanced over
    count, i,   \* the batch under way and the CQEs of it processed
    send,       \* ctx->send: the name and payload each send is to take
    armed,      \* the kernel has the multishot recvmsg
    avail,      \* the buffers the kernel may take, in order
    sending,    \* sends in the kernel
    content     \* the datagram in each buffer

server == <<pc, count, i, send>>
kernel == <<armed, avail, sending, content>>
vars == <<server, sq, cq, kernel>>

AnyDatagram == CHOOSE d \in Datagrams : TRUE
NoSend == [to |-> AnyDatagram.from, start |-> 0, len |-> 0]

\* setup_buffer_pool and the first add_recv
Init ==
    /\ pc = "loop"
    /\ sq = <<RecvData>>
    /\ cq = <<>>
    /\ count = 0 /\ i = 0
    /\ send = [b \in Bids |-> NoSend]
    /\ armed = FALSE
    /\ avail = [k \in 1 .. Buffers |-> k - 1]
    /\ sending = {}
    /\ content = [b \in Bids |-> AnyDatagram]

-----------------------------------------------------------------------------
(* What a multishot recvmsg leaves in a buffer *)

\* Plausible bug: the control data, which this server has none of, left out.
PayloadStart_NoControl == OutSize + NameLen

\* io_uring_recvmsg_payload, as a distance from the start of the buffer
PayloadStart == OutSize + NameLen + ControlLen

\* io_uring_recvmsg_validate
Validate(res) == res >= ControlLen + NameLen + OutSize

\* io_uring_recvmsg_payload_length
PayloadLength(res) == res - PayloadStart

\* The kernel lays the parts out at full length and cuts the payload.
KPayloadRoom == BufferSize - OutSize - NameLen - ControlLen
KTruncated(d) == d.len > KPayloadRoom
KResult(d) ==
    OutSize + NameLen + ControlLen + IF KTruncated(d) THEN KPayloadRoom ELSE d.len

-----------------------------------------------------------------------------
(* The kernel *)

RecvCqe(b, res, more) == [user_data |-> RecvData, bid |-> b, res |-> res, more |-> more]
SendCqe(b) == [user_data |-> b, bid |-> b, res |-> 0, more |-> FALSE]

\* A datagram takes the first buffer, or ends the multishot if there is none.
\* The kernel may also end it together with a good completion.
KRecv(d) ==
    /\ armed
    /\ \/ /\ avail = <<>>
          /\ cq' = Append(cq, RecvCqe(0, ENOBUFS, FALSE))
          /\ armed' = FALSE
          /\ UNCHANGED <<avail, content>>
       \/ /\ avail # <<>>
          /\ armed' \in BOOLEAN
          /\ cq' = Append(cq, RecvCqe(Head(avail), KResult(d), armed'))
          /\ avail' = Tail(avail)
          /\ content' = [content EXCEPT ![Head(avail)] = d]
    /\ UNCHANGED <<server, sq, sending>>

KRecvFails ==
    /\ armed
    /\ armed' = FALSE
    /\ cq' = Append(cq, RecvCqe(0, EIO, FALSE))
    /\ UNCHANGED <<server, sq, avail, sending, content>>

\* A send is over, well or not.  What stays in the buffer is forgotten.
KSend(b) ==
    /\ b \in sending
    /\ sending' = sending \ {b}
    /\ cq' = Append(cq, SendCqe(b))
    /\ content' = [content EXCEPT ![b] = AnyDatagram]
    /\ send' = [send EXCEPT ![b] = NoSend]
    /\ UNCHANGED <<pc, count, i, sq, armed, avail>>

\* io_uring_enter(2) takes all SQEs of st = [sq, armed, sending].
KTakes(st) ==
    LET taken == {st.sq[k] : k \in DOMAIN st.sq}
    IN  [sq |-> <<>>, armed |-> st.armed \/ RecvData \in taken,
         sending |-> st.sending \cup (taken \ {RecvData})]

Submission == [sq |-> sq, armed |-> armed, sending |-> sending]
SetSubmission(st) == sq' = st.sq /\ armed' = st.armed /\ sending' = st.sending

-----------------------------------------------------------------------------
(* The server *)

\* Plausible bug: a full SQ ring is submitted but the SQE not asked for again.
Queued_Lost(st, data) ==
    IF Len(st.sq) < QD THEN [st EXCEPT !.sq = Append(@, data)] ELSE KTakes(st)

\* get_sqe, which submits to make room, and the preparation of the SQE
Queued(st, data) ==
    LET room == IF Len(st.sq) < QD THEN st ELSE KTakes(st)
    IN  [room EXCEPT !.sq = Append(@, data)]

\* io_uring_submit_and_wait: the SQEs go to the kernel ...
SubmitAndWait ==
    /\ pc = "loop"
    /\ SetSubmission(KTakes(Submission))
    /\ pc' = "wait"
    /\ UNCHANGED <<count, i, send, cq, avail, content>>

\* ... and a completion or a signal ends the wait.  io_uring_peek_batch_cqe
\* finds what is in the CQ ring by now, perhaps not all that is in the backlog.
Woken ==
    /\ pc = "wait" /\ cq # <<>>
    /\ count' \in 1 .. Len(cq)
    /\ i' = 0
    /\ pc' = "batch"
    /\ UNCHANGED <<send, sq, cq, kernel>>

Interrupted ==
    /\ pc = "wait"
    /\ pc' = "loop"
    /\ UNCHANGED <<count, i, send, sq, cq, kernel>>

Cqe == cq[i + 1]

\* recycle_buffer
Recycle(b) == avail' = Append(avail, b)

\* process_cqe_send
ProcessCqeSend ==
    /\ pc = "batch" /\ i < count
    /\ Cqe.user_data < Buffers
    /\ Recycle(Cqe.user_data)
    /\ i' = i + 1
    /\ UNCHANGED <<pc, count, send, sq, cq, armed, sending, content>>

\* Plausible bug: the receive is started again only when it ran out of buffers.
Rearmed_NoBufs(c) ==
    IF c.res = ENOBUFS THEN Queued(Submission, RecvData) ELSE Submission

\* process_cqe_recv: a multishot that is over is started again.
Rearmed(c) == IF ~c.more THEN Queued(Submission, RecvData) ELSE Submission

\* Was the datagram received whole, and its sender's name?
IsWhole(d) == d.namelen <= NameLen /\ ~KTruncated(d)

\* Plausible bug: the buffer given back as soon as the send is queued.
SendBack_Recycles(c, st) ==
    /\ SetSubmission(Queued(st, c.bid))
    /\ send' = [send EXCEPT ![c.bid] = [to |-> content[c.bid].from, start |-> PayloadStart,
                                        len |-> PayloadLength(c.res)]]
    /\ Recycle(c.bid)

\* The end of process_cqe_recv
SendBack(c, st) ==
    /\ SetSubmission(Queued(st, c.bid))
    /\ send' = [send EXCEPT ![c.bid] = [to |-> content[c.bid].from, start |-> PayloadStart,
                                        len |-> PayloadLength(c.res)]]
    /\ UNCHANGED avail

\* process_cqe_recv
ProcessCqeRecv ==
    /\ pc = "batch" /\ i < count
    /\ Cqe.user_data >= Buffers
    /\ LET st == Rearmed(Cqe)
       IN  \/ /\ Cqe.res = ENOBUFS
              /\ SetSubmission(st)
              /\ i' = i + 1
              /\ UNCHANGED <<pc, send, avail>>
           \/ /\ Cqe.res # ENOBUFS /\ (Cqe.res < 0 \/ ~Validate(Cqe.res))
              /\ SetSubmission(st)
              /\ pc' = "stopped"
              /\ UNCHANGED <<i, send, avail>>
           \/ /\ Validate(Cqe.res) /\ ~IsWhole(content[Cqe.bid])
              /\ SetSubmission(st)
              /\ Recycle(Cqe.bid)
              /\ i' = i + 1
              /\ UNCHANGED <<pc, send>>
           \/ /\ Validate(Cqe.res) /\ IsWhole(content[Cqe.bid])
              /\ SendBack(Cqe, st)
              /\ i' = i + 1
              /\ UNCHANGED pc
    /\ UNCHANGED <<count, cq, content>>

\* io_uring_cq_advance
Advance ==
    /\ pc = "batch" /\ i = count
    /\ cq' = SubSeq(cq, count + 1, Len(cq))
    /\ count' = 0 /\ i' = 0
    /\ pc' = "loop"
    /\ UNCHANGED <<send, sq, kernel>>

\* The SQEs that process_cqe needs for a CQE
SqesFor(c) ==
    IF c.user_data < Buffers THEN 0
    ELSE (IF c.more THEN 0 ELSE 1)
             + (IF Validate(c.res) /\ IsWhole(content[c.bid]) THEN 1 ELSE 0)

\* A submit fails: in get_sqe, with no SQE free, or in the main loop.
GiveUp ==
    /\ \/ pc = "loop"
       \/ pc = "batch" /\ i < count /\ SqesFor(Cqe) > 0 /\ Len(sq) + SqesFor(Cqe) > QD
    /\ pc' = "stopped"
    /\ UNCHANGED <<count, i, send, sq, cq, kernel>>

Stopped == pc = "stopped" /\ UNCHANGED vars

ServerStep == SubmitAndWait \/ Woken \/ ProcessCqeSend \/ ProcessCqeRecv \/ Advance

Next ==
    \/ \E d \in Datagrams : KRecv(d)
    \/ KRecvFails
    \/ \E b \in Bids : KSend(b)
    \/ ServerStep
    \/ Interrupted \/ GiveUp \/ Stopped

\* The server runs on, though signals may interrupt its waits, and sends end.
Spec ==
    /\ Init /\ [][Next]_vars
    /\ WF_vars(SubmitAndWait) /\ SF_vars(Woken)
    /\ WF_vars(ProcessCqeSend) /\ WF_vars(ProcessCqeRecv) /\ WF_vars(Advance)
    /\ \A b \in Bids : WF_vars(KSend(b))

-----------------------------------------------------------------------------
(* Properties *)

Pending == {k \in DOMAIN cq : k > i}    \* CQEs not yet processed

\* Each buffer is in one place: the buffer ring, a CQE of the receive, a send
\* that is queued or in the kernel, or the CQE of a send.
OneOwner ==
    pc # "stopped" =>
        \A b \in Bids :
            Cardinality({k \in DOMAIN avail : avail[k] = b})
              + Cardinality({k \in DOMAIN sq : sq[k] = b})
              + Cardinality({k \in Pending : cq[k].bid = b /\ cq[k].res >= 0})
              + (IF b \in sending THEN 1 ELSE 0) = 1

\* The server keeps listening: there is always exactly one receive, in the
\* kernel, queued, or ended by a CQE that process_cqe_recv has still to see.
Listening ==
    pc # "stopped" =>
        (IF armed THEN 1 ELSE 0)
          + Cardinality({k \in DOMAIN sq : sq[k] = RecvData})
          + Cardinality({k \in Pending : cq[k].user_data = RecvData /\ ~cq[k].more}) = 1

\* A send under way returns the datagram it was made for: the buffer still holds
\* it, the payload begins where the kernel put it and has its whole length.
EchoExact ==
    \A b \in Bids :
        b \in sending \/ (\E k \in DOMAIN sq : sq[k] = b) =>
            send[b] = [to |-> content[b].from,
                       start |-> OutSize + NameLen + ControlLen,
                       len |-> content[b].len]

\* Every buffer taken is available again some time, or the server has stopped.
BuffersReturn ==
    \A b \in Bids :
        (\A k \in DOMAIN avail : avail[k] # b) ~>
            ((\E k \in DOMAIN avail : avail[k] = b) \/ pc = "stopped")
=============================================================================
