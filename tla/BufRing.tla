------------------------------ MODULE BufRing ------------------------------
(***************************************************************************)
(* A ring of provided buffers: io_uring_buf_ring_init, _add, _advance,     *)
(* _cq_advance and _available.  The application adds buffers behind the    *)
(* 16-bit tail, the kernel takes them at its own head and hands them back  *)
(* in CQEs, in any order.                                                  *)
(***************************************************************************)
EXTENDS RingIndex, Sequences, FiniteSets

CONSTANTS
  Bids,   \* the buffer IDs of the group
  CqSize, \* CQEs the CQ ring holds
  None    \* the content of an entry never written

\* The application never has more buffers than the ring has entries.
ASSUME BufRingAssumption ==
  /\ IsFiniteSet(Bids) /\ Cardinality(Bids) <= Entries /\ None \notin Bids
  /\ CqSize \in Nat

VARIABLES
  bufs,      \* br->bufs
  tail,      \* br->tail
  offset,    \* buffers added and not yet advanced over
  khead,     \* the kernel's head
  inflight,  \* buffers the kernel took for a request
  out,       \* what it took last
  cq,        \* CQEs not yet given back, by the buffer they carry
  seen,      \* how many of them the application has looked at
  own,       \* buffers the application has
  pc,        \* where the application is
  cq_count,  \* __io_uring_buf_ring_cq_advance's cq_count
  head,      \* io_uring_buf_ring_available's head
  available  \* what it returned last

ringVars == <<bufs, tail, offset>>
kernelVars == <<khead, inflight, out>>
cqVars == <<cq, seen, own>>
callVars == <<pc, cq_count, head, available>>
vars == <<ringVars, kernelVars, cqVars, callVars>>

\* After io_uring_buf_ring_init; every buffer is the application's.
Init ==
  /\ bufs = [e \in 0 .. Entries - 1 |-> None]
  /\ tail = 0 /\ offset = 0
  /\ khead = 0 /\ inflight = {} /\ out = <<>>
  /\ cq = <<>> /\ seen = 0 /\ own = Bids
  /\ pc = "idle" /\ cq_count = 0 /\ head = 0 /\ available = 0
-----------------------------------------------------------------------------
(* The application *)

\* Plausible bug: every buffer of a batch goes to the same entry.
BufSlot_NoOffset(buf_offset) == Mask(tail)

\* &br->bufs[(br->tail + buf_offset) & mask]
BufSlot(buf_offset) == Mask(tail + buf_offset)

BufRingAdd(bid) ==
  /\ pc = "idle" /\ bid \in own
  /\ bufs' = [bufs EXCEPT ![BufSlot(offset)] = bid]
  /\ offset' = offset + 1
  /\ own' = own \ {bid}
  /\ UNCHANGED <<tail, kernelVars, cq, seen, callVars>>

\* Plausible bug: the count is ignored.
NewTail_One(count) == Add(tail, 1)

\* new_tail of io_uring_buf_ring_advance
NewTail(count) == Add(tail, count)

BufRingAdvance(count) ==
  /\ pc = "idle" /\ count <= offset
  /\ tail' = NewTail(count)
  /\ offset' = offset - count
  /\ UNCHANGED <<bufs, kernelVars, cqVars, callVars>>

\* Look at the next CQE: its buffer is the application's again.
Reap ==
  /\ pc = "idle" /\ seen < Len(cq)
  /\ seen' = seen + 1
  /\ own' = own \cup {cq[seen + 1]}
  /\ UNCHANGED <<ringVars, kernelVars, cq, callVars>>

\* __io_uring_buf_ring_cq_advance: the buffers, ...
BufRingCqAdvance(cqs, count) ==
  /\ pc = "idle" /\ count <= offset /\ cqs <= seen
  /\ tail' = NewTail(count)
  /\ offset' = offset - count
  /\ cq_count' = cqs
  /\ pc' = "cq_advance"
  /\ UNCHANGED <<bufs, kernelVars, cqVars, head, available>>

\* ... then the CQEs.
CqAdvance ==
  /\ pc = "cq_advance"
  /\ cq' = SubSeq(cq, cq_count + 1, Len(cq))
  /\ seen' = seen - cq_count
  /\ cq_count' = 0
  /\ pc' = "idle"
  /\ UNCHANGED <<ringVars, kernelVars, own, head, available>>

\* io_uring_buf_ring_available: io_uring_buf_ring_head asks the kernel, ...
BufRingHead ==
  /\ pc = "idle"
  /\ head' = khead
  /\ pc' = "available"
  /\ UNCHANGED <<ringVars, kernelVars, cqVars, cq_count, available>>

\* Plausible bug: the batch not advanced over yet is subtracted.
BufRingAvailable_NoOffset ==
  /\ pc = "available"
  /\ available' = tail - offset - head
  /\ head' = 0
  /\ pc' = "idle"
  /\ UNCHANGED <<ringVars, kernelVars, cqVars, cq_count>>

\* ... and the difference of a 16-bit tail and a 32-bit head is returned as an int.
BufRingAvailable ==
  /\ pc = "available"
  /\ available' = tail - head
  /\ head' = 0
  /\ pc' = "idle"
  /\ UNCHANGED <<ringVars, kernelVars, cqVars, cq_count>>
-----------------------------------------------------------------------------
(* The kernel *)

KTake ==
  /\ khead # tail
  /\ out' = <<bufs[khead % Entries]>>
  /\ inflight' = inflight \cup {bufs[khead % Entries]}
  /\ khead' = Add(khead, 1)
  /\ UNCHANGED <<ringVars, cqVars, callVars>>

KComplete(bid) ==
  /\ bid \in inflight /\ Len(cq) < CqSize
  /\ inflight' = inflight \ {bid}
  /\ cq' = Append(cq, bid)
  /\ UNCHANGED <<ringVars, khead, out, seen, own, callVars>>
-----------------------------------------------------------------------------
Next ==
  \/ \E bid \in Bids : BufRingAdd(bid) \/ KComplete(bid)
  \/ \E count \in 1 .. Entries : BufRingAdvance(count)
  \/ \E cqs, count \in 0 .. Entries : BufRingCqAdvance(cqs, count)
  \/ Reap \/ CqAdvance \/ BufRingHead \/ BufRingAvailable \/ KTake

Spec == Init /\ [][Next]_vars
-----------------------------------------------------------------------------
(* Properties *)

Provided == [k \in 1 .. Sub(tail, khead) + offset |-> bufs[Mask(khead + k - 1)]]

Unseen == SubSeq(cq, seen + 1, Len(cq))

(* Every buffer is in one place only: with the application, in one entry   *)
(* of the ring, with a request, or in a CQE not yet looked at.  So the     *)
(* kernel never writes to a buffer the application uses, none is handed    *)
(* out twice, and none is lost however long the ring is in use.            *)
OneOwner ==
  LET places == Provided \o Unseen IN
  /\ \A i, j \in DOMAIN places : places[i] = places[j] => i = j
  /\ LET listed == {places[i] : i \in DOMAIN places} IN
       /\ own \cap listed = {} /\ inflight \cap listed = {} /\ own \cap inflight = {}
       /\ own \cup inflight \cup listed = Bids

Queue == INSTANCE Fifo WITH
  Vals <- Bids, Cap <- Entries,
  fifo <- Provided, visible <- Sub(tail, khead)

(* The kernel takes the buffers in the order in which they were added, and *)
(* none before the tail was advanced over it.                              *)
TakesInOrder == Queue!Spec

(* Cut back to the width of the tail, what io_uring_buf_ring_available     *)
(* returns is at least the number of entries not consumed, which only      *)
(* shrinks while the kernel is asked for the head, and at most a ring of   *)
(* them.                                                                   *)
AvailableCounts ==
  [][pc = "available" /\ pc' = "idle" =>
       (available' % IdxMod) \in Sub(tail, khead) .. Entries]_vars
=============================================================================
