------------------------ MODULE SubmissionQueueFifo ------------------------
(* The submission queue implements a FIFO, for every ring size, index      *)
(* width, stride and request set, with and without SQPOLL.                 *)
EXTENDS SubmissionQueueProofs, SequenceLemmas

(* The requests filled in and not yet read, oldest first. *)
Pending == [k \in 1 .. Filled |-> Stored(Slot(Add(cached, k - 1)))]

(* Each of them is there: the submitter's view of the array has lost none. *)
PendingInv == Pending \in Seq(Reqs)

Visible == Sub(sqe_head, cached)
-----------------------------------------------------------------------------
(* The distances from the kernel's own head. *)
LEMMA FromCached ==
  ASSUME Inv
  PROVE  /\ sqe_head \in Idx /\ sqe_tail \in Idx /\ cached \in Idx /\ ktail \in Idx
         /\ Entries \in Nat /\ IdxMod \in Nat /\ Entries + 1 < IdxMod
         /\ Visible \in Nat /\ Sub(sqe_tail, cached) \in Nat /\ Sub(ktail, cached) \in Nat
         /\ Sub(ktail, cached) <= Visible /\ Visible <= Sub(sqe_tail, cached)
         /\ Sub(sqe_tail, cached) <= Entries
         /\ (pc = "fill" => Visible < Sub(sqe_tail, cached))
<1>1. /\ sqe_head \in Idx /\ sqe_tail \in Idx /\ cached \in Idx /\ ktail \in Idx /\ khead \in Idx
      /\ IndexOrder /\ PhaseInv
  BY DEF Inv, TypeOK
<1>2. /\ Sub(sqe_head, khead) \in Int /\ Sub(sqe_tail, khead) \in Int /\ Sub(ktail, khead) \in Int
      /\ Sub(cached, khead) \in Int /\ 0 <= Sub(cached, khead)
      /\ Entries \in Nat /\ IdxMod \in Nat /\ Entries + 1 < IdxMod
  BY <1>1, SubRange, RingAssumption
<1>3. /\ Sub(ktail, cached) = Sub(ktail, khead) - Sub(cached, khead)
      /\ Sub(sqe_head, cached) = Sub(sqe_head, khead) - Sub(cached, khead)
      /\ Sub(sqe_tail, cached) = Sub(sqe_tail, khead) - Sub(cached, khead)
  BY <1>1, <1>2, SubChain DEF IndexOrder
<1>4. /\ Sub(sqe_head, cached) \in Nat /\ Sub(sqe_tail, cached) \in Nat /\ Sub(ktail, cached) \in Nat
      /\ Sub(ktail, cached) <= Sub(sqe_head, cached) /\ Sub(sqe_head, cached) <= Sub(sqe_tail, cached)
      /\ Sub(sqe_tail, cached) <= Entries
  BY <1>1, <1>2, <1>3 DEF IndexOrder
<1>5. ASSUME pc = "fill"
      PROVE  Sub(sqe_head, cached) # Sub(sqe_tail, cached)
  BY <1>1, <1>5, SubSame DEF PhaseInv
<1>. QED  BY <1>1, <1>2, <1>4, <1>5 DEF Visible

(* Published requests are pending ones. *)
LEMMA FilledCovers ==
  ASSUME Inv
  PROVE  /\ Filled \in Nat /\ Visible \in Nat /\ Visible <= Filled /\ Filled <= Entries
         /\ (pc = "fill" => Filled = Sub(sqe_tail, cached) - 1 /\ Filled < Entries)
         /\ (pc # "fill" => Filled = Sub(sqe_tail, cached))
<1>1. CASE pc = "fill"
  BY <1>1, FromCached DEF Filled
<1>2. CASE pc # "fill"
  <2>1. Filled = Sub(sqe_tail, cached) - 0
    BY <1>2 DEF Filled
  <2>. QED  BY <1>2, <2>1, FromCached
<1>. QED  BY <1>1, <1>2

(* A step that keeps the number of pending requests and what the submitter *)
(* sees of the array.                                                      *)
LEMMA PendingKept ==
  ASSUME Filled' = Filled, cached' = cached, TypeOK, Inv,
         \A e \in Elements : Stored(e)' = Stored(e)
  PROVE  Pending' = Pending
<1>1. ASSUME NEW k \in 1 .. Filled
      PROVE  Slot(Add(cached, k - 1)) \in Elements
  <2>1. k - 1 \in Nat /\ k - 1 < IdxMod /\ cached \in Idx
    BY FilledCovers, FromCached
  <2>2. Add(cached, k - 1) \in Idx
    BY <2>1, AddDistance
  <2>. QED  BY <2>2, SlotInArray
<1>2. Pending' = [k \in 1 .. Filled |-> Stored(Slot(Add(cached, k - 1)))']
  BY DEF Pending, Slot, Mask, Add
<1>3. \A k \in 1 .. Filled : Stored(Slot(Add(cached, k - 1)))' = Stored(Slot(Add(cached, k - 1)))
  BY <1>1
<1>. QED  BY <1>2, <1>3 DEF Pending

(* FillSqe writes the entry after the last pending one, and none of those. *)
LEMMA FillAppends ==
  ASSUME Inv, PendingInv, NEW r \in Reqs, FillSqe(r)
  PROVE  /\ Pending' = Append(Pending, r) /\ Len(Pending) < Entries
         /\ Visible' = Visible /\ taken' = taken
<1>. DEFINE n == Filled
            last == Sub(sqe_tail, 1)
<1>1. /\ n \in Nat /\ n < Entries /\ n = Sub(sqe_tail, cached) - 1 /\ Len(Pending) = n
      /\ Pending \in Seq(Reqs)
  <2>1. pc = "fill"
    BY DEF FillSqe
  <2>2. n \in Nat /\ n < Entries /\ n = Sub(sqe_tail, cached) - 1
    BY <2>1, FilledCovers
  <2>. QED  BY <2>2 DEF Pending, PendingInv
<1>2. /\ sqe_tail \in Idx /\ cached \in Idx /\ Entries \in Nat /\ IdxMod \in Nat /\ Entries + 1 < IdxMod
      /\ sqeBuf \in [Elements -> Reqs \cup {None}]
  BY FromCached DEF Inv, TypeOK
<1>3. last \in Idx /\ last = Add(cached, n)
  <2>1. sqe_tail # cached
    BY <1>1, <1>2, SubRange
  <2>2. last \in Idx /\ Sub(last, cached) = n
    BY <1>1, <1>2, <2>1, SubLast
  <2>3. Add(cached, n) \in Idx /\ Sub(Add(cached, n), cached) = n
    BY <1>1, <1>2, AddDistance
  <2>. QED  BY <1>2, <2>2, <2>3, SubSame
<1>4. /\ sqeBuf' = [sqeBuf EXCEPT ![Slot(last)] = r] /\ pc' = "idle"
      /\ sqes' = sqes /\ cached' = cached /\ taken' = taken /\ sqe_head' = sqe_head
      /\ sqe_tail' = sqe_tail
  BY DEF FillSqe, libVars, kernVars
<1>5. Filled' = n + 1
  <2>1. Filled' = Sub(sqe_tail, cached) - 0
    BY <1>4 DEF Filled, Sub
  <2>2. Sub(sqe_tail, cached) \in Nat
    BY FromCached
  <2>. QED  BY <1>1, <2>1, <2>2
<1>. HIDE DEF n, last
<1>6. Slot(last) \in Elements
  BY <1>3, SlotInArray
<1>7. r # None /\ sqeBuf'[Slot(last)] = r
  BY <1>2, <1>4, <1>6, SqAssumption
<1>8. ASSUME NEW k \in 1 .. n
      PROVE  Stored(Slot(Add(cached, k - 1)))' = Pending[k]
  <2>. DEFINE i == Add(cached, k - 1)
  <2>1. k - 1 \in Nat /\ k - 1 < IdxMod /\ k - 1 < n
    BY <1>1, <1>2
  <2>2. i \in Idx /\ Sub(i, cached) = k - 1
    BY <1>2, <2>1, AddDistance
  <2>3. Sub(last, cached) = n
    BY <1>1, <1>2, <1>3, AddDistance
  <2>4. Sub(last, i) = n - (k - 1)
    BY <1>1, <1>2, <1>3, <2>1, <2>2, <2>3, SubChain
  <2>5. i # last /\ (n - (k - 1) < Entries)
    BY <1>1, <1>2, <2>1, <2>2, <2>3
  <2>6. Slot(i) # Slot(last) /\ Slot(i) \in Elements
    BY <1>3, <2>2, <2>4, <2>5, SlotInjective, SlotInArray
  <2>7. Pending[k] = Stored(Slot(i))
    BY DEF Pending, n
  <2>8. Slot(i)' = Slot(i)
    BY <1>4 DEF Slot, Mask, Add
  <2>. HIDE DEF i
  <2>9. sqeBuf'[Slot(i)] = sqeBuf[Slot(i)]
    BY <1>2, <1>4, <2>6
  <2>10. Stored(Slot(i))' = Stored(Slot(i))
    BY <1>4, <2>8, <2>9 DEF Stored
  <2>. QED  BY <2>7, <2>10 DEF i
<1>9. Pending' = [k \in 1 .. n + 1 |-> Stored(Slot(Add(cached, k - 1)))']
  BY <1>4, <1>5 DEF Pending, Slot, Mask, Add
<1>10. \A k \in 1 .. n + 1 : Stored(Slot(Add(cached, k - 1)))' = IF k <= n THEN Pending[k] ELSE r
  <2>. SUFFICES ASSUME NEW k \in 1 .. n + 1
                PROVE  Stored(Slot(Add(cached, k - 1)))' = IF k <= n THEN Pending[k] ELSE r
    OBVIOUS
  <2>1. CASE k <= n
    BY <1>1, <1>8, <2>1
  <2>2. CASE ~ (k <= n)
    <3>1. k - 1 = n
      BY <1>1, <2>2
    <3>. DEFINE i == Add(cached, k - 1)
    <3>2. Slot(i) = Slot(last)
      BY <1>3, <3>1
    <3>3. Slot(i)' = Slot(i)
      BY <1>4 DEF Slot, Mask, Add
    <3>. HIDE DEF i
    <3>4. Stored(Slot(i))' = r
      BY <1>7, <3>2, <3>3 DEF Stored
    <3>. QED  BY <2>2, <3>4 DEF i
  <2>. QED  BY <2>1, <2>2
<1>11. Append(Pending, r) = [k \in 1 .. n + 1 |-> IF k <= n THEN Pending[k] ELSE r]
  BY <1>1, AppendAsFunction
<1>12. Visible' = Visible
  BY <1>4 DEF Visible, Sub
<1>. QED  BY <1>1, <1>4, <1>9, <1>10, <1>11, <1>12

(* The kernel reads the oldest pending request, from memory and not from a *)
(* store still on its way.                                                 *)
LEMMA TakeFirst ==
  ASSUME Inv, SlotOwnership, PendingInv, KTake
  PROVE  /\ Pending # <<>> /\ Pending' = Tail(Pending)
         /\ taken' = Pending[1] /\ taken' # None
         /\ Visible >= 1 /\ Visible' = Visible - 1
<1>. DEFINE n == Filled
<1>1. /\ sqe_head \in Idx /\ sqe_tail \in Idx /\ cached \in Idx /\ ktail \in Idx
      /\ Entries \in Nat /\ IdxMod \in Nat /\ Entries + 1 < IdxMod
      /\ Visible \in Nat /\ Sub(sqe_tail, cached) \in Nat
      /\ Sub(ktail, cached) \in Nat /\ Sub(ktail, cached) <= Visible
      /\ Visible <= Sub(sqe_tail, cached)
  BY FromCached
<1>2. n \in Nat /\ Visible <= n /\ n <= Entries
  BY FilledCovers
<1>3. /\ cached # ktail /\ taken' = sqes[KSlot(cached)] /\ cached' = Add(cached, 1)
      /\ sqes' = sqes /\ sqeBuf' = sqeBuf /\ sqe_head' = sqe_head /\ sqe_tail' = sqe_tail
      /\ pc' = pc /\ (SqPoll \/ pc = "in_kernel")
  BY DEF KTake, libVars, memVars
<1>4. Sub(ktail, cached) >= 1
  BY <1>1, <1>3, SubRange
<1>5. Visible >= 1 /\ n >= 1 /\ Sub(sqe_tail, cached) >= 1
  BY <1>1, <1>2, <1>4
<1>6. Pending \in Seq(Reqs) /\ Len(Pending) = n
  BY <1>2 DEF Pending, PendingInv
<1>7. Pending # <<>> /\ Pending[1] \in Reqs
  BY <1>2, <1>5, <1>6
<1>8. taken' = Pending[1]
  <2>1. cached \in Window(cached, ktail)
    <3>1. Sub(cached, cached) = 0
      BY <1>1, SubRange
    <3>. QED  BY <1>1, <1>4, <3>1 DEF Window
  <2>2. sqeBuf[KSlot(cached)] = None
    BY <1>3, <2>1 DEF SlotOwnership
  <2>3. KSlot(cached) = Slot(cached)
    BY <1>1, SlotInArray
  <2>4. Add(cached, 0) = cached
    <3>1. Add(cached, 0) \in Idx /\ Sub(Add(cached, 0), cached) = 0
      BY <1>1, AddDistance
    <3>. QED  BY <1>1, <3>1, SubRange
  <2>5. Pending[1] = Stored(Slot(Add(cached, 1 - 1)))
    BY <1>2, <1>5 DEF Pending
  <2>6. 1 - 1 = 0
    OBVIOUS
  <2>7. Pending[1] = Stored(Slot(cached))
    BY <2>4, <2>5, <2>6
  <2>. QED  BY <1>3, <2>2, <2>3, <2>7 DEF Stored
<1>9. taken' # None
  BY <1>7, <1>8, SqAssumption
<1>10. ASSUME NEW i \in Idx, Sub(i, cached) >= 1
       PROVE  Sub(i, cached') = Sub(i, cached) - 1
  <2>1. Add(cached, 1) \in Idx /\ Sub(Add(cached, 1), cached) = 1
    BY <1>1, AddDistance
  <2>2. Sub(i, cached) \in Int
    BY <1>1, SubRange
  <2>3. Sub(Add(cached, 1), cached) <= Sub(i, cached)
    BY <1>10, <2>1
  <2>4. Sub(i, Add(cached, 1)) = Sub(i, cached) - Sub(Add(cached, 1), cached)
    BY <1>1, <2>1, <2>3, SubChain
  <2>. QED  BY <1>3, <2>1, <2>4
<1>11. Visible' = Visible - 1
  <2>1. Sub(sqe_head, cached') = Sub(sqe_head, cached) - 1
    BY <1>1, <1>5, <1>10 DEF Visible
  <2>. QED  BY <1>3, <2>1 DEF Visible, Sub
<1>12. Filled' = n - 1
  <2>1. Sub(sqe_tail, cached)' = Sub(sqe_tail, cached) - 1
    <3>1. Sub(sqe_tail, cached') = Sub(sqe_tail, cached) - 1
      BY <1>1, <1>5, <1>10
    <3>. QED  BY <1>3, <3>1 DEF Sub
  <2>2. CASE pc = "fill"
    <3>1. n = Sub(sqe_tail, cached) - 1
      BY <2>2 DEF Filled
    <3>2. Filled' = Sub(sqe_tail, cached)' - 1
      BY <1>3, <2>2 DEF Filled
    <3>. QED  BY <2>1, <3>1, <3>2
  <2>3. CASE pc # "fill"
    <3>1. n = Sub(sqe_tail, cached) - 0
      BY <2>3 DEF Filled
    <3>2. Filled' = Sub(sqe_tail, cached)' - 0
      BY <1>3, <2>3 DEF Filled
    <3>. QED  BY <1>1, <2>1, <3>1, <3>2
  <2>. QED  BY <2>2, <2>3
<1>13. \A k \in 1 .. n : Pending[k] = Stored(Slot(Add(cached, k - 1)))
  BY DEF Pending
<1>14. Pending' = [k \in 1 .. n - 1 |-> Stored(Slot(Add(Add(cached, 1), k - 1)))]
  BY <1>3, <1>12 DEF Pending, Slot, Mask, Add, Stored
<1>. HIDE DEF n
<1>15. \A k \in 1 .. n - 1 : Stored(Slot(Add(Add(cached, 1), k - 1))) = Pending[k + 1]
  <2>. SUFFICES ASSUME NEW k \in 1 .. n - 1
                PROVE  Stored(Slot(Add(Add(cached, 1), k - 1))) = Pending[k + 1]
    OBVIOUS
  <2>1. k - 1 \in Nat /\ (k - 1) + 1 < IdxMod /\ (k - 1) + 1 = (k + 1) - 1 /\ k + 1 \in 1 .. n
    BY <1>1, <1>2
  <2>2. Add(Add(cached, 1), k - 1) = Add(cached, (k - 1) + 1)
    BY <1>1, <2>1, AddAdd
  <2>. QED  BY <1>13, <2>1, <2>2
<1>16. Tail(Pending) = [k \in 1 .. n - 1 |-> Pending[k + 1]]
  BY <1>2, <1>5, <1>6, TailAsFunction
<1>17. Pending' = Tail(Pending)
  BY <1>14, <1>15, <1>16
<1>. QED  BY <1>5, <1>7, <1>8, <1>9, <1>11, <1>17

(* The other steps move stores to memory, hand out an SQE not filled in    *)
(* yet, or publish.                                                        *)
LEMMA OtherSteps ==
  ASSUME Inv, [Next]_vars, ~ KTake, ~ \E r \in Reqs : FillSqe(r)
  PROVE  /\ Pending' = Pending /\ taken' = taken
         /\ Visible' = Visible \/ Visible' = Filled
<1>. USE DEF libVars, memVars, subVars, kernVars
<1>1. cached' = cached /\ taken' = taken
  BY DEF Next, Submitter, SubmitSteps, Kernel, Memory, GetSqeLoad, GetSqeCheck, FlushSq, FlushLoad,
         NothingToSubmit, MustEnter, Fence, ReadFlags, EnterSqPoll, EnterTask, SqringWait, KCommit,
         KReturn, KIdle, KRecheck, KResume, KSpace, CommitSqe, CommitTail, vars
<1>2. TypeOK
  BY DEF Inv
<1>3. CASE GetSqeCheck
  <2>1. UNCHANGED <<sqe_head, sqes, sqeBuf>>
    BY <1>3 DEF GetSqeCheck
  <2>2. CASE sqe_tail' = sqe_tail /\ pc' = "idle"
    <3>1. Filled' = Filled
      BY <1>1, <1>3, <2>2 DEF GetSqeCheck, Filled, Sub
    <3>2. \A e \in Elements : Stored(e)' = Stored(e)
      BY <2>1 DEF Stored
    <3>. QED  BY <1>1, <1>2, <2>1, <3>1, <3>2, PendingKept DEF Visible, Sub
  <2>3. CASE /\ Sub(Add(sqe_tail, 1), head) <= Entries
             /\ sqe_tail' = Add(sqe_tail, 1) /\ pc' = "fill"
    <3>1. /\ sqe_tail \in Idx /\ cached \in Idx /\ khead \in Idx
          /\ Sub(sqe_tail, cached) \in Nat /\ Sub(sqe_tail, cached) <= Entries
          /\ Entries \in Nat /\ IdxMod \in Nat /\ Entries + 1 < IdxMod
      BY <1>2, FromCached DEF TypeOK
    <3>2. Sub(Add(sqe_tail, 1), cached) = Sub(sqe_tail, cached) + 1
      BY <3>1, SubStep
    <3>3. Filled = Sub(sqe_tail, cached)
      <4>1. Filled = Sub(sqe_tail, cached) - 0
        BY <1>3 DEF GetSqeCheck, Filled
      <4>. QED  BY <3>1, <4>1
    <3>4. Filled' = (Sub(sqe_tail, cached) + 1) - 1
      BY <1>1, <2>3, <3>2 DEF Filled, Sub
    <3>5. Filled' = Filled
      BY <3>1, <3>3, <3>4
    <3>6. \A e \in Elements : Stored(e)' = Stored(e)
      BY <2>1 DEF Stored
    <3>. QED  BY <1>1, <1>2, <2>1, <3>5, <3>6, PendingKept DEF Visible, Sub
  <2>. QED  BY <1>3, <2>2, <2>3 DEF GetSqeCheck
<1>4. CASE ~ GetSqeCheck
  <2>1. sqe_tail' = sqe_tail /\ (pc' = "fill" <=> pc = "fill")
    BY <1>4 DEF Next, Submitter, SubmitSteps, Kernel, Memory, GetSqeLoad, FlushSq, FlushLoad,
         NothingToSubmit, MustEnter, Fence, ReadFlags, EnterSqPoll, EnterTask, SqringWait, KCommit,
         KReturn, KIdle, KRecheck, KResume, KSpace, CommitSqe, CommitTail, vars
  <2>2. Filled' = Filled
    BY <1>1, <2>1 DEF Filled, Sub
  <2>3. \A e \in Elements : Stored(e)' = Stored(e)
    <3>1. CASE EnterTask
      BY <3>1 DEF EnterTask, Stored, NoStores
    <3>2. ASSUME NEW f \in Elements, CommitSqe(f)
          PROVE  \A e \in Elements : Stored(e)' = Stored(e)
      BY <1>2, <3>2 DEF CommitSqe, Stored, TypeOK
    <3>3. CASE UNCHANGED <<sqes, sqeBuf>>
      BY <3>3 DEF Stored
    <3>. QED
      BY <1>4, <3>1, <3>2, <3>3
      DEF Next, Submitter, SubmitSteps, Kernel, Memory, GetSqeLoad, FlushSq, FlushLoad,
         NothingToSubmit, MustEnter, Fence, ReadFlags, EnterSqPoll, SqringWait, KCommit,
         KReturn, KIdle, KRecheck, KResume, KSpace, CommitTail, vars
  <2>4. Pending' = Pending
    BY <1>1, <1>2, <2>2, <2>3, PendingKept
  <2>5. ASSUME NEW needs \in BOOLEAN, FlushSq(needs)
        PROVE  Visible' = Filled
    <3>1. sqe_head' = sqe_tail /\ pc # "fill"
      BY <2>5 DEF FlushSq
    <3>2. Filled = Sub(sqe_tail, cached)
      BY <3>1, FilledCovers
    <3>. QED  BY <1>1, <3>1, <3>2 DEF Visible, Sub
  <2>6. sqe_head' = sqe_head \/ \E needs \in BOOLEAN : FlushSq(needs)
    BY <1>4 DEF Next, Submitter, SubmitSteps, Kernel, Memory, GetSqeLoad, FlushLoad,
         NothingToSubmit, MustEnter, Fence, ReadFlags, EnterSqPoll, EnterTask, SqringWait, KCommit,
         KReturn, KIdle, KRecheck, KResume, KSpace, CommitSqe, CommitTail, vars
  <2>7. sqe_head' = sqe_head => Visible' = Visible
    BY <1>1 DEF Visible, Sub
  <2>. QED  BY <1>1, <2>4, <2>5, <2>6, <2>7
<1>. QED  BY <1>3, <1>4
-----------------------------------------------------------------------------
(* The submission queue implements the FIFO: the kernel reads each request *)
(* of get_sqe once, in order, as it was filled in, and none before         *)
(* __io_uring_flush_sq published it, whatever the ring size, wherever the  *)
(* indices wrap and in whatever order the stores reach memory.             *)
THEOREM RequestsLeaveInOrder == Spec => SubmitsInOrder
<1>1. Init => Queue!Init /\ PendingInv
  <2>. SUFFICES ASSUME Init
                PROVE  Queue!Init /\ PendingInv
    OBVIOUS
  <2>1. 0 \in Idx
    BY RingAssumption DEF Idx
  <2>2. Sub(sqe_head, cached) = 0 /\ Sub(sqe_tail, cached) = 0
    BY <2>1, SubRange DEF Init
  <2>3. Filled = 0 - 0
    BY <2>2 DEF Init, Filled
  <2>4. Pending = <<>>
    BY <2>3 DEF Pending
  <2>5. taken = None
    BY DEF Init
  <2>. QED  BY <2>2, <2>4, <2>5, EmptySeq DEF Queue!Init, PendingInv, Pending
<1>2. Inv /\ SlotOwnership /\ PendingInv /\ [Next]_vars
        => PendingInv' /\ [Queue!Next]_(Queue!vars)
  <2>. SUFFICES ASSUME Inv, SlotOwnership, PendingInv, [Next]_vars
                PROVE  PendingInv' /\ (Queue!Next \/ UNCHANGED Queue!vars)
    OBVIOUS
  <2>1. ASSUME NEW r \in Reqs, FillSqe(r)
        PROVE  PendingInv' /\ Queue!Next
    <3>1. /\ Pending' = Append(Pending, r) /\ Len(Pending) < Entries
          /\ Visible' = Visible /\ taken' = taken
      BY <2>1, FillAppends
    <3>2. PendingInv'
      BY <3>1, AppendProperties DEF PendingInv
    <3>3. Queue!Put(r)
      BY <3>1 DEF Queue!Put, Pending, Visible
    <3>. QED  BY <3>2, <3>3 DEF Queue!Next
  <2>2. CASE KTake
    <3>1. /\ Pending # <<>> /\ Pending' = Tail(Pending)
          /\ taken' = Pending[1] /\ taken' # None
          /\ Visible >= 1 /\ Visible' = Visible - 1
      BY <2>2, TakeFirst
    <3>2. PendingInv'
      BY <3>1, HeadTailProperties DEF PendingInv
    <3>3. /\ SubSeq(Pending, 1, 1) = <<taken'>>
          /\ SubSeq(Pending, 1 + 1, Len(Pending)) = Pending'
      BY <3>1, FirstOnly DEF PendingInv
    <3>4. Visible \in Nat
      BY FromCached
    <3>5. 1 \in 1 .. Visible /\ 1 <= Visible
      BY <3>1, <3>4
    <3>6. Queue!Take(1)
      BY <3>1, <3>3, <3>5 DEF Queue!Take, Pending, Visible
    <3>. QED  BY <3>2, <3>5, <3>6 DEF Queue!Next, Visible
  <2>3. CASE ~ KTake /\ ~ \E r \in Reqs : FillSqe(r)
    <3>1. /\ Pending' = Pending /\ taken' = taken
          /\ Visible' = Visible \/ Visible' = Filled
      BY <2>3, OtherSteps
    <3>2. PendingInv'
      BY <3>1 DEF PendingInv
    <3>3. CASE Visible' = Visible
      BY <3>1, <3>2, <3>3 DEF Queue!vars, Pending, Visible
    <3>4. CASE Visible' = Filled /\ Visible' # Visible
      <4>1. Visible \in Nat /\ Filled \in Nat /\ Visible <= Filled
        BY FilledCovers
      <4>2. Len(Pending) = Filled
        BY <4>1 DEF Pending
      <4>3. Visible' \in Visible + 1 .. Len(Pending)
        BY <3>4, <4>1, <4>2
      <4>4. Queue!Publish
        BY <3>1, <4>3 DEF Queue!Publish, Pending, Visible
      <4>. QED  BY <3>2, <4>4 DEF Queue!Next
    <3>. QED  BY <3>1, <3>3, <3>4
  <2>. QED  BY <2>1, <2>2, <2>3
<1>. QED
  BY <1>1, <1>2, Invariance, KernelReadsOwnedSlots, PTL DEF Spec, SubmitsInOrder, Queue!Spec
=============================================================================
