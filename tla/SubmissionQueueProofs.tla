----------------------- MODULE SubmissionQueueProofs -----------------------
(* The submission queue, for every ring size, index width and request set. *)
EXTENDS SubmissionQueue, RingIndexProofs, TLAPS

InSubmit == {"flush_sq", "needs_enter", "read_flags", "enter", "in_kernel"}

(* The value of *khead the submitter saw last is no newer than *khead and  *)
(* less than a ring older than sqe_tail: get_sqe may trust it.             *)
StaleHead == Sub(khead, head) + Sub(sqe_tail, khead) <= Entries

(* Where the store to *ktail is, and at which point of a submit call.      *)
StoreInv ==
  /\ tailBuf = None => ktail = sqe_head
  /\ tailBuf # None => /\ tailBuf = sqe_head /\ ktail # sqe_head
                       /\ \/ pc \in {"flush_sq", "needs_enter"}
                          \/ pc = "enter" /\ ~SqPoll

(* What is known at each point of a call.                                  *)
PhaseInv ==
  /\ pc \in InSubmit => sqe_head = sqe_tail
  /\ pc = "fill" => sqe_head # sqe_tail
  /\ SqPoll => pc # "in_kernel"
  /\ pc \in {"read_flags", "sqring_wait"} => SqPoll
  /\ pc = "in_kernel" => sqeBuf = NoStores
  /\ ~SqPoll => kpc = "poll" /\ (pc # "in_kernel" => cached = khead)

(* With SQPOLL a store to an SQE is on its way only beyond *ktail.         *)
BufInv ==
  SqPoll => \A e \in Elements :
              sqeBuf[e] # None => \E i \in Window(ktail, sqe_tail) : e = Slot(i)

(* A thread asleep next to visible work is about to be woken.              *)
WakeInv ==
  /\ needWakeup = (kpc # "poll")
  /\ kpc = "asleep" /\ cached # ktail =>
       \/ pc \in {"flush_sq", "needs_enter", "read_flags"}
       \/ pc = "enter" /\ wake

Inv ==
  /\ TypeOK /\ IndexOrder /\ StaleHead /\ StoreInv /\ PhaseInv /\ FlushEstimate
  /\ BufInv /\ WakeInv
-----------------------------------------------------------------------------
(* The library and the kernel agree on the element of an index, and it is  *)
(* inside the SQE array.                                                   *)
LEMMA SlotInArray ==
  ASSUME NEW i \in Idx
  PROVE  Slot(i) \in Elements /\ KSlot(i) = Slot(i)
<1>1. i % Entries \in 0 .. Entries - 1
  BY RingAssumption, Division DEF Idx
<1>2. CASE Stride = 1
  BY <1>1, <1>2, RingAssumption DEF Slot, KSlot, Mask, Elements
<1>3. CASE Stride = 2
  BY <1>1, <1>3, RingAssumption DEF Slot, KSlot, Mask, Elements
<1>. QED  BY <1>2, <1>3, SqAssumption

(* Every step keeps every variable inside its C type. *)
LEMMA TypeStep ==
  ASSUME TypeOK, [Next]_vars
  PROVE  TypeOK'
<1>. USE DEF TypeOK, libVars, memVars, subVars, kernVars
<1>1. CASE GetSqeLoad
  BY <1>1 DEF GetSqeLoad
<1>2. CASE GetSqeCheck
  BY <1>2, SubStep DEF GetSqeCheck
<1>3. ASSUME NEW r \in Reqs, FillSqe(r)
      PROVE  TypeOK'
  BY <1>3 DEF FillSqe
<1>4. ASSUME NEW needs \in BOOLEAN, FlushSq(needs)
      PROVE  TypeOK'
  BY <1>4 DEF FlushSq
<1>5. CASE FlushLoad
  BY <1>5, SubRange DEF FlushLoad, HeadSeen, Window
<1>6. CASE NothingToSubmit \/ MustEnter \/ Fence
  BY <1>6 DEF NothingToSubmit, MustEnter, Fence
<1>7. CASE ReadFlags
  BY <1>7 DEF ReadFlags
<1>8. CASE EnterSqPoll
  BY <1>8 DEF EnterSqPoll
<1>9. CASE EnterTask
  BY <1>9 DEF EnterTask, NoStores
<1>10. CASE SqringWait
  BY <1>10 DEF SqringWait
<1>11. CASE KTake
  <2>1. submitted' \in Idx
    <3>1. CASE SqPoll
      BY <1>11, <3>1 DEF KTake
    <3>2. CASE ~SqPoll
      BY <1>11, <3>2, RingAssumption DEF KTake, Idx
    <3>. QED  BY <3>1, <3>2
  <2>2. taken' \in Reqs \cup {None}
    BY <1>11, SlotInArray DEF KTake
  <2>3. cached' \in Idx
    BY <1>11, SubStep DEF KTake
  <2>. QED  BY <1>11, <2>1, <2>2, <2>3 DEF KTake
<1>12. CASE KCommit \/ KReturn \/ KIdle \/ KRecheck \/ KResume \/ KSpace
  BY <1>12 DEF KCommit, KReturn, KIdle, KRecheck, KResume, KSpace
<1>13. ASSUME NEW e \in Elements, CommitSqe(e)
       PROVE  TypeOK'
  BY <1>13 DEF CommitSqe
<1>14. CASE CommitTail
  BY <1>14 DEF CommitTail
<1>15. CASE UNCHANGED vars
  BY <1>15 DEF vars
<1>. QED
  BY <1>1, <1>2, <1>3, <1>4, <1>5, <1>6, <1>7, <1>8, <1>9, <1>10, <1>11, <1>12,
     <1>13, <1>14, <1>15
  DEF Next, Submitter, SubmitSteps, Kernel, Memory

(* get_sqe's test, on a head that may be stale and indices that may wrap,  *)
(* finds room only if there is room.                                       *)
LEMMA GetSqeRoom ==
  ASSUME Inv, Sub(Add(sqe_tail, 1), head) <= Entries
  PROVE  /\ Sub(Add(sqe_tail, 1), khead) = Sub(sqe_tail, khead) + 1
         /\ Sub(khead, head) + Sub(sqe_tail, khead) + 1 <= Entries
<1>1. sqe_tail \in Idx /\ khead \in Idx /\ head \in Idx /\ StaleHead
  BY DEF Inv, TypeOK
<1>2. /\ Entries \in Int /\ IdxMod \in Int /\ Entries + 1 < IdxMod
      /\ Sub(khead, head) \in Int /\ 0 <= Sub(khead, head) /\ Sub(sqe_tail, khead) \in Int
  BY <1>1, SubRange, RingAssumption
<1>3. Sub(sqe_tail, head) = Sub(khead, head) + Sub(sqe_tail, khead)
  BY <1>1, <1>2, SubChain DEF StaleHead
<1>4. Sub(sqe_tail, head) + 1 <= Entries
  BY <1>1, <1>2, <1>3, SubStep, SubRange DEF StaleHead
<1>5. Sub(Add(sqe_tail, 1), khead) = Sub(sqe_tail, khead) + 1
  BY <1>1, <1>2, <1>3, <1>4, SubStep
<1>. QED  BY <1>2, <1>3, <1>4, <1>5

(* The index order and the stale copy of the head are kept. *)
LEMMA OrderStep ==
  ASSUME Inv, [Next]_vars
  PROVE  IndexOrder' /\ StaleHead'
<1>. USE DEF libVars, memVars, subVars, kernVars
<1>0. /\ sqe_head \in Idx /\ sqe_tail \in Idx /\ ktail \in Idx /\ khead \in Idx
      /\ head \in Idx /\ cached \in Idx /\ tailBuf \in Idx \cup {None}
      /\ IndexOrder /\ StaleHead /\ StoreInv /\ PhaseInv
  BY DEF Inv, TypeOK
<1>a. /\ Entries \in Int /\ IdxMod \in Int /\ Entries + 1 < IdxMod
      /\ Sub(khead, khead) = 0 /\ Sub(khead, head) \in Int /\ 0 <= Sub(khead, head)
      /\ Sub(sqe_head, khead) \in Int /\ Sub(sqe_tail, khead) \in Int
      /\ Sub(ktail, khead) \in Int /\ Sub(cached, khead) \in Int /\ 0 <= Sub(cached, khead)
  BY <1>0, SubRange, RingAssumption
<1>1. CASE GetSqeLoad
  BY <1>0, <1>1, <1>a DEF GetSqeLoad, IndexOrder, StaleHead
<1>2. CASE GetSqeCheck
  <2>1. CASE sqe_tail' = sqe_tail
    BY <1>0, <1>2, <2>1 DEF GetSqeCheck, IndexOrder, StaleHead
  <2>2. CASE sqe_tail' = Add(sqe_tail, 1) /\ Sub(Add(sqe_tail, 1), head) <= Entries
    BY <1>0, <1>2, <1>a, <2>2, GetSqeRoom DEF GetSqeCheck, IndexOrder, StaleHead
  <2>. QED  BY <1>2, <2>1, <2>2 DEF GetSqeCheck
<1>3. ASSUME NEW r \in Reqs, FillSqe(r)
      PROVE  IndexOrder' /\ StaleHead'
  BY <1>0, <1>3 DEF FillSqe, IndexOrder, StaleHead
<1>4. ASSUME NEW needs \in BOOLEAN, FlushSq(needs)
      PROVE  IndexOrder' /\ StaleHead'
  BY <1>0, <1>a, <1>4 DEF FlushSq, IndexOrder, StaleHead
<1>5. CASE FlushLoad
  <2>0. PICK h \in HeadSeen : head' = h
    BY <1>5 DEF FlushLoad
  <2>u. UNCHANGED <<libVars, memVars, khead, cached>>
    BY <1>5 DEF FlushLoad
  <2>1. CASE h = khead
    BY <1>0, <1>a, <2>0, <2>1, <2>u DEF IndexOrder, StaleHead
  <2>2. CASE h \in Window(head, khead)
    <3>1. /\ h \in Idx /\ Sub(h, head) \in Int /\ 0 <= Sub(h, head)
          /\ Sub(h, head) <= Sub(khead, head)
      BY <1>0, <1>a, <2>2, SubRange DEF Window
    <3>2. Sub(khead, h) = Sub(khead, head) - Sub(h, head)
      BY <1>0, <3>1, SubChain
    <3>. QED  BY <1>0, <1>a, <2>0, <2>u, <3>1, <3>2 DEF IndexOrder, StaleHead
  <2>. QED  BY <2>1, <2>2 DEF HeadSeen
<1>6. CASE NothingToSubmit \/ MustEnter \/ Fence \/ ReadFlags \/ EnterSqPoll \/ SqringWait
  BY <1>0, <1>6 DEF NothingToSubmit, MustEnter, Fence, ReadFlags, EnterSqPoll, SqringWait,
                    IndexOrder, StaleHead
<1>7. CASE EnterTask
  BY <1>0, <1>a, <1>7 DEF EnterTask, IndexOrder, StaleHead, StoreInv
<1>8. CASE KTake
  <2>1. Sub(cached, khead) < Sub(ktail, khead)
    <3>1. Sub(ktail, cached) = Sub(ktail, khead) - Sub(cached, khead)
      BY <1>0, <1>a, SubChain DEF IndexOrder
    <3>2. Sub(ktail, cached) # 0
      BY <1>0, <1>8, SubRange DEF KTake
    <3>. QED  BY <1>0, <1>a, <3>1, <3>2 DEF IndexOrder
  <2>2. Sub(Add(cached, 1), khead) = Sub(cached, khead) + 1
    BY <1>0, <1>a, <2>1, SubStep, SubRange
  <2>. QED  BY <1>0, <1>a, <1>8, <2>1, <2>2 DEF KTake, IndexOrder, StaleHead
<1>9. CASE KCommit \/ KReturn
  <2>1. khead' = cached /\ UNCHANGED <<libVars, memVars, cached, head>>
    BY <1>9 DEF KCommit, KReturn
  <2>2. /\ Sub(cached, cached) = 0
        /\ Sub(ktail, cached) = Sub(ktail, khead) - Sub(cached, khead)
        /\ Sub(sqe_head, cached) = Sub(sqe_head, khead) - Sub(cached, khead)
        /\ Sub(sqe_tail, cached) = Sub(sqe_tail, khead) - Sub(cached, khead)
    BY <1>0, <1>a, SubChain, SubRange DEF IndexOrder
  <2>3. Sub(cached, head) = Sub(khead, head) + Sub(cached, khead)
    BY <1>0, <1>a, SubChain DEF IndexOrder, StaleHead
  <2>. QED  BY <1>0, <1>a, <2>1, <2>2, <2>3 DEF IndexOrder, StaleHead
<1>10. CASE KIdle \/ KRecheck \/ KResume \/ KSpace
  BY <1>0, <1>10 DEF KIdle, KRecheck, KResume, KSpace, IndexOrder, StaleHead
<1>11. ASSUME NEW e \in Elements, CommitSqe(e)
       PROVE  IndexOrder' /\ StaleHead'
  BY <1>0, <1>11 DEF CommitSqe, IndexOrder, StaleHead
<1>12. CASE CommitTail
  BY <1>0, <1>a, <1>12 DEF CommitTail, IndexOrder, StaleHead, StoreInv
<1>13. CASE UNCHANGED vars
  BY <1>0, <1>13 DEF vars, IndexOrder, StaleHead
<1>. QED
  BY <1>1, <1>2, <1>3, <1>4, <1>5, <1>6, <1>7, <1>8, <1>9, <1>10, <1>11, <1>12, <1>13
  DEF Next, Submitter, SubmitSteps, Kernel, Memory

(* With nothing outstanding, all indices coincide. *)
LEMMA DrainedRing ==
  ASSUME TypeOK, IndexOrder, SqReady = 0
  PROVE  cached = khead /\ ktail = khead /\ sqe_head = khead /\ sqe_tail = khead
<1>1. /\ khead \in Idx /\ cached \in Idx /\ ktail \in Idx /\ sqe_head \in Idx /\ sqe_tail \in Idx
  BY DEF TypeOK
<1>2. /\ Sub(cached, khead) \in Int /\ 0 <= Sub(cached, khead)
      /\ Sub(ktail, khead) \in Int /\ Sub(sqe_head, khead) \in Int
  BY <1>1, SubRange
<1>3. /\ Sub(cached, khead) = 0 /\ Sub(ktail, khead) = 0 /\ Sub(sqe_head, khead) = 0
      /\ Sub(sqe_tail, khead) = 0
  BY <1>2 DEF IndexOrder, SqReady
<1>. QED  BY <1>1, <1>3, SubRange

(* In a submit call that found nothing to submit, nothing is outstanding.  *)
LEMMA NothingOutstanding ==
  ASSUME Inv, NothingToSubmit
  PROVE  SqReady = 0
<1>1. SqReady <= 0
  BY DEF Inv, FlushEstimate, NothingToSubmit
<1>2. SqReady \in Int /\ 0 <= SqReady
  BY SubRange DEF Inv, TypeOK, SqReady
<1>. QED  BY <1>1, <1>2

(* The store of *ktail and the points of a call stay in step. *)
LEMMA StoreStep ==
  ASSUME Inv, [Next]_vars
  PROVE  StoreInv' /\ PhaseInv'
<1>. USE DEF libVars, memVars, subVars, kernVars
<1>0. TypeOK /\ IndexOrder /\ StoreInv /\ PhaseInv
  BY DEF Inv
<1>1. CASE GetSqeLoad
  BY <1>0, <1>1 DEF GetSqeLoad, StoreInv, PhaseInv, InSubmit
<1>2. CASE GetSqeCheck
  <2>1. CASE pc' = "idle" /\ UNCHANGED sqe_tail
    BY <1>0, <1>2, <2>1 DEF GetSqeCheck, StoreInv, PhaseInv, InSubmit
  <2>2. CASE /\ Sub(Add(sqe_tail, 1), head) <= Entries
             /\ sqe_tail' = Add(sqe_tail, 1) /\ pc' = "fill"
    <3>1. sqe_head' # sqe_tail'
      <4>1. sqe_head' = sqe_head
        BY <1>2 DEF GetSqeCheck
      <4>2. Sub(Add(sqe_tail, 1), khead) = Sub(sqe_tail, khead) + 1
        BY <2>2, GetSqeRoom
      <4>3. Sub(sqe_head, khead) \in Int /\ Sub(sqe_tail, khead) \in Int
        BY <1>0, SubRange DEF TypeOK
      <4>. QED  BY <1>0, <2>2, <4>1, <4>2, <4>3 DEF IndexOrder
    <3>. QED  BY <1>0, <1>2, <2>2, <3>1 DEF GetSqeCheck, StoreInv, PhaseInv, InSubmit
  <2>. QED  BY <1>2, <2>1, <2>2 DEF GetSqeCheck
<1>3. ASSUME NEW r \in Reqs, FillSqe(r)
      PROVE  StoreInv' /\ PhaseInv'
  BY <1>0, <1>3 DEF FillSqe, StoreInv, PhaseInv, InSubmit
<1>4. ASSUME NEW needs \in BOOLEAN, FlushSq(needs)
      PROVE  StoreInv' /\ PhaseInv'
  BY <1>0, <1>4, SqAssumption DEF FlushSq, StoreInv, PhaseInv, InSubmit, TypeOK
<1>5. CASE FlushLoad
  <2>1. pc = "flush_sq" /\ pc' = "needs_enter" /\ UNCHANGED <<libVars, memVars, kernVars>>
    BY <1>5 DEF FlushLoad
  <2>. QED  BY <1>0, <2>1 DEF StoreInv, PhaseInv, InSubmit
<1>6. CASE NothingToSubmit
  <2>1. ktail = sqe_head
    BY <1>0, <1>6, NothingOutstanding, DrainedRing
  <2>. QED  BY <1>0, <1>6, <2>1 DEF NothingToSubmit, StoreInv, PhaseInv, InSubmit
<1>7. CASE MustEnter \/ Fence \/ ReadFlags
  BY <1>0, <1>7 DEF MustEnter, Fence, ReadFlags, StoreInv, PhaseInv, InSubmit
<1>8. CASE EnterSqPoll
  BY <1>0, <1>8 DEF EnterSqPoll, StoreInv, PhaseInv, InSubmit
<1>9. CASE EnterTask
  BY <1>0, <1>9 DEF EnterTask, StoreInv, PhaseInv, InSubmit
<1>10. CASE SqringWait
  BY <1>0, <1>10 DEF SqringWait, StoreInv, PhaseInv, InSubmit
<1>11. CASE KTake
  BY <1>0, <1>11 DEF KTake, StoreInv, PhaseInv, InSubmit
<1>12. CASE KCommit \/ KReturn \/ KSpace
  BY <1>0, <1>12 DEF KCommit, KReturn, KSpace, StoreInv, PhaseInv, InSubmit
<1>13. CASE KIdle \/ KRecheck \/ KResume
  BY <1>0, <1>13 DEF KIdle, KRecheck, KResume, StoreInv, PhaseInv, InSubmit
<1>14. ASSUME NEW e \in Elements, CommitSqe(e)
       PROVE  StoreInv' /\ PhaseInv'
  <2>1. pc # "in_kernel"
    BY <1>0, <1>14 DEF CommitSqe, PhaseInv, NoStores
  <2>. QED  BY <1>0, <1>14, <2>1 DEF CommitSqe, StoreInv, PhaseInv, InSubmit
<1>15. CASE CommitTail
  BY <1>0, <1>15 DEF CommitTail, StoreInv, PhaseInv, InSubmit
<1>16. CASE UNCHANGED vars
  BY <1>0, <1>16 DEF vars, StoreInv, PhaseInv, InSubmit
<1>. QED
  BY <1>1, <1>2, <1>3, <1>4, <1>5, <1>6, <1>7, <1>8, <1>9, <1>10, <1>11, <1>12, <1>13,
     <1>14, <1>15, <1>16
  DEF Next, Submitter, SubmitSteps, Kernel, Memory

(* What flush returned stays an over-estimate while the call uses it. *)
LEMMA FlushStep ==
  ASSUME Inv, [Next]_vars
  PROVE  FlushEstimate'
<1>. USE DEF libVars, memVars, subVars, kernVars
<1>0. TypeOK /\ IndexOrder /\ StaleHead /\ PhaseInv /\ FlushEstimate
  BY DEF Inv
<1>1. CASE UNCHANGED <<sqe_tail, khead, submitted>> /\ (pc' = pc \/ pc \in {"needs_enter", "read_flags"})
  BY <1>0, <1>1 DEF FlushEstimate, SqReady
<1>2. CASE pc' \notin {"needs_enter", "read_flags"}
  BY <1>2 DEF FlushEstimate
<1>3. CASE FlushLoad
  <2>0. PICK h \in HeadSeen : submitted' = Sub(sqe_tail, h) /\ UNCHANGED <<sqe_tail, khead>>
    BY <1>3 DEF FlushLoad
  <2>1. /\ sqe_tail \in Idx /\ khead \in Idx /\ head \in Idx /\ Entries \in Int /\ IdxMod \in Int
        /\ Entries < IdxMod
        /\ Sub(khead, head) \in Int /\ 0 <= Sub(khead, head)
        /\ Sub(sqe_tail, khead) \in Int /\ 0 <= Sub(sqe_tail, khead)
    BY <1>0, SubRange, RingAssumption DEF TypeOK
  <2>2. CASE h = khead
    BY <1>0, <2>0, <2>1, <2>2 DEF FlushEstimate, SqReady, IndexOrder
  <2>3. CASE h \in Window(head, khead)
    <3>1. /\ h \in Idx /\ Sub(h, head) \in Int /\ 0 <= Sub(h, head)
          /\ Sub(h, head) <= Sub(khead, head)
      BY <2>1, <2>3, SubRange DEF Window
    <3>2. Sub(khead, h) = Sub(khead, head) - Sub(h, head)
      BY <2>1, <3>1, SubChain
    <3>3. Sub(sqe_tail, h) = Sub(khead, h) + Sub(sqe_tail, khead)
      BY <1>0, <2>1, <3>1, <3>2, SubChain DEF StaleHead
    <3>. QED  BY <1>0, <2>0, <2>1, <3>1, <3>2, <3>3 DEF FlushEstimate, SqReady, StaleHead
  <2>. QED  BY <2>2, <2>3 DEF HeadSeen
<1>4. CASE KTake
  <2>1. UNCHANGED <<sqe_tail, khead, pc>> /\ (SqPoll => UNCHANGED submitted)
    BY <1>4 DEF KTake
  <2>2. ~SqPoll => pc = "in_kernel"
    BY <1>4 DEF KTake
  <2>. QED  BY <1>1, <1>2, <2>1, <2>2
<1>5. CASE KCommit
  <2>1. khead' = cached /\ UNCHANGED <<sqe_tail, submitted, pc>>
    BY <1>5 DEF KCommit
  <2>2. /\ sqe_tail \in Idx /\ khead \in Idx /\ cached \in Idx
        /\ Sub(cached, khead) \in Int /\ 0 <= Sub(cached, khead)
        /\ Sub(sqe_tail, khead) \in Int /\ Sub(ktail, khead) \in Int /\ Sub(sqe_head, khead) \in Int
        /\ Entries \in Int
    BY <1>0, SubRange, RingAssumption DEF TypeOK
  <2>a. submitted \in Int
    BY <1>0 DEF TypeOK, Idx
  <2>3. Sub(sqe_tail, cached) = Sub(sqe_tail, khead) - Sub(cached, khead)
    BY <1>0, <2>2, SubChain DEF IndexOrder
  <2>. QED  BY <1>0, <2>1, <2>2, <2>a, <2>3 DEF FlushEstimate, SqReady
<1>6. CASE GetSqeLoad \/ GetSqeCheck
  BY <1>2, <1>6 DEF GetSqeLoad, GetSqeCheck
<1>7. ASSUME NEW r \in Reqs, FillSqe(r)
      PROVE  FlushEstimate'
  BY <1>2, <1>7 DEF FillSqe
<1>8. ASSUME NEW needs \in BOOLEAN, FlushSq(needs)
      PROVE  FlushEstimate'
  BY <1>2, <1>8 DEF FlushSq
<1>9. CASE NothingToSubmit \/ MustEnter \/ Fence \/ ReadFlags
  BY <1>1, <1>9 DEF NothingToSubmit, MustEnter, Fence, ReadFlags
<1>10. CASE EnterSqPoll \/ EnterTask \/ SqringWait \/ KReturn \/ KSpace
  BY <1>2, <1>10 DEF EnterSqPoll, EnterTask, SqringWait, KReturn, KSpace
<1>11. CASE KIdle \/ KRecheck \/ KResume \/ CommitTail \/ UNCHANGED vars
  BY <1>1, <1>11 DEF KIdle, KRecheck, KResume, CommitTail, vars
<1>12. ASSUME NEW e \in Elements, CommitSqe(e)
       PROVE  FlushEstimate'
  BY <1>1, <1>12 DEF CommitSqe
<1>. QED
  BY <1>3, <1>4, <1>5, <1>6, <1>7, <1>8, <1>9, <1>10, <1>11, <1>12
  DEF Next, Submitter, SubmitSteps, Kernel, Memory

(* A thread that falls asleep next to visible work is about to be woken. *)
LEMMA WakeStep ==
  ASSUME Inv, [Next]_vars
  PROVE  WakeInv'
<1>. USE DEF libVars, memVars, subVars, kernVars
<1>0. TypeOK /\ IndexOrder /\ StoreInv /\ PhaseInv /\ WakeInv
  BY DEF Inv
<1>2. CASE GetSqeLoad \/ GetSqeCheck \/ SqringWait
  BY <1>0, <1>2 DEF GetSqeLoad, GetSqeCheck, SqringWait, WakeInv
<1>3. ASSUME NEW r \in Reqs, FillSqe(r)
      PROVE  WakeInv'
  BY <1>0, <1>3 DEF FillSqe, WakeInv
<1>4. ASSUME NEW needs \in BOOLEAN, FlushSq(needs)
      PROVE  WakeInv'
  BY <1>0, <1>4 DEF FlushSq, WakeInv
<1>5. CASE FlushLoad \/ Fence
  BY <1>0, <1>5 DEF FlushLoad, Fence, WakeInv
<1>6. CASE NothingToSubmit
  <2>1. cached = ktail
    BY <1>0, <1>6, NothingOutstanding, DrainedRing
  <2>. QED  BY <1>0, <1>6, <2>1 DEF NothingToSubmit, WakeInv
<1>7. CASE MustEnter
  BY <1>0, <1>7 DEF MustEnter, PhaseInv, WakeInv
<1>8. CASE ReadFlags
  BY <1>0, <1>8 DEF ReadFlags, WakeInv, TypeOK
<1>9. CASE EnterSqPoll
  BY <1>0, <1>9 DEF EnterSqPoll, WakeInv
<1>10. CASE EnterTask \/ KReturn
  <2>1. ~SqPoll
    BY <1>0, <1>10 DEF EnterTask, KReturn, PhaseInv
  <2>. QED  BY <1>0, <1>10, <2>1 DEF EnterTask, KReturn, PhaseInv, WakeInv
<1>11. CASE KTake
  <2>1. kpc = "poll"
    BY <1>0, <1>11 DEF KTake, PhaseInv
  <2>. QED  BY <1>0, <1>11, <2>1 DEF KTake, WakeInv
<1>12. CASE KCommit \/ KIdle \/ KRecheck \/ KResume
  BY <1>0, <1>12 DEF KCommit, KIdle, KRecheck, KResume, WakeInv
<1>13. CASE KSpace
  BY <1>0, <1>13 DEF KSpace, WakeInv
<1>14. ASSUME NEW e \in Elements, CommitSqe(e)
       PROVE  WakeInv'
  BY <1>0, <1>14 DEF CommitSqe, WakeInv
<1>15. CASE CommitTail
  BY <1>0, <1>15 DEF CommitTail, StoreInv, PhaseInv, WakeInv
<1>16. CASE UNCHANGED vars
  BY <1>0, <1>16 DEF vars, WakeInv
<1>. QED
  BY <1>2, <1>3, <1>4, <1>5, <1>6, <1>7, <1>8, <1>9, <1>10, <1>11, <1>12, <1>13,
     <1>14, <1>15, <1>16
  DEF Next, Submitter, SubmitSteps, Kernel, Memory

(* Different indices of a window no longer than the ring have different    *)
(* elements, with SQE128 too.                                              *)
LEMMA SlotInjective ==
  ASSUME NEW i \in Idx, NEW j \in Idx, i # j, Sub(i, j) < Entries
  PROVE  Slot(i) # Slot(j)
<1>1. Mask(i) # Mask(j)
  BY MaskInjective
<1>2. Mask(i) \in Int /\ Mask(j) \in Int
  BY RingAssumption, Division DEF Idx, Mask
<1>3. Stride = 1 \/ Stride = 2
  BY SqAssumption
<1>. QED  BY <1>1, <1>2, <1>3 DEF Slot

(* SQE stores on their way stay beyond *ktail. *)
LEMMA BufStep ==
  ASSUME Inv, [Next]_vars
  PROVE  BufInv'
<1>. USE DEF libVars, memVars, subVars, kernVars
<1>0. /\ TypeOK /\ IndexOrder /\ StaleHead /\ StoreInv /\ PhaseInv /\ BufInv
      /\ ktail \in Idx /\ khead \in Idx /\ sqe_head \in Idx /\ sqe_tail \in Idx
      /\ sqeBuf \in [Elements -> Reqs \cup {None}]
  BY DEF Inv, TypeOK
<1>1. CASE UNCHANGED <<sqeBuf, ktail, sqe_tail>>
  BY <1>0, <1>1 DEF BufInv
<1>2. CASE GetSqeCheck
  <2>1. CASE sqe_tail' = Add(sqe_tail, 1) /\ Sub(Add(sqe_tail, 1), head) <= Entries
    <3>1. UNCHANGED <<sqeBuf, ktail>>
      BY <1>2 DEF GetSqeCheck
    <3>2. /\ sqe_tail' \in Idx /\ Sub(sqe_tail', khead) = Sub(sqe_tail, khead) + 1
          /\ Sub(ktail, khead) <= Sub(sqe_tail, khead)
          /\ Sub(sqe_tail, khead) \in Int /\ Sub(ktail, khead) \in Int
      BY <1>0, <2>1, GetSqeRoom, SubStep, SubRange DEF IndexOrder
    <3>3. /\ Sub(sqe_tail, ktail) = Sub(sqe_tail, khead) - Sub(ktail, khead)
          /\ Sub(sqe_tail', ktail) = Sub(sqe_tail', khead) - Sub(ktail, khead)
      BY <1>0, <3>2, SubChain
    <3>4. Window(ktail, sqe_tail) \subseteq Window(ktail, sqe_tail')
      <4>. SUFFICES ASSUME NEW i \in Window(ktail, sqe_tail)
                    PROVE  i \in Window(ktail, sqe_tail')
        OBVIOUS
      <4>1. i \in Idx /\ Sub(i, ktail) \in Int /\ Sub(i, ktail) < Sub(sqe_tail, ktail)
        BY <1>0, SubRange DEF Window
      <4>2. Sub(i, ktail) < Sub(sqe_tail', ktail)
        BY <3>2, <3>3, <4>1
      <4>. QED  BY <4>1, <4>2 DEF Window
    <3>. QED  BY <1>0, <3>1, <3>4 DEF BufInv
  <2>2. CASE sqe_tail' = sqe_tail
    BY <1>1, <1>2, <2>2 DEF GetSqeCheck
  <2>. QED  BY <1>2, <2>1, <2>2 DEF GetSqeCheck
<1>3. ASSUME NEW r \in Reqs, FillSqe(r)
      PROVE  BufInv'
  <2>1. UNCHANGED <<ktail, sqe_tail>>
    BY <1>3 DEF FillSqe
  <2>2. ktail # sqe_tail
    BY <1>0, <1>3 DEF FillSqe, StoreInv, PhaseInv
  <2>3. Sub(sqe_tail, 1) \in Window(ktail, sqe_tail)
    BY <1>0, <2>2, LastInWindow
  <2>4. \A e \in Elements : e # Slot(Sub(sqe_tail, 1)) => sqeBuf'[e] = sqeBuf[e]
    BY <1>0, <1>3 DEF FillSqe
  <2>. QED  BY <1>0, <2>1, <2>3, <2>4 DEF BufInv
<1>4. CASE EnterTask
  BY <1>4 DEF EnterTask, BufInv
<1>5. ASSUME NEW e \in Elements, CommitSqe(e)
      PROVE  BufInv'
  <2>1. \A f \in Elements : sqeBuf'[f] # None => sqeBuf[f] # None
    BY <1>0, <1>5 DEF CommitSqe
  <2>. QED  BY <1>0, <1>5, <2>1 DEF CommitSqe, BufInv
<1>6. CASE CommitTail
  BY <1>6 DEF CommitTail, BufInv, NoStores
<1>7. ASSUME NEW needs \in BOOLEAN, FlushSq(needs)
      PROVE  BufInv'
  BY <1>1, <1>7 DEF FlushSq
<1>8. CASE GetSqeLoad \/ FlushLoad \/ NothingToSubmit \/ MustEnter \/ Fence \/ ReadFlags
           \/ EnterSqPoll \/ SqringWait
  BY <1>1, <1>8 DEF GetSqeLoad, FlushLoad, NothingToSubmit, MustEnter, Fence, ReadFlags,
                    EnterSqPoll, SqringWait
<1>9. CASE Kernel \/ UNCHANGED vars
  BY <1>1, <1>9 DEF Kernel, KTake, KCommit, KReturn, KIdle, KRecheck, KResume, KSpace, vars
<1>. QED
  BY <1>2, <1>3, <1>4, <1>5, <1>6, <1>7, <1>8, <1>9
  DEF Next, Submitter, SubmitSteps, Memory
-----------------------------------------------------------------------------
(* The inductive invariant, and why its conjuncts need each other:         *)
(* StaleHead lets get_sqe trust an old head, FlushEstimate lets a call     *)
(* that found nothing to submit return with nothing on its way, StoreInv   *)
(* says when the tail is still on its way, WakeInv who wakes the thread.   *)
THEOREM Invariance == Spec => []Inv
<1>1. Init => Inv
  <2>. SUFFICES ASSUME Init PROVE Inv
    OBVIOUS
  <2>1. 0 \in Idx /\ Sub(0, 0) = 0
    <3>1. 0 \in Idx
      BY RingAssumption DEF Idx
    <3>. QED  BY <3>1, SubRange
  <2>2. TypeOK
    BY <2>1 DEF Init, TypeOK, NoStores
  <2>3. IndexOrder /\ StaleHead
    BY <2>1, RingAssumption DEF Init, IndexOrder, StaleHead
  <2>4. StoreInv /\ PhaseInv /\ FlushEstimate /\ WakeInv
    BY DEF Init, StoreInv, PhaseInv, InSubmit, FlushEstimate, WakeInv
  <2>5. BufInv
    BY DEF Init, BufInv, NoStores
  <2>. QED  BY <2>2, <2>3, <2>4, <2>5 DEF Inv
<1>2. Inv /\ [Next]_vars => Inv'
  BY TypeStep, OrderStep, StoreStep, FlushStep, BufStep, WakeStep DEF Inv
<1>. QED  BY <1>1, <1>2, PTL DEF Spec

(* Every variable of the submission side keeps its C type. *)
THEOREM TypeCorrect == Spec => []TypeOK
<1>1. Inv => TypeOK
  BY DEF Inv
<1>. QED  BY <1>1, Invariance, PTL

(* Heads and tails never overtake each other and at most ring_entries SQEs *)
(* are outstanding, whatever the ring size and wherever the indices wrap.  *)
THEOREM RingNeverOverrun == Spec => []IndexOrder
<1>1. Inv => IndexOrder
  BY DEF Inv
<1>. QED  BY <1>1, Invariance, PTL

(* What __io_uring_flush_sq returns covers all that is outstanding. *)
THEOREM FlushOverestimates == Spec => []FlushEstimate
<1>1. Inv => FlushEstimate
  BY DEF Inv
<1>. QED  BY <1>1, Invariance, PTL

(* The kernel never reads an SQE that the application is filling in or     *)
(* whose stores are still on their way.                                    *)
THEOREM KernelReadsOwnedSlots == Spec => []SlotOwnership
<1>1. Inv => SlotOwnership
  <2>. SUFFICES ASSUME Inv, SqPoll \/ pc = "in_kernel", NEW i \in Window(cached, ktail)
                PROVE  /\ sqeBuf[KSlot(i)] = None
                       /\ pc = "fill" => KSlot(i) # Slot(Sub(sqe_tail, 1))
    BY DEF SlotOwnership
  <2>0. /\ TypeOK /\ IndexOrder /\ StoreInv /\ PhaseInv /\ BufInv
        /\ ktail \in Idx /\ khead \in Idx /\ sqe_tail \in Idx /\ cached \in Idx
    BY DEF Inv, TypeOK
  <2>1. /\ i \in Idx /\ Sub(i, khead) < Sub(ktail, khead)
        /\ Slot(i) \in Elements /\ KSlot(i) = Slot(i)
    BY <2>0, WindowFrom, SlotInArray DEF IndexOrder
  <2>2. CASE pc = "in_kernel"
    BY <2>0, <2>1, <2>2 DEF PhaseInv, NoStores
  <2>3. CASE SqPoll
    <3>1. ASSUME NEW j \in Window(ktail, sqe_tail)
          PROVE  Slot(i) # Slot(j)
      <4>1. /\ Sub(sqe_tail, khead) \in Int /\ Sub(sqe_head, khead) \in Int
            /\ Sub(ktail, khead) \in Int /\ Entries \in Int
            /\ Sub(i, khead) \in Int /\ 0 <= Sub(i, khead)
        BY <2>0, <2>1, SubRange, RingAssumption DEF TypeOK
      <4>2. Sub(ktail, khead) <= Sub(sqe_tail, khead) /\ Sub(sqe_tail, khead) <= Entries
        BY <2>0, <4>1 DEF IndexOrder
      <4>3. j \in Idx /\ Sub(ktail, khead) <= Sub(j, khead) /\ Sub(j, khead) < Sub(sqe_tail, khead)
        BY <2>0, <4>2, WindowFrom
      <4>4. Sub(j, khead) \in Int
        BY <2>0, <4>3, SubRange
      <4>5. Sub(j, i) = Sub(j, khead) - Sub(i, khead)
        BY <2>0, <2>1, <4>1, <4>3, <4>4, SubChain
      <4>6. j # i /\ Sub(j, i) < Entries
        BY <2>1, <4>1, <4>2, <4>3, <4>4, <4>5
      <4>. QED  BY <2>1, <4>3, <4>6, SlotInjective
    <3>2. sqeBuf[KSlot(i)] = None
      BY <2>0, <2>1, <2>3, <3>1 DEF BufInv
    <3>3. ASSUME pc = "fill"
          PROVE  KSlot(i) # Slot(Sub(sqe_tail, 1))
      <4>1. ktail # sqe_tail
        BY <2>0, <3>3 DEF StoreInv, PhaseInv
      <4>. QED  BY <2>0, <2>1, <3>1, <4>1, LastInWindow
    <3>. QED  BY <3>2, <3>3
  <2>. QED  BY <2>2, <2>3
<1>. QED  BY <1>1, Invariance, PTL

(* No wake-up is lost: the full barrier of sq_ring_needs_enter and the SQ  *)
(* thread's second look at the tail exclude a thread asleep with work.     *)
THEOREM WakeupsNotLost == Spec => []NoLostWakeup
<1>1. Inv => NoLostWakeup
  BY DEF Inv, StoreInv, WakeInv, NoLostWakeup
<1>. QED  BY <1>1, Invariance, PTL
=============================================================================
