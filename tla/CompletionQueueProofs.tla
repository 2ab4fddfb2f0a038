----------------------- MODULE CompletionQueueProofs -----------------------
(* The completion queue, for every ring size, index width and CQE size.    *)
EXTENDS CompletionQueue, RingIndexProofs, SequenceLemmas, TLAPS

TypeInv ==
  /\ cqes = [e \in Elements |-> cqes[e]]
  /\ khead \in Idx /\ ktail \in Idx /\ cached \in Idx
  /\ backlog \in Seq(Vals) /\ work \in Seq(Vals)
  /\ pc \in {"idle", "peek", "check_flush", "get_events"}
  /\ count \in 0 .. Entries /\ quota \in Nat
  /\ held \subseteq Idx

(* The kernel is never more than a ring ahead of the head, and io_uring    *)
(* enter runs no more work than there was when it began.                   *)
OrderInv ==
  /\ Sub(ktail, khead) <= Sub(cached, khead) /\ Sub(cached, khead) <= Entries
  /\ pc = "get_events" => quota <= Len(work)

HeldInv == held \subseteq Window(khead, ktail)

Inv == TypeInv /\ OrderInv /\ HeldInv
-----------------------------------------------------------------------------
(* The element of an index is inside the CQE array, and the library and    *)
(* the kernel agree on it.                                                 *)
LEMMA SlotInArray ==
  ASSUME NEW i \in Idx
  PROVE  Slot(i) \in Elements /\ KSlot(i) = Slot(i)
<1>1. i % Entries \in 0 .. Entries - 1
  BY RingAssumption, Division DEF Idx
<1>2. CASE Stride = 1
  BY <1>1, <1>2, RingAssumption DEF Slot, KSlot, Mask, Elements
<1>3. CASE Stride = 2
  BY <1>1, <1>3, RingAssumption DEF Slot, KSlot, Mask, Elements
<1>. QED  BY <1>2, <1>3, CqAssumption

LEMMA SlotInjective ==
  ASSUME NEW i \in Idx, NEW j \in Idx, i # j, Sub(i, j) < Entries
  PROVE  Slot(i) # Slot(j)
<1>1. Mask(i) # Mask(j)
  BY MaskInjective
<1>2. Mask(i) \in Int /\ Mask(j) \in Int
  BY RingAssumption, Division DEF Idx, Mask
<1>3. Stride = 1 \/ Stride = 2
  BY CqAssumption
<1>. QED  BY <1>1, <1>2, <1>3 DEF Slot

(* What the invariant says about the distances from the head. *)
LEMMA Distances ==
  ASSUME Inv
  PROVE  /\ Sub(ktail, khead) \in Nat /\ Sub(cached, khead) \in Nat /\ Entries \in Nat /\ IdxMod \in Nat
         /\ Entries + 1 < IdxMod
         /\ \A i \in Idx : Sub(i, khead) \in Nat /\ Sub(i, khead) < IdxMod
         /\ \A i \in held : i \in Idx /\ Sub(i, khead) < Sub(ktail, khead)
BY SubRange, RingAssumption DEF Inv, TypeInv, HeldInv, Window

(* An entry the kernel may write next has not the element of a held CQE. *)
LEMMA HeldNotWritten ==
  ASSUME Inv, NEW i \in held, NEW n \in Nat, Sub(cached, khead) + n < Entries
  PROVE  /\ Slot(i) \in Elements
         /\ Slot(i) # KSlot(Add(cached, n))
<1>. DEFINE c == Add(cached, n)
<1>1. /\ i \in Idx /\ Sub(i, khead) < Sub(ktail, khead) /\ Sub(i, khead) \in Nat
      /\ Sub(ktail, khead) <= Sub(cached, khead)
      /\ khead \in Idx /\ cached \in Idx
  BY Distances DEF Inv, TypeInv, OrderInv
<1>2. c \in Idx /\ Sub(c, khead) = Sub(cached, khead) + n
  BY <1>1, Distances, SubAdd
<1>3. Sub(c, i) = Sub(c, khead) - Sub(i, khead)
  BY <1>1, <1>2, Distances, SubChain
<1>4. c # i /\ Sub(c, i) < Entries
  BY <1>1, <1>2, <1>3, Distances
<1>. HIDE DEF c
<1>5. Slot(i) \in Elements /\ Slot(i) # KSlot(c)
  BY <1>1, <1>2, <1>4, SlotInjective, SlotInArray
<1>. QED  BY <1>5 DEF c

LEMMA PostInv ==
  ASSUME Inv, NEW v \in Vals, KPost(v)
  PROVE  /\ cqes' = [e \in Elements |-> cqes'[e]]
         /\ cached' \in Idx /\ backlog' \in Seq(Vals)
         /\ Sub(ktail, khead) <= Sub(cached', khead) /\ Sub(cached', khead) <= Entries
         /\ \A i \in held : cqes'[Slot(i)] = cqes[Slot(i)]
         /\ cached' # khead \/ backlog' # <<>>
<1>1. CASE RoomInRing /\ cqes' = [cqes EXCEPT ![KSlot(cached)] = v] /\ cached' = Add(cached, 1)
           /\ UNCHANGED backlog
  <2>1. Sub(cached, khead) < Entries
    BY <1>1 DEF RoomInRing
  <2>2. cached' \in Idx /\ Sub(cached', khead) = Sub(cached, khead) + 1
    <3>1. khead \in Idx /\ cached \in Idx /\ Sub(cached, khead) + 1 < IdxMod
      BY <2>1, Distances DEF Inv, TypeInv
    <3>. QED  BY <1>1, <3>1, SubStep
  <2>3. Add(cached, 0) = cached
    <3>1. cached \in Int /\ 0 <= cached /\ cached < IdxMod /\ IdxMod \in Int
      BY RingAssumption DEF Idx, Inv, TypeInv
    <3>. QED  BY <3>1 DEF Add
  <2>4. ASSUME NEW i \in held
        PROVE  cqes'[Slot(i)] = cqes[Slot(i)]
    <3>1. Slot(i) \in Elements /\ Slot(i) # KSlot(cached)
      BY <2>1, <2>3, HeldNotWritten, Distances
    <3>. QED  BY <1>1, <3>1 DEF Inv, TypeInv
  <2>5. cqes' = [e \in Elements |-> cqes'[e]]
    BY <1>1 DEF Inv, TypeInv
  <2>6. cached' # khead
    BY <2>2, Distances, SubRange DEF Inv, TypeInv
  <2>. QED  BY <1>1, <2>1, <2>2, <2>4, <2>5, <2>6, Distances DEF Inv, TypeInv, OrderInv
<1>2. CASE backlog' = Append(backlog, v) /\ UNCHANGED <<cqes, cached>>
  <2>1. backlog' \in Seq(Vals) /\ backlog' # <<>>
    BY <1>2 DEF Inv, TypeInv
  <2>. QED  BY <1>2, <2>1 DEF Inv, TypeInv, OrderInv
<1>. QED  BY <1>1, <1>2 DEF KPost

Kept == \A i \in held : i \in held' => cqes'[Slot(i)] = cqes[Slot(i)]

LEMMA CompleteStep ==
  ASSUME Inv, NEW v \in Vals, KComplete(v)
  PROVE  Inv' /\ Kept
<1>1. /\ KPost(v)
      /\ UNCHANGED <<khead, ktail, work, pc, count, quota, held>>
  BY DEF KComplete, callVars, appVars
<1>2. TypeInv'
  BY <1>1, PostInv DEF Inv, TypeInv
<1>3. OrderInv'
  BY <1>1, PostInv DEF Inv, OrderInv
<1>4. HeldInv' /\ Kept
  BY <1>1, PostInv DEF Inv, HeldInv, Kept
<1>. QED  BY <1>2, <1>3, <1>4 DEF Inv

LEMMA CommitStep ==
  ASSUME Inv, KCommit
  PROVE  Inv' /\ Kept
<1>1. /\ ktail' = cached
      /\ UNCHANGED <<cqes, khead, cached, backlog, work, pc, count, quota, held>>
  BY DEF KCommit, pendVars, callVars, appVars
<1>2. TypeInv'
  BY <1>1 DEF Inv, TypeInv
<1>3. OrderInv'
  BY <1>1, Distances DEF Inv, OrderInv
<1>4. HeldInv'
  <2>1. \A i \in held : i \in Idx /\ Sub(i, khead) < Sub(cached, khead)
    BY Distances DEF Inv, OrderInv
  <2>. QED  BY <1>1, <2>1 DEF HeldInv, Window
<1>. QED  BY <1>1, <1>2, <1>3, <1>4 DEF Inv, Kept

LEMMA WorkStep ==
  ASSUME Inv, NEW v \in Vals, KWork(v)
  PROVE  Inv' /\ Kept
<1>1. /\ work' = Append(work, v)
      /\ UNCHANGED <<cqes, khead, ktail, cached, backlog, pc, count, quota, held>>
  BY DEF KWork, ringVars, callVars, appVars
<1>2. work' \in Seq(Vals) /\ Len(work') = Len(work) + 1 /\ Len(work) \in Nat
  BY <1>1 DEF Inv, TypeInv
<1>3. TypeInv'
  BY <1>1, <1>2 DEF Inv, TypeInv
<1>4. OrderInv'
  BY <1>1, <1>2 DEF Inv, OrderInv, TypeInv
<1>. QED  BY <1>1, <1>3, <1>4 DEF Inv, HeldInv, Kept

LEMMA RunWorkStep ==
  ASSUME Inv, KRunWork
  PROVE  Inv' /\ Kept
<1>1. /\ pc = "get_events" /\ quota > 0
      /\ KPost(Head(work))
      /\ work' = Tail(work) /\ quota' = quota - 1
      /\ UNCHANGED <<khead, ktail, pc, count, held>>
  BY DEF KRunWork, appVars
<1>2. /\ quota \in Nat /\ work \in Seq(Vals) /\ Len(work) >= quota
  BY <1>1 DEF Inv, TypeInv, OrderInv
<1>3. work # <<>>
  BY <1>1, <1>2
<1>4. Head(work) \in Vals /\ work' \in Seq(Vals) /\ Len(work') = Len(work) - 1
  BY <1>1, <1>2, <1>3
<1>5. TypeInv'
  BY <1>1, <1>2, <1>4, PostInv DEF Inv, TypeInv
<1>6. OrderInv'
  BY <1>1, <1>2, <1>4, PostInv DEF Inv, OrderInv
<1>7. HeldInv' /\ Kept
  BY <1>1, <1>4, PostInv DEF Inv, HeldInv, Kept
<1>. QED  BY <1>5, <1>6, <1>7 DEF Inv

LEMMA FlushStep ==
  ASSUME Inv, KFlush
  PROVE  Inv' /\ Kept
<1>. DEFINE n == Smaller(Entries - Sub(cached, khead), Len(backlog))
            written(e) == \E k \in 1 .. n : e = KSlot(Add(cached, k - 1))
<1>1. /\ cqes' = [e \in Elements |->
                    IF written(e)
                    THEN backlog[CHOOSE k \in 1 .. n : e = KSlot(Add(cached, k - 1))]
                    ELSE cqes[e]]
      /\ cached' = Add(cached, n) /\ ktail' = cached'
      /\ backlog' = SubSeq(backlog, n + 1, Len(backlog))
      /\ pc' = "peek"
      /\ UNCHANGED <<khead, work, count, quota, held>>
  BY DEF KFlush, appVars
<1>2. Len(backlog) \in Nat
  BY DEF Inv, TypeInv
<1>3. n \in Nat /\ n <= Len(backlog) /\ Sub(cached, khead) + n <= Entries
  BY <1>2, Distances DEF Smaller, Inv, OrderInv
<1>. HIDE DEF n
<1>4. cached' \in Idx /\ Sub(cached', khead) = Sub(cached, khead) + n
  <2>1. khead \in Idx /\ cached \in Idx /\ Sub(cached, khead) + n < IdxMod
    BY <1>3, Distances DEF Inv, TypeInv
  <2>. QED  BY <1>1, <1>3, <2>1, SubAdd
<1>5. backlog' \in Seq(Vals)
  BY <1>1, <1>2, <1>3 DEF Inv, TypeInv
<1>6. cqes' = [e \in Elements |-> cqes'[e]]
  BY <1>1
<1>7. TypeInv'
  BY <1>1, <1>4, <1>5, <1>6 DEF Inv, TypeInv
<1>8. OrderInv'
  BY <1>1, <1>3, <1>4, Distances DEF Inv, OrderInv
<1>9. HeldInv'
  <2>1. \A i \in held : i \in Idx /\ Sub(i, khead) < Sub(cached', khead)
    BY <1>3, <1>4, Distances DEF Inv, OrderInv
  <2>. QED  BY <1>1, <2>1 DEF HeldInv, Window
<1>10. ASSUME NEW i \in held
       PROVE  cqes'[Slot(i)] = cqes[Slot(i)]
  <2>1. ASSUME NEW k \in 1 .. n
        PROVE  Slot(i) # KSlot(Add(cached, k - 1))
    <3>1. k - 1 \in Nat /\ Sub(cached, khead) + (k - 1) < Entries
      BY <1>3, Distances
    <3>. QED  BY <3>1, HeldNotWritten
  <2>2. Slot(i) \in Elements
    BY Distances, SlotInArray
  <2>. QED  BY <1>1, <2>1, <2>2
<1>. QED  BY <1>7, <1>8, <1>9, <1>10 DEF Inv, Kept

LEMMA PeekReadyStep ==
  ASSUME Inv, PeekReady
  PROVE  Inv' /\ Kept
<1>1. /\ ret' = Smaller(count, Sub(ktail, khead))
      /\ held' = held \cup Window(khead, Add(khead, ret'))
      /\ pc' = "idle"
      /\ UNCHANGED <<cqes, khead, ktail, cached, backlog, work, count, quota>>
  BY DEF PeekReady, CqReady, ringVars, pendVars
<1>2. ret' \in Nat /\ ret' <= Sub(ktail, khead)
  BY <1>1, Distances DEF Smaller, Inv, TypeInv
<1>3. Sub(Add(khead, ret'), khead) = ret'
  <2>1. khead \in Idx /\ Sub(khead, khead) = 0
    BY SubRange DEF Inv, TypeInv
  <2>2. ret' < IdxMod
    BY <1>2, Distances DEF Inv, TypeInv
  <2>. QED  BY <1>2, <2>1, <2>2, SubAdd
<1>4. HeldInv'
  <2>1. \A i \in Window(khead, Add(khead, ret')) : i \in Idx /\ Sub(i, khead) < Sub(ktail, khead)
    BY <1>2, <1>3, Distances DEF Window
  <2>. QED  BY <1>1, <2>1 DEF Inv, HeldInv, Window
<1>5. TypeInv'
  BY <1>1 DEF Inv, TypeInv, Window
<1>6. OrderInv'
  BY <1>1 DEF Inv, OrderInv
<1>. QED  BY <1>1, <1>4, <1>5, <1>6 DEF Inv, Kept

LEMMA ForEachStep ==
  ASSUME Inv, ForEachCqe
  PROVE  Inv' /\ Kept
<1>1. PICK i \in Idx : Sub(i, khead) < Sub(ktail, khead) /\ held' = held \cup {i}
  BY DEF ForEachCqe, CqReady
<1>2. UNCHANGED <<cqes, khead, ktail, cached, backlog, work, pc, count, quota>>
  BY DEF ForEachCqe, ringVars, pendVars, callVars
<1>3. TypeInv' /\ OrderInv'
  BY <1>1, <1>2 DEF Inv, TypeInv, OrderInv
<1>4. HeldInv'
  BY <1>1, <1>2 DEF Inv, HeldInv, Window
<1>. QED  BY <1>2, <1>3, <1>4 DEF Inv, Kept

(* io_uring_cq_advance moves the head over CQEs that are held, so not past *)
(* the tail.                                                               *)
LEMMA AdvanceStep ==
  ASSUME Inv, NEW nr \in 1 .. Entries, CqAdvance(nr)
  PROVE  Inv' /\ Kept
<1>1. /\ Window(khead, Add(khead, nr)) \subseteq held
      /\ khead' = Add(khead, nr)
      /\ held' = held \ Window(khead, Add(khead, nr))
      /\ UNCHANGED <<cqes, ktail, cached, backlog, work, pc, count, quota>>
  BY DEF CqAdvance, pendVars, callVars
<1>2. /\ khead \in Idx /\ ktail \in Idx /\ cached \in Idx /\ Sub(khead, khead) = 0
      /\ nr \in Nat /\ nr < IdxMod /\ nr - 1 \in Nat /\ nr - 1 < IdxMod
  <2>1. khead \in Idx /\ ktail \in Idx /\ cached \in Idx
    BY DEF Inv, TypeInv
  <2>2. Sub(khead, khead) = 0
    BY <2>1, SubRange
  <2>3. nr \in Nat /\ nr < IdxMod /\ nr - 1 \in Nat /\ nr - 1 < IdxMod
    BY RingAssumption
  <2>. QED  BY <2>1, <2>2, <2>3
<1>3. khead' \in Idx /\ Sub(khead', khead) = nr
  BY <1>1, <1>2, SubAdd
<1>4. nr <= Sub(ktail, khead)
  <2>. DEFINE last == Add(khead, nr - 1)
  <2>1. last \in Idx /\ Sub(last, khead) = nr - 1
    BY <1>2, SubAdd
  <2>. HIDE DEF last
  <2>2. last \in held
    BY <1>1, <1>2, <1>3, <2>1 DEF Window
  <2>. QED  BY <1>2, <2>1, <2>2, Distances
<1>5. /\ Sub(ktail, khead') = Sub(ktail, khead) - nr
      /\ Sub(cached, khead') = Sub(cached, khead) - nr
  BY <1>2, <1>3, <1>4, SubChain, Distances DEF Inv, OrderInv
<1>6. OrderInv'
  BY <1>1, <1>2, <1>5, Distances DEF Inv, OrderInv
<1>7. ASSUME NEW i \in held'
      PROVE  i \in Idx /\ Sub(i, khead') < Sub(ktail, khead')
  <2>1. /\ i \in Idx /\ Sub(i, khead) \in Nat /\ Sub(i, khead) < Sub(ktail, khead)
        /\ nr <= Sub(i, khead)
    BY <1>1, <1>2, <1>3, Distances DEF Window
  <2>2. Sub(i, khead') = Sub(i, khead) - nr
    BY <1>2, <1>3, <2>1, SubChain
  <2>. QED  BY <1>2, <1>5, <2>1, <2>2, Distances
<1>8. HeldInv'
  BY <1>1, <1>7 DEF HeldInv, Window
<1>9. TypeInv'
  BY <1>1, <1>3 DEF Inv, TypeInv
<1>. QED  BY <1>1, <1>6, <1>8, <1>9 DEF Inv, Kept

(* Every step of the kernel and of the application keeps the invariant and *)
(* the CQEs that stay held.                                                *)
LEMMA AnyStep ==
  ASSUME Inv, [Next]_vars
  PROVE  Inv' /\ Kept
<1>. USE DEF ringVars, pendVars, callVars, appVars
<1>1. CASE UNCHANGED vars
  BY <1>1 DEF vars, Inv, TypeInv, OrderInv, HeldInv, Kept
<1>2. ASSUME NEW n \in 1 .. Entries, PeekBatch(n)
      PROVE  Inv' /\ Kept
  BY <1>2 DEF PeekBatch, Inv, TypeInv, OrderInv, HeldInv, Kept
<1>3. CASE PeekEmpty
  BY <1>3 DEF PeekEmpty, Inv, TypeInv, OrderInv, HeldInv, Kept
<1>4. CASE PeekFlush
  BY <1>4 DEF PeekFlush, Inv, TypeInv, OrderInv, HeldInv, Kept
<1>. QED
  BY <1>1, <1>2, <1>3, <1>4, CompleteStep, CommitStep, WorkStep, RunWorkStep, FlushStep,
     PeekReadyStep, ForEachStep, AdvanceStep
  DEF Next, KernelSteps, CallSteps

LEMMA InitInv == Init => Inv
<1>. SUFFICES ASSUME Init PROVE Inv
  OBVIOUS
<1>1. 0 \in Idx /\ Sub(0, 0) = 0 /\ Entries \in Nat
  BY SubRange, RingAssumption DEF Idx
<1>. QED  BY <1>1 DEF Init, Inv, TypeInv, OrderInv, HeldInv
-----------------------------------------------------------------------------
LEMMA InvAlways == Spec => []Inv
BY InitInv, AnyStep, PTL DEF Spec

(* The CQEs the application has pointers to are visible and not given      *)
(* back, and the kernel is never more than a ring ahead of the head,       *)
(* whatever the ring size and wherever the indices wrap.                   *)
THEOREM HeldCqesVisible == Spec => []HeldAreVisible
<1>1. Inv => HeldAreVisible
  BY DEF Inv, OrderInv, HeldInv, HeldAreVisible
<1>. QED  BY <1>1, InvAlways, PTL

(* No step, of the kernel or of the library, changes a CQE that the        *)
(* application holds before and after it: CQEs may be used in place.       *)
THEOREM HeldCqesStable == Spec => HeldStable
<1>1. Inv /\ [Next]_vars => [Kept]_vars
  BY AnyStep
<1>. QED  BY <1>1, InvAlways, PTL DEF Spec, HeldStable, Kept
-----------------------------------------------------------------------------
(* Why a batch peek of 0 has overlooked nothing.  The flags say what is    *)
(* pending; a peek that found the ring empty while something was pending   *)
(* sees one of them; io_uring_enter(2) then has something to put into the  *)
(* ring; so the second peek does not find it empty.                        *)
PeekInv ==
  /\ overflow => backlog # <<>>
  /\ taskrun => work # <<>>
  /\ pc # "idle" => count > 0
  /\ pc = "check_flush" /\ missed => overflow \/ taskrun
  /\ pc = "get_events" => quota > 0 \/ cached # khead \/ backlog # <<>>
  /\ pc = "peek" /\ checked => ktail # khead

LEMMA KernelPeekStep ==
  ASSUME Inv, PeekInv, ZeroMeansNothing,
         (\E v \in Vals : KComplete(v) \/ KWork(v)) \/ KCommit \/ KRunWork
  PROVE  PeekInv' /\ ZeroMeansNothing'
<1>1. ASSUME NEW v \in Vals, KComplete(v)
      PROVE  PeekInv' /\ ZeroMeansNothing'
  <2>1. /\ UNCHANGED <<khead, ktail, work, taskrun, pc, count, checked, ret, quota>>
        /\ missed' => missed
        /\ overflow => overflow'
        /\ overflow' => backlog' # <<>>
    <3>1. Append(backlog, v) # <<>>
      BY DEF Inv, TypeInv
    <3>2. /\ KPost(v) /\ Observe
          /\ UNCHANGED <<khead, ktail, work, taskrun, pc, count, checked, ret, quota>>
      BY <1>1 DEF KComplete, callVars
    <3>3. (overflow => overflow') /\ (overflow' => backlog' # <<>>)
      <4>1. \/ backlog' = backlog /\ overflow' = overflow
            \/ backlog' = Append(backlog, v) /\ overflow' = TRUE
        BY <3>2 DEF KPost
      <4>2. CASE backlog' = backlog /\ overflow' = overflow
        BY <4>2 DEF PeekInv
      <4>3. CASE backlog' = Append(backlog, v) /\ overflow' = TRUE
        BY <3>1, <4>3
      <4>. QED  BY <4>1, <4>2, <4>3
    <3>. QED  BY <3>2, <3>3, Zenon DEF Observe
  <2>2. cached' # khead \/ backlog' # <<>>
    BY <1>1, PostInv DEF KComplete
  <2>. QED  BY <2>1, <2>2 DEF PeekInv, ZeroMeansNothing
<1>2. ASSUME NEW v \in Vals, KWork(v)
      PROVE  PeekInv' /\ ZeroMeansNothing'
  <2>1. Append(work, v) # <<>>
    BY DEF Inv, TypeInv
  <2>. QED  BY <1>2, <2>1, Zenon DEF KWork, Observe, ringVars, callVars, PeekInv, ZeroMeansNothing
<1>3. CASE KCommit
  <2>1. ktail # khead => cached # khead
    <3>1. /\ ktail \in Idx /\ khead \in Idx /\ cached \in Idx
          /\ Sub(ktail, khead) <= Sub(cached, khead)
      BY DEF Inv, TypeInv, OrderInv
    <3>. QED  BY <3>1, SubRange
  <2>. QED  BY <1>3, <2>1, Zenon DEF KCommit, Observe, pendVars, callVars, PeekInv, ZeroMeansNothing
<1>4. CASE KRunWork
  <2>1. /\ pc = "get_events" /\ pc' = pc
        /\ UNCHANGED <<khead, count>>
        /\ work' = Tail(work) /\ taskrun' = (Tail(work) # <<>>)
        /\ KPost(Head(work))
    BY <1>4 DEF KRunWork
  <2>2. work \in Seq(Vals) /\ work # <<>>
    BY <1>4 DEF KRunWork, Inv, TypeInv, OrderInv
  <2>3. Head(work) \in Vals
    BY <2>2
  <2>4. cached' # khead \/ backlog' # <<>>
    BY <2>1, <2>3, PostInv
  <2>5. overflow' => backlog' # <<>>
    <3>1. Append(backlog, Head(work)) # <<>>
      BY <2>3 DEF Inv, TypeInv
    <3>. QED  BY <2>1, <3>1, Zenon DEF KPost, PeekInv
  <2>. QED  BY <2>1, <2>4, <2>5, Zenon DEF PeekInv, ZeroMeansNothing
<1>. QED  BY <1>1, <1>2, <1>3, <1>4

LEMMA FlushPeekStep ==
  ASSUME Inv, PeekInv, ZeroMeansNothing, KFlush
  PROVE  PeekInv' /\ ZeroMeansNothing'
<1>. DEFINE n == Smaller(Entries - Sub(cached, khead), Len(backlog))
<1>1. /\ pc = "get_events" /\ quota = 0 /\ pc' = "peek"
      /\ cached' = Add(cached, n) /\ ktail' = cached'
      /\ overflow' = (backlog' # <<>>)
      /\ UNCHANGED <<khead, work, taskrun, count>>
  BY DEF KFlush
<1>2. Len(backlog) \in Nat /\ (backlog # <<>> => Len(backlog) > 0)
  BY DEF Inv, TypeInv
<1>3. khead \in Idx /\ cached \in Idx /\ (cached # khead => Sub(cached, khead) > 0)
  BY SubRange DEF Inv, TypeInv
<1>4. n \in Nat /\ Sub(cached, khead) + n <= Entries
  BY <1>2, Distances DEF Smaller, Inv, OrderInv
<1>5. Sub(cached, khead) + n > 0
  <2>1. Sub(cached, khead) > 0 \/ Len(backlog) > 0
    BY <1>1, <1>2, <1>3 DEF PeekInv
  <2>2. Entries > 0
    BY RingAssumption
  <2>. QED  BY <1>2, <2>1, <2>2, Distances DEF Smaller, Inv, OrderInv
<1>. HIDE DEF n
<1>6. ktail' \in Idx /\ Sub(ktail', khead) = Sub(cached, khead) + n
  <2>1. Sub(cached, khead) + n < IdxMod
    BY <1>4, Distances
  <2>. QED  BY <1>1, <1>3, <1>4, <2>1, SubAdd
<1>7. ktail' # khead
  BY <1>3, <1>5, <1>6, SubRange
<1>8. count > 0
  BY <1>1 DEF PeekInv
<1>. QED  BY <1>1, <1>7, <1>8, Zenon DEF PeekInv, ZeroMeansNothing

LEMMA CallPeekStep ==
  ASSUME Inv, PeekInv, ZeroMeansNothing, CallSteps
  PROVE  PeekInv' /\ ZeroMeansNothing'
<1>. USE DEF ringVars, pendVars, appVars
<1>1. CASE PeekReady
  <2>1. ret' # 0
    BY <1>1, Distances DEF PeekReady, CqReady, Smaller, PeekInv, Inv, TypeInv
  <2>. QED  BY <1>1, <2>1 DEF PeekReady, PeekInv, ZeroMeansNothing
<1>2. CASE PeekEmpty
  <2>1. ktail = khead
    BY <1>2, SubRange DEF PeekEmpty, CqReady, Inv, TypeInv
  <2>2. ~checked /\ pc = "peek"
    BY <1>2, <2>1 DEF PeekEmpty, PeekInv
  <2>3. missed' => overflow' \/ taskrun'
    BY <1>2, <2>1, Zenon DEF PeekEmpty, Observe, Pending
  <2>. QED  BY <1>2, <2>2, <2>3 DEF PeekEmpty, PeekInv, ZeroMeansNothing
<1>3. CASE PeekFlush
  <2>1. CASE overflow \/ taskrun
    <3>1. /\ pc = "check_flush" /\ pc' = "get_events" /\ quota' = Len(work)
          /\ UNCHANGED <<cached, khead, ktail, backlog, overflow, work, taskrun, count>>
      BY <1>3, <2>1 DEF PeekFlush, NeedsFlush
    <3>2. work # <<>> => Len(work) > 0
      BY DEF Inv, TypeInv
    <3>. QED  BY <2>1, <3>1, <3>2 DEF PeekInv, ZeroMeansNothing
  <2>2. CASE ~(overflow \/ taskrun)
    BY <1>3, <2>2, Zenon DEF PeekFlush, NeedsFlush, Observe, PeekInv, ZeroMeansNothing
  <2>. QED  BY <2>1, <2>2
<1>. QED  BY <1>1, <1>2, <1>3 DEF CallSteps

LEMMA PeekInvStep ==
  ASSUME Inv, PeekInv, ZeroMeansNothing, [Next]_vars
  PROVE  PeekInv' /\ ZeroMeansNothing'
<1>. USE DEF ringVars, pendVars, callVars, appVars
<1>1. CASE UNCHANGED vars
  BY <1>1 DEF vars, PeekInv, ZeroMeansNothing
<1>2. ASSUME NEW n \in 1 .. Entries, PeekBatch(n)
      PROVE  PeekInv' /\ ZeroMeansNothing'
  BY <1>2 DEF PeekBatch, PeekInv, ZeroMeansNothing
<1>3. CASE ForEachCqe
  BY <1>3, Zenon DEF ForEachCqe, Observe, PeekInv, ZeroMeansNothing
<1>4. ASSUME NEW nr \in 1 .. Entries, CqAdvance(nr)
      PROVE  PeekInv' /\ ZeroMeansNothing'
  BY <1>4, Zenon DEF CqAdvance, Observe, PeekInv, ZeroMeansNothing
<1>. QED
  BY <1>1, <1>2, <1>3, <1>4, KernelPeekStep, FlushPeekStep, CallPeekStep
  DEF Next, KernelSteps

(* When io_uring_peek_batch_cqe returns 0 there was an instant of the call *)
(* at which nothing was in the ring, in the backlog or left to the task:   *)
(* one look at the two flags and one io_uring_enter(2) are enough.         *)
THEOREM ZeroPeekSound == Spec => []ZeroMeansNothing
<1>1. Init => PeekInv /\ ZeroMeansNothing
  BY DEF Init, PeekInv, ZeroMeansNothing
<1>. QED  BY <1>1, InvAlways, PeekInvStep, PTL DEF Spec
-----------------------------------------------------------------------------
(* The CQEs in the ring, visible or not, and with the backlog all that was *)
(* posted and not given back, oldest first.                                *)
Posted == [k \in 1 .. Sub(cached, khead) |-> cqes[KSlot(Add(khead, k - 1))]]
Unreaped == Posted \o backlog

FifoInv ==
  /\ Posted \in Seq(Vals)
  /\ Len(backlog) + Len(work) <= MaxPending
-----------------------------------------------------------------------------
(* A ring of indices from the head has as many elements. *)
LEMMA SlotsApart ==
  ASSUME Inv, NEW a \in 0 .. Entries - 1, NEW b \in 0 .. Entries - 1,
         KSlot(Add(khead, a)) = KSlot(Add(khead, b))
  PROVE  a = b
<1>. DEFINE i == Add(khead, a)
            j == Add(khead, b)
<1>0. /\ khead \in Idx /\ Entries \in Nat /\ IdxMod \in Nat /\ Entries + 1 < IdxMod
      /\ a \in Nat /\ b \in Nat /\ a < IdxMod /\ b < IdxMod
  BY Distances, SMTT(30) DEF Inv, TypeInv
<1>1. i \in Idx /\ Sub(i, khead) = a /\ j \in Idx /\ Sub(j, khead) = b
  BY <1>0, AddDistance
<1>2. Slot(i) = Slot(j)
  BY <1>1, SlotInArray
<1>. HIDE DEF i, j
<1>3. CASE a < b
  <2>1. Sub(j, i) = b - a
    BY <1>0, <1>1, <1>3, SubChain
  <2>2. i # j /\ Sub(j, i) < Entries
    BY <1>0, <1>1, <1>3, <2>1
  <2>. QED  BY <1>1, <1>2, <2>2, SlotInjective
<1>4. CASE b < a
  <2>1. Sub(i, j) = a - b
    BY <1>0, <1>1, <1>4, SubChain
  <2>2. i # j /\ Sub(i, j) < Entries
    BY <1>0, <1>1, <1>4, <2>1
  <2>. QED  BY <1>1, <1>2, <2>2, SlotInjective
<1>. QED  BY <1>0, <1>3, <1>4

(* The kernel's tail, counted from the head. *)
LEMMA TailFromHead ==
  ASSUME Inv, NEW n \in Nat, Sub(cached, khead) + n <= Entries
  PROVE  /\ Add(cached, n) = Add(khead, Sub(cached, khead) + n)
         /\ Add(cached, n) \in Idx /\ Sub(Add(cached, n), khead) = Sub(cached, khead) + n
         /\ KSlot(Add(cached, n)) \in Elements
<1>1. /\ khead \in Idx /\ cached \in Idx /\ Sub(cached, khead) \in Nat /\ Entries \in Nat
      /\ IdxMod \in Nat /\ Entries + 1 < IdxMod
  BY Distances DEF Inv, TypeInv
<1>2. Sub(cached, khead) + n \in Nat /\ Sub(cached, khead) + n < IdxMod
  BY <1>1
<1>3. Add(cached, n) \in Idx /\ Sub(Add(cached, n), khead) = Sub(cached, khead) + n
  BY <1>1, <1>2, SubAdd
<1>4. /\ Add(khead, Sub(cached, khead) + n) \in Idx
      /\ Sub(Add(khead, Sub(cached, khead) + n), khead) = Sub(cached, khead) + n
  BY <1>1, <1>2, AddDistance
<1>5. Add(cached, n) = Add(khead, Sub(cached, khead) + n)
  BY <1>1, <1>3, <1>4, SubSame
<1>. QED  BY <1>3, <1>5, SlotInArray

LEMMA Lengths ==
  ASSUME Inv, FifoInv
  PROVE  /\ Len(Posted) = Sub(cached, khead) /\ Sub(cached, khead) \in Nat
         /\ Sub(ktail, khead) \in Nat /\ Sub(ktail, khead) <= Sub(cached, khead)
         /\ Sub(cached, khead) <= Entries /\ Entries \in Nat
         /\ backlog \in Seq(Vals) /\ Len(backlog) \in Nat
         /\ Unreaped \in Seq(Vals) /\ Len(Unreaped) = Sub(cached, khead) + Len(backlog)
         /\ \A k \in 1 .. Len(Unreaped) :
              Unreaped[k] = IF k <= Sub(cached, khead) THEN Posted[k]
                            ELSE backlog[k - Sub(cached, khead)]
<1>1. /\ Sub(cached, khead) \in Nat /\ Sub(ktail, khead) \in Nat /\ Entries \in Nat
      /\ Sub(ktail, khead) <= Sub(cached, khead) /\ Sub(cached, khead) <= Entries
      /\ backlog \in Seq(Vals) /\ Len(backlog) \in Nat
  BY Distances DEF Inv, TypeInv, OrderInv
<1>2. Len(Posted) = Sub(cached, khead)
  BY <1>1 DEF Posted
<1>3. Posted \in Seq(Vals)
  BY DEF FifoInv
<1>4. /\ Unreaped \in Seq(Vals) /\ Len(Unreaped) = Len(Posted) + Len(backlog)
      /\ \A k \in 1 .. Len(Posted) + Len(backlog) :
           Unreaped[k] = IF k <= Len(Posted) THEN Posted[k] ELSE backlog[k - Len(Posted)]
  BY <1>1, <1>3, ConcatProperties DEF Unreaped
<1>. QED  BY <1>1, <1>2, <1>4

(* A completion goes to the end of all that was posted, into the ring or   *)
(* behind the backlog.                                                     *)
LEMMA PostAppends ==
  ASSUME Inv, FifoInv, NEW v \in Vals, KPost(v), khead' = khead
  PROVE  /\ Unreaped' = Append(Unreaped, v) /\ Posted' \in Seq(Vals)
         /\ \/ backlog' = backlog /\ Len(Unreaped) < Entries
            \/ Len(backlog') = Len(backlog) + 1
<1>. DEFINE m == Sub(cached, khead)
<1>1. CASE RoomInRing /\ cqes' = [cqes EXCEPT ![KSlot(cached)] = v] /\ cached' = Add(cached, 1)
           /\ UNCHANGED backlog
  <2>1. m \in Nat /\ m < Entries /\ Entries \in Nat /\ backlog = <<>> /\ Len(Posted) = m
    BY <1>1, Lengths DEF RoomInRing
  <2>2. cached = Add(khead, m) /\ KSlot(cached) \in Elements
    <3>1. Add(cached, 0) = cached
      <4>1. cached \in Int /\ 0 <= cached /\ cached < IdxMod /\ IdxMod \in Int
        BY RingAssumption DEF Idx, Inv, TypeInv
      <4>. QED  BY <4>1 DEF Add
    <3>2. m + 0 = m /\ m + 0 <= Entries
      BY <2>1
    <3>. QED  BY <3>1, <3>2, TailFromHead
  <2>3. Sub(cached', khead') = m + 1
    <3>1. m + 1 <= Entries
      BY <2>1
    <3>. QED  BY <1>1, <3>1, TailFromHead
  <2>4. Posted' = [k \in 1 .. m + 1 |-> cqes'[KSlot(Add(khead, k - 1))]]
    BY <2>3 DEF Posted, Sub
  <2>5. \A k \in 1 .. m : Posted[k] = cqes[KSlot(Add(khead, k - 1))]
    BY DEF Posted
  <2>. HIDE DEF m
  <2>6. ASSUME NEW k \in 1 .. m + 1
        PROVE  cqes'[KSlot(Add(khead, k - 1))] = IF k <= m THEN Posted[k] ELSE v
    <3>1. CASE k <= m
      <4>1. k \in 1 .. m /\ k - 1 \in 0 .. Entries - 1 /\ m \in 0 .. Entries - 1 /\ k - 1 # m
        BY <2>1, <3>1
      <4>2. KSlot(Add(khead, k - 1)) # KSlot(cached)
        BY <2>2, <4>1, SlotsApart
      <4>3. KSlot(Add(khead, k - 1)) \in Elements
        <5>1. khead \in Idx /\ k - 1 \in Nat /\ k - 1 < IdxMod
          BY <4>1, RingAssumption DEF Inv, TypeInv
        <5>. QED  BY <5>1, AddDistance, SlotInArray
      <4>. QED  BY <1>1, <2>5, <3>1, <4>1, <4>2, <4>3, Zenon DEF Inv, TypeInv
    <3>2. CASE ~ (k <= m)
      <4>1. k - 1 = m
        BY <2>1, <3>2
      <4>. QED  BY <1>1, <2>2, <3>2, <4>1 DEF Inv, TypeInv
    <3>. QED  BY <3>1, <3>2
  <2>7. Append(Posted, v) = [k \in 1 .. m + 1 |-> IF k <= m THEN Posted[k] ELSE v]
    BY <2>1, AppendAsFunction DEF FifoInv
  <2>8. Posted' = Append(Posted, v)
    BY <2>4, <2>6, <2>7
  <2>9. Posted \in Seq(Vals) /\ Posted' \in Seq(Vals)
    BY <2>8, AppendProperties DEF FifoInv
  <2>10. Unreaped = Posted /\ Unreaped' = Posted'
    BY <1>1, <2>1, <2>9, ConcatEmptySeq DEF Unreaped
  <2>. QED  BY <1>1, <2>1, <2>8, <2>9, <2>10
<1>2. CASE backlog' = Append(backlog, v) /\ UNCHANGED <<cqes, cached>>
  <2>1. Posted' = Posted
    BY <1>2 DEF Posted, Sub
  <2>2. Posted \in Seq(Vals) /\ backlog \in Seq(Vals)
    BY Lengths DEF FifoInv
  <2>3. Len(backlog') = Len(backlog) + 1 /\ backlog' = backlog \o <<v>> /\ <<v>> \in Seq(Vals)
    BY <1>2, <2>2, AppendProperties, AppendIsConcat
  <2>4. Append(Posted \o backlog, v) = (Posted \o backlog) \o <<v>>
    BY <2>2, AppendIsConcat, ConcatProperties
  <2>5. (Posted \o backlog) \o <<v>> = Posted \o (backlog \o <<v>>)
    BY <2>2, <2>3, ConcatAssociative, SMTT(30)
  <2>. QED  BY <2>1, <2>2, <2>3, <2>4, <2>5 DEF Unreaped
<1>. QED  BY <1>1, <1>2 DEF KPost

(* Refilling the ring from the backlog moves completions and loses none.   *)
LEMMA FlushMoves ==
  ASSUME Inv, FifoInv, KFlush
  PROVE  /\ Unreaped' = Unreaped /\ Posted' \in Seq(Vals)
         /\ Len(backlog') <= Len(backlog)
         /\ Sub(ktail', khead') \in Sub(ktail, khead) .. Len(Unreaped)
<1>. DEFINE m == Sub(cached, khead)
            n == Smaller(Entries - m, Len(backlog))
            hit(e) == \E k \in 1 .. n : e = KSlot(Add(cached, k - 1))
<1>1. /\ m \in Nat /\ m <= Entries /\ Entries \in Nat /\ Len(Posted) = m
      /\ backlog \in Seq(Vals) /\ Len(backlog) \in Nat /\ Posted \in Seq(Vals)
      /\ Sub(ktail, khead) \in Nat /\ Sub(ktail, khead) <= m
  BY Lengths DEF FifoInv
<1>2. n \in Nat /\ n <= Entries - m /\ n <= Len(backlog) /\ m + n <= Entries
  BY <1>1 DEF Smaller
<1>3. /\ cqes' = [e \in Elements |->
                    IF hit(e) THEN backlog[CHOOSE k \in 1 .. n : e = KSlot(Add(cached, k - 1))]
                    ELSE cqes[e]]
      /\ cached' = Add(cached, n) /\ ktail' = Add(cached, n) /\ khead' = khead
      /\ backlog' = SubSeq(backlog, n + 1, Len(backlog))
  BY DEF KFlush
<1>4. Sub(cached', khead') = m + n /\ Sub(ktail', khead') = m + n
  BY <1>2, <1>3, TailFromHead
<1>5. Posted' = [k \in 1 .. m + n |-> cqes'[KSlot(Add(khead, k - 1))]]
  BY <1>3, <1>4 DEF Posted, Sub
<1>6. \A k \in 1 .. m : Posted[k] = cqes[KSlot(Add(khead, k - 1))]
  BY DEF Posted
<1>7. \A k \in 1 .. n : Add(cached, k - 1) = Add(khead, m + (k - 1))
  <2>. SUFFICES ASSUME NEW k \in 1 .. n
                PROVE  Add(cached, k - 1) = Add(khead, m + (k - 1))
    OBVIOUS
  <2>1. k - 1 \in Nat /\ m + (k - 1) <= Entries
    BY <1>1, <1>2
  <2>. QED  BY <2>1, TailFromHead
<1>. HIDE DEF m, n
<1>8. ASSUME NEW a \in 0 .. Entries - 1
      PROVE  KSlot(Add(khead, a)) \in Elements
  <2>1. khead \in Idx /\ a \in Nat /\ a < IdxMod
    BY RingAssumption DEF Inv, TypeInv
  <2>. QED  BY <2>1, AddDistance, SlotInArray
<1>9. ASSUME NEW k \in 1 .. m
      PROVE  cqes'[KSlot(Add(khead, k - 1))] = Posted[k]
  <2>1. k - 1 \in 0 .. Entries - 1
    BY <1>1
  <2>2. ~ hit(KSlot(Add(khead, k - 1)))
    <3>. SUFFICES ASSUME NEW l \in 1 .. n, KSlot(Add(khead, k - 1)) = KSlot(Add(cached, l - 1))
                  PROVE  FALSE
      OBVIOUS
    <3>1. m + (l - 1) \in 0 .. Entries - 1 /\ m + (l - 1) # k - 1
      BY <1>1, <1>2
    <3>2. KSlot(Add(khead, k - 1)) = KSlot(Add(khead, m + (l - 1)))
      BY <1>7
    <3>. QED  BY <2>1, <3>1, <3>2, SlotsApart
  <2>. HIDE DEF hit
  <2>. QED  BY <1>3, <1>6, <1>8, <2>1, <2>2
<1>10. ASSUME NEW l \in 1 .. n
       PROVE  cqes'[KSlot(Add(khead, m + (l - 1)))] = backlog[l]
  <2>. DEFINE e == KSlot(Add(khead, m + (l - 1)))
              c == CHOOSE k \in 1 .. n : e = KSlot(Add(cached, k - 1))
  <2>1. m + (l - 1) \in 0 .. Entries - 1
    BY <1>1, <1>2
  <2>2. e = KSlot(Add(cached, l - 1)) /\ e \in Elements
    BY <1>7, <1>8, <2>1
  <2>. HIDE DEF e
  <2>3. c \in 1 .. n /\ e = KSlot(Add(cached, c - 1))
    BY <2>2
  <2>. HIDE DEF c
  <2>4. m + (c - 1) \in 0 .. Entries - 1
    BY <1>1, <1>2, <2>3
  <2>5. KSlot(Add(khead, m + (c - 1))) = KSlot(Add(khead, m + (l - 1)))
    BY <1>7, <2>3 DEF e
  <2>6. m + (c - 1) = m + (l - 1)
    BY <2>1, <2>4, <2>5, SlotsApart
  <2>7. c = l
    BY <1>1, <2>3, <2>6
  <2>8. cqes'[e] = backlog[c]
    BY <1>3, <2>2 DEF c
  <2>. QED  BY <2>7, <2>8 DEF e
<1>11. ASSUME NEW k \in 1 .. m + n
       PROVE  /\ cqes'[KSlot(Add(khead, k - 1))] = IF k <= m THEN Posted[k] ELSE backlog[k - m]
              /\ cqes'[KSlot(Add(khead, k - 1))] \in Vals
  <2>1. CASE k <= m
    <3>1. k \in 1 .. m
      BY <1>1, <2>1
    <3>2. Posted[k] \in Vals
      BY <1>1, <3>1, ElementOfSeq
    <3>. QED  BY <1>9, <2>1, <3>1, <3>2
  <2>2. CASE ~ (k <= m)
    <3>1. k - m \in 1 .. n /\ m + ((k - m) - 1) = k - 1 /\ k - m \in 1 .. Len(backlog)
      BY <1>1, <1>2, <2>2
    <3>2. cqes'[KSlot(Add(khead, m + ((k - m) - 1)))] = backlog[k - m]
      BY <1>10, <3>1
    <3>3. backlog[k - m] \in Vals
      BY <1>1, <3>1, ElementOfSeq
    <3>. QED  BY <2>2, <3>1, <3>2, <3>3
  <2>. QED  BY <2>1, <2>2
<1>12. /\ Posted' \in Seq(Vals) /\ Len(Posted') = m + n
       /\ \A k \in 1 .. m + n : Posted'[k] = IF k <= m THEN Posted[k] ELSE backlog[k - m]
  <2>1. m + n \in Nat
    BY <1>1, <1>2
  <2>. QED  BY <1>5, <1>11, <2>1
<1>13. /\ backlog' \in Seq(Vals) /\ Len(backlog') = Len(backlog) - n
       /\ \A k \in 1 .. Len(backlog) - n : backlog'[k] = backlog[n + k]
  BY <1>1, <1>2, <1>3, Suffix
<1>14. /\ Unreaped' \in Seq(Vals) /\ Len(Unreaped') = Len(Posted') + Len(backlog')
       /\ \A k \in 1 .. Len(Posted') + Len(backlog') :
            Unreaped'[k] = IF k <= Len(Posted') THEN Posted'[k] ELSE backlog'[k - Len(Posted')]
  <2>1. Unreaped' = Posted' \o backlog'
    BY DEF Unreaped
  <2>. QED  BY <1>12, <1>13, <2>1, ConcatProperties, Zenon
<1>15. /\ Unreaped \in Seq(Vals) /\ Len(Unreaped) = m + Len(backlog)
       /\ \A k \in 1 .. m + Len(backlog) :
            Unreaped[k] = IF k <= m THEN Posted[k] ELSE backlog[k - m]
  BY Lengths DEF m
<1>16. Len(Unreaped') = m + Len(backlog)
  BY <1>1, <1>2, <1>12, <1>13, <1>14
<1>17. ASSUME NEW k \in 1 .. m + Len(backlog)
       PROVE  Unreaped'[k] = Unreaped[k]
  <2>0. k \in 1 .. Len(Posted') + Len(backlog')
    BY <1>1, <1>2, <1>12, <1>13
  <2>1. CASE k <= m + n
    <3>1. Unreaped'[k] = Posted'[k]
      BY <1>12, <1>14, <2>0, <2>1
    <3>2. k \in 1 .. m + n
      BY <1>1, <1>2, <2>1
    <3>. QED  BY <1>12, <1>15, <3>1, <3>2
  <2>2. CASE ~ (k <= m + n)
    <3>1. Unreaped'[k] = backlog'[k - (m + n)]
      BY <1>12, <1>14, <2>0, <2>2
    <3>2. k - (m + n) \in 1 .. Len(backlog) - n /\ n + (k - (m + n)) = k - m /\ ~ (k <= m)
      BY <1>1, <1>2, <2>2
    <3>3. Unreaped'[k] = backlog[k - m]
      BY <1>13, <3>1, <3>2
    <3>. QED  BY <1>15, <3>2, <3>3
  <2>. QED  BY <2>1, <2>2
<1>18. Unreaped' = Unreaped
  BY <1>14, <1>15, <1>16, <1>17, SeqEqual
<1>19. Len(backlog') <= Len(backlog) /\ m + n \in Sub(ktail, khead) .. Len(Unreaped)
  BY <1>1, <1>2, <1>13, <1>15
<1>. QED  BY <1>4, <1>12, <1>18, <1>19

(* Giving back CQEs takes them from the front, as they were posted. *)
LEMMA AdvanceTakes ==
  ASSUME Inv, FifoInv, NEW nr \in 1 .. Entries, CqAdvance(nr)
  PROVE  /\ nr <= Sub(ktail, khead) /\ Sub(ktail', khead') = Sub(ktail, khead) - nr
         /\ out' = SubSeq(Unreaped, 1, nr)
         /\ Unreaped' = SubSeq(Unreaped, nr + 1, Len(Unreaped))
         /\ Posted' \in Seq(Vals)
<1>. DEFINE m == Sub(cached, khead)
<1>1. /\ Window(khead, Add(khead, nr)) \subseteq held
      /\ out' = [k \in 1 .. nr |-> cqes[Slot(Add(khead, k - 1))]]
      /\ khead' = Add(khead, nr) /\ cqes' = cqes /\ ktail' = ktail /\ cached' = cached
      /\ backlog' = backlog
  BY DEF CqAdvance, pendVars
<1>2. /\ khead \in Idx /\ ktail \in Idx /\ cached \in Idx
      /\ nr \in Nat /\ nr < IdxMod /\ nr - 1 \in Nat /\ nr - 1 < IdxMod
      /\ IdxMod \in Nat /\ Entries + 1 < IdxMod
  BY RingAssumption DEF Inv, TypeInv
<1>3. khead' \in Idx /\ Sub(khead', khead) = nr
  BY <1>1, <1>2, AddDistance
<1>4. nr <= Sub(ktail, khead)
  <2>. DEFINE last == Add(khead, nr - 1)
  <2>1. last \in Idx /\ Sub(last, khead) = nr - 1
    BY <1>2, AddDistance
  <2>. HIDE DEF last
  <2>2. last \in held
    BY <1>1, <1>2, <1>3, <2>1 DEF Window
  <2>. QED  BY <1>2, <2>1, <2>2, Distances
<1>5. /\ m \in Nat /\ m <= Entries /\ Entries \in Nat /\ Len(Posted) = m /\ nr <= m
      /\ backlog \in Seq(Vals) /\ Len(backlog) \in Nat /\ Posted \in Seq(Vals)
      /\ Sub(ktail, khead) \in Nat
  <2>1. /\ m \in Nat /\ m <= Entries /\ Entries \in Nat /\ Len(Posted) = m
        /\ backlog \in Seq(Vals) /\ Len(backlog) \in Nat /\ Posted \in Seq(Vals)
        /\ Sub(ktail, khead) \in Nat /\ Sub(ktail, khead) <= m
    BY Lengths DEF FifoInv
  <2>. QED  BY <1>2, <1>4, <2>1
<1>6. Sub(ktail', khead') = Sub(ktail, khead) - nr /\ Sub(cached', khead') = m - nr
  BY <1>1, <1>2, <1>3, <1>4, <1>5, SubChain
<1>7. \A k \in 1 .. m : Posted[k] = cqes[KSlot(Add(khead, k - 1))]
  BY DEF Posted
<1>8. Posted' = [k \in 1 .. m - nr |-> cqes[KSlot(Add(Add(khead, nr), k - 1))]]
  BY <1>1, <1>6 DEF Posted, Sub
<1>. HIDE DEF m
<1>9. ASSUME NEW k \in 1 .. m - nr
      PROVE  /\ cqes[KSlot(Add(Add(khead, nr), k - 1))] = Posted[nr + k]
             /\ Posted[nr + k] \in Vals
  <2>1. /\ k - 1 \in Nat /\ nr + (k - 1) \in Nat /\ nr + (k - 1) < IdxMod
        /\ nr + k \in 1 .. m /\ nr + (k - 1) = (nr + k) - 1
    BY <1>2, <1>5
  <2>2. Add(khead, nr) \in Idx /\ Sub(Add(khead, nr), khead) + (k - 1) < IdxMod
    BY <1>1, <1>3, <2>1
  <2>3. /\ Add(Add(khead, nr), k - 1) \in Idx
        /\ Sub(Add(Add(khead, nr), k - 1), khead) = nr + (k - 1)
    BY <1>1, <1>2, <1>3, <2>1, <2>2, SubAdd
  <2>4. /\ Add(khead, nr + (k - 1)) \in Idx
        /\ Sub(Add(khead, nr + (k - 1)), khead) = nr + (k - 1)
    BY <1>2, <2>1, AddDistance
  <2>5. Add(Add(khead, nr), k - 1) = Add(khead, nr + (k - 1))
    BY <1>2, <2>3, <2>4, SubSame
  <2>6. Posted[nr + k] \in Vals
    BY <1>5, <2>1, ElementOfSeq
  <2>. QED  BY <1>7, <2>1, <2>5, <2>6
<1>10. /\ Posted' \in Seq(Vals) /\ Len(Posted') = m - nr
       /\ \A k \in 1 .. m - nr : Posted'[k] = Posted[nr + k]
  <2>1. m - nr \in Nat
    BY <1>2, <1>5
  <2>. QED  BY <1>8, <1>9, <2>1
<1>11. /\ Unreaped \in Seq(Vals) /\ Len(Unreaped) = m + Len(backlog)
       /\ \A k \in 1 .. m + Len(backlog) :
            Unreaped[k] = IF k <= m THEN Posted[k] ELSE backlog[k - m]
  BY Lengths DEF m
<1>12. /\ Unreaped' \in Seq(Vals) /\ Len(Unreaped') = (m - nr) + Len(backlog)
       /\ \A k \in 1 .. (m - nr) + Len(backlog) :
            Unreaped'[k] = IF k <= m - nr THEN Posted'[k] ELSE backlog[k - (m - nr)]
  <2>1. Unreaped' = Posted' \o backlog
    BY <1>1 DEF Unreaped
  <2>2. /\ Unreaped' \in Seq(Vals) /\ Len(Unreaped') = Len(Posted') + Len(backlog)
        /\ \A k \in 1 .. Len(Posted') + Len(backlog) :
             Unreaped'[k] = IF k <= Len(Posted') THEN Posted'[k] ELSE backlog[k - Len(Posted')]
    BY <1>5, <1>10, <2>1, ConcatProperties, Zenon
  <2>. QED  BY <1>10, <2>2
<1>13. Unreaped' = SubSeq(Unreaped, nr + 1, Len(Unreaped))
  <2>. DEFINE w == SubSeq(Unreaped, nr + 1, Len(Unreaped))
  <2>1. nr <= Len(Unreaped)
    BY <1>2, <1>5, <1>11
  <2>2. /\ w \in Seq(Vals) /\ Len(w) = Len(Unreaped) - nr
        /\ \A k \in 1 .. Len(Unreaped) - nr : w[k] = Unreaped[nr + k]
    BY <1>2, <1>11, <2>1, Suffix
  <2>. HIDE DEF w
  <2>3. Len(w) = (m - nr) + Len(backlog)
    BY <1>2, <1>5, <1>11, <2>2
  <2>4. ASSUME NEW k \in 1 .. (m - nr) + Len(backlog)
        PROVE  Unreaped'[k] = w[k]
    <3>1. k \in 1 .. Len(Unreaped) - nr /\ nr + k \in 1 .. m + Len(backlog)
      BY <1>2, <1>5, <1>11, SMTT(30)
    <3>2. CASE k <= m - nr
      <4>1. nr + k <= m /\ k \in 1 .. m - nr
        BY <1>2, <1>5, <3>2
      <4>. QED  BY <1>10, <1>11, <1>12, <2>2, <3>1, <3>2, <4>1, SMTT(30)
    <3>3. CASE ~ (k <= m - nr)
      <4>1. ~ (nr + k <= m) /\ k - (m - nr) = (nr + k) - m
        BY <1>2, <1>5, <3>3
      <4>. QED  BY <1>11, <1>12, <2>2, <3>1, <3>3, <4>1
    <3>. QED  BY <3>2, <3>3
  <2>5. Unreaped' = w
    BY <1>12, <2>2, <2>3, <2>4, SeqEqual
  <2>. QED  BY <2>5 DEF w
<1>14. out' = SubSeq(Unreaped, 1, nr)
  <2>. DEFINE w == SubSeq(Unreaped, 1, nr)
  <2>1. \A i \in 1 .. nr : Unreaped[i] \in Vals
    <3>1. \A i \in 1 .. nr : i \in 1 .. Len(Unreaped)
      BY <1>2, <1>5, <1>11
    <3>. QED  BY <1>11, <3>1, ElementOfSeq
  <2>2. w \in Seq(Vals) /\ Len(w) = nr /\ \A k \in 1 .. nr : w[k] = Unreaped[k]
    <3>1. /\ w \in Seq(Vals) /\ Len(w) = IF 1 <= nr THEN nr - 1 + 1 ELSE 0
          /\ \A k \in 1 .. nr - 1 + 1 : w[k] = Unreaped[1 + k - 1]
      BY <1>2, <2>1, SubSeqProperties
    <3>2. nr - 1 + 1 = nr /\ 1 <= nr /\ \A k \in 1 .. nr : 1 + k - 1 = k
      BY <1>2
    <3>. QED  BY <3>1, <3>2
  <2>. HIDE DEF w
  <2>3. ASSUME NEW k \in 1 .. nr
        PROVE  cqes[Slot(Add(khead, k - 1))] = Unreaped[k]
    <3>1. k \in 1 .. m /\ k \in 1 .. m + Len(backlog) /\ k <= m /\ k - 1 \in Nat /\ k - 1 < IdxMod
      BY <1>2, <1>5
    <3>2. Add(khead, k - 1) \in Idx
      BY <1>2, <3>1, AddDistance
    <3>3. KSlot(Add(khead, k - 1)) = Slot(Add(khead, k - 1))
      BY <3>2, SlotInArray
    <3>. QED  BY <1>7, <1>11, <3>1, <3>3
  <2>4. /\ out' \in Seq(Vals) /\ Len(out') = nr
        /\ \A k \in 1 .. nr : out'[k] = Unreaped[k]
    <3>1. out' = [k \in 1 .. nr |-> Unreaped[k]]
      BY <1>1, <2>3
    <3>. QED  BY <1>2, <2>1, <3>1
  <2>5. out' = w
    BY <2>2, <2>4, SeqEqual
  <2>. QED  BY <2>5 DEF w
<1>. QED  BY <1>4, <1>6, <1>10, <1>13, <1>14

(* The completion queue implements the FIFO: what the application reads    *)
(* before io_uring_cq_advance are the completions in the order posted,     *)
(* each once, whether they went into the ring or through the backlog,      *)
(* whatever the ring size and wherever the indices wrap.                   *)
THEOREM CompletionsLeaveInOrder == Spec => ReapsInOrder
<1>1. Init => FifoInv /\ Queue!Init
  <2>. SUFFICES ASSUME Init
                PROVE  FifoInv /\ Queue!Init
    OBVIOUS
  <2>1. 0 \in Idx
    BY RingAssumption DEF Idx
  <2>2. Sub(cached, khead) = 0 /\ Sub(ktail, khead) = 0
    BY <2>1, SubRange DEF Init
  <2>3. Posted = <<>> /\ <<>> \in Seq(Vals)
    BY <2>2, EmptySeq DEF Posted
  <2>4. backlog = <<>> /\ work = <<>> /\ out = <<>>
    BY DEF Init
  <2>5. Unreaped = <<>>
    BY <2>3, <2>4, ConcatEmptySeq DEF Unreaped
  <2>6. Len(backlog) + Len(work) <= MaxPending
    <3>1. Len(<<>>) = 0
      OBVIOUS
    <3>. QED  BY <2>4, <3>1, CqAssumption
  <2>7. FifoInv
    BY <2>3, <2>6 DEF FifoInv
  <2>. QED  BY <2>2, <2>4, <2>5, <2>7 DEF Queue!Init, CqReady, Unreaped, Posted
<1>2. Inv /\ FifoInv /\ [Next]_vars => FifoInv' /\ [Queue!Next]_(Queue!vars)
  <2>. SUFFICES ASSUME Inv, FifoInv, [Next]_vars
                PROVE  FifoInv' /\ (Queue!Next \/ UNCHANGED Queue!vars)
    OBVIOUS
  <2>0. /\ work \in Seq(Vals) /\ Len(work) \in Nat /\ Len(backlog) \in Nat /\ MaxPending \in Nat
        /\ Entries \in Nat /\ Sub(cached, khead) \in Nat /\ Sub(cached, khead) <= Entries
        /\ Len(Unreaped) = Sub(cached, khead) + Len(backlog)
        /\ Sub(ktail, khead) \in Nat /\ Sub(ktail, khead) <= Sub(cached, khead)
        /\ Len(backlog) + Len(work) <= MaxPending
    BY Lengths, CqAssumption DEF Inv, TypeInv, FifoInv
  <2>1. ASSUME NEW v \in Vals, KPost(v), UNCHANGED <<khead, ktail, out>>,
               RoomInRing \/ Len(backlog) < MaxPending
        PROVE  Queue!Put(v)
    <3>1. Unreaped' = Append(Unreaped, v)
      BY <2>1, PostAppends
    <3>2. Len(Unreaped) < Entries + MaxPending
      <4>1. CASE RoomInRing
        <5>1. backlog = <<>> /\ Sub(cached, khead) < Entries
          BY <4>1 DEF RoomInRing
        <5>2. Len(backlog) = 0
          BY <5>1
        <5>. QED  BY <2>0, <5>1, <5>2
      <4>2. CASE Len(backlog) < MaxPending
        BY <2>0, <4>2
      <4>. QED  BY <2>1, <4>1, <4>2
    <3>3. CqReady' = CqReady
      BY <2>1 DEF CqReady, Sub
    <3>. QED  BY <2>1, <3>1, <3>2, <3>3, Zenon DEF Queue!Put, Unreaped, Posted
  <2>2. ASSUME NEW v \in Vals, KComplete(v)
        PROVE  FifoInv' /\ Queue!Next
    <3>1. /\ KPost(v) /\ UNCHANGED <<khead, ktail, out, work>>
          /\ RoomInRing \/ Len(backlog) + Len(work) < MaxPending
      BY <2>2 DEF KComplete, appVars
    <3>2. RoomInRing \/ Len(backlog) < MaxPending
      BY <2>0, <3>1
    <3>3. Queue!Put(v)
      BY <2>1, <3>1, <3>2
    <3>4. RoomInRing => backlog' = backlog
      BY <3>1 DEF KPost
    <3>5. Posted' \in Seq(Vals) /\ (backlog' = backlog \/ Len(backlog') = Len(backlog) + 1)
      BY <3>1, PostAppends
    <3>6. Len(backlog') + Len(work') <= MaxPending
      BY <2>0, <3>1, <3>4, <3>5
    <3>. QED  BY <3>3, <3>5, <3>6 DEF FifoInv, Queue!Next
  <2>3. CASE KRunWork
    <3>1. /\ KPost(Head(work)) /\ work' = Tail(work) /\ UNCHANGED <<khead, ktail, out>>
          /\ pc = "get_events" /\ quota > 0
      BY <2>3 DEF KRunWork, appVars
    <3>2. quota \in Nat /\ quota <= Len(work)
      BY <3>1 DEF Inv, TypeInv, OrderInv
    <3>3. work # <<>> /\ Len(work) >= 1
      BY <2>0, <3>1, <3>2
    <3>4. Head(work) \in Vals /\ Len(work') = Len(work) - 1
      BY <2>0, <3>1, <3>3, HeadTailProperties
    <3>5. Len(backlog) < MaxPending
      BY <2>0, <3>3
    <3>6. Queue!Put(Head(work))
      BY <2>1, <3>1, <3>4, <3>5
    <3>7. Posted' \in Seq(Vals) /\ (backlog' = backlog \/ Len(backlog') = Len(backlog) + 1)
      BY <3>1, <3>4, PostAppends
    <3>8. Len(backlog') + Len(work') <= MaxPending
      BY <2>0, <3>4, <3>7
    <3>. QED  BY <3>4, <3>6, <3>7, <3>8 DEF FifoInv, Queue!Next
  <2>4. ASSUME Unreaped' = Unreaped, out' = out,
               Sub(ktail', khead') \in Sub(ktail, khead) .. Len(Unreaped)
        PROVE  Queue!Next \/ UNCHANGED Queue!vars
    <3>1. CqReady' = Sub(ktail', khead') /\ CqReady = Sub(ktail, khead)
      BY DEF CqReady, Sub
    <3>2. CASE CqReady' = CqReady
      BY <2>4, <3>2, Zenon DEF Queue!vars, Unreaped, Posted
    <3>3. CASE CqReady' # CqReady
      <4>1. CqReady' \in CqReady + 1 .. Len(Unreaped)
        BY <2>0, <2>4, <3>1, <3>3
      <4>2. Queue!Publish
        BY <2>4, <4>1, Zenon DEF Queue!Publish, Unreaped, Posted
      <4>. QED  BY <4>2 DEF Queue!Next
    <3>. QED  BY <3>2, <3>3
  <2>5. CASE KFlush
    <3>1. out' = out /\ work' = work
      BY <2>5 DEF KFlush, appVars
    <3>2. /\ Unreaped' = Unreaped /\ Posted' \in Seq(Vals)
          /\ Len(backlog') <= Len(backlog)
          /\ Sub(ktail', khead') \in Sub(ktail, khead) .. Len(Unreaped)
      BY <2>5, FlushMoves
    <3>3. Len(backlog') \in Nat
      BY AnyStep DEF Inv, TypeInv
    <3>4. Len(backlog') + Len(work') <= MaxPending
      BY <2>0, <3>1, <3>2, <3>3
    <3>. QED  BY <2>4, <3>1, <3>2, <3>4 DEF FifoInv
  <2>6. ASSUME NEW nr \in 1 .. Entries, CqAdvance(nr)
        PROVE  FifoInv' /\ Queue!Next
    <3>1. UNCHANGED <<backlog, work>>
      BY <2>6 DEF CqAdvance, pendVars
    <3>2. /\ nr <= Sub(ktail, khead) /\ Sub(ktail', khead') = Sub(ktail, khead) - nr
          /\ out' = SubSeq(Unreaped, 1, nr)
          /\ Unreaped' = SubSeq(Unreaped, nr + 1, Len(Unreaped))
          /\ Posted' \in Seq(Vals)
      BY <2>6, AdvanceTakes
    <3>3. CqReady' = CqReady - nr /\ nr <= CqReady /\ CqReady = Sub(ktail, khead)
      BY <3>2 DEF CqReady, Sub
    <3>4. Queue!Take(nr)
      BY <3>2, <3>3, Zenon DEF Queue!Take, Unreaped, Posted
    <3>5. nr \in 1 .. CqReady
      BY <2>0, <3>3
    <3>6. FifoInv'
      BY <3>1, <3>2 DEF FifoInv
    <3>. QED  BY <3>4, <3>5, <3>6 DEF Queue!Next
  <2>7. ASSUME UNCHANGED <<cqes, khead, cached, backlog, out>>
        PROVE  Posted' = Posted /\ Unreaped' = Unreaped
    BY <2>7 DEF Posted, Unreaped, Sub
  <2>8. ASSUME NEW v \in Vals, KWork(v)
        PROVE  FifoInv' /\ UNCHANGED Queue!vars
    <3>1. /\ UNCHANGED <<cqes, khead, ktail, cached, backlog, out>> /\ work' = Append(work, v)
          /\ Len(backlog) + Len(work) < MaxPending
      BY <2>8 DEF KWork, ringVars, appVars
    <3>2. Posted' = Posted /\ Unreaped' = Unreaped
      BY <2>7, <3>1
    <3>3. Len(work') = Len(work) + 1
      BY <2>0, <3>1
    <3>4. Len(backlog') + Len(work') <= MaxPending
      BY <2>0, <3>1, <3>3
    <3>5. CqReady' = CqReady
      BY <3>1 DEF CqReady, Sub
    <3>. QED  BY <3>1, <3>2, <3>4, <3>5 DEF FifoInv, Queue!vars, Unreaped, Posted
  <2>9. CASE KCommit
    <3>1. UNCHANGED <<cqes, khead, cached, backlog, work, out>> /\ ktail' = cached
      BY <2>9 DEF KCommit, pendVars, appVars
    <3>2. Posted' = Posted /\ Unreaped' = Unreaped
      BY <2>7, <3>1
    <3>3. Sub(ktail', khead') \in Sub(ktail, khead) .. Len(Unreaped)
      BY <2>0, <3>1
    <3>4. FifoInv'
      BY <3>1, <3>2 DEF FifoInv
    <3>. QED  BY <2>4, <3>1, <3>2, <3>3, <3>4
  <2>10. ASSUME \/ CallSteps \/ ForEachCqe \/ UNCHANGED vars
                \/ \E n \in 1 .. Entries : PeekBatch(n)
         PROVE  FifoInv' /\ UNCHANGED Queue!vars
    <3>1. UNCHANGED <<cqes, khead, ktail, cached, backlog, work, out>>
      BY <2>10 DEF CallSteps, PeekReady, PeekEmpty, PeekFlush, ForEachCqe, PeekBatch, vars,
                   ringVars, pendVars, appVars
    <3>2. Posted' = Posted /\ Unreaped' = Unreaped
      BY <2>7, <3>1
    <3>3. CqReady' = CqReady
      BY <3>1 DEF CqReady, Sub
    <3>. QED  BY <3>1, <3>2, <3>3 DEF FifoInv, Queue!vars, Unreaped, Posted
  <2>. QED
    BY <2>2, <2>3, <2>5, <2>6, <2>8, <2>9, <2>10 DEF Next, KernelSteps
<1>. QED  BY <1>1, <1>2, InvAlways, PTL DEF Spec, ReapsInOrder, Queue!Spec
=============================================================================
