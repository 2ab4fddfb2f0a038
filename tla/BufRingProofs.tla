--------------------------- MODULE BufRingProofs ---------------------------
(* The ring of provided buffers, for every ring size, width of the tail    *)
(* and set of buffers.                                                     *)
EXTENDS BufRing, RingIndexProofs, FiniteSetTheorems, SequenceLemmas, TLAPS

(* OneOwner with the places apart: p in the ring, u in CQEs not looked at, *)
(* o with the application and f with requests.                             *)
Placed(p, u, o, f) ==
  /\ p \in Seq(Bids) /\ u \in Seq(Bids) /\ o \subseteq Bids /\ f \subseteq Bids
  /\ \A i, j \in 1 .. Len(p) : p[i] = p[j] => i = j
  /\ \A i, j \in 1 .. Len(u) : u[i] = u[j] => i = j
  /\ \A i \in 1 .. Len(p), j \in 1 .. Len(u) : p[i] # u[j]
  /\ \A i \in 1 .. Len(p) : p[i] \notin o /\ p[i] \notin f
  /\ \A i \in 1 .. Len(u) : u[i] \notin o /\ u[i] \notin f
  /\ \A b \in o : b \notin f
  /\ \A b \in Bids : \/ b \in o \/ b \in f
                     \/ \E i \in 1 .. Len(p) : p[i] = b
                     \/ \E i \in 1 .. Len(u) : u[i] = b

TypeInv ==
  /\ bufs \in [0 .. Entries - 1 -> Bids \cup {None}]
  /\ tail \in Idx /\ khead \in Idx /\ offset \in Nat
  /\ cq \in Seq(Bids) /\ seen \in Nat /\ seen <= Len(cq)
  /\ cq_count \in Nat /\ (pc = "cq_advance" => cq_count <= seen)

OwnerInv == Placed(Provided, Unseen, own, inflight)

Inv == TypeInv /\ OwnerInv

(* The head io_uring_buf_ring_available works with is the kernel's or an   *)
(* older one, and not older than a ring.                                   *)
HeadInv ==
  pc = "available" => /\ head \in Idx
                      /\ Sub(tail, khead) <= Sub(tail, head) /\ Sub(tail, head) <= Entries
-----------------------------------------------------------------------------
(* A buffer moves from one place to another. *)

LEMMA PlacedAdd ==
  ASSUME NEW p, NEW u, NEW o, NEW f, Placed(p, u, o, f), NEW b \in o
  PROVE  Placed(Append(p, b), u, o \ {b}, f)
<1>. DEFINE q == Append(p, b)
<1>1. /\ b \in Bids /\ p \in Seq(Bids) /\ Len(p) \in Nat
      /\ q \in Seq(Bids) /\ Len(q) = Len(p) + 1
      /\ \A i \in 1 .. Len(p) : q[i] = p[i]
      /\ q[Len(p) + 1] = b
  BY AppendProperties DEF Placed
<1>2. \A i \in 1 .. Len(q) : i \in 1 .. Len(p) \/ i = Len(p) + 1
  BY <1>1
<1>3. \A i \in 1 .. Len(p) : i \in 1 .. Len(q) /\ i # Len(p) + 1
  BY <1>1
<1>4. Len(p) + 1 \in 1 .. Len(q)
  BY <1>1
<1>. HIDE DEF q
<1>5. \A i, j \in 1 .. Len(q) : q[i] = q[j] => i = j
  BY <1>1, <1>2, <1>3 DEF Placed
<1>6. \A i \in 1 .. Len(q), j \in 1 .. Len(u) : q[i] # u[j]
  BY <1>1, <1>2 DEF Placed
<1>7. \A i \in 1 .. Len(q) : q[i] \notin o \ {b} /\ q[i] \notin f
  BY <1>1, <1>2 DEF Placed
<1>8. \A c \in Bids : \/ c \in o \ {b} \/ c \in f
                      \/ \E i \in 1 .. Len(q) : q[i] = c
                      \/ \E i \in 1 .. Len(u) : u[i] = c
  BY <1>1, <1>3, <1>4 DEF Placed
<1>9. Placed(q, u, o \ {b}, f)
  BY <1>1, <1>5, <1>6, <1>7, <1>8, Zenon DEF Placed
<1>. QED  BY <1>9 DEF q

(* The roles of the ring and the CQEs, and of their takers, are alike. *)
LEMMA PlacedSwap ==
  ASSUME NEW p, NEW u, NEW o, NEW f, Placed(p, u, o, f)
  PROVE  Placed(u, p, f, o)
BY DEF Placed

LEMMA PlacedTake ==
  ASSUME NEW p, NEW u, NEW o, NEW f, Placed(p, u, o, f), p # <<>>
  PROVE  Placed(Tail(p), u, o, f \cup {p[1]})
<1>. DEFINE q == Tail(p)
<1>1. /\ p \in Seq(Bids) /\ Len(p) \in Nat /\ Len(p) > 0 /\ p[1] \in Bids
      /\ q \in Seq(Bids) /\ Len(q) = Len(p) - 1
      /\ \A i \in 1 .. Len(q) : q[i] = p[i + 1]
  BY HeadTailProperties DEF Placed
<1>. HIDE DEF q
<1>2. \A i \in 1 .. Len(q) : i + 1 \in 1 .. Len(p) /\ i + 1 # 1 /\ i \in Int
  BY <1>1
<1>3. \A i \in 1 .. Len(p) : i = 1 \/ (i - 1 \in 1 .. Len(q) /\ q[i - 1] = p[i])
  BY <1>1
<1>4. 1 \in 1 .. Len(p)
  BY <1>1
<1>5. \A i, j \in 1 .. Len(q) : q[i] = q[j] => i = j
  <2>. SUFFICES ASSUME NEW i \in 1 .. Len(q), NEW j \in 1 .. Len(q), q[i] = q[j]
                PROVE  i = j
    OBVIOUS
  <2>1. /\ i + 1 \in 1 .. Len(p) /\ j + 1 \in 1 .. Len(p)
        /\ q[i] = p[i + 1] /\ q[j] = p[j + 1]
    BY <1>1, <1>2
  <2>2. \A k, l \in 1 .. Len(p) : p[k] = p[l] => k = l
    BY DEF Placed
  <2>3. i + 1 = j + 1
    BY <2>1, <2>2, Zenon
  <2>. QED  BY <2>3, <1>2
<1>6. \A i \in 1 .. Len(q), j \in 1 .. Len(u) : q[i] # u[j]
  BY <1>1, <1>2 DEF Placed
<1>7. \A i \in 1 .. Len(q) : q[i] \notin o /\ q[i] \notin f /\ q[i] # p[1]
  <2>. SUFFICES ASSUME NEW i \in 1 .. Len(q)
                PROVE  q[i] \notin o /\ q[i] \notin f /\ q[i] # p[1]
    OBVIOUS
  <2>1. q[i] = p[i + 1] /\ i + 1 \in 1 .. Len(p) /\ i + 1 # 1
    BY <1>1, <1>2
  <2>. QED  BY <2>1, <1>4 DEF Placed
<1>8. /\ \A i \in 1 .. Len(u) : u[i] # p[1]
      /\ p[1] \notin o
  BY <1>4 DEF Placed
<1>9. \A c \in Bids : \/ c \in o \/ c \in f \cup {p[1]}
                      \/ \E i \in 1 .. Len(q) : q[i] = c
                      \/ \E i \in 1 .. Len(u) : u[i] = c
  <2>. SUFFICES ASSUME NEW c \in Bids, c \notin o, c \notin f,
                       ~ \E i \in 1 .. Len(u) : u[i] = c
                PROVE  c = p[1] \/ \E i \in 1 .. Len(q) : q[i] = c
    OBVIOUS
  <2>1. PICK i \in 1 .. Len(p) : p[i] = c
    BY DEF Placed
  <2>. QED  BY <2>1, <1>3
<1>10. Placed(q, u, o, f \cup {p[1]})
  BY <1>1, <1>5, <1>6, <1>7, <1>8, <1>9 DEF Placed
<1>. QED  BY <1>10 DEF q

LEMMA PlacedReap ==
  ASSUME NEW p, NEW u, NEW o, NEW f, Placed(p, u, o, f), u # <<>>
  PROVE  Placed(p, Tail(u), o \cup {u[1]}, f)
BY PlacedSwap, PlacedTake

LEMMA PlacedComplete ==
  ASSUME NEW p, NEW u, NEW o, NEW f, Placed(p, u, o, f), NEW b \in f
  PROVE  Placed(p, Append(u, b), o, f \ {b})
BY PlacedSwap, PlacedAdd

(* Different buffers in different entries: no more entries are in use than *)
(* there are buffers the application does not have.                        *)
LEMMA Pigeons ==
  ASSUME NEW p, NEW u, NEW o, NEW f, Placed(p, u, o, f), NEW S \in SUBSET o
  PROVE  Len(p) \in Nat /\ Len(p) <= Cardinality(Bids \ S)
<1>1. IsFiniteSet(Bids \ S)
  BY BufRingAssumption, FS_Subset
<1>2. p \in Injection(1 .. Len(p), Bids \ S)
  <2>1. p \in [1 .. Len(p) -> Bids \ S]
    BY DEF Placed
  <2>2. IsInjective(p)
    BY <2>1 DEF Placed, IsInjective
  <2>. QED  BY <2>1, <2>2 DEF Injection
<1>3. Cardinality(1 .. Len(p)) <= Cardinality(Bids \ S)
  BY <1>1, <1>2, FS_Injection
<1>4. Len(p) \in Nat
  BY DEF Placed
<1>5. Cardinality(1 .. Len(p)) = IF 1 > Len(p) THEN 0 ELSE Len(p) - 1 + 1
  BY <1>4, FS_Interval, SMTT(30)
<1>. QED  BY <1>3, <1>4, <1>5

(* The ring is never overrun, and has room for any buffer the application  *)
(* still has.                                                              *)
LEMMA Room ==
  ASSUME NEW p, NEW u, NEW o, NEW f, Placed(p, u, o, f)
  PROVE  Len(p) \in Nat /\ Len(p) <= Entries /\ (o # {} => Len(p) < Entries)
<1>1. /\ IsFiniteSet(Bids) /\ Cardinality(Bids) \in Nat /\ Cardinality(Bids) <= Entries
      /\ Entries \in Nat
  BY BufRingAssumption, RingAssumption, FS_CardinalityType
<1>2. Len(p) \in Nat /\ Len(p) <= Entries
  <2>1. Len(p) \in Nat /\ Len(p) <= Cardinality(Bids \ {})
    BY Pigeons, Zenon
  <2>2. Bids \ {} = Bids
    OBVIOUS
  <2>. QED  BY <1>1, <2>1, <2>2
<1>3. ASSUME NEW b \in o
      PROVE  Len(p) < Entries
  <2>1. Len(p) <= Cardinality(Bids \ {b})
    BY Pigeons, Zenon
  <2>2. Cardinality(Bids \ {b}) = Cardinality(Bids) - 1
    BY <1>1, FS_RemoveElement, Zenon DEF Placed
  <2>. QED  BY <1>1, <1>2, <2>1, <2>2
<1>. QED  BY <1>2, <1>3
-----------------------------------------------------------------------------
(* The two sequences, step by step. *)

LEMMA Widths ==
  ASSUME Inv
  PROVE  /\ Sub(tail, khead) \in Nat /\ Sub(tail, khead) < IdxMod
         /\ (Sub(tail, khead) = 0 <=> tail = khead)
         /\ Entries \in Nat /\ Entries > 0 /\ IdxMod \in Nat /\ Entries + 1 < IdxMod
         /\ tail \in Nat /\ khead \in Nat /\ offset \in Nat
         /\ Len(Provided) = Sub(tail, khead) + offset
         /\ Sub(tail, khead) + offset <= Entries
         /\ \A n \in Nat : Mask(n) \in 0 .. Entries - 1
<1>1. /\ Sub(tail, khead) \in Nat /\ Sub(tail, khead) < IdxMod
      /\ (Sub(tail, khead) = 0 <=> tail = khead)
      /\ Entries \in Nat /\ Entries > 0 /\ IdxMod \in Nat /\ Entries + 1 < IdxMod
      /\ tail \in Nat /\ khead \in Nat /\ offset \in Nat
  <2>1. tail \in Idx /\ khead \in Idx /\ offset \in Nat
    BY DEF Inv, TypeInv
  <2>2. /\ Sub(tail, khead) \in Int /\ 0 <= Sub(tail, khead) /\ Sub(tail, khead) < IdxMod
        /\ (Sub(tail, khead) = 0 <=> tail = khead)
    BY <2>1, SubRange
  <2>. QED  BY <2>1, <2>2, RingAssumption DEF Idx
<1>2. Len(Provided) \in Nat /\ Len(Provided) <= Entries /\ Provided \in Seq(Bids)
  BY Room, Zenon DEF Inv, OwnerInv, Placed
<1>3. Len(Provided) = Sub(tail, khead) + offset
  BY <1>1, <1>2 DEF Provided
<1>4. \A n \in Nat : Mask(n) \in 0 .. Entries - 1
  BY Division DEF Mask
<1>. QED  BY <1>1, <1>2, <1>3, <1>4

(* io_uring_buf_ring_add writes the entry after the last one in use. *)
LEMMA SlotOfAdd ==
  ASSUME Inv
  PROVE  BufSlot(offset) = Mask(khead + Sub(tail, khead) + offset)
<1>1. /\ tail \in Nat /\ khead \in Nat /\ offset \in Nat /\ IdxMod \in Nat
      /\ Sub(tail, khead) = IF tail >= khead THEN tail - khead ELSE tail - khead + IdxMod
  BY SubCases, Widths, Zenon DEF Inv, TypeInv
<1>2. CASE tail >= khead
  <2>1. khead + Sub(tail, khead) + offset = tail + offset
    BY <1>1, <1>2
  <2>. QED  BY <2>1 DEF BufSlot
<1>3. CASE tail < khead
  <2>1. /\ khead + Sub(tail, khead) + offset = (tail + offset) + IdxMod
        /\ tail + offset \in Nat /\ khead + Sub(tail, khead) + offset \in Nat
    BY <1>1, <1>3
  <2>. QED  BY <2>1, MaskPeriodic DEF BufSlot
<1>. QED  BY <1>1, <1>2, <1>3

(* An added buffer is the last of those provided; the others stay as they  *)
(* are, as there is room.                                                  *)
LEMMA AddProvides ==
  ASSUME Inv, NEW bid \in Bids, BufRingAdd(bid)
  PROVE  /\ Provided' = Append(Provided, bid) /\ Unseen' = Unseen
         /\ Sub(tail, khead)' = Sub(tail, khead) /\ Len(Provided) < Entries
<1>. DEFINE n == Sub(tail, khead) + offset
<1>1. /\ n \in Nat /\ n < Entries /\ Len(Provided) = n /\ khead \in Nat /\ Entries \in Nat
      /\ Len(Provided) < Entries
  BY Widths, Room, Zenon DEF Inv, OwnerInv, BufRingAdd
<1>2. /\ tail' = tail /\ khead' = khead /\ offset' = offset + 1
      /\ cq' = cq /\ seen' = seen /\ bufs' = [bufs EXCEPT ![BufSlot(offset)] = bid]
  BY DEF BufRingAdd, kernelVars
<1>3. Sub(tail, khead)' = Sub(tail, khead) /\ Unseen' = Unseen
  BY <1>2 DEF Sub, Unseen
<1>4. BufSlot(offset) = Mask(khead + n)
  <2>1. khead + n = khead + Sub(tail, khead) + offset
    BY Widths
  <2>. QED  BY <2>1, SlotOfAdd
<1>5. Provided' = [k \in 1 .. n + 1 |-> bufs'[Mask(khead + k - 1)]]
  <2>1. (Sub(tail, khead) + offset)' = n + 1
    BY <1>2, <1>3, Widths
  <2>. QED  BY <1>2, <2>1 DEF Provided
<1>6. Provided = [k \in 1 .. n |-> bufs[Mask(khead + k - 1)]]
  BY DEF Provided
<1>. HIDE DEF n
<1>7. bufs'[Mask(khead + n)] = bid
  <2>1. khead + n \in Nat
    BY <1>1
  <2>2. Mask(khead + n) \in 0 .. Entries - 1
    BY <2>1, Widths
  <2>. QED  BY <1>2, <1>4, <2>2 DEF Inv, TypeInv
<1>8. \A k \in 1 .. n : bufs'[Mask(khead + k - 1)] = bufs[Mask(khead + k - 1)]
  <2>. SUFFICES ASSUME NEW k \in 1 .. n
                PROVE  bufs'[Mask(khead + k - 1)] = bufs[Mask(khead + k - 1)]
    OBVIOUS
  <2>1. /\ khead + k - 1 \in Nat /\ khead + n \in Nat
        /\ khead + k - 1 < khead + n /\ (khead + n) - (khead + k - 1) < Entries + 1
        /\ (khead + n) - (khead + k - 1) = n - k + 1
    BY <1>1
  <2>2. (khead + n) - (khead + k - 1) < Entries
    BY <1>1, <2>1
  <2>3. Mask(khead + k - 1) # Mask(khead + n)
    BY <2>1, <2>2, MaskApart
  <2>4. Mask(khead + k - 1) \in 0 .. Entries - 1
    BY <2>1, Widths, Zenon
  <2>. QED  BY <1>2, <1>4, <2>3, <2>4 DEF Inv, TypeInv
<1>9. Append(Provided, bid) = [k \in 1 .. n + 1 |-> IF k <= n THEN Provided[k] ELSE bid]
  <2>1. Provided \in Seq(Bids)
    BY DEF Inv, OwnerInv, Placed
  <2>. QED  BY <1>1, <2>1, AppendAsFunction
<1>10. \A k \in 1 .. n + 1 : bufs'[Mask(khead + k - 1)] = IF k <= n THEN Provided[k] ELSE bid
  <2>1. \A k \in 1 .. n : Provided[k] = bufs[Mask(khead + k - 1)]
    BY <1>6
  <2>2. ASSUME NEW k \in 1 .. n
        PROVE  bufs'[Mask(khead + k - 1)] = IF k <= n THEN Provided[k] ELSE bid
    <3>1. k <= n
      BY <1>1
    <3>. QED  BY <1>8, <2>1, <3>1, Zenon
  <2>3. ASSUME NEW k, k = n + 1
        PROVE  bufs'[Mask(khead + k - 1)] = IF k <= n THEN Provided[k] ELSE bid
    <3>1. ~ (k <= n) /\ khead + k - 1 = khead + n
      BY <1>1, <2>3
    <3>. QED  BY <1>7, <3>1, Zenon
  <2>4. \A k \in 1 .. n + 1 : k \in 1 .. n \/ k = n + 1
    BY <1>1
  <2>. QED  BY <2>2, <2>3, <2>4, Zenon
<1>11. Provided' = Append(Provided, bid)
  BY <1>5, <1>9, <1>10, Zenon
<1>. QED  BY <1>1, <1>3, <1>11

(* Advancing makes entries visible and changes none of them. *)
LEMMA AdvancePublishes ==
  ASSUME Inv, NEW count \in Nat, count <= offset,
         tail' = NewTail(count), offset' = offset - count,
         bufs' = bufs, khead' = khead
  PROVE  /\ Provided' = Provided /\ tail' \in Idx /\ offset' \in Nat
         /\ Sub(tail, khead)' = Sub(tail, khead) + count
<1>1. Sub(tail, khead) + count < IdxMod /\ tail \in Idx /\ khead \in Idx
  <2>1. /\ Sub(tail, khead) \in Nat /\ offset \in Nat /\ Entries \in Nat /\ IdxMod \in Nat
        /\ Sub(tail, khead) + offset <= Entries /\ Entries + 1 < IdxMod
    BY Widths
  <2>2. Sub(tail, khead) + count < IdxMod
    BY <2>1
  <2>. QED  BY <2>2 DEF Inv, TypeInv
<1>2. Add(tail, count) \in Idx /\ Sub(Add(tail, count), khead) = Sub(tail, khead) + count
  BY <1>1, SubAdd
<1>3. Sub(tail, khead)' = Sub(tail, khead) + count
  BY <1>2 DEF NewTail, Sub
<1>4. (Sub(tail, khead) + offset)' = Sub(tail, khead) + offset /\ offset' \in Nat
  <2>1. Sub(tail, khead) \in Nat /\ offset \in Nat
    BY Widths
  <2>2. (Sub(tail, khead) + offset)' = (Sub(tail, khead) + count) + (offset - count)
    BY <1>3
  <2>. QED  BY <2>1, <2>2
<1>5. Provided' = Provided
  BY <1>4 DEF Provided
<1>. QED  BY <1>2, <1>3, <1>4, <1>5 DEF NewTail

(* The kernel takes the first of the buffers provided. *)
LEMMA TakesFirst ==
  ASSUME Inv, KTake
  PROVE  /\ Provided # <<>> /\ Provided' = Tail(Provided)
         /\ out' = <<Provided[1]>> /\ inflight' = inflight \cup {Provided[1]}
         /\ khead' \in Idx /\ Sub(tail, khead)' = Sub(tail, khead) - 1
         /\ Sub(tail, khead) >= 1
<1>. DEFINE n == Sub(tail, khead) + offset
<1>1. /\ n \in Nat /\ n >= 1 /\ n <= Entries /\ Len(Provided) = n /\ Sub(tail, khead) >= 1
      /\ khead \in Nat /\ Provided \in Seq(Bids) /\ khead \in Idx /\ tail \in Idx
  <2>1. /\ Sub(tail, khead) \in Nat /\ (Sub(tail, khead) = 0 <=> tail = khead) /\ offset \in Nat
        /\ Sub(tail, khead) + offset <= Entries /\ Len(Provided) = n /\ khead \in Nat
    BY Widths
  <2>2. khead # tail /\ Provided \in Seq(Bids) /\ khead \in Idx /\ tail \in Idx
    BY DEF Inv, TypeInv, OwnerInv, Placed, KTake
  <2>. QED  BY <2>1, <2>2
<1>2. Provided[1] = bufs[khead % Entries]
  <2>1. 1 \in 1 .. n /\ khead + 1 - 1 = khead
    BY <1>1
  <2>2. Provided[1] = bufs[Mask(khead + 1 - 1)]
    BY <2>1 DEF Provided
  <2>. QED  BY <2>1, <2>2 DEF Mask
<1>3. /\ tail' = tail /\ offset' = offset /\ bufs' = bufs /\ khead' = Add(khead, 1)
      /\ out' = <<Provided[1]>> /\ inflight' = inflight \cup {Provided[1]}
  BY <1>2 DEF KTake, ringVars
<1>4. khead' \in Idx /\ Sub(tail, khead)' = Sub(tail, khead) - 1
  <2>1. Add(khead, 1) \in Idx /\ Sub(Add(khead, 1), khead) = 1
    <3>1. Sub(khead, khead) = 0
      BY <1>1, SubRange
    <3>2. 0 + 1 < IdxMod
      BY Widths
    <3>. QED  BY <1>1, <3>1, <3>2, SubStep
  <2>2. Sub(tail, Add(khead, 1)) = Sub(tail, khead) - 1
    <3>1. Sub(Add(khead, 1), khead) <= Sub(tail, khead)
      BY <1>1, <2>1, Widths
    <3>2. Sub(tail, Add(khead, 1)) = Sub(tail, khead) - Sub(Add(khead, 1), khead)
      BY <1>1, <2>1, <3>1, SubChain, Zenon
    <3>. QED  BY <2>1, <3>2
  <2>. QED  BY <1>3, <2>1, <2>2 DEF Sub
<1>5. (Sub(tail, khead) + offset)' = n - 1
  BY <1>3, <1>4, Widths
<1>6. Provided' = [k \in 1 .. n - 1 |-> bufs[Mask(Add(khead, 1) + k - 1)]]
  BY <1>3, <1>5 DEF Provided
<1>7. \A k \in 1 .. n : Provided[k] = bufs[Mask(khead + k - 1)]
  BY DEF Provided
<1>. HIDE DEF n
<1>8. \A k \in 1 .. n - 1 : bufs[Mask(Add(khead, 1) + k - 1)] = Provided[k + 1]
  <2>. SUFFICES ASSUME NEW k \in 1 .. n - 1
                PROVE  bufs[Mask(Add(khead, 1) + k - 1)] = Provided[k + 1]
    OBVIOUS
  <2>1. /\ k - 1 \in Nat /\ k + 1 \in 1 .. n /\ 1 < IdxMod /\ 1 \in Nat
        /\ khead + 1 + (k - 1) = khead + (k + 1) - 1
    BY <1>1, Widths
  <2>2. Add(khead, 1) \in Int
    BY <1>3, <1>4 DEF Idx
  <2>3. Mask(Add(khead, 1) + (k - 1)) = Mask(khead + 1 + (k - 1))
    BY <1>1, <2>1, MaskAdd
  <2>4. Add(khead, 1) + k - 1 = Add(khead, 1) + (k - 1)
    BY <2>2
  <2>. QED  BY <1>7, <2>1, <2>3, <2>4
<1>9. Tail(Provided) = [k \in 1 .. n - 1 |-> Provided[k + 1]]
  BY <1>1, TailAsFunction
<1>10. Provided' = Tail(Provided)
  BY <1>6, <1>8, <1>9
<1>. QED  BY <1>1, <1>3, <1>4, <1>10
-----------------------------------------------------------------------------
LEMMA InitInv == Init => Inv /\ HeadInv /\ Provided = <<>> /\ Sub(tail, khead) = 0
<1>. SUFFICES ASSUME Init
              PROVE  Inv /\ HeadInv /\ Provided = <<>> /\ Sub(tail, khead) = 0
  OBVIOUS
<1>1. tail = 0 /\ khead = 0 /\ 0 \in Idx /\ offset = 0
  BY RingAssumption DEF Init, Idx
<1>2. Sub(tail, khead) = 0
  BY <1>1, SubRange
<1>3. Provided = <<>>
  BY <1>1, <1>2 DEF Provided
<1>4. Unseen = <<>>
  <2>1. cq = <<>> /\ seen = 0
    BY DEF Init
  <2>2. Unseen = SubSeq(<<>>, 0 + 1, Len(<<>>))
    BY <2>1 DEF Unseen
  <2>3. Len(<<>>) = 0
    OBVIOUS
  <2>. QED  BY <2>2, <2>3, SubSeqEmpty
<1>5. own = Bids /\ inflight = {}
  BY DEF Init
<1>6. Placed(<<>>, <<>>, Bids, {})
  BY EmptySeq DEF Placed
<1>7. TypeInv
  BY <1>1, EmptySeq DEF Init, TypeInv
<1>8. HeadInv
  BY DEF Init, HeadInv
<1>. QED  BY <1>2, <1>3, <1>4, <1>5, <1>6, <1>7, <1>8 DEF Inv, OwnerInv

(* Steps that leave the places alone. *)
LEMMA Unmoved ==
  ASSUME Inv, Provided' = Provided, Unseen' = Unseen, own' = own, inflight' = inflight
  PROVE  OwnerInv'
BY DEF Inv, OwnerInv

LEMMA StepInv == Inv /\ [Next]_vars => Inv'
<1>. SUFFICES ASSUME Inv, [Next]_vars
              PROVE  Inv'
  OBVIOUS
<1>. USE DEF Inv
<1>0. Placed(Provided, Unseen, own, inflight) /\ own \subseteq Bids /\ inflight \subseteq Bids
  BY DEF OwnerInv, Placed
<1>1. ASSUME NEW bid \in Bids, BufRingAdd(bid)
      PROVE  Inv'
  <2>1. /\ Provided' = Append(Provided, bid) /\ Unseen' = Unseen
        /\ own' = own \ {bid} /\ inflight' = inflight /\ bid \in own
    BY <1>1, AddProvides, Zenon DEF BufRingAdd, kernelVars
  <2>2. Placed(Append(Provided, bid), Unseen, own \ {bid}, inflight)
    BY <1>0, <2>1, PlacedAdd
  <2>3. OwnerInv'
    BY <2>1, <2>2 DEF OwnerInv
  <2>4. TypeInv'
    <3>1. bufs' \in [0 .. Entries - 1 -> Bids \cup {None}]
      BY <1>1, Zenon DEF BufRingAdd, TypeInv
    <3>. QED  BY <1>1, <3>1 DEF BufRingAdd, TypeInv, kernelVars, callVars
  <2>. QED  BY <2>3, <2>4
<1>2. ASSUME NEW bid \in Bids, KComplete(bid)
      PROVE  Inv'
  <2>1. /\ cq \in Seq(Bids) /\ seen \in Nat /\ seen <= Len(cq) /\ cq' = Append(cq, bid)
        /\ seen' = seen /\ bid \in inflight
        /\ own' = own /\ inflight' = inflight \ {bid}
    BY <1>2 DEF KComplete, TypeInv
  <2>2. /\ cq' \in Seq(Bids) /\ seen <= Len(cq')
        /\ SubSeq(cq', seen + 1, Len(cq')) = Append(SubSeq(cq, seen + 1, Len(cq)), bid)
    BY <2>1, SuffixOfAppend, Zenon
  <2>3. Unseen' = Append(Unseen, bid)
    BY <2>1, <2>2, Zenon DEF Unseen
  <2>4. Provided' = Provided
    BY <1>2 DEF KComplete, Provided, Sub, ringVars
  <2>5. Placed(Provided, Append(Unseen, bid), own, inflight \ {bid})
    BY <1>0, <2>1, PlacedComplete
  <2>6. OwnerInv'
    BY <2>1, <2>3, <2>4, <2>5 DEF OwnerInv
  <2>7. TypeInv'
    BY <1>2, <2>1, <2>2 DEF KComplete, TypeInv, ringVars, callVars
  <2>. QED  BY <2>6, <2>7
<1>3. ASSUME NEW count \in 1 .. Entries, BufRingAdvance(count)
      PROVE  Inv'
  <2>1. count \in Nat /\ count <= offset /\ tail' = NewTail(count) /\ offset' = offset - count
        /\ bufs' = bufs /\ khead' = khead /\ inflight' = inflight /\ own' = own
        /\ cq' = cq /\ seen' = seen /\ pc' = pc /\ cq_count' = cq_count
    BY <1>3 DEF BufRingAdvance, kernelVars, cqVars, callVars
  <2>2. Provided' = Provided /\ tail' \in Idx /\ offset' \in Nat
    BY <2>1, AdvancePublishes
  <2>3. OwnerInv'
    BY <2>1, <2>2, Unmoved DEF Unseen
  <2>4. TypeInv'
    BY <2>1, <2>2 DEF TypeInv
  <2>. QED  BY <2>3, <2>4
<1>4. ASSUME NEW cqs \in 0 .. Entries, NEW count \in 0 .. Entries, BufRingCqAdvance(cqs, count)
      PROVE  Inv'
  <2>1. count \in Nat /\ count <= offset /\ tail' = NewTail(count) /\ offset' = offset - count
        /\ bufs' = bufs /\ khead' = khead /\ inflight' = inflight /\ own' = own
        /\ cq' = cq /\ seen' = seen /\ cq_count' = cqs /\ cqs <= seen /\ cqs \in Nat
    BY <1>4 DEF BufRingCqAdvance, kernelVars, cqVars
  <2>2. Provided' = Provided /\ tail' \in Idx /\ offset' \in Nat
    BY <2>1, AdvancePublishes
  <2>3. OwnerInv'
    BY <2>1, <2>2, Unmoved DEF Unseen
  <2>4. TypeInv'
    BY <2>1, <2>2 DEF TypeInv
  <2>. QED  BY <2>3, <2>4
<1>5. CASE Reap
  <2>1. /\ cq \in Seq(Bids) /\ seen \in Nat /\ seen < Len(cq) /\ cq' = cq
        /\ seen' = seen + 1 /\ own' = own \cup {cq[seen + 1]} /\ inflight' = inflight
    BY <1>5 DEF Reap, TypeInv, kernelVars
  <2>2. Unseen # <<>> /\ Unseen[1] = cq[seen + 1] /\ Unseen' = Tail(Unseen)
    BY <2>1, SuffixTail, Zenon DEF Unseen
  <2>3. Provided' = Provided
    BY <1>5 DEF Reap, Provided, Sub, ringVars, kernelVars
  <2>4. Placed(Provided, Tail(Unseen), own \cup {Unseen[1]}, inflight)
    BY <1>0, <2>2, PlacedReap
  <2>5. OwnerInv'
    BY <2>1, <2>2, <2>3, <2>4 DEF OwnerInv
  <2>6. seen' \in Nat /\ seen' <= Len(cq') /\ (pc = "cq_advance" => cq_count <= seen')
    BY <1>5, <2>1 DEF Reap, TypeInv
  <2>7. TypeInv'
    BY <1>5, <2>1, <2>6 DEF Reap, TypeInv, ringVars, kernelVars, callVars
  <2>. QED  BY <2>5, <2>7
<1>6. CASE CqAdvance
  <2>1. /\ cq \in Seq(Bids) /\ seen \in Nat /\ seen <= Len(cq) /\ cq_count \in Nat /\ cq_count <= seen
        /\ cq' = SubSeq(cq, cq_count + 1, Len(cq)) /\ seen' = seen - cq_count /\ cq_count' = 0
        /\ own' = own /\ inflight' = inflight /\ pc' = "idle"
    BY <1>6 DEF CqAdvance, TypeInv, kernelVars
  <2>2. /\ cq' \in Seq(Bids) /\ seen - cq_count <= Len(cq')
        /\ SubSeq(cq', (seen - cq_count) + 1, Len(cq')) = SubSeq(cq, seen + 1, Len(cq))
    BY <2>1, SuffixOfSuffix
  <2>3. Unseen' = Unseen
    BY <2>1, <2>2 DEF Unseen
  <2>4. Provided' = Provided
    BY <1>6 DEF CqAdvance, Provided, Sub, ringVars, kernelVars
  <2>5. OwnerInv'
    BY <2>1, <2>3, <2>4, Unmoved
  <2>6. TypeInv'
    BY <1>6, <2>1, <2>2 DEF CqAdvance, TypeInv, ringVars, kernelVars
  <2>. QED  BY <2>5, <2>6
<1>7. ASSUME BufRingHead \/ BufRingAvailable \/ UNCHANGED vars
      PROVE  Inv'
  <2>1. /\ UNCHANGED <<bufs, tail, offset, khead, inflight, cq, seen, own, cq_count>>
        /\ pc' = pc \/ pc' \in {"idle", "available"}
    BY <1>7 DEF BufRingHead, BufRingAvailable, vars, ringVars, kernelVars, cqVars, callVars
  <2>2. Provided' = Provided /\ Unseen' = Unseen
    BY <2>1 DEF Provided, Unseen, Sub
  <2>3. OwnerInv'
    BY <2>1, <2>2, Unmoved
  <2>4. TypeInv'
    BY <2>1 DEF TypeInv
  <2>. QED  BY <2>3, <2>4
<1>8. CASE KTake
  <2>1. /\ Provided # <<>> /\ Provided' = Tail(Provided)
        /\ inflight' = inflight \cup {Provided[1]} /\ khead' \in Idx
    BY <1>8, TakesFirst
  <2>2. own' = own /\ Unseen' = Unseen
    BY <1>8 DEF KTake, cqVars, Unseen
  <2>3. Placed(Tail(Provided), Unseen, own, inflight \cup {Provided[1]})
    BY <1>0, <2>1, PlacedTake
  <2>4. OwnerInv'
    BY <2>1, <2>2, <2>3 DEF OwnerInv
  <2>5. TypeInv'
    BY <1>8, <2>1 DEF KTake, TypeInv, ringVars, cqVars, callVars
  <2>. QED  BY <2>4, <2>5
<1>. QED  BY <1>1, <1>2, <1>3, <1>4, <1>5, <1>6, <1>7, <1>8 DEF Next

LEMMA SpecInv == Spec => []Inv
BY InitInv, StepInv, PTL DEF Spec

(* The places listed one after the other. *)
LEMMA PlacedOwner == Inv => OneOwner
<1>. SUFFICES ASSUME Inv
              PROVE  OneOwner
  OBVIOUS
<1>. DEFINE p == Provided
            u == Unseen
            places == p \o u
            listed == {places[i] : i \in DOMAIN places}
<1>1. Placed(p, u, own, inflight)
  BY DEF Inv, OwnerInv
<1>. HIDE DEF p, u
<1>2. p \in Seq(Bids) /\ u \in Seq(Bids) /\ Len(p) \in Nat /\ Len(u) \in Nat
  BY <1>1 DEF Placed
<1>3. /\ places \in Seq(Bids) /\ Len(places) = Len(p) + Len(u)
      /\ \A i \in 1 .. Len(p) + Len(u) : places[i] = IF i <= Len(p) THEN p[i] ELSE u[i - Len(p)]
  BY <1>2, ConcatProperties
<1>. HIDE DEF places
<1>4. DOMAIN places = 1 .. Len(p) + Len(u)
  BY <1>3
<1>5. ASSUME NEW i \in DOMAIN places
      PROVE  \/ i \in 1 .. Len(p) /\ places[i] = p[i]
             \/ i - Len(p) \in 1 .. Len(u) /\ places[i] = u[i - Len(p)]
  BY <1>2, <1>3, <1>4
<1>6. ASSUME NEW i \in DOMAIN places, NEW j \in DOMAIN places, places[i] = places[j]
      PROVE  i = j
  <2>1. i \in Int /\ j \in Int
    BY <1>4
  <2>2. CASE i \in 1 .. Len(p) /\ places[i] = p[i]
    <3>1. j \in 1 .. Len(p) /\ places[j] = p[j]
      <4>1. CASE j - Len(p) \in 1 .. Len(u) /\ places[j] = u[j - Len(p)]
        BY <1>1, <1>6, <2>2, <4>1, Zenon DEF Placed
      <4>. QED  BY <1>5, <4>1
    <3>. QED  BY <1>1, <1>6, <2>2, <3>1, Zenon DEF Placed
  <2>3. CASE i - Len(p) \in 1 .. Len(u) /\ places[i] = u[i - Len(p)]
    <3>1. j - Len(p) \in 1 .. Len(u) /\ places[j] = u[j - Len(p)]
      <4>1. CASE j \in 1 .. Len(p) /\ places[j] = p[j]
        BY <1>1, <1>6, <2>3, <4>1, Zenon DEF Placed
      <4>. QED  BY <1>5, <4>1
    <3>2. i - Len(p) = j - Len(p)
      BY <1>1, <1>6, <2>3, <3>1, Zenon DEF Placed
    <3>. QED  BY <1>2, <2>1, <3>2
  <2>. QED  BY <1>5, <2>2, <2>3
<1>7. ASSUME NEW b
      PROVE  b \in listed <=> \/ \E i \in 1 .. Len(p) : p[i] = b
                              \/ \E i \in 1 .. Len(u) : u[i] = b
  <2>1. ASSUME NEW i \in 1 .. Len(p)
        PROVE  i \in DOMAIN places /\ places[i] = p[i]
    BY <1>2, <1>3, <1>4
  <2>2. ASSUME NEW i \in 1 .. Len(u)
        PROVE  i + Len(p) \in DOMAIN places /\ places[i + Len(p)] = u[i]
    <3>1. i + Len(p) \in 1 .. Len(p) + Len(u) /\ ~ (i + Len(p) <= Len(p)) /\ (i + Len(p)) - Len(p) = i
      BY <1>2
    <3>. QED  BY <1>3, <1>4, <3>1
  <2>3. ASSUME b \in listed
        PROVE  \/ \E i \in 1 .. Len(p) : p[i] = b
               \/ \E i \in 1 .. Len(u) : u[i] = b
    <3>1. PICK i \in DOMAIN places : places[i] = b
      BY <2>3
    <3>. QED  BY <1>5, <3>1
  <2>. QED  BY <2>1, <2>2, <2>3
<1>. HIDE DEF listed
<1>8. own \cap listed = {} /\ inflight \cap listed = {} /\ own \cap inflight = {}
  <2>1. ASSUME NEW b \in listed
        PROVE  b \notin own /\ b \notin inflight
    BY <1>1, <1>7 DEF Placed
  <2>2. \A b \in own : b \notin inflight
    BY <1>1 DEF Placed
  <2>. QED  BY <2>1, <2>2
<1>9. own \cup inflight \cup listed = Bids
  <2>1. ASSUME NEW b \in listed
        PROVE  b \in Bids
    BY <1>2, <1>7, ElementOfSeq
  <2>. QED  BY <1>1, <1>7, <2>1 DEF Placed
<1>. QED  BY <1>6, <1>8, <1>9 DEF OneOwner, listed, places, p, u

(* However long the ring is in use, a buffer has one owner: the            *)
(* application, one entry of the ring, a request, or one CQE not looked at *)
(* (io_uring_buf_ring_add, _advance and _cq_advance).                      *)
THEOREM BufferHasOneOwner == Spec => []OneOwner
BY SpecInv, PlacedOwner, PTL

(* The ring of io_uring_buf_ring_add and _advance implements the FIFO the  *)
(* kernel relies on: the buffers leave in the order added, each once, and  *)
(* none before the tail passed it.                                         *)
THEOREM BuffersLeaveInOrder == Spec => TakesInOrder
<1>1. Init => Queue!Init
  BY InitInv DEF Init, Queue!Init
<1>2. Inv /\ [Next]_vars => [Queue!Next]_(Queue!vars)
  <2>. SUFFICES ASSUME Inv, [Next]_vars
                PROVE  Queue!Next \/ UNCHANGED Queue!vars
    OBVIOUS
  <2>1. ASSUME NEW bid \in Bids, BufRingAdd(bid)
        PROVE  Queue!Next
    <3>1. Queue!Put(bid)
      BY <2>1, AddProvides, Zenon DEF Queue!Put, BufRingAdd, kernelVars
    <3>. QED  BY <3>1 DEF Queue!Next
  <2>2. ASSUME NEW count \in Nat, count <= offset, tail' = NewTail(count), offset' = offset - count,
               bufs' = bufs, khead' = khead, out' = out
        PROVE  Queue!Next \/ UNCHANGED Queue!vars
    <3>1. Provided' = Provided /\ Sub(tail, khead)' = Sub(tail, khead) + count
      BY <2>2, AdvancePublishes
    <3>2. CASE count = 0
      BY <2>2, <3>1, <3>2, Widths DEF Queue!vars
    <3>3. CASE count > 0
      <4>1. Sub(tail, khead)' \in Sub(tail, khead) + 1 .. Len(Provided)
        <5>1. /\ Sub(tail, khead) \in Nat /\ offset \in Nat
              /\ Len(Provided) = Sub(tail, khead) + offset
          BY Widths
        <5>. QED  BY <2>2, <3>1, <3>3, <5>1
      <4>2. Queue!Publish
        BY <2>2, <3>1, <4>1 DEF Queue!Publish
      <4>. QED  BY <4>2 DEF Queue!Next
    <3>. QED  BY <3>2, <3>3
  <2>3. ASSUME NEW count \in 1 .. Entries, BufRingAdvance(count)
        PROVE  Queue!Next \/ UNCHANGED Queue!vars
    BY <2>2, <2>3 DEF BufRingAdvance, kernelVars
  <2>4. ASSUME NEW cqs \in 0 .. Entries, NEW count \in 0 .. Entries, BufRingCqAdvance(cqs, count)
        PROVE  Queue!Next \/ UNCHANGED Queue!vars
    BY <2>2, <2>4 DEF BufRingCqAdvance, kernelVars
  <2>5. CASE KTake
    <3>1. /\ Provided # <<>> /\ Provided' = Tail(Provided) /\ out' = <<Provided[1]>>
          /\ Sub(tail, khead)' = Sub(tail, khead) - 1 /\ Sub(tail, khead) >= 1
      BY <2>5, TakesFirst
    <3>2. Provided \in Seq(Bids)
      BY DEF Inv, OwnerInv, Placed
    <3>3. /\ SubSeq(Provided, 1, 1) = <<Provided[1]>>
          /\ SubSeq(Provided, 1 + 1, Len(Provided)) = Tail(Provided)
      BY <3>1, <3>2, FirstOnly
    <3>4. 1 <= Sub(tail, khead)
      BY <3>1
    <3>5. Queue!Take(1)
      BY <3>1, <3>3, <3>4 DEF Queue!Take
    <3>6. 1 \in 1 .. Sub(tail, khead)
      BY <3>1, Widths
    <3>. QED  BY <3>5, <3>6 DEF Queue!Next
  <2>6. ASSUME \/ Reap \/ CqAdvance \/ BufRingHead \/ BufRingAvailable \/ UNCHANGED vars
               \/ \E bid \in Bids : KComplete(bid)
        PROVE  UNCHANGED Queue!vars
    <3>1. UNCHANGED <<bufs, tail, offset, khead, out>>
      BY <2>6 DEF Reap, CqAdvance, BufRingHead, BufRingAvailable, KComplete,
                  vars, ringVars, kernelVars
    <3>. QED  BY <3>1 DEF Queue!vars, Provided, Sub
  <2>. QED  BY <2>1, <2>3, <2>4, <2>5, <2>6 DEF Next
<1>. QED  BY <1>1, <1>2, SpecInv, PTL DEF Spec, TakesInOrder, Queue!Spec

(* What io_uring_buf_ring_available returns, cut back to the width of the  *)
(* tail, is between the entries not consumed and a ring of them, though    *)
(* the kernel goes on consuming after it was asked for its head.           *)
THEOREM AvailableIsBounded == Spec => AvailableCounts
<1>1. Inv /\ HeadInv /\ [Next]_vars => HeadInv'
  <2>. SUFFICES ASSUME Inv, HeadInv, [Next]_vars, pc' = "available"
                PROVE  /\ head' \in Idx /\ Sub(tail', khead') <= Sub(tail', head')
                       /\ Sub(tail', head') <= Entries
    BY DEF HeadInv, Sub
  <2>1. CASE BufRingHead
    <3>1. head' = khead /\ khead' = khead /\ tail' = tail
      BY <2>1 DEF BufRingHead, ringVars, kernelVars
    <3>2. Sub(tail, khead) \in Nat /\ Sub(tail, khead) <= Entries
      BY Widths
    <3>. QED  BY <3>1, <3>2 DEF Inv, TypeInv
  <2>2. CASE KTake
    <3>1. head' = head /\ tail' = tail /\ pc = "available"
      BY <2>2 DEF KTake, ringVars, callVars
    <3>2. Sub(tail', khead') = Sub(tail, khead) - 1
      BY <2>2, TakesFirst DEF Sub
    <3>3. head \in Idx /\ Sub(tail, khead) <= Sub(tail, head) /\ Sub(tail, head) <= Entries
      BY <3>1 DEF HeadInv
    <3>4. Sub(tail, head) \in Int /\ Sub(tail, khead) \in Nat
      BY <3>3, SubRange, Widths DEF Inv, TypeInv
    <3>5. Sub(tail', khead') <= Sub(tail, head)
      BY <3>2, <3>3, <3>4
    <3>. QED  BY <3>1, <3>3, <3>5
  <2>3. CASE ~ BufRingHead /\ ~ KTake
    <3>1. UNCHANGED <<head, tail, khead, pc>>
      BY <2>3 DEF Next, BufRingAdd, BufRingAdvance, BufRingCqAdvance, Reap, CqAdvance, BufRingAvailable,
                  KComplete, vars, ringVars, kernelVars, callVars
    <3>. QED  BY <3>1 DEF HeadInv, Sub
  <2>. QED  BY <2>1, <2>2, <2>3
<1>2. Inv /\ HeadInv /\ [Next]_vars =>
        [pc = "available" /\ pc' = "idle" => (available' % IdxMod) \in Sub(tail, khead) .. Entries]_vars
  <2>. SUFFICES ASSUME Inv, HeadInv, Next, pc = "available", pc' = "idle"
                PROVE  (available' % IdxMod) \in Sub(tail, khead) .. Entries
    OBVIOUS
  <2>1. BufRingAvailable
    BY DEF Next, BufRingAdd, BufRingAdvance, BufRingCqAdvance, Reap, CqAdvance, BufRingHead, KTake,
           KComplete, callVars
  <2>2. (available' % IdxMod) = Sub(tail, head)
    BY <2>1 DEF BufRingAvailable, Sub
  <2>3. head \in Idx /\ Sub(tail, khead) <= Sub(tail, head) /\ Sub(tail, head) <= Entries
    BY DEF HeadInv
  <2>4. Sub(tail, head) \in Int /\ Sub(tail, khead) \in Int /\ Entries \in Int
    <3>1. tail \in Idx
      BY DEF Inv, TypeInv
    <3>. QED  BY <2>3, <3>1, SubRange, Widths
  <2>. QED  BY <2>2, <2>3, <2>4
<1>. QED  BY <1>1, <1>2, InitInv, SpecInv, PTL DEF Spec, AvailableCounts
=============================================================================
