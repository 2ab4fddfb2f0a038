-------------------------- MODULE RingIndexProofs --------------------------
(* Unsigned index arithmetic, for every ring size and every index width. *)
EXTENDS RingIndex, TLAPS

(* An unsigned difference is the plain one, plus the modulus on a borrow. *)
LEMMA SubCases ==
  ASSUME NEW i \in Idx, NEW j \in Idx
  PROVE  Sub(i, j) = IF i >= j THEN i - j ELSE i - j + IdxMod
BY RingAssumption DEF Idx, Sub

(* Incrementing an index wraps to zero after the last one. *)
LEMMA AddOne ==
  ASSUME NEW i \in Idx
  PROVE  Add(i, 1) = IF i = IdxMod - 1 THEN 0 ELSE i + 1
BY RingAssumption DEF Idx, Add

(* A difference is an index, and zero exactly for equal indices. *)
LEMMA SubRange ==
  ASSUME NEW i \in Idx, NEW j \in Idx
  PROVE  /\ Sub(i, j) \in Idx /\ Sub(i, j) \in Int /\ 0 <= Sub(i, j) /\ Sub(i, j) < IdxMod
         /\ Sub(i, j) = 0 <=> i = j
<1>1. CASE i >= j
  <2>1. Sub(i, j) = i - j
    BY <1>1, SubCases
  <2>. QED  BY <1>1, <2>1, RingAssumption DEF Idx
<1>2. CASE i < j
  <2>1. Sub(i, j) = i - j + IdxMod
    BY <1>2, SubCases DEF Idx
  <2>. QED  BY <1>2, <2>1, RingAssumption DEF Idx
<1>. QED  BY <1>1, <1>2 DEF Idx

(* Distances along the circle add up as long as they stay below one turn. *)
LEMMA SubChain ==
  ASSUME NEW i \in Idx, NEW j \in Idx, NEW k \in Idx
  PROVE  /\ Sub(j, i) + Sub(k, j) < IdxMod => Sub(k, i) = Sub(j, i) + Sub(k, j)
         /\ Sub(j, i) <= Sub(k, i) => Sub(k, j) = Sub(k, i) - Sub(j, i)
<1>1. /\ Sub(j, i) = IF j >= i THEN j - i ELSE j - i + IdxMod
      /\ Sub(k, j) = IF k >= j THEN k - j ELSE k - j + IdxMod
      /\ Sub(k, i) = IF k >= i THEN k - i ELSE k - i + IdxMod
  BY SubCases
<1>2. /\ i \in Int /\ j \in Int /\ k \in Int /\ IdxMod \in Int
      /\ 0 <= i /\ i < IdxMod /\ 0 <= j /\ j < IdxMod /\ 0 <= k /\ k < IdxMod
  BY RingAssumption DEF Idx
<1>. QED  BY <1>1, <1>2

(* One step further, one more. *)
LEMMA SubStep ==
  ASSUME NEW i \in Idx, NEW j \in Idx
  PROVE  /\ Add(j, 1) \in Idx
         /\ Sub(j, i) + 1 < IdxMod => Sub(Add(j, 1), i) = Sub(j, i) + 1
         /\ Sub(j, i) + 1 = IdxMod => Sub(Add(j, 1), i) = 0
<1>1. Add(j, 1) \in Idx /\ Add(j, 1) = IF j = IdxMod - 1 THEN 0 ELSE j + 1
  BY AddOne, RingAssumption DEF Idx
<1>2. /\ Sub(j, i) = IF j >= i THEN j - i ELSE j - i + IdxMod
      /\ Sub(Add(j, 1), i) = IF Add(j, 1) >= i THEN Add(j, 1) - i ELSE Add(j, 1) - i + IdxMod
  BY <1>1, SubCases
<1>3. /\ i \in Int /\ j \in Int /\ IdxMod \in Int
      /\ 0 <= i /\ i < IdxMod /\ 0 <= j /\ j < IdxMod
  BY RingAssumption DEF Idx
<1>. QED  BY <1>1, <1>2, <1>3

(* n entries further, n more. *)
LEMMA SubAdd ==
  ASSUME NEW i \in Idx, NEW j \in Idx, NEW n \in Nat, Sub(j, i) + n < IdxMod
  PROVE  Add(j, n) \in Idx /\ Sub(Add(j, n), i) = Sub(j, i) + n
<1>1. /\ i \in Int /\ j \in Int /\ IdxMod \in Int
      /\ 0 <= i /\ i < IdxMod /\ 0 <= j /\ j < IdxMod
      /\ Sub(j, i) = IF j >= i THEN j - i ELSE j - i + IdxMod
  BY RingAssumption, SubCases DEF Idx
<1>2. Add(j, n) = IF j + n < IdxMod THEN j + n ELSE j + n - IdxMod
  BY <1>1 DEF Add
<1>3. Add(j, n) \in Idx
  BY <1>1, <1>2 DEF Idx
<1>4. Sub(Add(j, n), i) = IF Add(j, n) >= i THEN Add(j, n) - i ELSE Add(j, n) - i + IdxMod
  BY <1>3, SubCases
<1>. QED  BY <1>1, <1>2, <1>3, <1>4

(* Two indices at the same distance from a third are the same. *)
LEMMA SubSame ==
  ASSUME NEW i \in Idx, NEW j \in Idx, NEW k \in Idx, Sub(j, i) = Sub(k, i)
  PROVE  j = k
<1>1. /\ Sub(j, i) = IF j >= i THEN j - i ELSE j - i + IdxMod
      /\ Sub(k, i) = IF k >= i THEN k - i ELSE k - i + IdxMod
  BY SubCases
<1>2. /\ i \in Int /\ j \in Int /\ k \in Int /\ IdxMod \in Int
      /\ 0 <= j /\ j < IdxMod /\ 0 <= k /\ k < IdxMod
  BY RingAssumption DEF Idx
<1>3. (IF j >= i THEN j - i ELSE j - i + IdxMod) = (IF k >= i THEN k - i ELSE k - i + IdxMod)
  BY <1>1
<1>. QED  BY <1>2, <1>3

(* The index at a distance. *)
LEMMA AddDistance ==
  ASSUME NEW i \in Idx, NEW n \in Nat, n < IdxMod
  PROVE  Add(i, n) \in Idx /\ Sub(Add(i, n), i) = n
<1>1. Sub(i, i) = 0
  BY SubRange
<1>2. Sub(i, i) + n < IdxMod
  BY <1>1
<1>. QED  BY <1>1, <1>2, SubAdd

(* One on, and n on from there. *)
LEMMA AddAdd ==
  ASSUME NEW i \in Idx, NEW n \in Nat, n + 1 < IdxMod
  PROVE  Add(Add(i, 1), n) = Add(i, n + 1)
<1>1. IdxMod \in Nat /\ 1 < IdxMod /\ n + 1 \in Nat
  BY RingAssumption
<1>2. Add(i, 1) \in Idx /\ Sub(Add(i, 1), i) = 1
  BY <1>1, AddDistance
<1>3. Add(Add(i, 1), n) \in Idx /\ Sub(Add(Add(i, 1), n), i) = 1 + n
  <2>1. Sub(Add(i, 1), i) + n < IdxMod
    BY <1>1, <1>2
  <2>. QED  BY <1>2, <2>1, SubAdd
<1>4. Add(i, n + 1) \in Idx /\ Sub(Add(i, n + 1), i) = n + 1
  BY <1>1, AddDistance
<1>. QED  BY <1>3, <1>4, SubSame

(* The index before another. *)
LEMMA SubLast ==
  ASSUME NEW i \in Idx, NEW j \in Idx, i # j
  PROVE  Sub(j, 1) \in Idx /\ Sub(Sub(j, 1), i) = Sub(j, i) - 1
<1>1. 1 \in Idx
  BY RingAssumption DEF Idx
<1>2. Sub(j, 1) \in Idx /\ Sub(j, 1) = IF j >= 1 THEN j - 1 ELSE j - 1 + IdxMod
  BY <1>1, SubCases, SubRange
<1>3. /\ Sub(j, i) = IF j >= i THEN j - i ELSE j - i + IdxMod
      /\ Sub(Sub(j, 1), i) = IF Sub(j, 1) >= i THEN Sub(j, 1) - i ELSE Sub(j, 1) - i + IdxMod
  BY <1>2, SubCases
<1>4. /\ i \in Int /\ j \in Int /\ IdxMod \in Int
      /\ 0 <= i /\ i < IdxMod /\ 0 <= j /\ j < IdxMod
  BY RingAssumption DEF Idx
<1>. QED  BY <1>2, <1>3, <1>4

(* The index before the end of a window that is not empty lies in it. *)
LEMMA LastInWindow ==
  ASSUME NEW i \in Idx, NEW j \in Idx, i # j
  PROVE  Sub(j, 1) \in Window(i, j)
<1>1. Sub(j, 1) \in Idx /\ Sub(Sub(j, 1), i) = Sub(j, i) - 1 /\ Sub(j, i) \in Int
  BY SubLast, SubRange
<1>. QED  BY <1>1 DEF Window

(* Where a member of a window lies, seen from an index before the window. *)
LEMMA WindowFrom ==
  ASSUME NEW z \in Idx, NEW lo \in Idx, NEW hi \in Idx, Sub(lo, z) <= Sub(hi, z),
         NEW i \in Window(lo, hi)
  PROVE  i \in Idx /\ Sub(lo, z) <= Sub(i, z) /\ Sub(i, z) < Sub(hi, z)
<1>1. i \in Idx /\ Sub(i, lo) < Sub(hi, lo)
  BY DEF Window
<1>2. /\ IdxMod \in Int
      /\ Sub(lo, z) \in Int /\ Sub(hi, z) \in Int /\ Sub(hi, z) < IdxMod
      /\ Sub(i, lo) \in Int /\ 0 <= Sub(i, lo)
  BY <1>1, SubRange, RingAssumption
<1>3. Sub(hi, lo) = Sub(hi, z) - Sub(lo, z)
  BY SubChain
<1>4. Sub(i, z) = Sub(lo, z) + Sub(i, lo)
  BY <1>1, <1>2, <1>3, SubChain
<1>. QED  BY <1>1, <1>2, <1>3, <1>4

(* No multiple of the ring size lies strictly between zero and it. *)
LEMMA NoMultipleBetween ==
  ASSUME NEW q \in Int, 0 < Entries * q, Entries * q < Entries
  PROVE  FALSE
<1>1. CASE q <= 0
  BY <1>1, RingAssumption
<1>2. CASE q >= 1
  BY <1>2, RingAssumption
<1>. QED  BY <1>1, <1>2

(* Division with remainder by the ring size. *)
LEMMA Division ==
  ASSUME NEW x \in Nat
  PROVE  /\ x \div Entries \in Int
         /\ x = Entries * (x \div Entries) + (x % Entries)
         /\ x % Entries \in 0 .. Entries - 1
BY RingAssumption

(* Two different indices less than a ring apart never share a slot: what   *)
(* lets get_sqe hand out the slot of any index inside the free window.     *)
LEMMA MaskInjective ==
  ASSUME NEW i \in Idx, NEW j \in Idx, i # j, Sub(i, j) < Entries
  PROVE  Mask(i) # Mask(j)
<1>. DEFINE qi == i \div Entries
            qj == j \div Entries
            qm == IdxMod \div Entries
<1>1. /\ i = Entries * qi + Mask(i)
      /\ j = Entries * qj + Mask(j)
      /\ IdxMod = Entries * qm
      /\ qi \in Int /\ qj \in Int /\ qm \in Int
      /\ i \in Nat /\ j \in Nat /\ Entries \in Nat /\ Mask(i) \in Int /\ Mask(j) \in Int
  BY RingAssumption, Division DEF Idx, Mask
<1>. SUFFICES ASSUME Mask(i) = Mask(j)
              PROVE  FALSE
  OBVIOUS
<1>. HIDE DEF qi, qj, qm
<1>2. i - j = Entries * (qi - qj)
  BY <1>1
<1>3. CASE i >= j
  <2>1. 0 < i - j /\ i - j < Entries
    BY <1>1, <1>3, SubCases
  <2>. QED  BY <1>1, <1>2, <2>1, NoMultipleBetween
<1>4. CASE i < j
  <2>1. 0 < i - j + IdxMod /\ i - j + IdxMod < Entries
    <3>1. Sub(i, j) = i - j + IdxMod
      BY <1>1, <1>4, SubCases
    <3>. QED  BY <3>1, RingAssumption DEF Idx
  <2>2. i - j + IdxMod = Entries * (qi - qj + qm)
    BY <1>1, <1>2
  <2>. QED  BY <1>1, <2>1, <2>2, NoMultipleBetween
<1>. QED  BY <1>1, <1>3, <1>4

(* The slot of a number depends only on its remainder modulo the ring      *)
(* size, so not on how often the index has wrapped.                        *)
LEMMA MaskPeriodic ==
  ASSUME NEW x \in Nat, NEW y \in Nat, y = x + IdxMod
  PROVE  Mask(y) = Mask(x)
<1>. DEFINE qx == x \div Entries
            qy == y \div Entries
            qm == IdxMod \div Entries
<1>1. /\ x = Entries * qx + Mask(x) /\ Mask(x) \in 0 .. Entries - 1
      /\ y = Entries * qy + Mask(y) /\ Mask(y) \in 0 .. Entries - 1
      /\ qx \in Int /\ qy \in Int
  BY Division DEF Mask
<1>2. IdxMod = Entries * qm /\ qm \in Int /\ Entries \in Nat
  BY RingAssumption, Division
<1>. HIDE DEF qx, qy, qm
<1>3. /\ Entries * (qx + qm - qy) = Entries * qx + Entries * qm - Entries * qy
      /\ Entries * (qy - qx - qm) = Entries * qy - Entries * qx - Entries * qm
  <2>. SUFFICES ASSUME NEW e \in Int, NEW a \in Int, NEW b \in Int, NEW c \in Int
                PROVE  /\ e * (a + b - c) = e * a + e * b - e * c
                       /\ e * (c - a - b) = e * c - e * a - e * b
    BY <1>1, <1>2
  <2>. QED  OBVIOUS
<1>4. /\ Mask(x) \in Int /\ 0 <= Mask(x) /\ Mask(x) < Entries
      /\ Mask(y) \in Int /\ 0 <= Mask(y) /\ Mask(y) < Entries
      /\ Entries * qx \in Int /\ Entries * qy \in Int
  BY <1>1, <1>2
<1>5. Entries * qy + Mask(y) = Entries * qx + Mask(x) + Entries * qm
  BY <1>1, <1>2
<1>6. ~(0 < Mask(y) - Mask(x))
  <2>1. Entries * (qx + qm - qy) = Mask(y) - Mask(x)
    BY <1>2, <1>3, <1>4, <1>5
  <2>2. qx + qm - qy \in Int /\ Entries * (qx + qm - qy) < Entries
    BY <1>1, <1>2, <1>4, <2>1
  <2>. QED  BY <2>1, <2>2, NoMultipleBetween
<1>7. ~(0 < Mask(x) - Mask(y))
  <2>1. Entries * (qy - qx - qm) = Mask(x) - Mask(y)
    BY <1>2, <1>3, <1>4, <1>5
  <2>2. qy - qx - qm \in Int /\ Entries * (qy - qx - qm) < Entries
    BY <1>1, <1>2, <1>4, <2>1
  <2>. QED  BY <2>1, <2>2, NoMultipleBetween
<1>. QED  BY <1>4, <1>6, <1>7

(* Numbers less than a ring apart have different slots. *)
LEMMA MaskApart ==
  ASSUME NEW x \in Nat, NEW y \in Nat, x < y, y - x < Entries
  PROVE  Mask(x) # Mask(y)
<1>. DEFINE qx == x \div Entries
            qy == y \div Entries
<1>1. /\ x = Entries * qx + Mask(x) /\ Mask(x) \in Int
      /\ y = Entries * qy + Mask(y) /\ Mask(y) \in Int
      /\ qx \in Int /\ qy \in Int /\ Entries \in Nat
  BY RingAssumption, Division DEF Mask
<1>. HIDE DEF qx, qy
<1>. SUFFICES ASSUME Mask(x) = Mask(y)
              PROVE  FALSE
  OBVIOUS
<1>2. y - x = Entries * (qy - qx)
  BY <1>1
<1>. QED  BY <1>1, <1>2, NoMultipleBetween

(* The slot n entries after an index, whether or not the index wraps. *)
LEMMA MaskAdd ==
  ASSUME NEW i \in Idx, NEW m \in Nat, NEW n \in Nat, m < IdxMod
  PROVE  Mask(Add(i, m) + n) = Mask(i + m + n)
<1>1. i \in Int /\ 0 <= i /\ i < IdxMod /\ IdxMod \in Int
  BY RingAssumption DEF Idx
<1>2. Add(i, m) = IF i + m < IdxMod THEN i + m ELSE i + m - IdxMod
  BY <1>1 DEF Add
<1>3. CASE i + m < IdxMod
  BY <1>1, <1>2, <1>3
<1>4. CASE i + m >= IdxMod
  <2>1. Add(i, m) + n \in Nat /\ Add(i, m) + n + IdxMod = i + m + n
    BY <1>1, <1>2, <1>4
  <2>. QED  BY <1>1, <2>1, MaskPeriodic
<1>. QED  BY <1>1, <1>3, <1>4
=============================================================================
