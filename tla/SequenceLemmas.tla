-------------------------- MODULE SequenceLemmas --------------------------
(* Facts about sequences that the proofs about the rings share.            *)
EXTENDS Integers, Sequences, SequenceTheorems, TLAPS

(* Append, entry by entry. *)
LEMMA AppendAsFunction ==
  ASSUME NEW S, NEW s \in Seq(S), NEW e \in S, NEW n \in Nat, n = Len(s)
  PROVE  Append(s, e) = [k \in 1 .. n + 1 |-> IF k <= n THEN s[k] ELSE e]
<1>. DEFINE t == [k \in 1 .. n + 1 |-> IF k <= n THEN s[k] ELSE e]
<1>1. \A k \in 1 .. n + 1 : (IF k <= n THEN s[k] ELSE e) \in S
  <2>. SUFFICES ASSUME NEW k \in 1 .. n + 1
                PROVE  (IF k <= n THEN s[k] ELSE e) \in S
    OBVIOUS
  <2>1. CASE k <= n
    BY <2>1, ElementOfSeq
  <2>2. CASE ~ (k <= n)
    BY <2>2
  <2>. QED  BY <2>1, <2>2
<1>2. t \in Seq(S) /\ Len(t) = n + 1
  BY <1>1
<1>3. /\ Append(s, e) \in Seq(S) /\ Len(Append(s, e)) = n + 1
      /\ \A i \in 1 .. n : Append(s, e)[i] = s[i]
      /\ Append(s, e)[n + 1] = e
  BY AppendProperties
<1>4. \A i \in 1 .. n + 1 : Append(s, e)[i] = t[i]
  BY <1>3
<1>. HIDE DEF t
<1>5. Append(s, e) = t
  BY <1>2, <1>3, <1>4, SeqEqual
<1>. QED  BY <1>5 DEF t

(* A tail is the sequence moved by one. *)
LEMMA TailAsFunction ==
  ASSUME NEW S, NEW s \in Seq(S), NEW n \in Nat, n = Len(s), n >= 1
  PROVE  Tail(s) = [k \in 1 .. n - 1 |-> s[k + 1]]
<1>. DEFINE t == [k \in 1 .. n - 1 |-> s[k + 1]]
<1>1. \A k \in 1 .. n - 1 : s[k + 1] \in S
  <2>. SUFFICES ASSUME NEW k \in 1 .. n - 1
                PROVE  s[k + 1] \in S
    OBVIOUS
  <2>1. k + 1 \in 1 .. Len(s)
    OBVIOUS
  <2>. QED  BY <2>1, ElementOfSeq
<1>2. t \in Seq(S) /\ Len(t) = n - 1
  BY <1>1
<1>3. /\ Tail(s) \in Seq(S) /\ Len(Tail(s)) = n - 1
      /\ \A i \in 1 .. n - 1 : Tail(s)[i] = s[i + 1]
  <2>1. s # <<>>
    OBVIOUS
  <2>. QED  BY <2>1, HeadTailProperties
<1>4. \A i \in 1 .. n - 1 : Tail(s)[i] = t[i]
  BY <1>3
<1>. HIDE DEF t
<1>5. Tail(s) = t
  BY <1>2, <1>3, <1>4, SeqEqual
<1>. QED  BY <1>5 DEF t

(* What is left of a sequence without its first n entries. *)
LEMMA Suffix ==
  ASSUME NEW S, NEW s \in Seq(S), NEW n \in Nat, n <= Len(s)
  PROVE  /\ SubSeq(s, n + 1, Len(s)) \in Seq(S)
         /\ Len(SubSeq(s, n + 1, Len(s))) = Len(s) - n
         /\ \A i \in 1 .. Len(s) - n : SubSeq(s, n + 1, Len(s))[i] = s[n + i]
<1>1. Len(s) \in Nat
  OBVIOUS
<1>2. n + 1 \in 1 .. Len(s) + 1 /\ Len(s) \in 0 .. Len(s)
  BY <1>1
<1>3. /\ SubSeq(s, n + 1, Len(s)) \in Seq(S)
      /\ Len(SubSeq(s, n + 1, Len(s))) = IF n + 1 <= Len(s) THEN Len(s) - (n + 1) + 1 ELSE 0
      /\ \A i \in 1 .. Len(s) - (n + 1) + 1 : SubSeq(s, n + 1, Len(s))[i] = s[n + 1 + i - 1]
  BY <1>2, SubSeqProperties
<1>4. Len(SubSeq(s, n + 1, Len(s))) = Len(s) - n
  BY <1>1, <1>3
<1>5. ASSUME NEW i \in 1 .. Len(s) - n
      PROVE  SubSeq(s, n + 1, Len(s))[i] = s[n + i]
  <2>1. i \in 1 .. Len(s) - (n + 1) + 1 /\ n + 1 + i - 1 = n + i
    BY <1>1
  <2>. QED  BY <1>3, <2>1
<1>. QED  BY <1>3, <1>4, <1>5

(* Dropping entries in two steps or in one. *)
LEMMA SuffixOfSuffix ==
  ASSUME NEW S, NEW s \in Seq(S), NEW n \in Nat, n <= Len(s), NEW c \in Nat, c <= n,
         NEW t, t = SubSeq(s, c + 1, Len(s))
  PROVE  /\ t \in Seq(S) /\ n - c <= Len(t)
         /\ SubSeq(t, (n - c) + 1, Len(t)) = SubSeq(s, n + 1, Len(s))
<1>1. Len(s) \in Nat /\ c <= Len(s) /\ n - c \in Nat
  OBVIOUS
<1>2. /\ t \in Seq(S) /\ Len(t) = Len(s) - c
      /\ \A i \in 1 .. Len(s) - c : t[i] = s[c + i]
  BY <1>1, Suffix
<1>3. n - c <= Len(t) /\ Len(t) - (n - c) = Len(s) - n
  BY <1>1, <1>2
<1>. DEFINE v == SubSeq(t, (n - c) + 1, Len(t))
            w == SubSeq(s, n + 1, Len(s))
<1>4. /\ v \in Seq(S) /\ Len(v) = Len(s) - n
      /\ \A i \in 1 .. Len(t) - (n - c) : v[i] = t[(n - c) + i]
  BY <1>1, <1>2, <1>3, Suffix
<1>5. w \in Seq(S) /\ Len(w) = Len(s) - n /\ \A i \in 1 .. Len(s) - n : w[i] = s[n + i]
  BY Suffix
<1>. HIDE DEF v, w
<1>6. ASSUME NEW i \in 1 .. Len(v)
      PROVE  v[i] = w[i]
  <2>1. /\ i \in 1 .. Len(s) - n /\ i \in 1 .. Len(t) - (n - c)
        /\ (n - c) + i \in 1 .. Len(s) - c /\ c + ((n - c) + i) = n + i
    BY <1>1, <1>3, <1>4
  <2>. QED  BY <1>2, <1>4, <1>5, <2>1, SMTT(30)
<1>7. v = w
  BY <1>4, <1>5, <1>6, SeqEqual
<1>. QED  BY <1>2, <1>3, <1>7 DEF v, w

(* Appending before or after dropping. *)
LEMMA SuffixOfAppend ==
  ASSUME NEW S, NEW s \in Seq(S), NEW n \in Nat, n <= Len(s), NEW b \in S
  PROVE  /\ Append(s, b) \in Seq(S) /\ n <= Len(Append(s, b))
         /\ SubSeq(Append(s, b), n + 1, Len(Append(s, b))) = Append(SubSeq(s, n + 1, Len(s)), b)
<1>. DEFINE t == Append(s, b)
<1>1. /\ Len(s) \in Nat /\ t \in Seq(S) /\ Len(t) = Len(s) + 1
      /\ \A i \in 1 .. Len(s) : t[i] = s[i]
      /\ t[Len(s) + 1] = b
  BY AppendProperties
<1>. HIDE DEF t
<1>2. n <= Len(t)
  BY <1>1
<1>. DEFINE w == SubSeq(s, n + 1, Len(s))
            v == SubSeq(t, n + 1, Len(t))
            x == Append(w, b)
<1>3. w \in Seq(S) /\ Len(w) = Len(s) - n /\ \A i \in 1 .. Len(s) - n : w[i] = s[n + i]
  BY Suffix
<1>4. v \in Seq(S) /\ Len(v) = Len(t) - n /\ \A i \in 1 .. Len(t) - n : v[i] = t[n + i]
  BY <1>1, <1>2, Suffix
<1>. HIDE DEF v, w
<1>5. /\ x \in Seq(S) /\ Len(x) = Len(w) + 1 /\ x[Len(w) + 1] = b
      /\ \A i \in 1 .. Len(w) : x[i] = w[i]
  BY <1>3, AppendProperties
<1>. HIDE DEF x
<1>6. Len(v) = Len(x)
  BY <1>1, <1>3, <1>4, <1>5
<1>7. ASSUME NEW i \in 1 .. Len(v)
      PROVE  v[i] = x[i]
  <2>1. i \in 1 .. Len(t) - n /\ v[i] = t[n + i]
    BY <1>4, SMTT(30)
  <2>2. CASE i <= Len(s) - n
    <3>1. i \in 1 .. Len(s) - n /\ n + i \in 1 .. Len(s)
      BY <1>1, <2>1, <2>2
    <3>. QED  BY <1>1, <1>3, <1>5, <2>1, <3>1
  <2>3. CASE i > Len(s) - n
    <3>1. n + i = Len(s) + 1 /\ i = Len(w) + 1
      <4>1. i \in Int /\ i <= (Len(s) + 1) - n
        BY <1>1, <2>1
      <4>2. i = (Len(s) - n) + 1
        BY <1>1, <2>3, <4>1
      <4>. QED  BY <1>1, <1>3, <4>2
    <3>. QED  BY <1>1, <1>5, <2>1, <3>1
  <2>. QED  BY <1>1, <2>1, <2>2, <2>3
<1>8. v = x
  BY <1>4, <1>5, <1>6, <1>7, SeqEqual
<1>. QED  BY <1>1, <1>2, <1>8 DEF t, v, w, x

(* Dropping one entry more takes the head off what is left. *)
LEMMA SuffixTail ==
  ASSUME NEW S, NEW s \in Seq(S), NEW n \in Nat, n < Len(s)
  PROVE  /\ SubSeq(s, n + 1, Len(s)) # <<>>
         /\ SubSeq(s, n + 1, Len(s))[1] = s[n + 1]
         /\ SubSeq(s, (n + 1) + 1, Len(s)) = Tail(SubSeq(s, n + 1, Len(s)))
<1>. DEFINE w == SubSeq(s, n + 1, Len(s))
            v == SubSeq(s, (n + 1) + 1, Len(s))
<1>1. Len(s) \in Nat /\ n <= Len(s) /\ n + 1 <= Len(s) /\ n + 1 \in Nat
  OBVIOUS
<1>2. w \in Seq(S) /\ Len(w) = Len(s) - n /\ \A i \in 1 .. Len(s) - n : w[i] = s[n + i]
  BY <1>1, Suffix
<1>3. /\ v \in Seq(S) /\ Len(v) = Len(s) - (n + 1)
      /\ \A i \in 1 .. Len(s) - (n + 1) : v[i] = s[(n + 1) + i]
  BY <1>1, Suffix
<1>. HIDE DEF v, w
<1>4. w # <<>> /\ 1 \in 1 .. Len(s) - n
  BY <1>1, <1>2
<1>5. Tail(w) \in Seq(S) /\ Len(Tail(w)) = Len(w) - 1 /\ \A i \in 1 .. Len(Tail(w)) : Tail(w)[i] = w[i + 1]
  BY <1>2, <1>4, HeadTailProperties
<1>6. Len(v) = Len(Tail(w))
  BY <1>1, <1>2, <1>3, <1>5
<1>7. ASSUME NEW i \in 1 .. Len(v)
      PROVE  v[i] = Tail(w)[i]
  <2>1. i + 1 \in 1 .. Len(s) - n /\ (n + 1) + i = n + (i + 1)
    BY <1>1, <1>3
  <2>. QED  BY <1>2, <1>3, <1>5, <1>6, <2>1
<1>8. v = Tail(w)
  BY <1>3, <1>5, <1>6, <1>7, SeqEqual
<1>. QED  BY <1>2, <1>4, <1>8 DEF v, w

(* The sequence of the first entry alone. *)
LEMMA FirstOnly ==
  ASSUME NEW S, NEW s \in Seq(S), s # <<>>
  PROVE  SubSeq(s, 1, 1) = <<s[1]>> /\ SubSeq(s, 1 + 1, Len(s)) = Tail(s)
<1>1. 1 \in 1 .. Len(s) /\ s[1] \in S
  OBVIOUS
<1>2. /\ SubSeq(s, 1, 1) \in Seq(S) /\ Len(SubSeq(s, 1, 1)) = 1
      /\ SubSeq(s, 1, 1)[1] = s[1]
  BY <1>1, SubSeqProperties
<1>3. <<s[1]>> \in Seq(S) /\ Len(<<s[1]>>) = 1
  BY <1>1
<1>4. \A i \in 1 .. 1 : SubSeq(s, 1, 1)[i] = <<s[1]>>[i]
  <2>1. \A i \in 1 .. 1 : i = 1
    OBVIOUS
  <2>. QED  BY <1>2, <2>1
<1>5. SubSeq(s, 1, 1) = <<s[1]>>
  BY <1>2, <1>3, <1>4, SeqEqual
<1>6. Tail(s) = SubSeq(s, 2, Len(s))
  BY TailIsSubSeq
<1>. QED  BY <1>5, <1>6
=============================================================================
