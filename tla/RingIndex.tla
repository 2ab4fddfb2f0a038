----------------------------- MODULE RingIndex -----------------------------
(***************************************************************************)
(* The free-running unsigned indices of the shared rings.                  *)
(*                                                                         *)
(* Heads and tails are C unsigned integers that are never reset: they wrap *)
(* at IdxMod (2^32 for the SQ and CQ rings, 2^16 for a buffer ring), the   *)
(* distance of two of them is an unsigned subtraction, and an entry lives  *)
(* in slot index & (Entries - 1).  Entries is a power of two, so the mask  *)
(* is the remainder modulo Entries, and it divides IdxMod.  A full ring    *)
(* and one entry more must still be told apart: Entries + 1 < IdxMod.      *)
(***************************************************************************)
EXTENDS Integers

CONSTANTS
  IdxMod,   \* number of values of an index
  Entries   \* number of entries of the ring

ASSUME RingAssumption ==
  /\ Entries \in Nat \ {0}
  /\ IdxMod \in Nat
  /\ Entries + 1 < IdxMod
  /\ IdxMod % Entries = 0

Idx == 0 .. IdxMod - 1

\* i + n and i - j in unsigned arithmetic
Add(i, n) == (i + n) % IdxMod
Sub(i, j) == (i - j) % IdxMod

\* index & ring_mask
Mask(i) == i % Entries

\* the indices lo, lo + 1, ..., hi - 1
Window(lo, hi) == {i \in Idx : Sub(i, lo) < Sub(hi, lo)}
=============================================================================
