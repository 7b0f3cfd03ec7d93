------------------------------- MODULE Slots -------------------------------
(***************************************************************************)
(* Constants and slot arithmetic of 3SF-mini (types/constants.go,          *)
(* types/slot.go).                                                         *)
(* Slots are naturals here; the code uses uint64 and no slot a node can    *)
(* reach comes near 2^64.                                                  *)
(***************************************************************************)
EXTENDS Integers

(* The root of no block: the parent of genesis, the entry of an empty     *)
(* slot in the history.                                                    *)
ZeroHash == 0

IntervalsPerSlot == 4
JustificationLookback == 3

(* Mutant: only one direction is corrected.                                *)
CorrectSqrtUp(x, n) == IF (x + 1) * (x + 1) <= n THEN x + 1 ELSE x

(* The correction isqrt applies to x, the truncated float64 square root.   *)
CorrectSqrt(x, n) ==
  IF (x + 1) * (x + 1) <= n THEN x + 1
  ELSE IF x * x > n THEN x - 1
  ELSE x

(* uint64(math.Sqrt(float64(n))); exact for every n below 2^52.  What      *)
(* happens when it is off by one is the subject of SlotRounding.           *)
FloatSqrt(n) == CHOOSE x \in 0 .. n : x * x <= n /\ n < (x + 1) * (x + 1)

isqrt(n) == IF n = 0 THEN 0 ELSE CorrectSqrt(FloatSqrt(n), n)

(* Mutant: the fifth slot is left out.                                     *)
IsJustifiableAfterFour(slot, finalizedSlot) ==
  LET delta == slot - finalizedSlot
      s == isqrt(delta)
  IN  /\ slot >= finalizedSlot
      /\ delta < 5 \/ s * s = delta \/ s * (s + 1) = delta

IsJustifiableAfter(slot, finalizedSlot) ==
  LET delta == slot - finalizedSlot
      s == isqrt(delta)
  IN  /\ slot >= finalizedSlot
      /\ \/ delta <= 5
         \/ s * s = delta
         \/ s * (s + 1) = delta
=============================================================================
