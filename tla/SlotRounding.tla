---------------------------- MODULE SlotRounding ----------------------------
(***************************************************************************)
(* IsJustifiableAfter as the chain advances, when the square root that     *)
(* math.Sqrt delivers may be off by one in either direction.               *)
(***************************************************************************)
EXTENDS Slots

CONSTANT MaxSlot  \* bound: the last slot

ASSUME SlotRoundingAssumption == MaxSlot \in Nat

VARIABLES
  slot,           \* the slot in question
  finalizedSlot,  \* the finalized slot
  x               \* what uint64(math.Sqrt(float64(slot - finalizedSlot))) gives

vars == <<slot, finalizedSlot, x>>

IsRoot(r, n) == r * r <= n /\ n < (r + 1) * (r + 1)

Rounded(n) ==
  {y \in 0 .. n + 1 : \E r \in 0 .. n : IsRoot(r, n) /\ r - 1 <= y /\ y <= r + 1}

Init == slot = 0 /\ finalizedSlot = 0 /\ x \in Rounded(0)

AdvanceSlot ==
  /\ slot < MaxSlot
  /\ slot' = slot + 1
  /\ UNCHANGED finalizedSlot
  /\ x' \in Rounded(slot' - finalizedSlot)

Finalize ==
  /\ finalizedSlot' \in finalizedSlot + 1 .. slot
  /\ UNCHANGED slot
  /\ x' \in Rounded(slot - finalizedSlot')

Next == AdvanceSlot \/ Finalize

Spec == Init /\ [][Next]_vars
-----------------------------------------------------------------------------
(* Properties.                                                             *)

(* The correction step makes isqrt the integer square root whichever way   *)
(* the float was rounded.                                                  *)
IsqrtExact ==
  LET n == slot - finalizedSlot
  IN  CorrectSqrt(x, n) \in Nat /\ IsRoot(CorrectSqrt(x, n), n)

(* The rule of 3SF-mini: the distance from the finalized slot is at most   *)
(* 5, a square or a pronic number.  A slot before the finalized one is not *)
(* justifiable, although the distance is unsigned.                         *)
JustifiableByDistance ==
  \A f \in {finalizedSlot, slot + 1, MaxSlot} :
    IsJustifiableAfter(slot, f) <=>
      \E k \in 0 .. slot : slot - f \in (0 .. 5) \union {k * k, k * (k + 1)}
=============================================================================
