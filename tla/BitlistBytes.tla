---------------------------- MODULE BitlistBytes ----------------------------
(***************************************************************************)
(* SSZ bitlists on bytes (chain/statetransition/bitlist.go).  A byte is    *)
(* the set of its 1 bits, bit 0 the least significant; a bitlist is a      *)
(* sequence of bytes.  BitVector is what it implements, Bitlist the form   *)
(* the rest of the model computes with.                                    *)
(***************************************************************************)
EXTENDS Integers, Sequences, FiniteSetsExt

CONSTANT MaxBits  \* bound: the longest bitlist

BitlistBytesAssumption == MaxBits \in Nat

BitlistLen(bl) ==
  IF Len(bl) = 0 \/ bl[Len(bl)] = {} THEN 0
  ELSE (Len(bl) - 1) * 8 + Max(bl[Len(bl)])

GetBit(bl, idx) ==
  idx \div 8 < Len(bl) /\ idx % 8 \in bl[idx \div 8 + 1]

(* bl with bit idx, which lies inside it, set to val.                      *)
WithBit(bl, idx, val) ==
  [bl EXCEPT ![idx \div 8 + 1] = IF val THEN @ \union {idx % 8} ELSE @ \ {idx % 8}]

(* Mutant: a bit can be set but not cleared.                               *)
SetBitOnly(bl, idx, val) ==
  IF idx \div 8 >= Len(bl) \/ ~ val THEN bl ELSE WithBit(bl, idx, TRUE)

SetBit(bl, idx, val) ==
  IF idx \div 8 >= Len(bl) THEN bl ELSE WithBit(bl, idx, val)

(* The number of bytes n bits take.                                        *)
BytesFor(n) == (n + 7) \div 8

(* Mutant: the resized list starts empty, the old bytes are not copied.    *)
AppendBitUncopied(bl, val) ==
  LET n == BitlistLen(bl)
      resized == [i \in 1 .. BytesFor(n + 2) |-> {}]
  IN  WithBit(WithBit(resized, n, val), n + 1, TRUE)

AppendBit(bl, val) ==
  LET n == BitlistLen(bl)
      resized == [i \in 1 .. BytesFor(n + 2) |-> IF i <= Len(bl) THEN bl[i] ELSE {}]
      cleared == IF n > 0 THEN WithBit(resized, n, FALSE) ELSE resized
  IN  WithBit(WithBit(cleared, n, val), n + 1, TRUE)

MakeBitlist(numBits) ==
  IF numBits = 0 THEN <<{0}>>
  ELSE WithBit([i \in 1 .. BytesFor(numBits + 1) |-> {}], numBits, TRUE)

-----------------------------------------------------------------------------
VARIABLE bl

Init == \E n \in 0 .. MaxBits : bl = MakeBitlist(n)

AddBit(val) == BitlistLen(bl) < MaxBits /\ bl' = AppendBit(bl, val)

(* Every caller of SetBit makes the bitlist long enough first.             *)
ChangeBit(idx, val) == idx < BitlistLen(bl) /\ bl' = SetBit(bl, idx, val)

Next ==
  \E val \in BOOLEAN :
    AddBit(val) \/ \E idx \in 0 .. MaxBits - 1 : ChangeBit(idx, val)

Spec == Init /\ [][Next]_bl
-----------------------------------------------------------------------------
(* Properties.                                                             *)

(* The packing is that of a bitlist: no byte too many, nothing after the   *)
(* sentinel.  A stale bit left beyond it would become data or a second     *)
(* sentinel when the list grows into that position.                        *)
WellPacked ==
  /\ Len(bl) = BytesFor(BitlistLen(bl) + 1)
  /\ GetBit(bl, BitlistLen(bl))
  /\ \A idx \in BitlistLen(bl) + 1 .. 8 * Len(bl) : ~ GetBit(bl, idx)

(* Growing and changing a bitlist is growing and changing a list of        *)
(* Booleans, across byte boundaries too.                                   *)
Vector == INSTANCE BitVector
            WITH list <- [i \in 1 .. BitlistLen(bl) |-> GetBit(bl, i - 1)]
ImplementsBitVector == Vector!Spec

(* The set form the consensus model computes with gives the same results   *)
(* as the bytes.                                                           *)
SetForm == INSTANCE Bitlist
Bits(bytes) == {idx \in 0 .. 8 * Len(bytes) : GetBit(bytes, idx)}

SetFormAgrees ==
  LET n == BitlistLen(bl)
  IN  /\ SetForm!BitlistLen(Bits(bl)) = n
      /\ \A val \in BOOLEAN :
           /\ SetForm!AppendBit(Bits(bl), val) = Bits(AppendBit(bl, val))
           /\ \A idx \in (0 .. n + 9) \ {n} :
                SetForm!SetBit(Bits(bl), idx, val) = Bits(SetBit(bl, idx, val))
      /\ SetForm!MakeBitlist(n) = Bits(MakeBitlist(n))

(* The bytes are packed right and agree with the set form.                 *)
BytesMatchSets == WellPacked /\ SetFormAgrees
=============================================================================
