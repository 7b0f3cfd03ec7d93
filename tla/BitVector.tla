----------------------------- MODULE BitVector -----------------------------
(***************************************************************************)
(* What a bitlist promises its users: a list of Booleans that grows at its *)
(* end and whose elements can be changed.                                  *)
(***************************************************************************)
EXTENDS Integers, Sequences

CONSTANT MaxBits  \* bound: the longest list

VARIABLE list

Init == \E n \in 0 .. MaxBits : list = [i \in 1 .. n |-> FALSE]

AddBit(val) == Len(list) < MaxBits /\ list' = Append(list, val)

ChangeBit(idx, val) ==
  idx < Len(list) /\ list' = [list EXCEPT ![idx + 1] = val]

Next ==
  \E val \in BOOLEAN :
    AddBit(val) \/ \E idx \in 0 .. MaxBits - 1 : ChangeBit(idx, val)

Spec == Init /\ [][Next]_list
=============================================================================
