---------------------------- MODULE BitsAndSlots ----------------------------
(***************************************************************************)
(* The slot arithmetic next to bitlists on bytes: what is both proved      *)
(* (AlgorithmsProofs) and model-checked (MCAlgorithms).                    *)
(***************************************************************************)
EXTENDS SlotRounding, Sequences

CONSTANT MaxBits  \* of BitlistBytes
VARIABLE bl       \* of BitlistBytes

B == INSTANCE BitlistBytes

(* The bytes of a bitlist are packed right                                 *)
(* (chain/statetransition/bitlist.go), and the set form the consensus      *)
(* model computes with gives the same results.                             *)
BytesMatchSets == B!BytesMatchSets

(* Growing and changing a bitlist is growing and changing a list of        *)
(* Booleans, across byte boundaries too.                                   *)
ImplementsBitVector == B!ImplementsBitVector
=============================================================================
