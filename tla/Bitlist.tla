------------------------------ MODULE Bitlist ------------------------------
(***************************************************************************)
(* SSZ bitlists (chain/statetransition/bitlist.go).  A bitlist is a byte   *)
(* string; here it is the set of positions whose bit is 1, the sentinel    *)
(* that marks the length included, so that the empty bitlist 0x01 is {0}.  *)
(* BitlistBytes has the same operations on bytes and shows that the two    *)
(* agree.                                                                  *)
(***************************************************************************)
EXTENDS Integers, FiniteSetsExt

EmptyBitlist == {0}

(* The position of the sentinel: the highest bit of the last byte.         *)
BitlistLen(bl) == IF bl = {} THEN 0 ELSE Max(bl)

(* GetBit does not compare idx with the length: it reads the sentinel as   *)
(* TRUE.                                                                   *)
GetBit(bl, idx) == idx \in bl

(* Out of the byte range SetBit does nothing.                              *)
SetBit(bl, idx, val) ==
  IF bl = {} \/ idx \div 8 > BitlistLen(bl) \div 8 THEN bl
  ELSE IF val THEN bl \union {idx} ELSE bl \ {idx}

AppendBit(bl, val) ==
  LET n == BitlistLen(bl)
  IN  (bl \ {n}) \union (IF val THEN {n} ELSE {}) \union {n + 1}

(* k calls of AppendBit(bl, FALSE): the sentinel moves up by k.            *)
AppendZeros(bl, k) ==
  IF k = 0 THEN bl
  ELSE (bl \ {BitlistLen(bl)}) \union {BitlistLen(bl) + k}

MakeBitlist(numBits) == {numBits}
=============================================================================
