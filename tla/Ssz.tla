-------------------------------- MODULE Ssz --------------------------------
(***************************************************************************)
(* The SSZ codec of the consensus objects (types/*_encoding.go).  The      *)
(* generated code repeats one scheme for every field of every object; here *)
(* a type is a value,                                                      *)
(*   Uint64, Root, Bytes(n)       fields of a fixed width                  *)
(*   Container(<<t1, t2, ...>>)   a struct                                 *)
(*   List(t, limit), Bitlist(limit)                                        *)
(* and MarshalSSZ, UnmarshalSSZ, SizeSSZ and HashTreeRoot are defined once *)
(* over the types.  A Can... operator says whether the method returns      *)
(* without an error.                                                       *)
(*                                                                         *)
(* Values: a number for a Uint64, [bytes |-> s] for a Root, a byte         *)
(* sequence for Bytes and for a Bitlist (sentinel included), the sequence  *)
(* of its fields or elements for a Container or a List.  Hashing is free:  *)
(* the hash of two nodes is the pair of them, so that two roots are equal  *)
(* exactly when the hashed trees are.                                      *)
(***************************************************************************)
EXTENDS Integers, SequencesExt

CONSTANTS
  BitsPerByte,             \* 8
  Uint64Width,             \* 8 bytes
  OffsetWidth,             \* 4 bytes
  RootWidth,               \* 32 bytes, also the size of a chunk
  PubkeyWidth,             \* 52 bytes
  SignatureWidth,          \* 3112 bytes
  HistoricalRootsLimit,    \* 2^18
  ValidatorRegistryLimit   \* 2^12

JustificationValsLimit == HistoricalRootsLimit * ValidatorRegistryLimit

Base == 2 ^ BitsPerByte
Byte == 0 .. Base - 1

-----------------------------------------------------------------------------
(* The types (types/*.go) and the order of their fields.                   *)

Uint64 == [kind |-> "uint64"]
Root == [kind |-> "root"]
Bytes(n) == [kind |-> "bytes", size |-> n]
Container(fields) == [kind |-> "container", fields |-> fields]
List(elem, limit) == [kind |-> "list", elem |-> elem, limit |-> limit]
Bitlist(limit) == [kind |-> "bitlist", limit |-> limit]

Config == Container(<<Uint64>>)
Checkpoint == Container(<<Root, Uint64>>)
Validator == Container(<<Bytes(PubkeyWidth), Uint64>>)

AttestationData == Container(<<Uint64, Checkpoint, Checkpoint, Checkpoint>>)
Attestation == Container(<<Uint64, AttestationData>>)
SignedAttestation ==
  Container(<<Uint64, AttestationData, Bytes(SignatureWidth)>>)

BlockHeader == Container(<<Uint64, Uint64, Root, Root, Root>>)
BlockBody == Container(<<List(Attestation, ValidatorRegistryLimit)>>)
Block == Container(<<Uint64, Uint64, Root, Root, BlockBody>>)
BlockWithAttestation == Container(<<Block, Attestation>>)
SignedBlockWithAttestation ==
  Container(<<BlockWithAttestation,
              List(Bytes(SignatureWidth), ValidatorRegistryLimit)>>)

State ==
  Container(<<Config, Uint64, BlockHeader, Checkpoint, Checkpoint,
              List(Root, HistoricalRootsLimit),
              Bitlist(HistoricalRootsLimit),
              List(Validator, ValidatorRegistryLimit),
              List(Root, HistoricalRootsLimit),
              Bitlist(JustificationValsLimit)>>)

-----------------------------------------------------------------------------
(* Sizes.                                                                  *)

SumOver(S, f(_)) == FoldLeftDomain(LAMBDA acc, i : acc + f(i), 0, S)

RECURSIVE IsVariable(_)
IsVariable(t) ==
  \/ t.kind \in {"list", "bitlist"}
  \/ t.kind = "container" /\ \E i \in DOMAIN t.fields : IsVariable(t.fields[i])

(* The bytes a type takes in the fixed part of the struct it is a field    *)
(* of, and the fixed part of a struct.                                     *)
RECURSIVE HeadSize(_)
HeadSize(t) ==
  CASE IsVariable(t) -> OffsetWidth
    [] t.kind = "uint64" -> Uint64Width
    [] t.kind = "root" -> RootWidth
    [] t.kind = "bytes" -> t.size
    [] t.kind = "container" -> SumOver(t.fields, LAMBDA i : HeadSize(t.fields[i]))

FixedPart(t) == SumOver(t.fields, LAMBDA i : HeadSize(t.fields[i]))

(* Every list of this codec has elements of a fixed size.                  *)
RECURSIVE SizeSSZ(_, _)
SizeSSZ(t, v) ==
  CASE t.kind = "list" -> Len(v) * HeadSize(t.elem)
    [] t.kind = "bitlist" -> Len(v)
    [] t.kind = "container" /\ IsVariable(t) ->
         FixedPart(t) +
         SumOver(t.fields, LAMBDA i : IF IsVariable(t.fields[i])
                                      THEN SizeSSZ(t.fields[i], v[i]) ELSE 0)
    [] OTHER -> HeadSize(t)

-----------------------------------------------------------------------------
(* MarshalSSZ.                                                             *)

LittleEndian(n, width) == [i \in 1 .. width |-> (n \div Base ^ (i - 1)) % Base]
FromLittleEndian(b) == SumOver(b, LAMBDA i : b[i] * Base ^ (i - 1))

(* Where the variable field i begins: after the fixed part and the         *)
(* variable fields before it.                                              *)
OffsetOf(t, v, i) ==
  FixedPart(t) +
  SumOver(SubSeq(t.fields, 1, i - 1),
          LAMBDA j : IF IsVariable(t.fields[j]) THEN SizeSSZ(t.fields[j], v[j]) ELSE 0)

RECURSIVE MarshalSSZ(_, _)
MarshalSSZ(t, v) ==
  CASE t.kind = "uint64" -> LittleEndian(v, Uint64Width)
    [] t.kind = "root" -> v.bytes
    [] t.kind \in {"bytes", "bitlist"} -> v
    [] t.kind = "list" -> FlattenSeq([i \in DOMAIN v |-> MarshalSSZ(t.elem, v[i])])
    [] t.kind = "container" ->
         LET part(i) == MarshalSSZ(t.fields[i], v[i])
             head(i) == IF IsVariable(t.fields[i])
                        THEN LittleEndian(OffsetOf(t, v, i), OffsetWidth) ELSE part(i)
             tail(i) == IF IsVariable(t.fields[i]) THEN part(i) ELSE << >>
         IN  FlattenSeq([i \in DOMAIN v |-> head(i)])
             \o FlattenSeq([i \in DOMAIN v |-> tail(i)])

(* A bitlist's limit is compared with its length in bytes.                 *)
RECURSIVE CanMarshal(_, _)
CanMarshal(t, v) ==
  CASE t.kind = "list" -> /\ Len(v) <= t.limit
                          /\ \A i \in DOMAIN v : CanMarshal(t.elem, v[i])
    [] t.kind = "bitlist" -> Len(v) <= t.limit
    [] t.kind = "container" -> \A i \in DOMAIN v : CanMarshal(t.fields[i], v[i])
    [] OTHER -> TRUE

-----------------------------------------------------------------------------
(* UnmarshalSSZ.                                                           *)

Slice(buf, from, to) == SubSeq(buf, from + 1, to)

(* Where field i stands in the fixed part, and what an offset field holds. *)
HeadAt(t, i) == SumOver(SubSeq(t.fields, 1, i - 1), LAMBDA j : HeadSize(t.fields[j]))
HeadBytes(t, buf, i) == Slice(buf, HeadAt(t, i), HeadAt(t, i) + HeadSize(t.fields[i]))
ReadOffset(t, buf, i) == FromLittleEndian(HeadBytes(t, buf, i))

VariableFields(t) == SelectSeq([i \in DOMAIN t.fields |-> i],
                               LAMBDA i : IsVariable(t.fields[i]))

(* Mutant: offsets only have to grow; the first may leave a gap.           *)
OffsetsGrow(t, buf) ==
  LET vars == VariableFields(t)
      o(k) == ReadOffset(t, buf, vars[k])
  IN  \A k \in DOMAIN vars :
        /\ o(k) <= Len(buf)
        /\ IF k = 1 THEN o(1) >= FixedPart(t) ELSE o(k - 1) <= o(k)

(* The first offset is the end of the fixed part; the next do not go back  *)
(* and none is past the end.                                               *)
OffsetsOK(t, buf) ==
  LET vars == VariableFields(t)
      o(k) == ReadOffset(t, buf, vars[k])
  IN  \A k \in DOMAIN vars :
        /\ o(k) <= Len(buf)
        /\ IF k = 1 THEN o(1) = FixedPart(t) ELSE o(k - 1) <= o(k)

(* The bytes field i is read from: its place in the fixed part, or the     *)
(* bytes from its offset to the next one.                                  *)
FieldBytes(t, buf, i) ==
  IF ~ IsVariable(t.fields[i]) THEN HeadBytes(t, buf, i)
  ELSE LET vars == VariableFields(t)
           k == CHOOSE j \in DOMAIN vars : vars[j] = i
           end == IF k = Len(vars) THEN Len(buf) ELSE ReadOffset(t, buf, vars[k + 1])
       IN  Slice(buf, ReadOffset(t, buf, i), end)

Element(t, buf, i) == Slice(buf, (i - 1) * HeadSize(t.elem), i * HeadSize(t.elem))

RECURSIVE UnmarshalSSZ(_, _)
UnmarshalSSZ(t, buf) ==
  CASE t.kind = "uint64" -> FromLittleEndian(buf)
    [] t.kind = "root" -> [bytes |-> buf]
    [] t.kind \in {"bytes", "bitlist"} -> buf
    [] t.kind = "list" -> [i \in 1 .. Len(buf) \div HeadSize(t.elem) |->
                             UnmarshalSSZ(t.elem, Element(t, buf, i))]
    [] t.kind = "container" -> [i \in DOMAIN t.fields |->
                                  UnmarshalSSZ(t.fields[i], FieldBytes(t, buf, i))]

(* The length of a bitlist: the position of the highest bit of the last    *)
(* byte.                                                                   *)
TopBit(b) == CHOOSE k \in 0 .. BitsPerByte - 1 : 2 ^ k <= b /\ b < 2 ^ (k + 1)
BitlistLen(bl) == (Len(bl) - 1) * BitsPerByte + TopBit(Last(bl))

(* ssz.ValidateBitlist: a sentinel, and at most limit bits before it.      *)
ValidateBitlist(buf, limit) ==
  Len(buf) > 0 /\ Last(buf) # 0 /\ BitlistLen(buf) <= limit

RECURSIVE CanUnmarshal(_, _)
CanUnmarshal(t, buf) ==
  CASE t.kind = "bitlist" -> ValidateBitlist(buf, t.limit)
    [] t.kind = "list" ->
         /\ Len(buf) % HeadSize(t.elem) = 0
         /\ Len(buf) \div HeadSize(t.elem) <= t.limit
         /\ \A i \in 1 .. Len(buf) \div HeadSize(t.elem) :
              CanUnmarshal(t.elem, Element(t, buf, i))
    [] t.kind = "container" ->
         /\ IF IsVariable(t) THEN Len(buf) >= FixedPart(t) ELSE Len(buf) = FixedPart(t)
         /\ OffsetsOK(t, buf)
         /\ \A i \in DOMAIN t.fields : CanUnmarshal(t.fields[i], FieldBytes(t, buf, i))
    [] OTHER -> TRUE

-----------------------------------------------------------------------------
(* HashTreeRoot.                                                           *)

Chunk(b) == [bytes |-> [i \in 1 .. RootWidth |-> IF i <= Len(b) THEN b[i] ELSE 0]]
ZeroHash == Chunk(<< >>)
CeilDiv(a, b) == (a + b - 1) \div b
UpTo(s, n) == SubSeq(s, 1, IF n < Len(s) THEN n ELSE Len(s))
Beyond(s, n) == SubSeq(s, n + 1, Len(s))
Chunks(b) == [i \in 1 .. CeilDiv(Len(b), RootWidth) |->
                Chunk(UpTo(Beyond(b, (i - 1) * RootWidth), RootWidth))]

(* hasher.Merkleize: the tree over the nodes, filled up with zero chunks   *)
(* to the next power of two.                                               *)
RECURSIVE Merkleize(_, _)
Merkleize(nodes, limit) ==
  IF limit <= 1 THEN IF nodes = << >> THEN ZeroHash ELSE nodes[1]
  ELSE LET half == CHOOSE h \in {2 ^ k : k \in 0 .. limit} : h < limit /\ limit <= 2 * h
       IN  [left  |-> Merkleize(UpTo(nodes, half), half),
            right |-> Merkleize(Beyond(nodes, half), half)]

(* Mutant: the number of elements is left out of the root.                 *)
MixInNothing(root, n) == root

MixInLength(root, n) == [left |-> root, right |-> Chunk(LittleEndian(n, Uint64Width))]

(* hasher.PutBitlist hashes the bits without the sentinel.                 *)
StripSentinel(bl) == [bl EXCEPT ![Len(bl)] = @ - 2 ^ TopBit(@)]

RECURSIVE HashTreeRoot(_, _)
HashTreeRoot(t, v) ==
  CASE t.kind = "uint64" -> Chunk(LittleEndian(v, Uint64Width))
    [] t.kind = "root" -> v
    [] t.kind = "bytes" -> Merkleize(Chunks(v), CeilDiv(t.size, RootWidth))
    [] t.kind = "container" ->
         Merkleize([i \in DOMAIN t.fields |-> HashTreeRoot(t.fields[i], v[i])],
                   Len(t.fields))
    [] t.kind = "list" ->
         MixInLength(Merkleize([i \in DOMAIN v |-> HashTreeRoot(t.elem, v[i])], t.limit),
                     Len(v))
    [] t.kind = "bitlist" ->
         MixInLength(Merkleize(Chunks(StripSentinel(v)),
                               CeilDiv(t.limit, RootWidth * BitsPerByte)),
                     BitlistLen(v))

RECURSIVE CanHash(_, _)
CanHash(t, v) ==
  CASE t.kind = "list" -> Len(v) <= t.limit /\ \A i \in DOMAIN v : CanHash(t.elem, v[i])
    [] t.kind = "bitlist" -> v # << >>
    [] t.kind = "container" -> \A i \in DOMAIN t.fields : CanHash(t.fields[i], v[i])
    [] OTHER -> TRUE

(* The callers ignore the error: root, _ := x.HashTreeRoot().              *)
RootOf(t, v) == IF CanHash(t, v) THEN HashTreeRoot(t, v) ELSE ZeroHash
=============================================================================
