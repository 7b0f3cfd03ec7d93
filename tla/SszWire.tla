------------------------------ MODULE SszWire ------------------------------
(***************************************************************************)
(* An object is encoded, its bytes may be damaged on the way, and the      *)
(* receiver decodes what arrives into a new object (gossip and req/resp    *)
(* decode this way, and so would a database).                              *)
(***************************************************************************)
EXTENDS Ssz

CONSTANTS
  MaxLen,     \* bound: elements of a list, bits of a bitlist
  Seeds,      \* bound: the contents of the objects
  Damages,    \* bound: the bytes a damaged position may hold
  MaxDamage   \* bound: damaged positions

SszWireAssumption == MaxLen \in Nat /\ MaxDamage \in Nat /\ Damages \subseteq Byte

Types == [config |-> Config, checkpoint |-> Checkpoint, validator |-> Validator,
          data |-> AttestationData, attestation |-> Attestation,
          signedAttestation |-> SignedAttestation, header |-> BlockHeader,
          body |-> BlockBody, block |-> Block, message |-> BlockWithAttestation,
          signedBlock |-> SignedBlockWithAttestation, state |-> State]

(* The sizes the generated code writes as literals are those of the types. *)
Real == INSTANCE Ssz WITH
          BitsPerByte <- 8, Uint64Width <- 8, OffsetWidth <- 4, RootWidth <- 32,
          PubkeyWidth <- 52, SignatureWidth <- 3112,
          HistoricalRootsLimit <- 262144, ValidatorRegistryLimit <- 4096
LiteralSizes ==
  /\ Real!FixedPart(Real!Config) = 8
  /\ Real!FixedPart(Real!Checkpoint) = 40
  /\ Real!FixedPart(Real!Validator) = 60
  /\ Real!FixedPart(Real!AttestationData) = 128
  /\ Real!FixedPart(Real!Attestation) = 136
  /\ Real!FixedPart(Real!SignedAttestation) = 3248
  /\ Real!FixedPart(Real!BlockHeader) = 112
  /\ Real!FixedPart(Real!BlockBody) = 4
  /\ Real!FixedPart(Real!Block) = 84
  /\ Real!FixedPart(Real!BlockWithAttestation) = 140
  /\ Real!FixedPart(Real!SignedBlockWithAttestation) = 8
  /\ Real!FixedPart(Real!State) = 228
  /\ Real!JustificationValsLimit = 1073741824

-----------------------------------------------------------------------------
(* Objects to send: n sets the lengths of the lists, k the contents.       *)

MakeBitlist(n) == [i \in 1 .. n \div BitsPerByte + 1 |->
                     IF i = n \div BitsPerByte + 1 THEN 2 ^ (n % BitsPerByte) ELSE 0]

RECURSIVE Sample(_, _, _)
Sample(t, n, k) ==
  CASE t.kind = "uint64" -> (k * (Base + 1)) % Base ^ Uint64Width
    [] t.kind = "root" -> [bytes |-> [i \in 1 .. RootWidth |-> (k * i) % Base]]
    [] t.kind = "bytes" -> [i \in 1 .. t.size |-> (k * i) % Base]
    [] t.kind = "bitlist" -> MakeBitlist(n)
    [] t.kind = "list" -> [i \in 1 .. n |-> Sample(t.elem, n, k * (i - 1))]
    [] t.kind = "container" ->
         [i \in DOMAIN t.fields |-> Sample(t.fields[i], (n + i) % (MaxLen + 1), k * i)]

Samples(t) == {Sample(t, n, k) : n \in 0 .. MaxLen, k \in Seeds}

-----------------------------------------------------------------------------
VARIABLES
  name,      \* the type of the object, a name of Types
  object,    \* the object sent
  wire,      \* its bytes
  damage,    \* how many positions are damaged
  decoded    \* << >>, or the object decoded in a sequence of one

vars == <<name, object, wire, damage, decoded>>
type == Types[name]

Init ==
  /\ name \in DOMAIN Types
  /\ object \in Samples(type)
  /\ wire = MarshalSSZ(type, object)
  /\ damage = 0
  /\ decoded = << >>

CanDamage == decoded = << >> /\ damage < MaxDamage

Overwrite(i, b) ==
  /\ CanDamage /\ wire[i] # b
  /\ wire' = [wire EXCEPT ![i] = b]
  /\ damage' = damage + 1
  /\ UNCHANGED <<name, object, decoded>>

Truncate ==
  /\ CanDamage /\ wire # << >>
  /\ wire' = Front(wire)
  /\ damage' = damage + 1
  /\ UNCHANGED <<name, object, decoded>>

Extend(b) ==
  /\ CanDamage
  /\ wire' = Append(wire, b)
  /\ damage' = damage + 1
  /\ UNCHANGED <<name, object, decoded>>

Receive ==
  /\ decoded = << >> /\ CanUnmarshal(type, wire)
  /\ decoded' = <<UnmarshalSSZ(type, wire)>>
  /\ UNCHANGED <<name, object, wire, damage>>

Next ==
  \/ \E i \in DOMAIN wire, b \in Damages : Overwrite(i, b)
  \/ Truncate
  \/ \E b \in Damages : Extend(b)
  \/ Receive

Spec == Init /\ [][Next]_vars
-----------------------------------------------------------------------------
(* Properties.                                                             *)

(* An object that is encoded can be decoded, and decoding it gives the     *)
(* same object; its encoding is as long as SizeSSZ says, which the offsets *)
(* are computed from.                                                      *)
RoundTrip ==
  damage = 0 =>
    /\ CanMarshal(type, object)
    /\ CanUnmarshal(type, wire)
    /\ UnmarshalSSZ(type, wire) = object
    /\ Len(wire) = SizeSSZ(type, object)

(* No two byte strings decode to the same object: whatever UnmarshalSSZ    *)
(* accepts, damaged or not, is the one encoding of what it returns.  A     *)
(* message that could be re-encoded would pass the gossip cache twice.     *)
Canonical ==
  decoded # << >> =>
    CanMarshal(type, decoded[1]) /\ MarshalSSZ(type, decoded[1]) = wire

(* The object with one more zero element in one of its lists.              *)
Grown(v) ==
  {[v EXCEPT ![i] = Append(@, Sample(type.fields[i].elem, 0, 0))] :
     i \in {j \in DOMAIN v : type.fields[j].kind = "list" /\ Len(v[j]) < type.fields[j].limit}}

(* Different objects have different roots: the one decoded from damaged    *)
(* bytes, another one, and one that differs only by a zero element at the  *)
(* end of a list, as a history with one more empty slot does.              *)
RootsSeparate ==
  \A other \in IF damage = 0 THEN Samples(type) \union Grown(object)
               ELSE {decoded[i] : i \in DOMAIN decoded} :
    other # object => RootOf(type, other) # RootOf(type, object)

(* The header ProcessBlockHeader makes of a block: its body is replaced by *)
(* the body's root.  (The state root it leaves zero is filled in by        *)
(* ProcessSlot.)                                                           *)
HeaderOf(block) ==
  <<block[1], block[2], block[3], block[4], RootOf(BlockBody, block[5])>>

(* The header of a block has the block's root: the parent root a child     *)
(* names is compared with the hash of the header in the state, and the     *)
(* store files the block under the hash of the block.                      *)
HeaderRootIsBlockRoot ==
  name = "block" =>
    HashTreeRoot(BlockHeader, HeaderOf(object)) = HashTreeRoot(Block, object)

(* Objects and encodings correspond one to one.                            *)
OneEncoding == RoundTrip /\ Canonical

(* Roots stand for objects.                                                *)
RootsIdentify == RootsSeparate /\ HeaderRootIsBlockRoot
=============================================================================
