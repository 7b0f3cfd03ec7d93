---------------------------- MODULE Aggregation ----------------------------
(***************************************************************************)
(* Aggregated attestations: AggregateAttestations, DisaggregateAttestation *)
(* and the verification loop (chain/forkchoice/aggregation.go), and their  *)
(* wire format (network/gossipsub/encoding.go).                            *)
(*                                                                         *)
(* A vote is [validator, data]; its signature is the pair itself, spread   *)
(* over SigWidth units.  A message is a sequence of units, each a record   *)
(* with a field len (a length prefix), data (an attestation data), byte (a *)
(* byte of a bitlist, as in BitlistBytes) or vote and part (a piece of a   *)
(* signature).                                                             *)
(***************************************************************************)
EXTENDS Integers, SequencesExt

CONSTANTS
  NumValidators,   \* validators in the receiver's head state
  Voters,          \* bound: the validators whose votes are aggregated
  Datas,           \* bound: what they vote for
  SigWidth,        \* units of a signature
  OddByte,         \* a byte of a signature, read as a byte of a bitlist
  MaxDamage        \* bound: changes to a message

AggregationAssumption ==
  /\ NumValidators \in Nat /\ Voters \subseteq Nat /\ SigWidth \in Nat \ {0}
  /\ OddByte \subseteq 0 .. 7 /\ MaxDamage \in Nat

VARIABLES
  pending,    \* the votes, in the order they were signed
  wire,       \* the message
  damage,
  accepted    \* << >>, or the votes the receiver accepts

vars == <<pending, wire, damage, accepted>>

BL == INSTANCE BitlistBytes WITH MaxBits <- NumValidators, bl <- wire

Pieces(vote) == [part \in 1 .. SigWidth |-> [vote |-> vote, part |-> part]]

ById(a, b) == a.validator < b.validator

(* Mutant: the signatures stay in the order in which they were made.       *)
AggregateUnsorted(atts) ==
  LET last == SortSeq(atts, ById)[Len(atts)].validator
      WithVote(bits, a) == BL!SetBit(bits, a.validator, TRUE)
  IN  [data |-> atts[1].data,
       bits |-> FoldLeft(WithVote, BL!MakeBitlist(last + 1), atts),
       sig  |-> FlattenSeq([i \in DOMAIN atts |-> Pieces(atts[i])])]

(* The votes sorted by validator; the data is the first one's.             *)
AggregateAttestations(atts) ==
  LET sorted == SortSeq(atts, ById)
      WithVote(bits, a) == BL!SetBit(bits, a.validator, TRUE)
  IN  [data |-> sorted[1].data,
       bits |-> FoldLeft(WithVote, BL!MakeBitlist(sorted[Len(sorted)].validator + 1), sorted),
       sig  |-> FlattenSeq([i \in DOMAIN sorted |-> Pieces(sorted[i])])]

(* The validators whose bit is set, in ascending order.                    *)
ValidatorIDs(bits) ==
  SetToSortSeq({i \in 0 .. BL!BitlistLen(bits) - 1 : BL!GetBit(bits, i)}, <)

CanDisaggregate(agg) == Len(agg.sig) = Len(ValidatorIDs(agg.bits)) * SigWidth
Signature(agg, i) == SubSeq(agg.sig, (i - 1) * SigWidth + 1, i * SigWidth)

(* leansig.Verify of the attestation's root, which names the validator.    *)
Verify(valID, data, sig) == sig = Pieces([validator |-> valID, data |-> data])

(* The votes of an aggregate that verify; an index out of range is skipped.*)
VerifyAggregatedAttestation(agg) ==
  LET ids == ValidatorIDs(agg.bits)
  IN  {[validator |-> ids[i], data |-> agg.data] :
         i \in {j \in DOMAIN ids : /\ ids[j] < NumValidators
                                   /\ Verify(ids[j], agg.data, Signature(agg, j))}}

-----------------------------------------------------------------------------
(* The wire format.                                                        *)

PublishAggregatedAttestation(agg) ==
  <<[len |-> 1], [data |-> agg.data], [len |-> Len(agg.bits)]>>
  \o [i \in DOMAIN agg.bits |-> [byte |-> agg.bits[i]]]
  \o agg.sig

ByteOf(unit) == IF "byte" \in DOMAIN unit THEN unit.byte ELSE OddByte

(* The attestation data has one size only, so a wrong first length is an   *)
(* error; the second one is where the signatures begin.                    *)
CanDecode(msg) ==
  /\ Len(msg) >= 3 /\ msg[1].len = 1
  /\ 3 + msg[3].len <= Len(msg)

DecodeAggregatedAttestation(msg) ==
  [data |-> msg[2].data,
   bits |-> [i \in 1 .. msg[3].len |-> ByteOf(msg[3 + i])],
   sig  |-> SubSeq(msg, 4 + msg[3].len, Len(msg))]

-----------------------------------------------------------------------------
(* TryAggregate: the pending votes are of different validators.            *)
Init ==
  /\ \E order \in SetToSeqs(Voters), n \in 1 .. 3, data \in [Voters -> Datas] :
       /\ n <= Len(order)
       /\ pending = [i \in 1 .. n |-> [validator |-> order[i], data |-> data[order[i]]]]
  /\ wire = PublishAggregatedAttestation(AggregateAttestations(pending))
  /\ damage = 0
  /\ accepted = << >>

CanDamage == accepted = << >> /\ damage < MaxDamage /\ damage' = damage + 1

ChangeLength(i, n) ==
  /\ CanDamage
  /\ i \in DOMAIN wire /\ "len" \in DOMAIN wire[i] /\ wire[i].len # n
  /\ wire' = [wire EXCEPT ![i] = [len |-> n]]
  /\ UNCHANGED <<pending, accepted>>

FlipBit(i, bit) ==
  /\ CanDamage
  /\ "byte" \in DOMAIN wire[i]
  /\ wire' = [wire EXCEPT ![i] = [byte |-> IF bit \in @.byte THEN @.byte \ {bit}
                                           ELSE @.byte \union {bit}]]
  /\ UNCHANGED <<pending, accepted>>

Truncate ==
  /\ CanDamage
  /\ wire # << >>
  /\ wire' = Front(wire)
  /\ UNCHANGED <<pending, accepted>>

(* ProcessAggregatedAttestation, as far as the signatures go.              *)
Receive ==
  /\ accepted = << >> /\ CanDecode(wire)
  /\ LET agg == DecodeAggregatedAttestation(wire)
     IN  accepted' = <<IF CanDisaggregate(agg) THEN VerifyAggregatedAttestation(agg) ELSE {}>>
  /\ UNCHANGED <<pending, wire, damage>>

Next ==
  \/ \E i \in {1, 3}, n \in 0 .. 3 : ChangeLength(i, n)
  \/ \E i \in DOMAIN wire, bit \in 0 .. 7 : FlipBit(i, bit)
  \/ Truncate
  \/ Receive

Spec == Init /\ [][Next]_vars
-----------------------------------------------------------------------------
(* Properties.                                                             *)

Votes == ToSet(pending)

(* Votes for the same data all arrive, in whatever order they were signed  *)
(* and however the validator indices lie in the bytes of the bitlist.      *)
EveryVoteArrives ==
  damage = 0 /\ accepted # << >> /\ (\A a, b \in Votes : a.data = b.data) =>
    accepted[1] = Votes

(* Whatever happens to a message, and even when the votes were for         *)
(* different data, no vote is accepted that its validator has not signed:  *)
(* a changed bit moves every later signature to another validator.         *)
NoVoteInvented == accepted # << >> => accepted[1] \subseteq Votes

(* An aggregate stands for the votes it was made of, and for no others.    *)
AggregateFaithful == EveryVoteArrives /\ NoVoteInvented
=============================================================================
