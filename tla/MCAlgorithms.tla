---------------------------- MODULE MCAlgorithms ----------------------------
(***************************************************************************)
(* Model checking the pure algorithms: the slot arithmetic (SlotRounding), *)
(* bitlists on bytes (BitlistBytes), aggregates (Aggregation) and the SSZ  *)
(* codec (SszWire).  They share nothing, so a behaviour is one of one of   *)
(* them, and the others keep still.                                        *)
(***************************************************************************)
EXTENDS BitsAndSlots

CONSTANTS
  NumValidators, Voters, Datas, SigWidth, OddByte, MaxAggregateDamage,
  BitsPerByte, Uint64Width, OffsetWidth, RootWidth, PubkeyWidth, SignatureWidth,
  HistoricalRootsLimit, ValidatorRegistryLimit, MaxLen, Seeds, Damages, MaxDamage

VARIABLES
  part,
  pending, aggregate, aggregateDamage, accepted,
  name, object, wire, damage, decoded

aggregateVars == <<pending, aggregate, aggregateDamage, accepted>>
sszVars == <<name, object, wire, damage, decoded>>

A == INSTANCE Aggregation WITH wire <- aggregate, damage <- aggregateDamage,
                               MaxDamage <- MaxAggregateDamage
S == INSTANCE SszWire

ASSUME B!BitlistBytesAssumption /\ A!AggregationAssumption
ASSUME S!SszWireAssumption /\ S!LiteralSizes

(* What a machine that keeps still has.                                    *)
SlotsIdle == slot = 0 /\ finalizedSlot = 0 /\ x = 0
BitlistIdle == bl = B!MakeBitlist(0)
AggregationIdle ==
  pending = << >> /\ aggregate = << >> /\ aggregateDamage = 0 /\ accepted = << >>
SszIdle ==
  name = "none" /\ object = << >> /\ wire = << >> /\ damage = 0 /\ decoded = << >>

AlgorithmsInit ==
  \/ part = "slots" /\ Init /\ BitlistIdle /\ AggregationIdle /\ SszIdle
  \/ part = "bitlist" /\ B!Init /\ SlotsIdle /\ AggregationIdle /\ SszIdle
  \/ part = "aggregation" /\ A!Init /\ SlotsIdle /\ BitlistIdle /\ SszIdle
  \/ part = "ssz" /\ S!Init /\ SlotsIdle /\ BitlistIdle /\ AggregationIdle

AlgorithmsNext ==
  /\ \/ part = "slots" /\ Next /\ UNCHANGED <<bl, aggregateVars, sszVars>>
     \/ part = "bitlist" /\ B!Next /\ UNCHANGED <<vars, aggregateVars, sszVars>>
     \/ part = "aggregation" /\ A!Next /\ UNCHANGED <<vars, bl, sszVars>>
     \/ part = "ssz" /\ S!Next /\ UNCHANGED <<vars, bl, aggregateVars>>
  /\ UNCHANGED part

AlgorithmsSpec ==
  AlgorithmsInit /\ [][AlgorithmsNext]_<<part, vars, bl, aggregateVars, sszVars>>

(* The properties of Aggregation and SszWire; see there.                   *)
AggregateFaithful == A!AggregateFaithful
OneEncoding == part = "ssz" => S!OneEncoding
RootsIdentify == part = "ssz" => S!RootsIdentify
=============================================================================
