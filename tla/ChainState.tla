----------------------------- MODULE ChainState -----------------------------
(***************************************************************************)
(* The consensus state along one branch of the chain: the state transition *)
(* taken apart into its steps, so that a block body is any sequence of     *)
(* attestations of any length.  StartBlock is ProcessSlots followed by     *)
(* ProcessBlockHeader and the deserialization of the pending votes, Attest *)
(* one iteration of the loop of ProcessAttestations, EndBlock the          *)
(* serialization.  Nothing is assumed about who cast the attestations: any *)
(* validator may attest to any source and target, any number of times.     *)
(***************************************************************************)
EXTENDS StateTransition

CONSTANTS
  MaxSlot,     \* bound: no block is later than this slot
  MaxEmpty,    \* bound: empty slots between two blocks
  RootAt,      \* the root of the branch's block at a slot, if it has one
  Checkpoints  \* the checkpoints attestations name as source and target

ASSUME ChainStateAssumption ==
  /\ MaxSlot \in Nat
  /\ MaxEmpty \in Nat
  /\ RootAt \in [0 .. MaxSlot -> Nat \ {ZeroHash}]
  /\ \A s, t \in 0 .. MaxSlot : RootAt[s] = RootAt[t] => s = t
  /\ Checkpoints \subseteq [root : Nat, slot : Nat]

VARIABLES
  state,   \* the state after the last block, during a block: after its header
  work,    \* the working variables of ProcessAttestations
  inBlock, \* TRUE between StartBlock and EndBlock
  cast     \* ghost: <<validator, target slot>> of every valid attestation so far

vars == <<state, work, inBlock, cast>>

(* One validator index is out of range.                                    *)
Attestations ==
  [validator : 0 .. NumValidators, source : Checkpoints, target : Checkpoints]

Init ==
  /\ state = GenesisState(RootAt[0])
  /\ work = BeginAttestations(GenesisState(RootAt[0]))
  /\ inBlock = FALSE
  /\ cast = {}

(* The proposer check of ProcessBlockHeader fixes the proposer of a slot,  *)
(* the parent check the parent root: the slot is what is left open.        *)
StartBlock(slot) ==
  /\ ~ inBlock
  /\ slot <= MaxSlot
  /\ slot <= state.header.slot + 1 + MaxEmpty
  /\ CanProcessSlots(state, slot)
  /\ LET advanced == ProcessSlots(state, slot)
         block == [slot |-> slot, proposer |-> slot % NumValidators,
                   parent |-> HeaderRoot(advanced.header)]
     IN  /\ CanProcessBlockHeader(advanced, block)
         /\ state' = ProcessBlockHeader(advanced, block, RootAt[slot])
  /\ work' = BeginAttestations(state')
  /\ inBlock' = TRUE
  /\ UNCHANGED cast

Attest(att) ==
  /\ inBlock
  /\ work' = ApplyAttestation(state, work, att)
  /\ cast' = IF AttestationCounts(state, work, att)
             THEN cast \union {<<att.validator, att.target.slot>>} ELSE cast
  /\ UNCHANGED <<state, inBlock>>

EndBlock ==
  /\ inBlock
  /\ state' = EndAttestations(state, work)
  /\ inBlock' = FALSE
  /\ UNCHANGED <<work, cast>>

Next ==
  \/ \E slot \in 1 .. MaxSlot : StartBlock(slot)
  \/ \E att \in Attestations : Attest(att)
  \/ EndBlock

Spec == Init /\ [][Next]_vars
-----------------------------------------------------------------------------
(* Properties.                                                             *)

(* Type invariant. *)
TypeOK ==
  /\ state \in StateType
  /\ inBlock \in BOOLEAN
  /\ work.justifiedSlots \subseteq Nat
  /\ work.latestJustified \in CheckpointType
  /\ work.latestFinalized \in CheckpointType
  /\ DOMAIN work.justifications \subseteq Nat
  /\ IsFiniteSet(DOMAIN work.justifications)
  /\ \A r \in DOMAIN work.justifications :
       work.justifications[r] \subseteq Validators
  /\ cast \subseteq Validators \X Nat

(* The history has exactly one entry per slot before the latest block, and *)
(* the justified-slots bitlist exactly one bit per entry: the padding loop *)
(* of ProcessAttestations and the sentinel-reading GetBit never matter.    *)
HistoryAligned ==
  /\ Len(state.hist) = state.header.slot
  /\ BitlistLen(state.justifiedSlots) = state.header.slot
  /\ inBlock => BitlistLen(work.justifiedSlots) = state.header.slot

(* The finalized and the justified checkpoint lie on this branch, at slots *)
(* whose bit is set: what ProcessAttestations relies on when it refuses a  *)
(* second justification of the finalized slot.                             *)
CheckpointsJustified ==
  state.header.slot > 0 =>
    \A c \in {state.latestJustified, state.latestFinalized} :
      InHistory(state, c) /\ SlotJustified(state.justifiedSlots, c.slot)

(* Pending votes are short of a supermajority and are for slots that are   *)
(* not yet justified: a quorum is never left behind in the working map.    *)
PendingShort ==
  \A r \in DOMAIN work.justifications :
    /\ work.justifications[r] # {}
    /\ ~ Supermajority(work.justifications[r])
    /\ \E s \in 1 .. Len(state.hist) :
         state.hist[s] = r /\ ~ SlotJustified(work.justifiedSlots, s - 1)

(* Serializing the working map and deserializing it at the next block gives*)
(* the same votes: sorting and packing lose and mix nothing.               *)
VotesSurviveSerialization ==
  ~ inBlock => Deserialize(state) = work.justifications

(* Every slot of a block that is justified after genesis was voted for, as *)
(* a target, by two thirds of the validators, over any number of blocks    *)
(* and serializations.                                                     *)
VotedByQuorum(s) == Supermajority({v \in Validators : <<v, s>> \in cast})

BlocksJustifiedByQuorum ==
  \A s \in 1 .. BitlistLen(work.justifiedSlots) - 1 :
    SlotJustified(work.justifiedSlots, s) /\ state.hist[s + 1] # ZeroHash =>
      VotedByQuorum(s)

(* Votes for blocks are counted right: a quorum justifies at once, and     *)
(* nothing less does.                                                      *)
QuorumsCounted == PendingShort /\ BlocksJustifiedByQuorum

(* Every justified slot has its quorum, the empty ones included.           *)
JustifiedByQuorum ==
  \A s \in 1 .. BitlistLen(work.justifiedSlots) - 1 :
    SlotJustified(work.justifiedSlots, s) => VotedByQuorum(s)

(* From one block to the next the finalized slot never decreases.          *)
FinalityNeverReverts ==
  [][state'.latestFinalized.slot >= state.latestFinalized.slot]_vars

(* A justified slot stays justified, and what a block newly justifies lies *)
(* after the slot that was final when the block began.                     *)
JustificationOnlyAhead ==
  [][\A s \in 0 .. state.header.slot - 1 :
       LET before == SlotJustified(state.justifiedSlots, s)
           after == SlotJustified(state'.justifiedSlots, s)
       IN  /\ before => after
           /\ after /\ ~ before => s > state.latestFinalized.slot]_vars
=============================================================================
