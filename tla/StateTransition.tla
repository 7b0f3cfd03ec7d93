-------------------------- MODULE StateTransition --------------------------
(***************************************************************************)
(* The consensus state and the state transition function                   *)
(* (chain/statetransition, types/state.go).                                *)
(*                                                                         *)
(* A root is a natural number that stands for a 32-byte hash: equal        *)
(* contents have equal roots, and the order of the numbers is the          *)
(* lexicographic order of the hashes.  Validators are 0 .. NumValidators-1.*)
(*                                                                         *)
(* A state is a record                                                     *)
(*   slot              Slot                                                *)
(*   header            LatestBlockHeader: its slot, the root it hashes to  *)
(*                     once its StateRoot is filled, whether it is filled  *)
(*   latestJustified   checkpoint [root, slot]                             *)
(*   latestFinalized   checkpoint [root, slot]                             *)
(*   hist              HistoricalBlockHashes; slot s is at index s + 1     *)
(*   justifiedSlots    bitlist                                             *)
(*   justRoots         JustificationsRoots, sorted                         *)
(*   justVotes         JustificationsValidators, bitlist                   *)
(* The configuration and the validator registry never change.              *)
(***************************************************************************)
EXTENDS Slots, Bitlist, FiniteSets, Sequences, SequencesExt, Functions

CONSTANT NumValidators

ASSUME NumValidatorsAssumption == NumValidators \in Nat \ {0}

Validators == 0 .. NumValidators - 1
Checkpoint(root, slot) == [root |-> root, slot |-> slot]

(* 2/3 of the validators, rounded up, without division.                    *)
Supermajority(votes) == 3 * Cardinality(votes) >= 2 * NumValidators

IsProposer(validator, slot) == slot % NumValidators = validator

GenesisState(root) ==
  [slot            |-> 0,
   header          |-> [slot |-> 0, root |-> root, filled |-> FALSE],
   latestJustified |-> Checkpoint(ZeroHash, 0),
   latestFinalized |-> Checkpoint(ZeroHash, 0),
   hist            |-> << >>,
   justifiedSlots  |-> EmptyBitlist,
   justRoots       |-> << >>,
   justVotes       |-> EmptyBitlist]

CheckpointType == [root : Nat, slot : Nat]

StateType ==
  [slot : Nat,
   header : [slot : Nat, root : Nat, filled : BOOLEAN],
   latestJustified : CheckpointType,
   latestFinalized : CheckpointType,
   hist : Seq(Nat),
   justifiedSlots : SUBSET Nat,
   justRoots : Seq(Nat),
   justVotes : SUBSET Nat]

-----------------------------------------------------------------------------
(* Slots and the block header.                                             *)

ProcessSlot(state) == [state EXCEPT !.header.filled = TRUE]

(* ProcessSlots fails (early return) unless targetSlot is in the future.   *)
CanProcessSlots(state, targetSlot) == state.slot < targetSlot

ProcessSlots(state, targetSlot) ==
  [ProcessSlot(state) EXCEPT !.slot = targetSlot]

(* A header whose StateRoot is still zero hashes to no block's root.       *)
HeaderRoot(header) == IF header.filled THEN header.root ELSE ZeroHash

(* A block is [slot, proposer, parent, body, stateRootOK]: stateRootOK     *)
(* says whether its StateRoot is the hash of its post-state.               *)
CanProcessBlockHeader(state, block) ==
  /\ block.slot = state.slot
  /\ block.slot > state.header.slot
  /\ IsProposer(block.proposer, state.slot)
  /\ block.parent = HeaderRoot(state.header)

(* Mutant: empty slots get a history entry but no bit.                     *)
ProcessBlockHeaderFewBits(state, block, root) ==
  LET numEmpty == block.slot - state.header.slot - 1
  IN  [state EXCEPT
        !.hist = @ \o <<block.parent>> \o [i \in 1 .. numEmpty |-> ZeroHash],
        !.justifiedSlots = AppendBit(@, state.header.slot = 0),
        !.header = [slot |-> block.slot, root |-> root, filled |-> FALSE]]

(* Mutant: empty slots are not filled in.                                  *)
ProcessBlockHeaderNoFill(state, block, root) ==
  [state EXCEPT
    !.hist = Append(@, block.parent),
    !.justifiedSlots = AppendBit(@, state.header.slot = 0),
    !.header = [slot |-> block.slot, root |-> root, filled |-> FALSE]]

(* root is the hash of the block.                                          *)
ProcessBlockHeader(state, block, root) ==
  LET first == state.header.slot = 0
      numEmpty == block.slot - state.header.slot - 1
      Anchor(c) == IF first THEN Checkpoint(block.parent, c.slot) ELSE c
  IN  [state EXCEPT
        !.latestJustified = Anchor(@),
        !.latestFinalized = Anchor(@),
        !.hist = @ \o <<block.parent>> \o [i \in 1 .. numEmpty |-> ZeroHash],
        !.justifiedSlots = AppendZeros(AppendBit(@, first), numEmpty),
        !.header = [slot |-> block.slot, root |-> root, filled |-> FALSE]]

-----------------------------------------------------------------------------
(* The SSZ form of the pending votes and the working map                   *)
(* root -> set of validators that voted for it.                            *)

(* The root with i - 1 smaller ones is the i-th of the sorted list.        *)
sortedJustificationRoots(justifications) ==
  LET S == DOMAIN justifications
  IN  [i \in 1 .. Cardinality(S) |->
         CHOOSE r \in S : Cardinality({q \in S : q < r}) = i - 1]

(* Mutant: the votes of neighbouring roots overlap by one bit.             *)
flattenVotesOverlap(sortedRoots, justifications) ==
  (UNION {{(i - 1) * (NumValidators - 1) + v : v \in justifications[sortedRoots[i]]} :
            i \in DOMAIN sortedRoots})
  \union {Len(sortedRoots) * NumValidators}

flattenVotes(sortedRoots, justifications) ==
  (UNION {{(i - 1) * NumValidators + v : v \in justifications[sortedRoots[i]]} :
            i \in DOMAIN sortedRoots})
  \union {Len(sortedRoots) * NumValidators}

(* Mutant: rows and columns of the vote matrix are swapped.                *)
DeserializeTransposed(state) ==
  [r \in Range(state.justRoots) |->
     LET i == CHOOSE i \in DOMAIN state.justRoots : state.justRoots[i] = r
     IN  {v \in Validators :
            GetBit(state.justVotes, (i - 1) + v * NumValidators)}]

(* A root listed twice would keep the votes of its last occurrence; the    *)
(* serializer never lists one twice.                                       *)
Deserialize(state) ==
  [r \in Range(state.justRoots) |->
     LET i == CHOOSE i \in DOMAIN state.justRoots : state.justRoots[i] = r
     IN  {v \in Validators :
            GetBit(state.justVotes, (i - 1) * NumValidators + v)}]

-----------------------------------------------------------------------------
(* One iteration of the loop of ProcessAttestations.  w holds the loop's   *)
(* working variables [justifications, justifiedSlots, latestJustified,     *)
(* latestFinalized], state the state the loop started from.                *)

SlotJustified(justifiedSlots, slot) ==
  slot < BitlistLen(justifiedSlots) /\ GetBit(justifiedSlots, slot)

InHistory(state, c) ==
  c.slot < Len(state.hist) /\ state.hist[c.slot + 1] = c.root

(* Mutants of the guards: the validator index is not checked,              *)
AttestationCountsAnyValidator(state, w, att) ==
  /\ att.target.slot > att.source.slot
  /\ SlotJustified(w.justifiedSlots, att.source.slot)
  /\ ~ SlotJustified(w.justifiedSlots, att.target.slot)
  /\ InHistory(state, att.source) /\ InHistory(state, att.target)
  /\ IsJustifiableAfter(att.target.slot, state.latestFinalized.slot)

(* the target need not be of this branch,                                  *)
AttestationCountsAnyTarget(state, w, att) ==
  /\ att.target.slot > att.source.slot
  /\ SlotJustified(w.justifiedSlots, att.source.slot)
  /\ ~ SlotJustified(w.justifiedSlots, att.target.slot)
  /\ InHistory(state, att.source) /\ att.target.slot < Len(state.hist)
  /\ IsJustifiableAfter(att.target.slot, state.latestFinalized.slot)
  /\ att.validator \in Validators

(* the target may be justified already.                                    *)
AttestationCountsAgain(state, w, att) ==
  /\ att.target.slot > att.source.slot
  /\ SlotJustified(w.justifiedSlots, att.source.slot)
  /\ InHistory(state, att.source) /\ InHistory(state, att.target)
  /\ IsJustifiableAfter(att.target.slot, state.latestFinalized.slot)
  /\ att.validator \in Validators

AttestationCounts(state, w, att) ==
  /\ att.target.slot > att.source.slot
  /\ SlotJustified(w.justifiedSlots, att.source.slot)
  /\ ~ SlotJustified(w.justifiedSlots, att.target.slot)
  /\ InHistory(state, att.source)
  /\ InHistory(state, att.target)
  /\ IsJustifiableAfter(att.target.slot, state.latestFinalized.slot)
  /\ att.validator \in Validators

VotesFor(justifications, root) ==
  IF root \in DOMAIN justifications THEN justifications[root] ELSE {}

HasJustifiableGap(src, tgt, finalizedSlot) ==
  \E s \in src + 1 .. tgt - 1 : IsJustifiableAfter(s, finalizedSlot)

RecordVote(w, att) ==
  [justifications  |->
     [r \in DOMAIN w.justifications \union {att.target.root} |->
        VotesFor(w.justifications, r)
          \union (IF r = att.target.root THEN {att.validator} ELSE {})],
   justifiedSlots  |-> w.justifiedSlots,
   latestJustified |-> w.latestJustified,
   latestFinalized |-> w.latestFinalized]

(* Mutant: the bitlist is rebuilt and forgets what was justified before.   *)
JustifyTargetForgets(state, w, att) ==
  [w EXCEPT
    !.justifiedSlots = SetBit(MakeBitlist(BitlistLen(@)), att.target.slot, TRUE),
    !.latestJustified = att.target]

JustifyTarget(state, w, att) ==
  LET tgt == att.target.slot
      len == BitlistLen(w.justifiedSlots)
      padded == AppendZeros(w.justifiedSlots,
                            IF len <= tgt THEN tgt + 1 - len ELSE 0)
  IN  [justifications  |-> Restrict(w.justifications,
                             DOMAIN w.justifications \ {att.target.root}),
       justifiedSlots  |-> SetBit(padded, tgt, TRUE),
       latestJustified |-> att.target,
       latestFinalized |->
         IF HasJustifiableGap(att.source.slot, tgt, state.latestFinalized.slot)
         THEN w.latestFinalized ELSE att.source]

(* A vote that was recorded before changes nothing, even if the threshold  *)
(* is met.                                                                 *)
ApplyAttestation(state, w, att) ==
  LET votes == VotesFor(w.justifications, att.target.root)
  IN  IF ~ AttestationCounts(state, w, att) \/ att.validator \in votes THEN w
      ELSE IF ~ Supermajority(votes \union {att.validator}) THEN RecordVote(w, att)
      ELSE JustifyTarget(state, w, att)

BeginAttestations(state) ==
  [justifications  |-> Deserialize(state),
   justifiedSlots  |-> state.justifiedSlots,
   latestJustified |-> state.latestJustified,
   latestFinalized |-> state.latestFinalized]

EndAttestations(state, w) ==
  LET roots == sortedJustificationRoots(w.justifications)
  IN  [state EXCEPT
        !.justifiedSlots  = w.justifiedSlots,
        !.latestJustified = w.latestJustified,
        !.latestFinalized = w.latestFinalized,
        !.justRoots       = roots,
        !.justVotes       = flattenVotes(roots, w.justifications)]

ProcessAttestations(state, attestations) ==
  EndAttestations(state,
    FoldLeft(LAMBDA w, att : ApplyAttestation(state, w, att),
             BeginAttestations(state), attestations))

-----------------------------------------------------------------------------
ProcessBlock(state, block, root) ==
  ProcessAttestations(ProcessBlockHeader(state, block, root), block.body)

CanStateTransition(state, block) ==
  /\ CanProcessSlots(state, block.slot)
  /\ CanProcessBlockHeader(ProcessSlots(state, block.slot), block)
  /\ block.stateRootOK

StateTransition(state, block, root) ==
  ProcessBlock(ProcessSlots(state, block.slot), block, root)
=============================================================================
