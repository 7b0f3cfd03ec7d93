-------------------------- MODULE ChainStateProofs --------------------------
(***************************************************************************)
(* Proofs about ChainState, for every number of validators, every naming   *)
(* of the blocks and every set of checkpoints that attestations may name.  *)
(* What the single operators of the state transition do is proved in       *)
(* StoreProofs.                                                            *)
(***************************************************************************)
EXTENDS ChainState, StoreProofs

-----------------------------------------------------------------------------
(* The inductive invariant.                                                *)

(* The state between two blocks, and during a block after its header.      *)
StateInv == GoodState(state)

(* The working variables of the loop against the state it started from.    *)
WorkInv(w) == GoodWork(state, w)

IndInv ==
  /\ TypeOK
  /\ StateInv
  /\ inBlock => state.header.slot > 0 /\ WorkInv(work)

(* Checkpoints of attestations.                                            *)
LEMMA AttestationType ==
  ASSUME NEW att \in Attestations
  PROVE  /\ VoteType(att)
         /\ att.source \in CheckpointType
         /\ att.target \in CheckpointType
BY ChainStateAssumption DEF Attestations, CheckpointType, VoteType

-----------------------------------------------------------------------------
(* The actions.                                                            *)

(* The header of the branch's block at slot, as StartBlock builds it.      *)
BlockAt(slot) ==
  [slot |-> slot, proposer |-> slot % NumValidators,
   parent |-> HeaderRoot(ProcessSlots(state, slot).header)]

(* StartBlock applies that header: it passes the checks on slot and parent.*)
LEMMA StartBlockHeader ==
  ASSUME NEW slot \in 1 .. MaxSlot, TypeOK, StartBlock(slot)
  PROVE  /\ NextBlock(state, BlockAt(slot), RootAt[slot])
         /\ state' = AfterHeader(state, BlockAt(slot), RootAt[slot])
<1>1. state \in StateType /\ slot \in Nat /\ RootAt[slot] \in Nat
  BY ChainStateAssumption DEF TypeOK
<1>2. /\ ProcessSlots(state, slot).header.filled = TRUE
      /\ ProcessSlots(state, slot).header.root = state.header.root
  BY <1>1, AdvancedFields
<1>3. BlockAt(slot).parent = state.header.root /\ BlockAt(slot).slot = slot
  BY <1>2 DEF BlockAt, HeaderRoot
<1>4. CanProcessSlots(state, BlockAt(slot).slot)
  BY <1>3 DEF StartBlock
<1>5. state' = ProcessBlockHeader(ProcessSlots(state, slot), BlockAt(slot),
                                  RootAt[slot])
  BY DEF StartBlock, BlockAt
<1> QED
  BY <1>1, <1>3, <1>4, <1>5 DEF NextBlock, AfterHeader

(* StartBlock, field by field.                                             *)
LEMMA StartBlockFields ==
  ASSUME NEW slot \in 1 .. MaxSlot, TypeOK, StateInv, StartBlock(slot)
  PROVE  LET first == state.header.slot = 0
             k == slot - state.header.slot - 1
             p == state.header.root
         IN  /\ k \in Nat
             /\ state' \in StateType
             /\ state'.slot = slot
             /\ state'.header.slot = slot
             /\ state'.hist = Extended(state.hist, p, k)
             /\ state'.justifiedSlots
                  = HeaderBitlist(state.justifiedSlots, state.header.slot, k)
             /\ state'.latestJustified =
                  IF first THEN Checkpoint(p, state.latestJustified.slot)
                  ELSE state.latestJustified
             /\ state'.latestFinalized =
                  IF first THEN Checkpoint(p, state.latestFinalized.slot)
                  ELSE state.latestFinalized
             /\ state'.header.root = RootAt[slot]
             /\ state'.justRoots = state.justRoots
             /\ state'.justVotes = state.justVotes
<1> DEFINE block == BlockAt(slot)
           root == RootAt[slot]
<1>1. state \in StateType /\ GoodState(state)
  BY DEF TypeOK, StateInv
<1>2. NextBlock(state, block, root) /\ state' = AfterHeader(state, block, root)
  BY StartBlockHeader
<1>3. block.slot = slot
  BY DEF BlockAt
<1> HIDE DEF block, root
<1>4. IsAfterHeader(state, block, root, state')
  BY <1>1, <1>2, HeaderFields
<1> QED
  BY <1>3, <1>4 DEF IsAfterHeader, EmptySlots, root

(* The genesis state satisfies the invariant.                              *)
LEMMA InitInv == Init => IndInv
<1> SUFFICES ASSUME Init PROVE IndInv
  OBVIOUS
<1>1. RootAt[0] \in Nat
  BY ChainStateAssumption
<1>2. state = GenesisState(RootAt[0]) /\ work = BeginAttestations(state)
      /\ inBlock = FALSE /\ cast = {}
  BY DEF Init
<1>3. state \in StateType
  <2>1. << >> \in Seq(Nat) /\ EmptyBitlist \in SUBSET Nat
    BY DEF EmptyBitlist
  <2> QED
    BY <1>1, <1>2, <2>1
    DEF GenesisState, StateType, CheckpointType, Checkpoint, ZeroHash
<1>4. WorkType(work)
  <2>1. /\ work.justifications = Deserialize(state)
        /\ work.justifiedSlots = state.justifiedSlots
        /\ work.latestJustified = state.latestJustified
        /\ work.latestFinalized = state.latestFinalized
    BY <1>2 DEF BeginAttestations
  <2>2. /\ DOMAIN Deserialize(state) \in SUBSET Nat
        /\ IsFiniteSet(DOMAIN Deserialize(state))
        /\ \A r \in DOMAIN Deserialize(state) :
             Deserialize(state)[r] \subseteq Validators
    BY <1>3, DeserializeShape
  <2> QED
    BY <1>3, <2>1, <2>2 DEF WorkType, StateType
<1>5. TypeOK
  BY <1>2, <1>3, <1>4 DEF TypeOK, WorkType
<1>6. StateInv
  BY <1>2 DEF StateInv, GoodState, GenesisState, Checkpoint, EmptyBitlist, IsBitlist
<1> QED
  BY <1>2, <1>5, <1>6 DEF IndInv

(* The header of a new block.                                              *)
LEMMA StartBlockInv ==
  ASSUME NEW slot \in 1 .. MaxSlot, IndInv, StartBlock(slot)
  PROVE  /\ IndInv'
         /\ state'.latestFinalized.slot = state.latestFinalized.slot
         /\ \A s \in 0 .. state.header.slot - 1 :
              s \in state'.justifiedSlots <=> s \in state.justifiedSlots
<1> DEFINE block == BlockAt(slot)
           root == RootAt[slot]
<1>1. TypeOK /\ StateInv /\ state \in StateType /\ GoodState(state)
  BY DEF IndInv, TypeOK, StateInv
<1>2. NextBlock(state, block, root) /\ state' = AfterHeader(state, block, root)
  BY <1>1, StartBlockHeader
<1>3. state' \in StateType
  BY <1>1, StartBlockFields
<1> HIDE DEF block, root
<1>4. /\ GoodState(state') /\ state'.header.slot > 0
      /\ state'.latestFinalized.slot = state.latestFinalized.slot
      /\ \A s \in 0 .. state.header.slot - 1 :
           s \in state'.justifiedSlots <=> s \in state.justifiedSlots
  BY <1>1, <1>2, HeaderGood
<1>5. work' = BeginAttestations(state') /\ inBlock' = TRUE /\ cast' = cast
  BY DEF StartBlock
<1>6. WorkType(work') /\ GoodWork(state', work')
  BY <1>3, <1>4, <1>5, BeginGood
<1>7. TypeOK'
  BY <1>1, <1>3, <1>5, <1>6 DEF TypeOK, WorkType
<1> QED
  BY <1>4, <1>6, <1>7 DEF IndInv, StateInv, WorkInv

(* One attestation.                                                        *)
LEMMA AttestInv ==
  ASSUME NEW att \in Attestations, IndInv, Attest(att)
  PROVE  IndInv' /\ state' = state
<1>1. TypeOK /\ StateInv /\ WorkInv(work) /\ state.header.slot > 0
  BY DEF IndInv, Attest
<1>2. WorkType(work)
  BY <1>1 DEF TypeOK, WorkType
<1>3. WorkType(work') /\ WorkInv(work')
  BY <1>1, <1>2, AttestationType, ApplyAttestationInv
  DEF Attest, TypeOK, StateInv, WorkInv
<1>4. state' = state /\ inBlock' = inBlock
  BY DEF Attest
<1>5. cast' \subseteq Validators \X Nat
  <2>1. att.target.slot \in Nat
    BY AttestationType DEF CheckpointType
  <2>2. AttestationCounts(state, work, att) => att.validator \in Validators
    BY DEF AttestationCounts
  <2> QED
    BY <1>1, <2>1, <2>2 DEF Attest, TypeOK
<1>6. TypeOK'
  BY <1>1, <1>3, <1>4, <1>5 DEF TypeOK, WorkType
<1>7. StateInv' /\ WorkInv(work)'
  BY <1>1, <1>3, <1>4 DEF StateInv, GoodState, WorkInv, GoodWork
<1> QED
  BY <1>1, <1>4, <1>6, <1>7 DEF IndInv

(* The end of a block.                                                     *)
LEMMA EndBlockInv ==
  ASSUME IndInv, EndBlock
  PROVE  /\ IndInv'
         /\ state'.header.slot = state.header.slot
         /\ state'.justifiedSlots = work.justifiedSlots
         /\ state'.latestFinalized = work.latestFinalized
         /\ WorkInv(work)
<1>1. TypeOK /\ StateInv /\ WorkInv(work) /\ state.header.slot > 0
      /\ state \in StateType
  BY DEF IndInv, EndBlock, TypeOK
<1>2. WorkType(work)
  BY <1>1 DEF TypeOK, WorkType
<1>3. state' = EndAttestations(state, work)
  BY DEF EndBlock
<1>4. /\ state' \in StateType /\ GoodState(state')
      /\ state'.header = state.header
      /\ state'.justifiedSlots = work.justifiedSlots
      /\ state'.latestFinalized = work.latestFinalized
  BY <1>1, <1>2, <1>3, EndFields DEF StateInv, WorkInv
<1>5. work' = work /\ cast' = cast /\ inBlock' = FALSE
  BY DEF EndBlock
<1>6. TypeOK'
  BY <1>1, <1>4, <1>5 DEF TypeOK
<1> QED
  BY <1>1, <1>4, <1>5, <1>6 DEF IndInv, StateInv

-----------------------------------------------------------------------------
(* The invariant holds in every reachable state.                           *)
THEOREM Invariance == Spec => []IndInv
<1>1. Init => IndInv
  BY InitInv
<1>2. IndInv /\ [Next]_vars => IndInv'
  <2> SUFFICES ASSUME IndInv, [Next]_vars PROVE IndInv'
    OBVIOUS
  <2>1. ASSUME NEW slot \in 1 .. MaxSlot, StartBlock(slot) PROVE IndInv'
    BY <2>1, StartBlockInv
  <2>2. ASSUME NEW att \in Attestations, Attest(att) PROVE IndInv'
    BY <2>2, AttestInv
  <2>3. CASE EndBlock
    BY <2>3, EndBlockInv
  <2>4. CASE UNCHANGED vars
    BY <2>4 DEF vars, IndInv, TypeOK, StateInv, GoodState, WorkInv, GoodWork
  <2> QED
    BY <2>1, <2>2, <2>3, <2>4 DEF Next
<1> QED
  BY <1>1, <1>2, PTL DEF Spec

(* Type correctness of the state transition: every state a block leaves is *)
(* well formed, whatever the attestations in it.                           *)
THEOREM TypeCorrect == Spec => []TypeOK
<1>1. IndInv => TypeOK
  BY DEF IndInv
<1> QED
  BY <1>1, Invariance, PTL

(* The history and the justified-slots bitlist stay as long as the chain:  *)
(* ProcessBlockHeader appends to both in step, and the padding loop of     *)
(* ProcessAttestations never runs.                                         *)
THEOREM HistoryStaysAligned == Spec => []HistoryAligned
<1>1. IndInv => HistoryAligned
  <2> SUFFICES ASSUME IndInv PROVE HistoryAligned
    OBVIOUS
  <2>1. state.header.slot \in Nat
    BY DEF IndInv, TypeOK, StateType
  <2>2. BitlistLen(state.justifiedSlots) = state.header.slot
    BY <2>1, BitlistLenIs DEF IndInv, StateInv, GoodState
  <2>3. inBlock => BitlistLen(work.justifiedSlots) = state.header.slot
    BY <2>1, BitlistLenIs DEF IndInv, WorkInv, GoodWork
  <2> QED
    BY <2>2, <2>3 DEF HistoryAligned, IndInv, StateInv, GoodState
<1> QED
  BY <1>1, Invariance, PTL

(* The justified and the finalized checkpoint name a block of the branch   *)
(* at a slot whose bit is set.                                             *)
THEOREM CheckpointsStayJustified == Spec => []CheckpointsJustified
<1>1. IndInv => CheckpointsJustified
  <2> SUFFICES ASSUME IndInv, state.header.slot > 0,
                      NEW c \in {state.latestJustified, state.latestFinalized}
               PROVE  InHistory(state, c) /\ SlotJustified(state.justifiedSlots, c.slot)
    BY DEF CheckpointsJustified
  <2>1. state.header.slot \in Nat
    BY DEF IndInv, TypeOK, StateType
  <2>2. BitlistLen(state.justifiedSlots) = state.header.slot
    BY <2>1, BitlistLenIs DEF IndInv, StateInv, GoodState
  <2>3. OnBranch(state, state.justifiedSlots, c)
    BY DEF IndInv, StateInv, GoodState
  <2> QED
    BY <2>2, <2>3 DEF OnBranch, SlotJustified, GetBit, InHistory, IndInv, StateInv, GoodState
<1> QED
  BY <1>1, Invariance, PTL

(* No block, whatever it contains, takes the finalized slot of its branch  *)
(* back.                                                                   *)
THEOREM FinalityIsMonotone == Spec => FinalityNeverReverts
<1>1. ASSUME IndInv, [Next]_vars
      PROVE  state'.latestFinalized.slot >= state.latestFinalized.slot
  <2>0. state.latestFinalized.slot \in Nat
    BY <1>1 DEF IndInv, TypeOK, StateType, CheckpointType
  <2>1. ASSUME NEW slot \in 1 .. MaxSlot, StartBlock(slot)
        PROVE  state'.latestFinalized.slot >= state.latestFinalized.slot
    BY <1>1, <2>0, <2>1, StartBlockInv
  <2>2. ASSUME NEW att \in Attestations, Attest(att)
        PROVE  state'.latestFinalized.slot >= state.latestFinalized.slot
    BY <1>1, <2>0, <2>2, AttestInv
  <2>3. CASE EndBlock
    BY <1>1, <2>0, <2>3, EndBlockInv DEF WorkInv, GoodWork
  <2>4. CASE UNCHANGED vars
    BY <2>0, <2>4 DEF vars
  <2> QED
    BY <1>1, <2>1, <2>2, <2>3, <2>4 DEF Next
<1> QED
  BY <1>1, Invariance, PTL DEF Spec, FinalityNeverReverts

(* A justified slot stays justified, and only slots after the finalized    *)
(* one become justified.                                                   *)
THEOREM JustificationIsAhead == Spec => JustificationOnlyAhead
<1> DEFINE Ahead == \A s \in 0 .. state.header.slot - 1 :
             LET before == SlotJustified(state.justifiedSlots, s)
                 after == SlotJustified(state'.justifiedSlots, s)
             IN  /\ before => after
                 /\ after /\ ~ before => s > state.latestFinalized.slot
<1>1. ASSUME IndInv, IndInv', [Next]_vars
      PROVE  Ahead
  <2>0. /\ state.header.slot \in Nat /\ state'.header.slot \in Nat
        /\ BitlistLen(state.justifiedSlots) = state.header.slot
        /\ BitlistLen(state'.justifiedSlots) = state'.header.slot
    <3>1. state.header.slot \in Nat /\ state'.header.slot \in Nat
      BY <1>1 DEF IndInv, TypeOK, StateType
    <3>2. /\ IsBitlist(state.justifiedSlots, state.header.slot)
          /\ IsBitlist(state'.justifiedSlots, state'.header.slot)
      BY <1>1 DEF IndInv, StateInv, GoodState
    <3> QED
      BY <3>1, <3>2, BitlistLenIs
  <2>1. ASSUME NEW slot \in 1 .. MaxSlot, StartBlock(slot) PROVE Ahead
    <3>1. /\ state'.header.slot > state.header.slot
          /\ \A s \in 0 .. state.header.slot - 1 :
               s \in state'.justifiedSlots <=> s \in state.justifiedSlots
      <4>1. TypeOK /\ StateInv
        BY <1>1 DEF IndInv
      <4>2. state'.header.slot = slot /\ slot - state.header.slot - 1 \in Nat
        BY <2>1, <4>1, StartBlockFields
      <4>3. slot \in Int
        BY ChainStateAssumption
      <4> QED
        BY <1>1, <2>0, <2>1, <4>2, <4>3, StartBlockInv
    <3> QED
      BY <2>0, <3>1 DEF SlotJustified, GetBit
  <2>2. ASSUME NEW att \in Attestations, Attest(att) PROVE Ahead
    BY <1>1, <2>2, AttestInv
  <2>3. CASE EndBlock
    <3>1. /\ state'.header.slot = state.header.slot
          /\ state.justifiedSlots \subseteq state'.justifiedSlots
          /\ \A s \in state'.justifiedSlots \ state.justifiedSlots :
               s > state.latestFinalized.slot
      BY <1>1, <2>3, EndBlockInv DEF WorkInv, GoodWork
    <3> QED
      BY <2>0, <3>1 DEF SlotJustified, GetBit
  <2>4. CASE UNCHANGED vars
    BY <2>4 DEF vars
  <2> QED
    BY <1>1, <2>1, <2>2, <2>3, <2>4 DEF Next
<1> QED
  BY <1>1, Invariance, PTL DEF Spec, JustificationOnlyAhead

-----------------------------------------------------------------------------
(* The votes: what the working map, the bits and the history say together. *)

(* The history names the branch's own blocks, each at its slot, and        *)
(* ZeroHash at the empty ones, so that a block's root names one slot.      *)
BranchRoots ==
  /\ state.header.slot <= MaxSlot
  /\ state.header.root = RootAt[state.header.slot]
  /\ \A i \in 1 .. Len(state.hist) : state.hist[i] \in {ZeroHash, RootAt[i - 1]}

(* Pending votes in w: for each root some, fewer than a quorum, with a     *)
(* slot of the history that is not justified; and whoever voted for a      *)
(* block had a valid attestation that names the block's slot.              *)
PendingInv(w) ==
  /\ w.justifications \in [DOMAIN w.justifications -> SUBSET Validators]
  /\ \A r \in DOMAIN w.justifications :
       /\ w.justifications[r] # {}
       /\ ~ Supermajority(w.justifications[r])
       /\ \E s \in 1 .. Len(state.hist) :
            state.hist[s] = r /\ s - 1 \notin w.justifiedSlots
       /\ r # ZeroHash => \A s \in 1 .. Len(state.hist) : state.hist[s] = r =>
            \A v \in w.justifications[r] : <<v, s - 1>> \in cast

(* A set bit is a quorum.                                                  *)
QuorumInv(w) ==
  \A s \in 1 .. state.header.slot - 1 :
    s \in w.justifiedSlots /\ state.hist[s + 1] # ZeroHash => VotedByQuorum(s)

VoteInv ==
  /\ BranchRoots
  /\ PendingInv(work)
  /\ QuorumInv(work)
  /\ ~ inBlock => /\ Deserialize(state) = work.justifications
                  /\ state.justifiedSlots = work.justifiedSlots

(* More voters are a quorum if fewer are.                                  *)
LEMMA SupermajorityMonotone ==
  ASSUME NEW A \in SUBSET Validators, NEW B \in SUBSET A, Supermajority(B)
  PROVE  Supermajority(A)
<1>1. NumValidators \in Nat
  BY NumValidatorsAssumption
<1>2. IsFiniteSet(Validators)
  BY <1>1, FS_Interval DEF Validators
<1>3. IsFiniteSet(A)
  BY <1>2, FS_Subset
<1>4. IsFiniteSet(B) /\ Cardinality(B) <= Cardinality(A)
  BY <1>3, FS_Subset
<1>5. Cardinality(A) \in Nat /\ Cardinality(B) \in Nat
  BY <1>3, <1>4, FS_CardinalityType
<1> QED
  BY <1>1, <1>4, <1>5 DEF Supermajority

(* A block's root is in the history once.                                  *)
LEMMA OneSlotPerRoot ==
  ASSUME IndInv, BranchRoots, NEW i \in 1 .. Len(state.hist),
         NEW k \in 1 .. Len(state.hist), state.hist[i] = state.hist[k],
         state.hist[i] # ZeroHash
  PROVE  i = k
<1>1. state.header.slot \in Nat /\ Len(state.hist) = state.header.slot
      /\ MaxSlot \in Nat
  BY ChainStateAssumption DEF IndInv, TypeOK, StateType, StateInv, GoodState
<1>2. i - 1 \in 0 .. MaxSlot /\ k - 1 \in 0 .. MaxSlot
  BY <1>1 DEF BranchRoots
<1>3. RootAt[i - 1] = RootAt[k - 1]
  BY DEF BranchRoots
<1>4. i - 1 = k - 1
  BY <1>2, <1>3, ChainStateAssumption
<1> QED
  BY <1>1, <1>4

(* Genesis.                                                                *)
LEMMA InitVotes == Init => VoteInv
<1> SUFFICES ASSUME Init PROVE VoteInv
  OBVIOUS
<1>1. /\ state.header.slot = 0 /\ state.header.root = RootAt[0]
      /\ state.hist = << >> /\ state.justRoots = << >>
      /\ work.justifications = Deserialize(state)
      /\ work.justifiedSlots = state.justifiedSlots
  BY DEF Init, GenesisState, BeginAttestations
<1>2. Len(state.hist) = 0 /\ MaxSlot \in Nat
  BY <1>1, ChainStateAssumption
<1>3. Range(state.justRoots) = {}
  BY <1>1 DEF Range
<1>4. /\ DOMAIN Deserialize(state) = {}
      /\ Deserialize(state) \in [{} -> SUBSET Validators]
  BY <1>3 DEF Deserialize
<1>5. PendingInv(work)
  BY <1>1, <1>4 DEF PendingInv
<1> QED
  BY <1>1, <1>2, <1>5 DEF VoteInv, BranchRoots, QuorumInv

(* A block header extends the history and touches no vote.                 *)
LEMMA StartBlockVotes ==
  ASSUME NEW slot \in 1 .. MaxSlot, IndInv, VoteInv, StartBlock(slot)
  PROVE  VoteInv'
<1> DEFINE n == state.header.slot
           k == slot - n - 1
           p == state.header.root
           h == state'.hist
           js == state'.justifiedSlots
           j == work.justifications
<1>1. TypeOK /\ StateInv /\ state \in StateType /\ ~ inBlock
  BY DEF IndInv, TypeOK, StartBlock
<1>2. /\ n \in Nat /\ p \in Nat /\ state.hist \in Seq(Nat) /\ slot \in Nat
      /\ MaxSlot \in Nat /\ slot <= MaxSlot /\ Len(state.hist) = n
      /\ IsBitlist(state.justifiedSlots, n)
  BY <1>1, ChainStateAssumption DEF StateType, StateInv, GoodState
<1>3. /\ k \in Nat
      /\ state'.header.slot = slot /\ state'.header.root = RootAt[slot]
      /\ h = Extended(state.hist, p, k)
      /\ js = HeaderBitlist(state.justifiedSlots, n, k)
      /\ state'.justRoots = state.justRoots
      /\ state'.justVotes = state.justVotes
  BY <1>1, StartBlockFields
<1>4. /\ inBlock' = TRUE /\ cast' = cast
      /\ work'.justifications = Deserialize(state')
      /\ work'.justifiedSlots = js
  BY DEF StartBlock, BeginAttestations
<1>5. work'.justifications = j
  BY <1>1, <1>3, <1>4 DEF VoteInv, Deserialize
<1>6. /\ Len(h) = slot
      /\ \A i \in 1 .. n : h[i] = state.hist[i]
      /\ h[n + 1] = p
      /\ \A i \in n + 2 .. slot : h[i] = ZeroHash
  <2>1. state.hist \in Seq(Nat) /\ p \in Nat /\ k \in Nat /\ Len(state.hist) = n
    BY <1>2, <1>3
  <2>2. h = Extended(state.hist, p, k)
    BY <1>3
  <2>3. n + 1 + k = slot
    BY <1>2
  <2> DEFINE h0 == state.hist
             g == Extended(h0, p, k)
  <2>4. /\ Len(g) = Len(h0) + 1 + k
        /\ \A i \in 1 .. Len(h0) : g[i] = h0[i]
        /\ g[Len(h0) + 1] = p
        /\ \A i \in Len(h0) + 2 .. Len(h0) + 1 + k : g[i] = ZeroHash
    <3> HIDE DEF h0, p, k
    <3>1. h0 \in Seq(Nat) /\ p \in Nat /\ k \in Nat
      BY <2>1 DEF h0
    <3> QED
      BY <3>1, HistoryParts
  <2> HIDE DEF g, p, k, n, h
  <2> QED
    BY <2>1, <2>2, <2>3, <2>4 DEF g
<1>7. /\ \A i \in 0 .. n - 1 : i \in js <=> i \in work.justifiedSlots
      /\ \A i \in n .. slot - 1 : i \in js => n = 0 /\ i = 0
  <2> DEFINE b == HeaderBitlist(state.justifiedSlots, n, k)
  <2>1. k \in Nat
    BY <1>3
  <2>2. /\ \A i \in 0 .. n - 1 : i \in b <=> i \in state.justifiedSlots
        /\ \A i \in n .. n + k : i \in b => n = 0 /\ i = 0
    <3>1. n \in Nat /\ IsBitlist(state.justifiedSlots, n)
      BY <1>2
    <3> HIDE DEF n, k
    <3> QED
      BY <2>1, <3>1, HeaderBits
  <2>3. js = b /\ n + k = slot - 1
    BY <1>2, <1>3
  <2>4. state.justifiedSlots = work.justifiedSlots
    BY <1>1 DEF VoteInv
  <2> HIDE DEF b, js, k
  <2> QED
    BY <2>2, <2>3, <2>4
<1>8. n < slot
  BY <1>2, <1>3
<1>9. BranchRoots'
  <2>1. p = RootAt[n]
    BY DEF VoteInv, BranchRoots
  <2>2. ASSUME NEW i \in 1 .. Len(h) PROVE h[i] \in {ZeroHash, RootAt[i - 1]}
    <3>1. i \in 1 .. n \/ i = n + 1 \/ i \in n + 2 .. slot
      BY <1>2, <1>6
    <3>2. CASE i \in 1 .. n
      BY <1>2, <1>6, <3>2 DEF VoteInv, BranchRoots
    <3>3. CASE i = n + 1
      <4>1. i - 1 = n
        BY <1>2, <3>3
      <4> QED
        BY <1>6, <2>1, <3>3, <4>1
    <3>4. CASE i \in n + 2 .. slot
      BY <1>6, <3>4
    <3> QED
      BY <3>1, <3>2, <3>3, <3>4
  <2> QED
    BY <1>2, <1>3, <2>2 DEF BranchRoots
<1> HIDE DEF h, js, k
<1>10. PendingInv(work)'
  <2> SUFFICES ASSUME NEW r \in DOMAIN j
               PROVE  /\ j[r] # {} /\ ~ Supermajority(j[r])
                      /\ \E s \in 1 .. Len(h) : h[s] = r /\ s - 1 \notin js
                      /\ r # ZeroHash => \A s \in 1 .. Len(h) : h[s] = r =>
                           \A v \in j[r] : <<v, s - 1>> \in cast
    BY <1>4, <1>5 DEF VoteInv, PendingInv, h
  <2>1. PICK s \in 1 .. n : state.hist[s] = r /\ s - 1 \notin work.justifiedSlots
    BY <1>2 DEF VoteInv, PendingInv
  <2>2. s \in 1 .. Len(h) /\ h[s] = r /\ s - 1 \notin js
    <3>1. s - 1 \in 0 .. n - 1 /\ s \in 1 .. slot
      BY <1>2, <1>8, <2>1
    <3> QED
      BY <1>6, <1>7, <2>1, <3>1
  <2>3. ASSUME r # ZeroHash, NEW q \in 1 .. Len(h), h[q] = r
        PROVE  q \in 1 .. n /\ state.hist[q] = r
    <3>1. r = RootAt[s - 1] /\ s - 1 \in 0 .. MaxSlot
      BY <1>2, <1>8, <2>1, <2>3 DEF VoteInv, BranchRoots
    <3>2. r = RootAt[q - 1] /\ q - 1 \in 0 .. MaxSlot
      <4>1. \A i \in 1 .. Len(h) : h[i] \in {ZeroHash, RootAt[i - 1]}
        BY <1>9 DEF BranchRoots, h
      <4>2. q - 1 \in 0 .. MaxSlot
        BY <1>2, <1>6
      <4> QED
        BY <2>3, <4>1, <4>2
    <3>3. q - 1 = s - 1
      BY <3>1, <3>2, ChainStateAssumption
    <3>4. q = s
      BY <1>2, <1>6, <3>3
    <3> QED
      BY <2>1, <3>4
  <2>4. ASSUME r # ZeroHash, NEW q \in 1 .. Len(h), h[q] = r, NEW v \in j[r]
        PROVE  <<v, q - 1>> \in cast
    BY <1>2, <2>3, <2>4 DEF VoteInv, PendingInv
  <2> QED
    BY <2>2, <2>4 DEF VoteInv, PendingInv
<1>11. QuorumInv(work)'
  <2> SUFFICES ASSUME NEW s \in 1 .. slot - 1, s \in js, h[s + 1] # ZeroHash
               PROVE  VotedByQuorum(s)
    BY <1>3, <1>4 DEF QuorumInv, VotedByQuorum, h
  <2>1. s \in 1 .. n - 1
    BY <1>2, <1>7
  <2>2. s \in work.justifiedSlots /\ state.hist[s + 1] # ZeroHash
    <3>1. s \in 0 .. n - 1 /\ s + 1 \in 1 .. n
      BY <1>2, <2>1
    <3> QED
      BY <1>6, <1>7, <3>1
  <2> QED
    BY <2>1, <2>2 DEF VoteInv, QuorumInv
<1> QED
  BY <1>4, <1>9, <1>10, <1>11 DEF VoteInv

(* One attestation: the map, the bits and the ghost move together.         *)
LEMMA AttestVotes ==
  ASSUME NEW att \in Attestations, IndInv, VoteInv, Attest(att)
  PROVE  VoteInv'
<1> DEFINE v == att.validator
           t == att.target.slot
           root == att.target.root
           j == work.justifications
           votes == VotesFor(j, root)
           hist == state.hist
<1>1. /\ TypeOK /\ StateInv /\ WorkInv(work) /\ inBlock
      /\ state' = state /\ inBlock' = inBlock /\ cast \subseteq cast'
  BY DEF IndInv, Attest
<1>2. BranchRoots'
  BY <1>1 DEF VoteInv, BranchRoots
<1>3. ASSUME NEW s, VotedByQuorum(s) PROVE VotedByQuorum(s)'
  <2>1. /\ {u \in Validators : <<u, s>> \in cast} \subseteq
             {u \in Validators : <<u, s>> \in cast'}
        /\ {u \in Validators : <<u, s>> \in cast'} \subseteq Validators
    BY <1>1
  <2> QED
    BY <1>3, <2>1, SupermajorityMonotone DEF VotedByQuorum
<1>4. CASE work' = work
  BY <1>1, <1>2, <1>3, <1>4 DEF VoteInv, PendingInv, QuorumInv
<1>5. ASSUME AttestationCounts(state, work, att)
      PROVE  /\ v \in Validators /\ <<v, t>> \in cast'
             /\ t \in Nat /\ t \in 0 .. state.header.slot - 1
             /\ hist[t + 1] = root /\ t \notin work.justifiedSlots
             /\ t + 1 \in 1 .. Len(hist)
  <2>1. /\ t \in Nat /\ t \in 0 .. state.header.slot - 1
        /\ InHistory(state, att.target) /\ t \notin work.justifiedSlots
    BY <1>1, <1>5, AttestationType, CountingAttestation
    DEF TypeOK, StateInv, WorkInv
  <2>2. state.header.slot \in Nat /\ Len(hist) = state.header.slot
    BY <1>1 DEF TypeOK, StateType, StateInv, GoodState
  <2> QED
    BY <1>5, <2>1, <2>2 DEF AttestationCounts, InHistory, Attest
<1>6. ASSUME AttestationCounts(state, work, att), root # ZeroHash,
             NEW u \in votes \union {v}
      PROVE  <<u, t>> \in cast'
  <2>1. CASE u = v
    BY <1>5, <1>6, <2>1
  <2>2. CASE u \in votes
    <3>1. root \in DOMAIN j /\ u \in j[root]
      BY <2>2 DEF VotesFor
    <3>2. <<u, (t + 1) - 1>> \in cast
      BY <1>5, <1>6, <3>1 DEF VoteInv, PendingInv
    <3> QED
      BY <1>1, <1>5, <1>6, <3>2
  <2> QED
    BY <1>6, <2>1, <2>2
<1>7. CASE /\ AttestationCounts(state, work, att)
           /\ ~ Supermajority(votes \union {v})
           /\ work' = RecordVote(work, att)
  <2> DEFINE jn == work'.justifications
             D == DOMAIN j \union {root}
  <2>1. /\ work'.justifiedSlots = work.justifiedSlots
        /\ jn = [r \in D |-> VotesFor(j, r)
                   \union (IF r = root THEN {v} ELSE {})]
    BY <1>7 DEF RecordVote
  <2> HIDE DEF jn
  <2>2. /\ DOMAIN jn = D
        /\ jn[root] = votes \union {v}
        /\ \A r \in D : r # root => r \in DOMAIN j /\ jn[r] = j[r]
    BY <2>1 DEF VotesFor
  <2>3. \A r \in DOMAIN j : j[r] \subseteq Validators
    BY <1>1 DEF TypeOK
  <2>4. jn \in [DOMAIN jn -> SUBSET Validators]
    <3>1. \A r \in D : VotesFor(j, r) \union (IF r = root THEN {v} ELSE {})
                         \in SUBSET Validators
      BY <1>5, <1>7, <2>3 DEF VotesFor
    <3> QED
      BY <2>1, <2>2, <3>1
  <2>5. ASSUME NEW r \in DOMAIN jn
        PROVE  /\ jn[r] # {} /\ ~ Supermajority(jn[r])
               /\ \E s \in 1 .. Len(hist) :
                    hist[s] = r /\ s - 1 \notin work.justifiedSlots
               /\ r # ZeroHash => \A s \in 1 .. Len(hist) : hist[s] = r =>
                    \A u \in jn[r] : <<u, s - 1>> \in cast'
    <3>1. CASE r = root
      <4>1. jn[r] # {} /\ ~ Supermajority(jn[r])
        BY <1>7, <2>2, <3>1
      <4>2. /\ t + 1 \in 1 .. Len(hist) /\ hist[t + 1] = r
            /\ (t + 1) - 1 \notin work.justifiedSlots
        BY <1>5, <1>7, <3>1
      <4>3. ASSUME r # ZeroHash, NEW s \in 1 .. Len(hist), hist[s] = r,
                   NEW u \in jn[r]
            PROVE  <<u, s - 1>> \in cast'
        <5>1. s = t + 1
          BY <4>2, <4>3, OneSlotPerRoot DEF VoteInv
        <5>2. s - 1 = t
          BY <1>5, <1>7, <5>1
        <5> QED
          BY <1>6, <1>7, <2>2, <3>1, <4>3, <5>2
      <4> QED
        BY <4>1, <4>2, <4>3
    <3>2. CASE r # root
      <4>1. r \in DOMAIN j /\ jn[r] = j[r]
        BY <2>2, <3>2
      <4> QED
        BY <1>1, <4>1 DEF VoteInv, PendingInv
    <3> QED
      BY <3>1, <3>2
  <2>6. PendingInv(work)'
    BY <1>1, <2>1, <2>4, <2>5 DEF PendingInv, jn
  <2>7. QuorumInv(work)'
    BY <1>1, <1>3, <2>1 DEF VoteInv, QuorumInv
  <2> QED
    BY <1>1, <1>2, <2>6, <2>7 DEF VoteInv
<1>8. CASE /\ AttestationCounts(state, work, att)
           /\ Supermajority(votes \union {v})
           /\ work' = JustifyTarget(state, work, att)
  <2> DEFINE jn == work'.justifications
             D == DOMAIN j \ {root}
             js == work'.justifiedSlots
  <2>1. js = work.justifiedSlots \union {t}
    <3>1. state.header.slot \in Nat /\ IsBitlist(work.justifiedSlots, state.header.slot)
      BY <1>1 DEF TypeOK, StateType, WorkInv, GoodWork
    <3> QED
      BY <1>5, <1>8, <3>1, JustifyTargetSlots
  <2>2. jn = [r \in D |-> j[r]]
    BY <1>8 DEF JustifyTarget, Restrict
  <2> HIDE DEF jn, js
  <2>3. jn \in [DOMAIN jn -> SUBSET Validators]
    BY <1>1, <2>2 DEF TypeOK
  <2>4. ASSUME NEW r \in DOMAIN jn
        PROVE  /\ jn[r] # {} /\ ~ Supermajority(jn[r])
               /\ \E s \in 1 .. Len(hist) : hist[s] = r /\ s - 1 \notin js
               /\ r # ZeroHash => \A s \in 1 .. Len(hist) : hist[s] = r =>
                    \A u \in jn[r] : <<u, s - 1>> \in cast'
    <3>1. r \in DOMAIN j /\ r # root /\ jn[r] = j[r]
      BY <2>2
    <3>2. PICK s \in 1 .. Len(hist) : hist[s] = r /\ s - 1 \notin work.justifiedSlots
      BY <3>1 DEF VoteInv, PendingInv
    <3>3. s - 1 # t
      BY <1>5, <1>8, <3>1, <3>2
    <3> QED
      BY <1>1, <2>1, <3>1, <3>2, <3>3 DEF VoteInv, PendingInv
  <2>5. PendingInv(work)'
    BY <1>1, <2>3, <2>4 DEF PendingInv, jn, js
  <2>6. hist[t + 1] # ZeroHash => VotedByQuorum(t)'
    <3> SUFFICES ASSUME hist[t + 1] # ZeroHash PROVE VotedByQuorum(t)'
      OBVIOUS
    <3> DEFINE Q == {u \in Validators : <<u, t>> \in cast'}
    <3>1. votes \union {v} \subseteq Validators
      BY <1>1, <1>5, <1>8 DEF TypeOK, VotesFor
    <3>2. votes \union {v} \subseteq Q
      BY <1>5, <1>6, <1>8, <3>1
    <3>3. Supermajority(Q)
      BY <1>8, <3>2, SupermajorityMonotone
    <3> QED
      BY <3>3 DEF VotedByQuorum
  <2>7. QuorumInv(work)'
    <3> SUFFICES ASSUME NEW s \in 1 .. state.header.slot - 1, s \in js,
                        hist[s + 1] # ZeroHash
                 PROVE  VotedByQuorum(s)'
      BY <1>1 DEF QuorumInv, js
    <3>1. CASE s = t
      BY <2>6, <3>1
    <3>2. CASE s \in work.justifiedSlots
      BY <1>3, <3>2 DEF VoteInv, QuorumInv
    <3> QED
      BY <2>1, <3>1, <3>2
  <2> QED
    BY <1>1, <1>2, <2>5, <2>7 DEF VoteInv
<1> QED
  BY <1>4, <1>7, <1>8 DEF Attest, ApplyAttestation

(* The end of a block: the votes go through their SSZ form.                *)
LEMMA EndBlockVotes ==
  ASSUME IndInv, VoteInv, EndBlock
  PROVE  VoteInv'
<1>1. TypeOK /\ state \in StateType
  BY DEF IndInv, TypeOK
<1>2. /\ work' = work /\ cast' = cast /\ inBlock' = FALSE
      /\ state' = EndAttestations(state, work)
  BY DEF EndBlock
<1> DEFINE roots == sortedJustificationRoots(work.justifications)
           flat == flattenVotes(roots, work.justifications)
<1>3. state' = [state EXCEPT
        !.justifiedSlots  = work.justifiedSlots,
        !.latestJustified = work.latestJustified,
        !.latestFinalized = work.latestFinalized,
        !.justRoots       = roots,
        !.justVotes       = flat]
  BY <1>2 DEF EndAttestations
<1> HIDE DEF roots, flat
<1>4. /\ state'.header = state.header /\ state'.hist = state.hist
      /\ state'.justifiedSlots = work.justifiedSlots
      /\ state'.justRoots = roots /\ state'.justVotes = flat
  BY <1>1, <1>3 DEF StateType
<1>5. Deserialize(state') = work.justifications
  <2> DEFINE j == work.justifications
  <2>1. /\ DOMAIN j \in SUBSET Nat /\ IsFiniteSet(DOMAIN j)
        /\ j \in [DOMAIN j -> SUBSET Validators]
    BY <1>1 DEF TypeOK, VoteInv, PendingInv
  <2> HIDE DEF j
  <2>2. /\ state'.justRoots = sortedJustificationRoots(j)
        /\ state'.justVotes = flattenVotes(state'.justRoots, j)
    BY <1>4 DEF roots, flat, j
  <2> QED
    BY <2>1, <2>2, RoundTrip DEF j
<1>6. BranchRoots' /\ PendingInv(work)' /\ QuorumInv(work)'
  BY <1>2, <1>4 DEF VoteInv, BranchRoots, PendingInv, QuorumInv, VotedByQuorum
<1> QED
  BY <1>2, <1>4, <1>5, <1>6 DEF VoteInv

(* The relation of votes, bits and history holds in every reachable state. *)
THEOREM VotesInvariance == Spec => []VoteInv
<1>1. Init => VoteInv
  BY InitVotes
<1>2. IndInv /\ VoteInv /\ [Next]_vars => VoteInv'
  <2> SUFFICES ASSUME IndInv, VoteInv, [Next]_vars PROVE VoteInv'
    OBVIOUS
  <2>1. ASSUME NEW slot \in 1 .. MaxSlot, StartBlock(slot) PROVE VoteInv'
    BY <2>1, StartBlockVotes
  <2>2. ASSUME NEW att \in Attestations, Attest(att) PROVE VoteInv'
    BY <2>2, AttestVotes
  <2>3. CASE EndBlock
    BY <2>3, EndBlockVotes
  <2>4. CASE UNCHANGED vars
    BY <2>4 DEF vars, VoteInv, BranchRoots, PendingInv, QuorumInv, VotedByQuorum
  <2> QED
    BY <2>1, <2>2, <2>3, <2>4 DEF Next
<1> QED
  BY <1>1, <1>2, Invariance, PTL DEF Spec

(* Sorting the roots and packing the votes into one bitlist at the end of  *)
(* a block, and unpacking them at the next, loses and mixes no vote.       *)
THEOREM SerializationKeepsVotes == Spec => []VotesSurviveSerialization
<1>1. VoteInv => VotesSurviveSerialization
  BY DEF VoteInv, VotesSurviveSerialization
<1> QED
  BY <1>1, VotesInvariance, PTL

(* Votes are counted right across any number of blocks: what is pending is *)
(* short of a quorum, and every block that is justified after genesis was  *)
(* voted for by a quorum of distinct validators.                           *)
THEOREM QuorumsAreCounted == Spec => []QuorumsCounted
<1>1. IndInv /\ VoteInv => QuorumsCounted
  <2> SUFFICES ASSUME IndInv, VoteInv PROVE QuorumsCounted
    OBVIOUS
  <2>1. /\ state.header.slot \in Nat /\ Len(state.hist) = state.header.slot
        /\ BitlistLen(work.justifiedSlots) = state.header.slot
    <3>1. state.header.slot \in Nat
      BY DEF IndInv, TypeOK, StateType
    <3>2. IsBitlist(work.justifiedSlots, state.header.slot)
      BY DEF IndInv, StateInv, GoodState, WorkInv, GoodWork, VoteInv
    <3> QED
      BY <3>1, <3>2, BitlistLenIs DEF IndInv, StateInv, GoodState
  <2>2. PendingShort
    BY <2>1 DEF VoteInv, PendingInv, PendingShort, SlotJustified, GetBit
  <2>3. BlocksJustifiedByQuorum
    BY <2>1 DEF VoteInv, QuorumInv, BlocksJustifiedByQuorum, SlotJustified, GetBit
  <2> QED
    BY <2>2, <2>3 DEF QuorumsCounted
<1> QED
  BY <1>1, Invariance, VotesInvariance, PTL

=============================================================================
