----------------------------- MODULE ForkChoice -----------------------------
(***************************************************************************)
(* One node's fork-choice store driven by the clock, by gossip and by the  *)
(* node's own validators.  The network may deliver any envelope, vote or   *)
(* aggregate of three given sets at any time, in any order, any number of  *)
(* times, or never.                                                        *)
(*                                                                         *)
(* Every handler first advances the store to the wall clock, so a store    *)
(* that ticks as soon as the clock does is what every handler sees: Tick is*)
(* one iteration of the loop of advanceTimeLocked.  At the start of a slot *)
(* it signals a proposal only if the node has the proposer and no gossip   *)
(* handler advanced the time first.                                        *)
(***************************************************************************)
EXTENDS Store

CONSTANTS
  GenesisRoot,
  Own,         \* the validators this node runs
  OwnRoots,    \* roots for the blocks this node produces
  Envelopes,   \* the blocks the network may deliver
  GossipVotes, \* the signed votes [att, sig] the network may deliver
  Aggregates,  \* the aggregates the network may deliver
  MaxTime      \* bound: the interval the clock stops at

(* Attestations and blocks as they are decoded, before any check.          *)
RawAttestation ==
  [validator : Nat, slot : Nat, head : CheckpointType,
   target : CheckpointType, source : CheckpointType]

BlockType ==
  [slot : Nat, proposer : Nat, parent : Nat, body : Seq(RawAttestation),
   stateRootOK : BOOLEAN]

ASSUME ForkChoiceAssumption ==
  /\ GenesisRoot \in Nat \ {ZeroHash}
  /\ Own \subseteq Validators
  /\ OwnRoots \subseteq Nat \ {ZeroHash, GenesisRoot}
  /\ \A e \in Envelopes :
       /\ e.root \in Nat \ (OwnRoots \union {ZeroHash, GenesisRoot})
       /\ e.block \in BlockType
       /\ e.proposerAtt \in Seq(RawAttestation)
       /\ e.sigs \in Seq(BOOLEAN)
  /\ \A e, f \in Envelopes : e.root = f.root => e.block = f.block
  /\ \A vote \in GossipVotes : vote.att \in RawAttestation /\ vote.sig \in BOOLEAN
  /\ \A agg \in Aggregates :
       agg.data \in RawAttestation /\ agg.votes \in Seq(Nat \X BOOLEAN)

VARIABLES
  store,  \* the fork-choice store
  signed  \* the vote TryAttest has signed and not yet processed: at most one

vars == <<store, signed>>

Init == store = NewStore(GenesisRoot) /\ signed = {}

HasProposal(slot) == \E v \in Own : IsProposer(v, slot)

Tick(hasProposal) ==
  /\ store.time < MaxTime
  /\ hasProposal => /\ signed = {}
                    /\ HasProposal((store.time + 1) \div IntervalsPerSlot)
  /\ store' = tickInterval(store, hasProposal)
  /\ UNCHANGED signed

ReceiveBlock(envelope) ==
  /\ CanProcessEnvelope(store, envelope)
  /\ store' = ProcessEnvelope(store, envelope)
  /\ UNCHANGED signed

ReceiveVote(vote) ==
  /\ store' = GossipVote(store, vote.att, vote.sig)
  /\ UNCHANGED signed

(* TryAttest releases the store between signing a vote and processing it   *)
(* like gossip: other handlers may come in between.                        *)
ProcessOwnVote(att) ==
  /\ store' = GossipVote(store, att, TRUE)
  /\ signed' = {}

ReceiveAggregate(agg) ==
  /\ store' = AggregatedVotes(store, agg)
  /\ UNCHANGED signed

(* Equal blocks have equal roots; any unused root may be that of a new one.*)
RootsOf(block) ==
  LET same == {r \in DOMAIN store.blocks : store.blocks[r] = block}
              \union {e.root : e \in {e \in Envelopes : e.block = block}}
  IN  IF same = {} THEN OwnRoots \ DOMAIN store.blocks ELSE same

(* The duties of the main loop run one after the other, TryPropose from    *)
(* interval 0 and TryAttest from interval 1 of the slot the loop read      *)
(* before its sync: either may be late, slots later too.  TryPropose does  *)
(* nothing in slot 0 and TryAttest skips the proposer.                     *)
MayPropose(v, slot) ==
  signed = {} /\ slot \in 1 .. CurrentSlot(store) /\ IsProposer(v, slot)
MayAttest(v, slot) ==
  signed = {} /\ slot * IntervalsPerSlot < store.time /\ ~ IsProposer(v, slot)

(* ProduceBlock accepts the pending votes before anything can fail.  It    *)
(* stores the block and its state and touches nothing else: the block's    *)
(* votes and checkpoints and the proposer's vote are not processed.        *)
ProduceBlock(v, slot) ==
  LET t == acceptNewAttestations(store)
      advanced == ProcessSlots(t.states[t.head], slot)
  IN  /\ MayPropose(v, slot)
      /\ CanProduceBlock(t, slot, v)
      /\ \E block \in CandidateBlocks(t, slot, v) : \E root \in RootsOf(block) :
           store' = PutBlock(t, root, block, ProcessBlock(advanced, block, root))
      /\ UNCHANGED signed

(* ProduceBlock fails: the head is not before the slot, there is no vote   *)
(* target, or the signer refuses.                                          *)
ProduceBlockFails(v, slot) ==
  /\ MayPropose(v, slot)
  /\ store' = acceptNewAttestations(store)
  /\ UNCHANGED signed

(* Mutant: the head is read before the pending votes are accepted.         *)
ProduceAttestationEarlyHead(v, slot) ==
  LET t == acceptNewAttestations(store)
  IN  /\ MayAttest(v, slot)
      /\ getVoteTarget(t) \in DOMAIN t.blocks
      /\ store' = t
      /\ signed' = {OwnAttestation(t, v, slot, BlockCheckpoint(store, store.head))}

ProduceAttestation(v, slot) ==
  LET t == acceptNewAttestations(store)
  IN  /\ MayAttest(v, slot)
      /\ getVoteTarget(t) \in DOMAIN t.blocks
      /\ store' = t
      /\ signed' = {OwnAttestation(t, v, slot, BlockCheckpoint(t, t.head))}

(* ProduceAttestation fails: there is no vote target or the signer refuses.*)
ProduceAttestationFails(v, slot) ==
  /\ MayAttest(v, slot)
  /\ store' = acceptNewAttestations(store)
  /\ UNCHANGED signed

Next ==
  \/ \E hasProposal \in BOOLEAN : Tick(hasProposal)
  \/ \E envelope \in Envelopes : ReceiveBlock(envelope)
  \/ \E vote \in GossipVotes : ReceiveVote(vote)
  \/ \E att \in signed : ProcessOwnVote(att)
  \/ \E agg \in Aggregates : ReceiveAggregate(agg)
  \/ \E v \in Own : \E slot \in 0 .. CurrentSlot(store) :
       \/ ProduceBlock(v, slot) \/ ProduceBlockFails(v, slot)
       \/ ProduceAttestation(v, slot) \/ ProduceAttestationFails(v, slot)

Spec == Init /\ [][Next]_vars
-----------------------------------------------------------------------------
(* Properties.                                                             *)

Ancestors(r) == CountedPath(store.blocks, -1)[r]

AttestationType ==
  [validator : Validators, slot : Nat, head : CheckpointType,
   target : CheckpointType, source : CheckpointType]

(* Type invariant. *)
TypeOK ==
  /\ store.time \in Nat
  /\ {store.head, store.safeTarget} \subseteq DOMAIN store.blocks
  /\ DOMAIN store.blocks = DOMAIN store.states
  /\ \A r \in DOMAIN store.states : store.states[r] \in StateType
  /\ {store.latestJustified, store.latestFinalized} \subseteq CheckpointType
  /\ \A votes \in {store.known, store.new} : \A v \in DOMAIN votes :
       votes[v] \in AttestationType /\ votes[v].validator = v
  /\ signed \subseteq AttestationType

(* The state stored for a block describes that block's own branch: its     *)
(* history lists, slot by slot, the ancestors of the block in the block    *)
(* table, with the zero hash at empty slots.                               *)
StatesFollowTree ==
  \A r \in DOMAIN store.blocks :
    LET st == store.states[r]
        older == Ancestors(r) \ {r}
        at(slot) == {q \in older : store.blocks[q].slot = slot}
    IN  /\ st.header.slot = store.blocks[r].slot
        /\ Len(st.hist) = store.blocks[r].slot
        /\ \A i \in 1 .. Len(st.hist) :
             IF st.hist[i] = ZeroHash THEN at(i - 1) = {}
             ELSE at(i - 1) = {st.hist[i]}

(* The tables of the store agree with each other.                          *)
TablesAgree == TypeOK /\ StatesFollowTree

(* The head is always a descendant of the justified block, also between    *)
(* the update of the checkpoint and the next acceptance of votes.          *)
HeadExtendsJustified ==
  store.latestJustified.root \in Ancestors(store.head)

(* On the way from the justified block to the head no sibling has more     *)
(* votes than the block that was chosen: no handler leaves the head behind *)
(* the known votes.  How far down the head goes is not said.               *)
HeadHeaviest ==
  LET from == store.latestJustified
      weights == VoteWeights(store.blocks, from.slot, store.known)
  IN  \A r \in {q \in Ancestors(store.head) : store.blocks[q].slot > from.slot} :
        \A q \in DOMAIN store.blocks :
          store.blocks[q].parent = store.blocks[r].parent
            => weights[q] <= weights[r]

(* After every handler, also those that do not look for the head, the head *)
(* is on the branch that the justified checkpoint and the known votes      *)
(* select.                                                                 *)
HeadFollowsVotes == HeadExtendsJustified /\ HeadHeaviest

(* Every vote the store counts names stored blocks at their true slots,    *)
(* and none comes from the future: a pending vote is at most of this slot, *)
(* an accepted one at most of the next.                                    *)
VotesGrounded ==
  \A votes \in {store.known, store.new} : \A v \in DOMAIN votes :
    LET att == votes[v]
    IN  /\ att.head.root \in DOMAIN store.blocks
        /\ \A c \in {att.source, att.target} :
             c.root \in DOMAIN store.blocks /\ store.blocks[c.root].slot = c.slot
        /\ att.slot <= CurrentSlot(store) + (IF votes = store.new THEN 0 ELSE 1)

(* The two checkpoints are taken over one by one, from blocks of whatever  *)
(* branch in whatever order: each is that of genesis or of a received      *)
(* block, and no received block has a later one.  The blocks the node      *)
(* produced itself do not count.                                           *)
CheckpointsNewest ==
  LET received == DOMAIN store.blocks \ (OwnRoots \union {GenesisRoot})
      genesis == Checkpoint(GenesisRoot, 0)
  IN  /\ store.latestJustified
           \in {genesis} \union {store.states[r].latestJustified : r \in received}
      /\ store.latestFinalized
           \in {genesis} \union {store.states[r].latestFinalized : r \in received}
      /\ \A r \in received :
           /\ store.states[r].latestJustified.slot <= store.latestJustified.slot
           /\ store.states[r].latestFinalized.slot <= store.latestFinalized.slot

(* A step that moves a checkpoint moves it to a later slot, and a known    *)
(* block never changes or disappears.                                      *)
StoreOnlyGrows ==
  [][/\ \/ store'.latestJustified = store.latestJustified
        \/ store'.latestJustified.slot > store.latestJustified.slot
     /\ \/ store'.latestFinalized = store.latestFinalized
        \/ store'.latestFinalized.slot > store.latestFinalized.slot
     /\ \A r \in DOMAIN store.blocks :
          /\ r \in DOMAIN store'.blocks
          /\ store'.blocks[r] = store.blocks[r]
          /\ store'.states[r] = store.states[r]]_vars

(* The store implements a block tree (BlockTree): whatever order blocks,   *)
(* votes and ticks come in, a step adds at most one block, later than a    *)
(* parent it has, the checkpoints stay blocks of the tree and only move to *)
(* later ones, and the head moves with the justified one.                  *)
Tree == INSTANCE BlockTree WITH
  Genesis <- GenesisRoot,
  parent <- [r \in DOMAIN store.blocks |->
               IF r = GenesisRoot THEN r ELSE store.blocks[r].parent],
  slot <- [r \in DOMAIN store.blocks |-> store.blocks[r].slot],
  head <- store.head,
  justified <- store.latestJustified.root,
  finalized <- store.latestFinalized.root

ImplementsBlockTree == Tree!Spec

(* The safe target only moves to the justified block or to a block that    *)
(* two thirds of the validators support with a pending vote.               *)
SafeTargetBacked ==
  [][store'.safeTarget # store.safeTarget =>
       \/ store'.safeTarget = store.latestJustified.root
       \/ Supermajority({v \in DOMAIN store.new :
            store'.safeTarget \in Ancestors(store.new[v].head.root)})]_vars

(* GetKnownAttestation returns "the latest known attestation for a         *)
(* validator": accepting votes never replaces a vote by an older one.      *)
KnownVotesGetNewer ==
  [][\A v \in DOMAIN store.known :
       /\ v \in DOMAIN store'.known
       /\ store'.known[v].slot >= store.known[v].slot]_vars

(* A vote this node signs lies on one branch: source and target are        *)
(* ancestors of the head it names, the target can be justified, and the    *)
(* node's own validation accepts it.  There are two exceptions, both with  *)
(* the target before the source, the justified checkpoint: the safe        *)
(* target, which the vote target follows, is behind that checkpoint, or    *)
(* its slot is no longer justifiable, finality having moved up to it.      *)
OwnVotesOnBranch ==
  [][\A att \in signed' \ signed :
       /\ {att.source.root, att.target.root} \subseteq Ancestors(att.head.root)'
       /\ IsJustifiableAfter(att.target.slot, store'.latestFinalized.slot)
       /\ \/ validateAttestationData(store, att)'
          \/ store'.blocks[store'.safeTarget].slot < store'.latestJustified.slot
          \/ ~ IsJustifiableAfter(store'.latestJustified.slot,
                                  store'.latestFinalized.slot)]_vars

(* TryAttest processes the vote it signed "locally so the vote counts even *)
(* without gossip self-delivery": after that the store has a vote of this  *)
(* validator that is as recent.                                            *)
OwnVotesCount ==
  [][\A att \in signed \ signed' :
       /\ att.validator \in DOMAIN store'.new
       /\ store'.new[att.validator].slot >= att.slot]_vars
=============================================================================
