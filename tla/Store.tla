------------------------------- MODULE Store -------------------------------
(***************************************************************************)
(* The fork-choice store (chain/forkchoice): a record                      *)
(*   time             intervals since genesis                              *)
(*   head, safeTarget roots                                                *)
(*   latestJustified, latestFinalized   checkpoints                        *)
(*   blocks, states   the block and state tables of storage.Store          *)
(*   known, new       latestKnownAttestations, latestNewAttestations:      *)
(*                    partial maps from validators to attestations         *)
(* and its operations as functions from stores to stores.  Every exported  *)
(* operation runs under the store's mutex, so each is one atomic step.     *)
(*                                                                         *)
(* An attestation is [validator, slot, head, target, source].  Signatures  *)
(* are Booleans: whether the XMSS signature verifies.  An envelope is      *)
(* [root, block, proposerAtt, sigs]: root is the hash of block, and        *)
(* proposerAtt a sequence of at most one attestation.                      *)
(***************************************************************************)
EXTENDS StateTransition, Ghost

EmptyMap == [v \in {} |-> {}]

(* The assignment map[key] = value, and one for every entry of other.      *)
Put(map, key, value) ==
  [k \in DOMAIN map \union {key} |-> IF k = key THEN value ELSE map[k]]

PutAll(map, other) ==
  [k \in DOMAIN map \union DOMAIN other |->
     IF k \in DOMAIN other THEN other[k] ELSE map[k]]

CurrentSlot(s) == s.time \div IntervalsPerSlot

GenesisBlock ==
  [slot |-> 0, proposer |-> 0, parent |-> ZeroHash, body |-> << >>,
   stateRootOK |-> TRUE]

(* The anchor is the genesis block, whose root is the argument.            *)
NewStore(root) ==
  [time            |-> 0,
   head            |-> root,
   safeTarget      |-> root,
   latestJustified |-> Checkpoint(root, 0),
   latestFinalized |-> Checkpoint(root, 0),
   blocks          |-> Put(EmptyMap, root, GenesisBlock),
   states          |-> Put(EmptyMap, root, GenesisState(root)),
   known           |-> EmptyMap,
   new             |-> EmptyMap]

-----------------------------------------------------------------------------
(* Time (time.go).                                                         *)

ceilDiv(a, b) == (a + b - 1) \div b

updateHead(s) ==
  [s EXCEPT !.head =
     GetForkChoiceHead(s.blocks, s.latestJustified.root, s.known, 0)]

(* Every pending vote replaces the known one, whichever is newer.          *)
acceptNewAttestations(s) ==
  updateHead([s EXCEPT !.known = PutAll(s.known, s.new), !.new = EmptyMap])

(* Mutant: the accepted votes count.                                       *)
updateSafeTargetKnown(s) ==
  [s EXCEPT !.safeTarget =
     GetForkChoiceHead(s.blocks, s.latestJustified.root, s.known,
                       ceilDiv(2 * NumValidators, 3))]

updateSafeTarget(s) ==
  [s EXCEPT !.safeTarget =
     GetForkChoiceHead(s.blocks, s.latestJustified.root, s.new,
                       ceilDiv(2 * NumValidators, 3))]

tickInterval(s, hasProposal) ==
  LET t == [s EXCEPT !.time = @ + 1]
      interval == t.time % IntervalsPerSlot
  IN  IF interval = 3 \/ (interval = 0 /\ hasProposal) THEN acceptNewAttestations(t)
      ELSE IF interval = 2 THEN updateSafeTarget(t)
      ELSE t

-----------------------------------------------------------------------------
(* Attestations (attestation.go, aggregation.go).                          *)

validateAttestationData(s, att) ==
  /\ {att.source.root, att.target.root, att.head.root} \subseteq DOMAIN s.blocks
  /\ att.source.slot <= att.target.slot
  /\ s.blocks[att.source.root].slot = att.source.slot
  /\ s.blocks[att.target.root].slot = att.target.slot
  /\ att.slot <= CurrentSlot(s) + 1

verifyAttestationSignature(att, sig) == att.validator \in Validators /\ sig

(* Is the vote newer than the one in the map?                              *)
Newer(votes, att) ==
  att.validator \in DOMAIN votes => votes[att.validator].slot < att.slot

Without(votes, v) == Restrict(votes, DOMAIN votes \ {v})

(* A vote from a block body.                                               *)
OnChainVote(s, att) ==
  LET superseded == /\ att.validator \in DOMAIN s.new
                    /\ s.new[att.validator].slot <= att.slot
  IN  IF ~ validateAttestationData(s, att) THEN s
      ELSE [s EXCEPT
             !.known = IF Newer(@, att) THEN Put(@, att.validator, att) ELSE @,
             !.new = IF superseded THEN Without(@, att.validator) ELSE @]

(* Mutant: votes of the next slot are taken too early.                     *)
GossipVoteEarly(s, att, sig) ==
  IF validateAttestationData(s, att) /\ verifyAttestationSignature(att, sig)
  THEN [s EXCEPT !.new = IF Newer(@, att) THEN Put(@, att.validator, att) ELSE @]
  ELSE s

(* A vote from gossip.                                                     *)
GossipVote(s, att, sig) ==
  IF /\ validateAttestationData(s, att)
     /\ verifyAttestationSignature(att, sig)
     /\ att.slot <= CurrentSlot(s)
  THEN [s EXCEPT !.new = IF Newer(@, att) THEN Put(@, att.validator, att) ELSE @]
  ELSE s

(* An aggregate is [data, votes]: the shared attestation data and, in      *)
(* ascending order, the <<validator, sig>> pairs it disaggregates to;      *)
(* lengthOK says whether the signature bytes match the number of bits.     *)
AggregatedVotes(s, agg) ==
  IF ~ agg.lengthOK THEN s
  ELSE FoldLeft(LAMBDA t, vs :
                  GossipVote(t, [agg.data EXCEPT !.validator = vs[1]], vs[2]),
                s, agg.votes)

-----------------------------------------------------------------------------
(* Blocks (block.go).                                                      *)

SignaturesOK(envelope) ==
  LET atts == envelope.block.body \o envelope.proposerAtt
  IN  /\ Len(envelope.sigs) = Len(atts)
      /\ \A i \in DOMAIN atts :
           verifyAttestationSignature(atts[i], envelope.sigs[i])

(* Otherwise ProcessBlock returns without changing the store.              *)
CanProcessEnvelope(s, envelope) ==
  /\ envelope.root \notin DOMAIN s.blocks
  /\ envelope.block.parent \in DOMAIN s.states
  /\ CanStateTransition(s.states[envelope.block.parent], envelope.block)
  /\ SignaturesOK(envelope)

PutBlock(s, root, block, state) ==
  [s EXCEPT !.blocks = Put(@, root, block), !.states = Put(@, root, state)]

(* Mutant: the last block decides.                                         *)
LastCheckpoint(c, d) == d

NewerCheckpoint(c, d) == IF d.slot > c.slot THEN d ELSE c

(* Mutant: the head is computed before the checkpoints move.               *)
ProcessEnvelopeEarlyHead(s, envelope) ==
  LET block == envelope.block
      state == StateTransition(s.states[block.parent], block, envelope.root)
      t == updateHead(PutBlock(s, envelope.root, block, state))
  IN  [t EXCEPT
        !.latestJustified = NewerCheckpoint(@, state.latestJustified),
        !.latestFinalized = NewerCheckpoint(@, state.latestFinalized)]

(* Mutant: the justified checkpoint is forgotten.                          *)
ProcessEnvelopeOldJustified(s, envelope) ==
  LET block == envelope.block
      state == StateTransition(s.states[block.parent], block, envelope.root)
      t == PutBlock(s, envelope.root, block, state)
  IN  updateHead([t EXCEPT
        !.latestFinalized = NewerCheckpoint(@, state.latestFinalized)])

ProcessEnvelope(s, envelope) ==
  LET block == envelope.block
      state == StateTransition(s.states[block.parent], block, envelope.root)
      stored == PutBlock(s, envelope.root, block, state)
      checkpointed ==
        [stored EXCEPT
          !.latestJustified = NewerCheckpoint(@, state.latestJustified),
          !.latestFinalized = NewerCheckpoint(@, state.latestFinalized)]
      voted == FoldLeft(OnChainVote, checkpointed, block.body)
  IN  FoldLeft(LAMBDA t, att : GossipVote(t, att, TRUE),
               updateHead(voted), envelope.proposerAtt)

-----------------------------------------------------------------------------
(* Production (produce.go).                                                *)

(* The root of the vote target, ZeroHash if the walk leaves the tree.      *)
getVoteTarget(s) ==
  LET slotOf(r) == s.blocks[r].slot
      back(r) == IF /\ {r, s.safeTarget} \subseteq DOMAIN s.blocks
                    /\ slotOf(r) > slotOf(s.safeTarget)
                 THEN s.blocks[r].parent ELSE r
      lookback[i \in 0 .. JustificationLookback] ==
        IF i = 0 THEN s.head ELSE back(lookback[i - 1])
      justifiable[r \in DOMAIN s.blocks \union {ZeroHash}] ==
        IF r = ZeroHash THEN ZeroHash
        ELSE IF IsJustifiableAfter(slotOf(r), s.latestFinalized.slot) THEN r
        ELSE justifiable[s.blocks[r].parent]
  IN  justifiable[lookback[JustificationLookback]]

BlockCheckpoint(s, root) == Checkpoint(root, s.blocks[root].slot)

(* The attestation ProduceAttestation signs, after it accepted the pending *)
(* votes: t is the store then.                                             *)
OwnAttestation(t, v, slot, headCheckpoint) ==
  [validator |-> v, slot |-> slot, head |-> headCheckpoint,
   target |-> BlockCheckpoint(t, getVoteTarget(t)), source |-> t.latestJustified]

(* The attestations that one more round of ProduceBlock adds to a body.    *)
containsAttestation(list, att) ==
  \E i \in DOMAIN list :
    list[i].validator = att.validator /\ list[i].slot = att.slot

MoreAttestations(t, advanced, block) ==
  LET post == ProcessBlock(advanced, block, ZeroHash)
      candidates == {t.known[v] : v \in DOMAIN t.known}
  IN  {att \in candidates :
         /\ att.head.root \in DOMAIN t.blocks
         /\ att.source = post.latestJustified
         /\ ~ containsAttestation(block.body, att)}

(* The blocks ProduceBlock can end up with: each round appends what is     *)
(* missing in the order the Go map yields it.  NumValidators rounds reach  *)
(* the fixed point: a validator has one known vote.                        *)
CandidateBlocks(t, slot, v) ==
  LET advanced == ProcessSlots(t.states[t.head], slot)
      empty == [slot |-> slot, proposer |-> v, parent |-> t.head,
                body |-> << >>, stateRootOK |-> TRUE]
      extend(block) ==
        LET more == MoreAttestations(t, advanced, block)
        IN  IF more = {} THEN {block}
            ELSE {[block EXCEPT !.body = @ \o order] : order \in SetToSeqs(more)}
      rounds[i \in 0 .. NumValidators] ==
        IF i = 0 THEN {empty}
        ELSE UNION {extend(block) : block \in rounds[i - 1]}
  IN  rounds[NumValidators]

CanProduceBlock(t, slot, v) ==
  /\ IsProposer(v, slot)
  /\ CanProcessSlots(t.states[t.head], slot)
  /\ getVoteTarget(t) \in DOMAIN t.blocks
=============================================================================
