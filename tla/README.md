# TLA+ models of gean

gean is a Go client for a lean-consensus devnet: validators propose blocks and
attest to them once per slot (4 intervals of one second), LMD GHOST chooses the
head, 3SF-mini justifies and finalizes slots, votes are signed with XMSS. This
directory models what decides what a node believes and does, from the bytes of
a bitlist to several nodes that take turns to propose. Paths below are relative
to the repository root.

## 1. Inventory

| part | source | state | operations | who calls it |
|---|---|---|---|---|
| slot arithmetic | `types/slot.go` | none | `IsJustifiableAfter`, `isqrt` | state transition, vote target |
| bitlists | `chain/statetransition/bitlist.go` | byte strings | `BitlistLen`, `GetBit`, `SetBit`, `AppendBit`, `MakeBitlist` | state transition, aggregation |
| SSZ codec | `types/*_encoding.go` | none | `MarshalSSZ`, `UnmarshalSSZ`, `SizeSSZ`, `HashTreeRoot` of twelve types | everything that sends, stores or hashes |
| state transition | `chain/statetransition` | `types.State`: slot, latest header, justified and finalized checkpoint, history, justified-slots bitlist, pending votes | `ProcessSlots`, `ProcessBlockHeader`, `ProcessAttestations`, `StateTransition` | fork choice |
| fork choice | `chain/forkchoice` | `Store`: time, head, safe target, checkpoints, known and new votes, block and state tables | `ProcessBlock`, `ProcessAttestation`, `ProcessAggregatedAttestation`, `AdvanceTime`, `ProduceBlock`, `ProduceAttestation` | gossip handlers, main loop, sync; all under one mutex |
| aggregation | `chain/forkchoice/aggregation.go`, `network/gossipsub/encoding.go` | none | aggregate, encode, decode, disaggregate, verify | duties, gossip |
| duties | `node/validator.go` | pending attestations of the slot | `TryPropose`, `TryAttest`, `TryAggregate` | main loop |
| main loop, clock | `node/ticker.go`, `node/clock.go` | local variables of one iteration, a ticker channel of one place | `Run` | a one-second timer |
| sync | `node/sync.go` | local variables of one walk | `initialSync`, `syncWithPeer` | main loop |
| request/response | `network/reqresp` | a stream per request | status, blocks by root | sync; peers |
| gossip | `network/gossipsub`, `node/handler.go` | seen cache, one subscription queue per topic | one reader goroutine per topic | libp2p |
| storage | `storage/memory` | three maps under an RW mutex | puts and gets | fork choice; unlocked reads by sync and by the block server |
| signatures | `xmss/leansig` | key with a prepared window, key files | `Sign`, `Verify`, save and load | fork choice, duties, keygen |
| node start | `node/lifecycle.go`, `network/host.go`, `network/p2p` | key file, what the process has open | the stages of `New` | `cmd/gean` |
| configuration, keygen | `config`, `cmd` | `config.yaml`, `validators.yaml`, key directory | load, `Validate`, generate | the operator |

What is hard here. Three gossip goroutines, the main loop and the stream
handlers share the store, so ticks, blocks, votes, aggregates and duties come
in any order, and the block and envelope maps are read without the mutex.
Gossip loses, repeats and reorders; streams are reset anywhere. The state of a
block is a compressed record of everything its branch voted, unpacked and
repacked at every block, and the order of the attestations in a body matters.
Slot, interval and head are read at one time and used at another, with the
clock, a slow iteration or a long sync in between. Keys are one-time keys per
slot. A restart begins from genesis. `PROJECT.json` lists each hazard at its
line with the properties that cover it.

## 2. Modules

| module | models | used by |
|---|---|---|
| `Slots` | slot rule and integer square root | nearly all |
| `SlotRounding` | the rule when `math.Sqrt` is off by one | `BitsAndSlots` |
| `Bitlist` | bitlists as the set of their 1 bits, sentinel included | `StateTransition` |
| `BitlistBytes` | the same on bytes, implementing `BitVector` and agreeing with `Bitlist` | `Aggregation`, `BitsAndSlots` |
| `BitVector` | abstract: a list of Booleans | `BitlistBytes` |
| `BitsAndSlots` | `SlotRounding` next to `BitlistBytes`, for the run and the proofs | `MCAlgorithms`, `AlgorithmsProofs` |
| `Ssz`, `SszWire` | the codec over type descriptions; an object sent, damaged and read | `MCAlgorithms` |
| `Aggregation` | votes packed into an aggregate, sent, damaged, split and verified | `MCAlgorithms` |
| `StateTransition` | the state and the transition as functions | `ChainState`, `Store` |
| `ChainState`, `MCChainState`, `ChainStateProofs` | the transition as a step machine along one branch | |
| `Ghost` | `GetForkChoiceHead` | `Store` |
| `Store` | the store record and its operations as functions | `ForkChoice` |
| `ForkChoice`, `MCForkChoice`, `ForkChoiceProofs` | the store driven by clock, network and duties | |
| `BlockTree` | abstract: what a fork-choice store promises | `ForkChoice` |
| `Storage` | the three maps, put by put, with their locked writers and unlocked readers | `MCNetwork` |
| `Duties`, `MCDuties`, `DutiesProofs` | clock, ticker, main loop and duties of one node | |
| `Sync`, `SyncProofs` | main loop, sync walk, peers, restarts | |
| `Devnet` | several nodes that take turns to propose behind the main loop's gate | `MCLifecycle` |
| `Gossip` | message ids, seen cache, queues, readers | `MCNetwork` |
| `Reqresp` | one request, its handler and the stream | `MCNetwork` |
| `Setup` | keygen, configuration files, node starts | `MCLifecycle` |
| `Startup` | the stages of `New` and the node's key file | `MCLifecycle` |
| `AlgorithmsProofs` | proofs about `SlotRounding` and `BitlistBytes` | |
| `StoreProofs` | lemmas about the operators of `StateTransition` and `Ghost` | `ChainStateProofs`, `ForkChoiceProofs` |
| `NetworkProofs` | proofs about `Storage`, `Gossip` and `Reqresp` | |
| `LifecycleProofs` | proofs about `Startup`, `Setup` and `Devnet` | |

`MCAlgorithms`, `MCNetwork` and `MCLifecycle` each put machines that share
nothing side by side: a behaviour is one of one of them (`part` says of which)
and the others keep still, so the number of states is the sum and not the
product.

How the models correspond to the code:

* A **root** is a number in the consensus modules; equal contents have equal
  roots and the order of the numbers is the order of the hashes. `ZeroHash` is
  0. A header whose state root is not yet filled in hashes to no block's root,
  which is why `ProcessSlot` has to come first. That header and block do have
  one root, and that different objects have different ones, is what `SszWire`
  checks (with the hash of two nodes being the pair of them).
* A **state** has the fields of `types.State` that the transition reads or
  writes. A block's `stateRootOK` says whether its state root is right; XMSS
  signatures are Booleans in `Store` and pieces of a vote in `Aggregation`.
* `ChainState` takes `ProcessAttestations` apart: `StartBlock` (slots, header,
  deserialization), `Attest` (one loop iteration), `EndBlock` (serialization).
  So a body is any sequence of attestations, and nothing is assumed about who
  signed them. The ghost `cast` records who validly voted for which target slot.
* `ForkChoice` has one action per entry point of the store. Each runs under the
  mutex and is one step. `TryAttest` signs a vote and processes it in two calls,
  so other handlers may come between `ProduceAttestation` and `ProcessOwnVote`.
  The handlers call `advanceTimeLocked` first; the model ticks the store as soon
  as the clock ticks, which is the state every handler then sees. A duty may run
  late, more than once, and for an earlier slot than the store's, since the loop
  reads the slot before a sync. `ProduceBlock` stores the block and
  nothing else, as the code does; the attestations of its body come in the
  arbitrary order of a Go map.
* `Storage` splits those steps again, into the single puts, and adds the readers
  that do not take the mutex.
* `Ssz` has one codec over type descriptions where the generated code has one
  method per type; the twelve types are written down field by field. Widths are
  scaled down for TLC (bytes of 3 bits, roots of 3 bytes); the sizes the
  generated code writes as literals are computed from the real widths and
  compared in an assumption (`LiteralSizes`).
* `Duties` counts time in instants, several to an interval. The ticker fires at
  a phase that depends on when the node was started; taking the tick, reading
  the slot, reading the interval and every validator's duty are steps, and the
  clock may move between any two. The store is a version number `view`, which
  is all a signature depends on, and the slot of its head. A restart may come at
  once; the new ticker has the phase of that moment and fires first an interval
  later, as `time.NewTicker` does.
* `Sync` numbers the blocks of the network's chain by slot, and those of a side
  branch by the negative slot. Until the votes the node has seen settle on the
  chain (`Votes`), the head may be at the end of either branch, so its slot may
  go down between the status the loop reads and the duties. Failed requests,
  lost gossip and restarts are steps. The clock may tick at any point of a walk
  but not between its end and the duties.
* `Devnet` keeps of every node the age of its head only (slot minus head slot).
* `Reqresp` has the stream as tokens, response codes and frames; a peer may be
  another client that sends error codes and undecodable frames. A block may be
  too large for the reader or not encodable at all.
* `Gossip` keeps data as short byte strings, so that the data hashed for two
  message ids can coincide where the real layout lets it.
* `Setup` writes the two files of a key one after the other; keygen may stop in
  between or inside a file, and run again with another count. `Startup` has the
  node's own key file with its two loaders, whose reads and writes may fail, and
  what each stage opens and closes.

Operators marked *Mutant* are wrong variants of the definition that follows
them; each is there to show that a property notices the mistake.

## 3. Runs

| run | bounds | states | shows |
|---|---|---|---|
| `chain` | 3 validators (and one index out of range), slots 0-4, at most 1 empty slot in a row, checkpoints of the branch, of empty slots and of another branch | 29 000 | the state stays consistent, finality never reverts, a block is justified exactly by a quorum, whatever is attested |
| `chain_empty_target` | the same with up to 2 empty slots | violated | votes for different empty slots are pooled |
| `fork_choice` | 3 validators, one of them this node's; 5 blocks on 2 branches (both justify, one finalizes), the clock up to slot 3 (`MaxTime` 12), gossip votes, a forged vote, an aggregate with an invalid index | 560 000 | tables, head and votes stay consistent; the checkpoints are the newest received; the node's own votes lie on one branch; the store implements `BlockTree` |
| `fork_known_votes` | as above | violated | an older vote replaces a newer one |
| `fork_own_votes` | as above | violated | a vote the node signed does not count in its own store |
| `sync` | 2 peers, 4 slots, a side branch of 1 block, depth 4, 1 failed request, 1 restart | 606 000 | no holes; the node catches up and comes back to its duties |
| `sync_deep` | depth 2, chain of 4 | violated | beyond the depth it never catches up |
| `algorithms` | slots 0-45 with estimates off by one; bitlists of up to 10 bits; aggregates of up to 3 of 8 validators, 2 changes; lists of up to 2 elements, 1 change in any byte | 50 500 | the slot rule; bytes are lists of Booleans; aggregates stand for their votes only; encodings and roots stand for one object |
| `duties` | 3 validators, 2 of them the node's; slots 0-3 (0-1 for a node that is late by up to 4 of 3 instants per interval), any phase of the ticker, 1 restart, 2 changes of the store | 3 897 000 | one message per key and slot; the vote reaches every validator; pending votes are of one slot |
| `duties_ticks` | the same with iterations at most 1 instant late | violated | an interval's duties are done twice |
| `network` | a fork, an own block, an invalid block, two writers and the readers; 3 messages on 2 topics, queue of 2; requests for up to 4 roots, at most 3 allowed | 364 000 | what is announced can be served and what is delivered is stored and applied exactly once; seen means the same message; answers are faithful; queues drain and requests end |
| `lifecycle` | 2 nodes, 2 validators, 2 runs of keygen, any `validators.yaml` of 2 entries; 3 starts of a node with each kind of key file, reads and writes of it failing; 3 nodes that take turns, ages up to 4, up to 2 missed slots in a row, any crashes | 87 000 | nodes sign with the keys of the genesis; one identity; failures close everything; blocks keep coming until two proposers in a row are down, and never after |

Why the bounds are enough. With three validators a quorum is two, so one vote is
pending, two justify, and the third is a repeat; five slots allow justification,
finalization with and without a gap, and a later attempt to justify again what
is final. The fork-choice scenario contains a fork, empty slots, blocks of both
branches that move the justified checkpoint, one that moves the finalized one,
and a node of its own that proposes and attests. Blocks of slots 4 and 5 are
processed before their slot, which no check of `ProcessBlock` refuses, so the
clock need not get there. With E, which justifies C, before D, which justifies B
and finalizes A, the justified block is C and the finalized one A, on two
branches. `maxSyncDepth` is 64 in the code; only its relation to the gap
matters. `OwnRoots` bounds how many blocks the node produces. Ten bits cross a
byte boundary with data and with the sentinel; the voters 0, 6 and 7 of 8 put
the sentinel of an aggregate inside a byte and into a byte of its own. Two list
elements are enough for offsets between variable elements. In `Duties` four
slots contain a proposal of the node, one of others and the end of the prepared
window. Three gossip messages allow an original, a copy and a look-alike; a
queue of two overflows. In `Devnet` heads older than the gate are alike, so ages
are cut off; three nodes are the least with a proposer down, a second proposer
down and a third that keeps the newest block.

In `Sync` deadlock is checked. In the others the bounded run ends, and it is not.

**Fairness.** `Sync`: the clock advances, peers follow the chain, the main loop
takes its next step (Go schedules the goroutine), and the votes settle on the
chain the peers build, which is what the fork choice is for. Gossip has no
fairness, and nothing has to fail; failures and restarts are finitely many,
which is what "eventually the network works" means here. Without that no walk of
several requests could be promised to end. `Gossip`: each topic's reader
goroutine takes its next message. `Reqresp`: the client goes on, and so does the
peer's handler; the second half is an assumption about the peer, see below.
`Devnet`: time passes, the main loops of running nodes go on, and a node that is
down is restarted by its operator.

**A condition of `Duties`.** `OneMessagePerSlot` is about a punctual node, whose
iterations end in the interval of their tick. Nothing is persisted; a node that
is back within the slot it has signed for does not sign again only because its
first tick comes a whole interval after its start, when the interval of the duty
is over.

### Where the code does not do what a comment says

Each of these is the counterexample of a run:

1. *Empty slots pool their votes* (`process_attestations.go:78`,
   `chain_empty_target`): pending votes are keyed by root and every empty slot
   has the zero hash. Two votes for two different empty slots make one of them
   justified. `QuorumsCounted` is therefore about the slots of blocks.
2. *Old votes replace new ones* (`time.go:60`, `fork_known_votes`): accepting
   pending votes compares nothing.
3. *A vote that counts nowhere* (`produce.go:39`, `fork_own_votes`): the source
   of a vote is the justified checkpoint, the target follows the safe target,
   which is computed once per slot. When a block justifies a later checkpoint in
   between, the target is before the source, and the store of the node that
   signed the vote refuses it, as its peers do. The same happens when finality
   has moved so that the justified slot is not justifiable any more. These are
   the two exceptions in `OwnVotesOnBranch`.
4. *Sync beyond 64 blocks* (`sync.go:42`, `sync_deep`): nothing that was fetched
   connects, nothing is kept, the next attempt is the same.
5. *The phase of the ticker* (`clock.go:51`, `duties_ticks`): it fires at the
   phase of the node's start, not "at the start of each interval". A tick near
   the end of an interval that is taken a moment late counts as one of the next
   interval, whose own tick does its duties again; the key may then sign twice.

Others show as conditions that a property of a passing run needs:

* *The chain stops after two missed slots* (`ticker.go:58`): `GapEndsChain`.
  The gate compares the clock with the own head only, so after two slots in a
  row without a block no node performs duties any more.
* *Justified and finalized on two branches* (`block.go:109`): `BlockTree` says
  nothing of the finalized block and the head. The store takes the newest
  checkpoint of each kind, from whatever block; in `fork_choice` two equivocating
  validators are enough for a justified C next to a finalized A. One body may
  even do it alone (`process_attestations.go:100`): it justifies slot 3 from
  genesis, finalizes 3 by a vote from 3 to 4, and then justifies slot 2, which no
  guard refuses, without a validator voting twice for a slot. The head then
  follows the justified block and may leave the finalized one.
* *Late iterations* (`ticker.go:34`, `ticker.go:39`): the condition `punctual`.
  A slot boundary between the two reads of the clock pairs the old slot with the
  new interval.
* *Duties after a slow sync* (`ticker.go:58`): `DutiesResume` says that the node
  comes back to the duties of the present slot, not that it does no others. The
  gate compares the slot read before the walk with a status read during it, and
  both may be stale when the duties run.
* *A failed read replaces the key* (`host.go:111`): the set `lost` in
  `OneIdentity`. Whatever error reading the key file gives is taken for "file
  doesn't exist", and the file is overwritten with a new key.
* *A cut-off key file* (`host.go:123`): the exception "torn" in
  `OwnFileAccepted`. The node does not start any more until it is removed.
* *Own blocks are not applied* (`produce.go:202`): the exception in
  `DeliveryApplied` and `CheckpointsNewest`.
* *A silent peer* (`client.go:50`): the fairness of `ServerStep`. The timeout
  bounds the opening of the stream only; the reads have no deadline.
* *No `--node-key`* (`enr.go:117`): the exception in `OwnFileAccepted`. The key
  that discovery generates cannot be saved under the empty path, so the node
  does not start.

And these were met while modelling, outside of what the models state: the
history has a limit of 262 144 entries, beyond which `HashTreeRoot` fails and
the dropped error makes every state root zero (`transition.go:127`); a body of
the maximal size needs one signature more than an envelope may carry
(`types/block.go:38`); a proposer that could not produce its block has no vote
in the slot (`validator.go:119`); `TryAggregate` aggregates all pending votes
with the data of the first (`validator.go:180`); the aggregate topic is never
joined, so aggregates are not published; a block that finds the subscription's
buffer full is dropped after it is marked as seen (`gossipsub/handler.go:57`);
`MarshalSSZ` fills nil fields of the object it encodes, which two stream
handlers may share (`block_encoding.go:353`).

## 4. Refinements

`ForkChoice` implements `BlockTree` (`ImplementsBlockTree`): the store's block
table is the tree, its head the head, the roots of its checkpoints the justified
and the finalized block. A step adds at most one block, later than a parent that
is there; the checkpoints are blocks of the tree and move to later slots only;
and the head descends from the justified block after every step. The proof needs
`NoEmptyTargets` (section 5). `BitlistBytes` implements
`BitVector` (`ImplementsBitVector`). Both are checked by TLC and proved.

## 5. Proofs

The theorems hold for every value of the constants: any number of validators,
any block tree, any messages and any bounds. Those with a counterpart among the
runs' properties:

| module | theorem | property |
|---|---|---|
| `ChainStateProofs` | `TypeCorrect`, `HistoryStaysAligned`, `CheckpointsStayJustified` | `TypeOK`, `HistoryAligned`, `CheckpointsJustified` |
| | `FinalityIsMonotone`, `JustificationIsAhead` | `FinalityNeverReverts`, `JustificationOnlyAhead` |
| | `SerializationKeepsVotes`, `QuorumsAreCounted` | `VotesSurviveSerialization`, `QuorumsCounted` |
| `ForkChoiceProofs` | `StoreGrows`, `VotesAreGrounded`, `TablesAlwaysAgree` | `StoreOnlyGrows`, `VotesGrounded`, `TablesAgree` |
| | `HeadIsHeaviest`, `SafeTargetIsBacked`, `OwnVotesStayOnBranch` (1) | `HeadFollowsVotes`, `SafeTargetBacked`, `OwnVotesOnBranch` |
| | `CheckpointsAreNewest` (2), `StoreImplementsBlockTree` (1) | `CheckpointsNewest`, `ImplementsBlockTree` |
| `NetworkProofs` | `AnnouncedIsServable`, `DeliveredIsAppliedOnce` | `AnnouncedServable`, `DeliveryApplied` |
| | `GossipSeenMeansSame`, `AnswersAreFaithful` | `SeenMeansSame`, `AnswerFaithful` |
| `SyncProofs` | `StoreIsComplete` | `StoreComplete` |
| `DutiesProofs` | `PendingStaysOfOneSlot`, `AttestersHaveSigned` | `PendingOfOneSlot`, `AttestersSign` |
| | `KeysSignOncePerSlot` | `OneMessagePerSlot` |
| `LifecycleProofs` | `NodeHasOneIdentity`, `StartsFailCleanly` | `OneIdentity`, `FailsCleanly` |
| | `NodesSignWithGenesisKeys`, `GapEndsEveryChain` | `SigningKeysRight`, `GapEndsChain` |
| `AlgorithmsProofs` | `IsqrtAlwaysExact`, `JustifiableIsByDistance` | `IsqrtExact`, `JustifiableByDistance` |
| | `BytesAlwaysMatchSets`, `BytesImplementBitVector` | `BytesMatchSets`, `ImplementsBitVector` |

(1) under `NoEmptyTargets`, (2) under `ForeignBlocks`: see *Assumptions*.
The theorems about one machine of `MCNetwork`, `MCLifecycle` or `MCAlgorithms`
are about that machine's own `Spec`; the run's specification puts the machines
side by side.

### The arguments

**State transition.** The inductive invariant `IndInv` joins the types with
`StateInv` (what relates history, bitlist, header and checkpoints between
blocks) and `WorkInv` (the same for the loop's working variables). Two things
make it stronger than the properties. The bitlist's shape, all positions at or
below the sentinel, is needed because the length is read off the highest bit.
And every checkpoint the loop may install must lie on the branch at a set bit
and not before the slot that was final when the block began. The heart of
`FinalityIsMonotone` is `FinalizedSourceAhead`: the finalized slot is itself
justifiable after itself, so a source before it would leave a justifiable gap
and is not finalized, and targets at or before it are refused because its bit is
already set or it is not justifiable. Inside one body the finalized slot may
still move back and forth above its old value; only the result is monotone.

`VoteInv` adds the votes: a pending entry is a root of the branch with exactly
the voters that `cast` records and no quorum, a set bit of a block stands for a
quorum, and between blocks the serialized fields decode to the votes of the
loop. The last part rests on the round trip of the SSZ fields: the roots are
sorted, so root i's voters are bits i*n to i*n+n-1 of the one list, and no two
of these ranges overlap.

**Fork choice.** `Inv` says that the store is well formed (`StoreInv`) and that
a block stored under an envelope's root is that envelope's block. `TablesInv` is
the part that makes it inductive: the block table is a tree whose parents have
smaller slots; the state of every block *is* what `StateTransition` makes of its
parent's state; every history names stored blocks at their slots. Votes are at
most of the current slot when they are new, and at most of the next one when
they are known, since a block of the current slot may carry a vote for the
next. One lemma per operation of `Store` shows that it keeps `StoreInv`, and the
folds over a body or an aggregate keep what each of their steps keeps. The
blocks a node produces itself come from `CandidateBlocks`, whose
rounds append only known votes with a stored head (`RoundsInside`).

`HeadIsHeaviest` needs more than `Inv`: the head has to be recomputed whenever
anything it depends on changes. A handler that leaves the head alone must leave
the votes, the checkpoint and the path from the justified block to the head
alone, and a block that is added to the tree without a vote must not overtake
(`HeadStaysGood`); handlers that change them end in `updateHead`. `StoreProofs`
gives what the recursive functions of `Ghost` compute: the weight of a block is
the number of validators whose vote is for it or a descendant (`WeightIs`), no
sibling on the way to the head has more votes than the block that was chosen
(`HeadGood`, `HeadIsGood`), and a head other than the start has the minimum
score (`HeadBacked`).

`OwnVotesStayOnBranch` follows `getVoteTarget` along the head's branch: a step
back (`BackInside`) never passes the ancestors at or before the safe target's
slot, and the walk to a justifiable slot ends at the first such ancestor
(`WalkEnds`), so the target is on the branch, and not before the justified
block unless one of the two exceptions lets it pass.

`CheckpointsInv` says where the store's checkpoints come from: genesis or the
state of a received block, and no received block has a later one. The blocks a
node produces do not count, since `ProduceBlock` stores them without looking at
their checkpoints. For `StoreImplementsBlockTree` the checkpoints have to be
blocks of the tree at their slots (`CheckpointFits`), in the store and in every
state, finalized ones included; without empty targets a state's checkpoints are
entries of its history, and histories are branches. The rest is that the
branches of `BlockTree` are the ancestors that `Ghost` computes (`BranchIs`).

**Storage.** The three maps agree except for the puts that the thread holding
the mutex has not done yet, and its program counter says which (`PutsAt`). The
head and all that was announced have their envelope, and the parent of a block
on a walk is stored when the walk stops there. `AppliedInv` adds that what
`ProcessBlock` stores is valid and not the node's own, and that such a block has
been applied once, or is about to be by the thread that stores it; so whoever
finds it in the map, under the mutex, finds it applied.

**Gossip.** The cache holds an id exactly when the log has its acceptance and no
expiry since (`Live`). The rest is that ids tell messages apart
(`IdsTellApart`): the domain of snappy and raw data, the topic and the payload
can be read back from what is hashed.

**Request and response.** There is an m such that the client has read m frames,
what is in flight continues with frame m + 1, codes and frames in turn
(`InFlight`), and ends where the server is, or where it closed the stream
(`FlightEnds`). Each of the three may move on its own; m is what ties them
together, and neither `got` nor the stream alone is inductive.

**Start and setup.** `StartupInv` lists what is open at each stage, that each
loaded key is the file's, and that a key the node ran with is still the file's
unless it was lost by a failed read. `SetupInv` says that a key file holds
nothing, a torn half or the key of its own seed, so that a later or interrupted
keygen cannot change a key a node has loaded; that line i of `config.yaml` is
the key of seed i; and that a running node has passed `Validate`, from which the
distinctness of the validators follows.

**Devnet.** `AgesInv`: until the slot's proposer acts every head is at least one
slot old, and two if the slot before was missed; two slots missed in a row are a
gap, and after a gap every head is at least three slots old, too old for the
gate. Sync and restart only copy ages, and the slot's proposer, the only source
of age 0, is behind the gate.

**Sync.** Every stored block has its parent, the head is stored, and no block,
peer, status or requested block is ahead of the clock.

**Duties.** `DutyInv` (types, the validators left to do, the votes kept for the
aggregate, who signed what) holds however late iterations are. `ClockInv` adds
the arithmetic of the clock: while the node is punctual, a tick in the channel
belongs to the present interval, and an interval is not handled before its tick;
what was handled is never ahead of the clock. A restart sets the phase to the
present instant, so that the tick of that interval is already past. What is
signed for a slot is signed in that slot's interval of the duty, once.

**Slot rule.** `math.Sqrt` is within one of the root, and the two corrections of
`isqrt` then make it exact; `JustifiableRule` says that the tests of
`IsJustifiableAfter` on the root accept exactly the distances up to 5, the
squares and the pronic numbers.

**Bitlists.** The invariant `Packed` fixes the bytes: the sentinel is the highest
set bit, at the position of the length, in the last byte. One lemma per
operation says which bits are set afterwards (`SetPacked`, `AppendPacked`,
`MakePacked`), over the byte boundary; the set form and the vector follow from
the bits.

### How recursion and folds are handled

The theorems of the library that take an operator (induction over naturals,
sequences or finite sets, recursive definitions) cannot be used by the installed
provers. Induction is replaced by the least counterexample: a set of naturals
with no least element is empty. That a recursive *function* equals its body is
shown by giving a function that does, as the set of all that is reached or as
the union of the partial ones (`RoundsExist`, `CountedPathIs`, `DescentExists`,
`WalkExists`);
folds come from `FoldExists`, and `FoldInside` says that a fold keeps a set
that each step keeps. For the same reason `Store` assigns to maps with its own
`Put` and `PutAll` instead of operators of `TLC`, about which the provers know
nothing.

### Assumptions

They are named, stand in the modules that declare the constants, and TLC
evaluates them in every run.

* `NumValidators` is a positive natural; roots of different blocks differ and
  are not zero; bounds are naturals; messages have the types the decoders give
  them (`RawAttestation`, `BlockType`), and nothing else is assumed of them.
* A node's validator indices are distinct (`DutiesAssumption`), as keygen and
  the validator file assign them.
* `NoEmptyTargets`, a hypothesis of the theorems about the head, the safe target,
  own votes and the block tree: no received block body
  has a vote whose target is the zero hash. The transition does not refuse such
  votes (run `chain_empty_target`); one that gathers a quorum makes the zero
  hash the justified root, and the search for the head then starts from
  genesis, so that without the hypothesis the theorems are false.
* `ForeignBlocks`: nobody but this node proposes with the keys of its
  validators. Otherwise a node could find that a block it produced is one it may
  also receive, and the two paths treat its checkpoints differently.

### Only model-checked

* Liveness under fairness, which is out of the provers' reach: `CatchesUp`,
  `DutiesResume`, `BlocksKeepComing`, `QueuesDrain`, `RequestEnds`.
* `AggregateFaithful`: the aggregate is built by sorting and flattening
  sequences, library operators that are defined by `CHOOSE` and by folds over
  data, so what they compute for every input is an induction the provers cannot
  do.
* `OneEncoding` and `RootsIdentify`: what a codec written with `RECURSIVE`
  operators over type descriptions computes.

## 6. Not modelled

Logging and metrics (no protocol state); the spec-test fixtures; the internals
of XMSS (a Rust library behind an FFI; what the node relies on is modelled: a
key signs in its window, and a signature is good for one validator and one
message); `GetTree` of the SSZ code, which nothing calls; the gossip mesh,
dialling and the discv5 table of libp2p; `LoadBootnodes` and
`scripts/gen_node_keys` (parsing and formatting without a check of their own);
command line flags. The bytes of varints and snappy frames are tokens. Two
processes under one node name are outside of what the code guards against.

## 7. Plan

The system's own logic is modelled, and every safety property that the provers
can reach is proved. What could follow: an `AggregateFaithful` over sets of
votes in place of sorted lists, which could be proved; and, if the code comes to
refuse a justification before the finalized slot, that the finalized block is an
ancestor of the justified one as a theorem about one branch.
