-------------------------- MODULE ForkChoiceProofs --------------------------
(***************************************************************************)
(* Proofs about ForkChoice, for every number of validators and whatever    *)
(* blocks, votes and aggregates the network delivers.  The operations of   *)
(* Store are functions from stores to stores; the lemmas say what each     *)
(* does to a store s, and the actions are put together from them.          *)
(***************************************************************************)
EXTENDS ForkChoice, StoreProofs

-----------------------------------------------------------------------------
(* The inductive invariant.                                                *)

(* Partial maps from validators to their attestations.                     *)
VoteMaps == UNION {[V -> AttestationType] : V \in SUBSET Validators}

StoreType ==
  [time : Nat, head : Nat, safeTarget : Nat,
   latestJustified : CheckpointType, latestFinalized : CheckpointType,
   blocks : UNION {[R -> BlockType] : R \in SUBSET Nat},
   states : UNION {[R -> StateType] : R \in SUBSET Nat},
   known : VoteMaps, new : VoteMaps]

(* The state of block r: what the state transition makes of the parent's.  *)
StateFits(s, r) ==
  LET st == s.states[r]
      p == s.blocks[r].parent
  IN  /\ GoodState(st)
      /\ st.header = [slot |-> s.blocks[r].slot, root |-> r, filled |-> FALSE]
      /\ r # GenesisRoot =>
           /\ p \in DOMAIN s.blocks
           /\ s.blocks[p].slot < s.blocks[r].slot
           /\ st = StateTransition(s.states[p], s.blocks[r], r)
           /\ st.hist = Extended(s.states[p].hist, p,
                                 s.blocks[r].slot - s.blocks[p].slot - 1)

(* The history of block r names stored blocks, each at its slot.           *)
HistoryFits(s, r) ==
  LET h == s.states[r].hist
  IN  \A i \in 1 .. Len(h) :
        h[i] # ZeroHash => h[i] \in DOMAIN s.blocks /\ s.blocks[h[i]].slot = i - 1

(* The block table is a tree and the state table fits it.                  *)
TablesInv(s) ==
  /\ \E n \in Nat : IsTree(s.blocks, n)
  /\ DOMAIN s.states = DOMAIN s.blocks
  /\ GenesisRoot \in DOMAIN s.blocks
  /\ s.blocks[GenesisRoot] = GenesisBlock
  /\ s.states[GenesisRoot] = GenesisState(GenesisRoot)
  /\ \A r \in DOMAIN s.blocks : StateFits(s, r) /\ HistoryFits(s, r)

(* The checkpoint c is a stored block at its slot, or an empty slot.       *)
CheckpointFits(s, c) ==
  c.root # ZeroHash => c.root \in DOMAIN s.blocks /\ s.blocks[c.root].slot = c.slot

HeadsInv(s) ==
  /\ s.head \in DOMAIN s.blocks
  /\ s.safeTarget \in DOMAIN s.blocks
  /\ CheckpointFits(s, s.latestJustified)
  /\ CheckpointFits(s, s.latestFinalized)

(* The vote names stored blocks at their slots, and is at most of slot.    *)
Grounded(s, att, slot) ==
  /\ att.head.root \in DOMAIN s.blocks
  /\ \A c \in {att.source, att.target} :
       c.root \in DOMAIN s.blocks /\ s.blocks[c.root].slot = c.slot
  /\ att.slot <= slot

(* The maps votes with only such votes of their own validators.            *)
GroundedVotes(s, slot) ==
  {votes \in VoteMaps :
     \A v \in DOMAIN votes : votes[v].validator = v /\ Grounded(s, votes[v], slot)}

VotesInv(s) ==
  /\ s.known \in GroundedVotes(s, CurrentSlot(s) + 1)
  /\ s.new \in GroundedVotes(s, CurrentSlot(s))

StoreInv(s) == s \in StoreType /\ TablesInv(s) /\ HeadsInv(s) /\ VotesInv(s)

(* A block stored under the root of an envelope is its block.              *)
RootsInv(s) ==
  \A e \in Envelopes : e.root \in DOMAIN s.blocks => s.blocks[e.root] = e.block

Inv == StoreInv(store) /\ RootsInv(store) /\ signed \subseteq AttestationType

-----------------------------------------------------------------------------
(* Maps.                                                                   *)

(* A map of votes is finite.                                               *)
LEMMA VotesFinite ==
  ASSUME NEW votes \in VoteMaps
  PROVE  /\ DOMAIN votes \subseteq Validators
         /\ IsFiniteSet(DOMAIN votes)
         /\ \A v \in DOMAIN votes : votes[v] \in AttestationType
<1>1. PICK V \in SUBSET Validators : votes \in [V -> AttestationType]
  BY DEF VoteMaps
<1>2. IsFiniteSet(Validators)
  BY NumValidatorsAssumption, FS_Interval DEF Validators
<1>3. IsFiniteSet(V)
  BY <1>2, FS_Subset
<1> QED
  BY <1>1, <1>3

(* A map of votes, entry by entry.                                         *)
LEMMA VoteMapOf ==
  ASSUME NEW V \in SUBSET Validators, NEW f, f = [v \in V |-> f[v]],
         \A v \in V : f[v] \in AttestationType
  PROVE  f \in VoteMaps
<1>1. f \in [V -> AttestationType]
  OBVIOUS
<1> QED
  BY <1>1 DEF VoteMaps

(* Put, entry by entry.                                                    *)
LEMMA PutIs ==
  ASSUME NEW map, NEW key, NEW value
  PROVE  /\ DOMAIN Put(map, key, value) = DOMAIN map \union {key}
         /\ Put(map, key, value)[key] = value
         /\ \A k \in DOMAIN map : k # key => Put(map, key, value)[k] = map[k]
BY DEF Put

(* Putting what is there changes nothing.                                  *)
LEMMA PutSame ==
  ASSUME NEW map, NEW key \in DOMAIN map, map = [k \in DOMAIN map |-> map[k]]
  PROVE  Put(map, key, map[key]) = map
BY DEF Put

(* A grounded vote may be put into a map of grounded votes,                *)
LEMMA PutGrounded ==
  ASSUME NEW s, NEW slot, NEW votes \in GroundedVotes(s, slot),
         NEW att \in AttestationType, Grounded(s, att, slot)
  PROVE  Put(votes, att.validator, att) \in GroundedVotes(s, slot)
<1> DEFINE f == Put(votes, att.validator, att)
           V == DOMAIN votes \union {att.validator}
<1>1. votes \in VoteMaps
  BY DEF GroundedVotes
<1>2. DOMAIN votes \subseteq Validators /\ \A v \in DOMAIN votes : votes[v] \in AttestationType
  BY <1>1, VotesFinite
<1>3. att.validator \in Validators
  BY DEF AttestationType
<1>4. /\ DOMAIN f = V
      /\ f[att.validator] = att
      /\ \A v \in DOMAIN votes : v # att.validator => f[v] = votes[v]
  BY DEF Put
<1>5. f = [v \in V |-> f[v]]
  BY DEF Put
<1> HIDE DEF f
<1>6. f \in VoteMaps
  BY <1>2, <1>3, <1>4, <1>5, VoteMapOf
<1>7. \A v \in DOMAIN f : f[v].validator = v /\ Grounded(s, f[v], slot)
  BY <1>4 DEF GroundedVotes
<1>8. f \in GroundedVotes(s, slot)
  BY <1>6, <1>7 DEF GroundedVotes
<1> QED
  BY <1>8 DEF f

(* one may be taken out,                                                   *)
LEMMA WithoutGrounded ==
  ASSUME NEW s, NEW slot, NEW votes \in GroundedVotes(s, slot), NEW v
  PROVE  Without(votes, v) \in GroundedVotes(s, slot)
<1> DEFINE f == Without(votes, v)
           V == DOMAIN votes \ {v}
<1>1. votes \in VoteMaps
  BY DEF GroundedVotes
<1>2. DOMAIN votes \subseteq Validators /\ \A u \in DOMAIN votes : votes[u] \in AttestationType
  BY <1>1, VotesFinite
<1>3. f = [u \in V |-> votes[u]]
  BY DEF Without, Restrict
<1>4. DOMAIN f = V /\ f = [u \in V |-> f[u]] /\ \A u \in V : f[u] = votes[u]
  BY <1>3
<1> HIDE DEF f
<1>6. f \in VoteMaps
  BY <1>2, <1>4, VoteMapOf
<1>7. \A u \in DOMAIN f : f[u].validator = u /\ Grounded(s, f[u], slot)
  BY <1>4 DEF GroundedVotes
<1>8. f \in GroundedVotes(s, slot)
  BY <1>6, <1>7 DEF GroundedVotes
<1> QED
  BY <1>8 DEF f

(* and the pending votes may be put into the known ones.                   *)
LEMMA PutAllGrounded ==
  ASSUME NEW s, NEW slot \in Nat, NEW known \in GroundedVotes(s, slot + 1),
         NEW new \in GroundedVotes(s, slot)
  PROVE  PutAll(known, new) \in GroundedVotes(s, slot + 1)
<1> DEFINE f == PutAll(known, new)
           V == DOMAIN known \union DOMAIN new
<1>1. known \in VoteMaps /\ new \in VoteMaps
  BY DEF GroundedVotes
<1>2. /\ DOMAIN known \subseteq Validators /\ DOMAIN new \subseteq Validators
      /\ \A u \in DOMAIN known : known[u] \in AttestationType
      /\ \A u \in DOMAIN new : new[u] \in AttestationType
  BY <1>1, VotesFinite
<1>3. f = [v \in V |-> IF v \in DOMAIN new THEN new[v] ELSE known[v]]
  BY DEF PutAll
<1>4. DOMAIN f = V /\ f = [v \in V |-> f[v]]
      /\ \A v \in V : f[v] = IF v \in DOMAIN new THEN new[v] ELSE known[v]
  BY <1>3
<1> HIDE DEF f
<1>6. f \in VoteMaps
  BY <1>2, <1>4, VoteMapOf
<1>7. ASSUME NEW v \in DOMAIN f
      PROVE  f[v].validator = v /\ Grounded(s, f[v], slot + 1)
  <2>1. CASE v \in DOMAIN new
    <3>1. new[v].validator = v /\ Grounded(s, new[v], slot) /\ new[v].slot \in Nat
      BY <1>2, <2>1 DEF GroundedVotes, AttestationType
    <3>2. Grounded(s, new[v], slot + 1)
      BY <3>1 DEF Grounded
    <3> QED
      BY <1>4, <2>1, <3>1, <3>2
  <2>2. CASE v \notin DOMAIN new
    BY <1>4, <2>2 DEF GroundedVotes
  <2> QED
    BY <2>1, <2>2
<1>8. f \in GroundedVotes(s, slot + 1)
  BY <1>6, <1>7 DEF GroundedVotes
<1> QED
  BY <1>8 DEF f

(* There is a map without votes.                                           *)
LEMMA EmptyGrounded ==
  ASSUME NEW s, NEW slot
  PROVE  EmptyMap \in GroundedVotes(s, slot)
<1>1. DOMAIN EmptyMap = {} /\ EmptyMap = [v \in {} |-> EmptyMap[v]]
  BY DEF EmptyMap
<1> HIDE DEF EmptyMap
<1>2. EmptyMap \in VoteMaps
  BY <1>1, VoteMapOf
<1> QED
  BY <1>1, <1>2 DEF GroundedVotes

(* Later on more votes are grounded.                                       *)
LEMMA GroundedLater ==
  ASSUME NEW s, NEW t, NEW slot \in Nat, NEW later \in Nat, slot <= later,
         DOMAIN s.blocks \subseteq DOMAIN t.blocks,
         \A r \in DOMAIN s.blocks : t.blocks[r] = s.blocks[r]
  PROVE  GroundedVotes(s, slot) \subseteq GroundedVotes(t, later)
<1> SUFFICES ASSUME NEW votes \in GroundedVotes(s, slot), NEW v \in DOMAIN votes
             PROVE  votes[v].validator = v /\ Grounded(t, votes[v], later)
  BY DEF GroundedVotes
<1>1. votes[v] \in AttestationType
  BY VotesFinite DEF GroundedVotes
<1>2. votes[v].validator = v /\ Grounded(s, votes[v], slot) /\ votes[v].slot \in Nat
  BY <1>1 DEF GroundedVotes, AttestationType
<1> QED
  BY <1>2 DEF Grounded

-----------------------------------------------------------------------------
(* The head.                                                               *)

(* The invariant of the tables speaks of the tables only.                  *)
LEMMA TablesSame ==
  ASSUME NEW s, NEW t, TablesInv(s), t.blocks = s.blocks, t.states = s.states
  PROVE  TablesInv(t)
BY DEF TablesInv, StateFits, HistoryFits

(* The same of the votes.                                                  *)
LEMMA GroundedSame ==
  ASSUME NEW s, NEW t, t.blocks = s.blocks, NEW slot
  PROVE  GroundedVotes(t, slot) = GroundedVotes(s, slot)
BY DEF GroundedVotes, Grounded

(* GetForkChoiceHead returns a stored block.                               *)
LEMMA HeadStored ==
  ASSUME NEW s, TablesInv(s), CheckpointFits(s, s.latestJustified),
         NEW votes \in VoteMaps, NEW minScore
  PROVE  GetForkChoiceHead(s.blocks, s.latestJustified.root, votes, minScore)
           \in DOMAIN s.blocks
<1> DEFINE blocks == s.blocks
           root == s.latestJustified.root
<1>1. PICK n \in Nat : IsTree(blocks, n)
  BY DEF TablesInv
<1>2. root \in DOMAIN blocks \union {ZeroHash} /\ DOMAIN blocks # {}
  BY DEF CheckpointFits, TablesInv
<1> SUFFICES GetForkChoiceHead(blocks, root, votes, minScore) \in DOMAIN blocks
  OBVIOUS
<1> HIDE DEF blocks, root
<1>3. HeadStart(blocks, root) \in DOMAIN blocks
  BY <1>1, <1>2, StartInside
<1>4. IsFiniteSet(DOMAIN votes)
  BY VotesFinite
<1>5. \A r \in DOMAIN blocks : HeadChildren(blocks, root, votes, minScore, r) # {}
        => BestOf(blocks, root, votes, minScore, r) \in DOMAIN blocks
  BY <1>1, <1>4, BestOfIs
<1> QED
  BY <1>1, <1>3, <1>4, <1>5, HeadInside

(* What updateHead needs: the invariant but for the head itself.           *)
HeadlessInv(s) ==
  /\ s \in StoreType /\ TablesInv(s) /\ VotesInv(s)
  /\ s.safeTarget \in DOMAIN s.blocks
  /\ CheckpointFits(s, s.latestJustified)
  /\ CheckpointFits(s, s.latestFinalized)

(* t is s but for the head.                                                *)
SameButHead(s, t) ==
  /\ t.time = s.time /\ t.safeTarget = s.safeTarget
  /\ t.latestJustified = s.latestJustified /\ t.latestFinalized = s.latestFinalized
  /\ t.blocks = s.blocks /\ t.states = s.states
  /\ t.known = s.known /\ t.new = s.new

(* updateHead establishes the invariant.                                   *)
LEMMA UpdateHeadInv ==
  ASSUME NEW s, HeadlessInv(s)
  PROVE  StoreInv(updateHead(s)) /\ SameButHead(s, updateHead(s))
<1> DEFINE h == GetForkChoiceHead(s.blocks, s.latestJustified.root, s.known, 0)
           t == updateHead(s)
<1>1. s \in StoreType /\ s.known \in VoteMaps
  BY DEF HeadlessInv, StoreType
<1>2. h \in DOMAIN s.blocks
  BY <1>1, HeadStored DEF HeadlessInv
<1>3. t = [s EXCEPT !.head = h]
  BY DEF updateHead
<1>4. DOMAIN s.blocks \subseteq Nat
  BY <1>1 DEF StoreType
<1> HIDE DEF h, t
<1>5. t \in StoreType /\ t.head = h
  BY <1>1, <1>2, <1>3, <1>4 DEF StoreType
<1>6. SameButHead(s, t)
  BY <1>1, <1>3 DEF StoreType, SameButHead
<1>7. TablesInv(t)
  BY <1>6, TablesSame DEF HeadlessInv, SameButHead
<1>8. HeadsInv(t)
  BY <1>2, <1>5, <1>6 DEF HeadsInv, HeadlessInv, SameButHead, CheckpointFits
<1>9. VotesInv(t)
  BY <1>6, GroundedSame DEF VotesInv, HeadlessInv, SameButHead, CurrentSlot
<1> QED
  BY <1>5, <1>6, <1>7, <1>8, <1>9 DEF StoreInv, t

(* t is s but for the head and the votes.                                  *)
SameBlocks(s, t) ==
  /\ t.time = s.time /\ t.safeTarget = s.safeTarget
  /\ t.latestJustified = s.latestJustified /\ t.latestFinalized = s.latestFinalized
  /\ t.blocks = s.blocks /\ t.states = s.states

(* acceptNewAttestations keeps the invariant.                              *)
LEMMA AcceptInv ==
  ASSUME NEW s, StoreInv(s)
  PROVE  /\ StoreInv(acceptNewAttestations(s))
         /\ SameBlocks(s, acceptNewAttestations(s))
<1> DEFINE u == [s EXCEPT !.known = PutAll(s.known, s.new), !.new = EmptyMap]
<1>1. s \in StoreType /\ s.time \in Nat
  BY DEF StoreInv, StoreType
<1>2. CurrentSlot(s) \in Nat
  BY <1>1 DEF CurrentSlot, IntervalsPerSlot
<1>3. PutAll(s.known, s.new) \in GroundedVotes(s, CurrentSlot(s) + 1)
  BY <1>2, PutAllGrounded DEF StoreInv, VotesInv
<1>4. EmptyMap \in GroundedVotes(s, CurrentSlot(s))
  BY EmptyGrounded
<1>5. /\ u \in StoreType
      /\ u.known = PutAll(s.known, s.new) /\ u.new = EmptyMap
  BY <1>1, <1>3, <1>4 DEF StoreType, GroundedVotes
<1>6. SameBlocks(s, u) /\ u.head = s.head
  BY <1>1 DEF StoreType, SameBlocks
<1>7. acceptNewAttestations(s) = updateHead(u)
  BY DEF acceptNewAttestations
<1> HIDE DEF u
<1>8. TablesInv(u)
  BY <1>6, TablesSame DEF StoreInv, SameBlocks
<1>9. VotesInv(u)
  BY <1>3, <1>4, <1>5, <1>6, GroundedSame DEF VotesInv, SameBlocks, CurrentSlot
<1>10. HeadlessInv(u)
  BY <1>5, <1>6, <1>8, <1>9
  DEF HeadlessInv, StoreInv, HeadsInv, SameBlocks, CheckpointFits
<1>11. StoreInv(updateHead(u)) /\ SameButHead(u, updateHead(u))
  BY <1>10, UpdateHeadInv
<1> QED
  BY <1>6, <1>7, <1>11 DEF SameBlocks, SameButHead

(* Time passes.                                                            *)
LEMMA TickedInv ==
  ASSUME NEW s, StoreInv(s)
  PROVE  StoreInv([s EXCEPT !.time = @ + 1])
<1> DEFINE u == [s EXCEPT !.time = @ + 1]
<1>1. s \in StoreType /\ s.time \in Nat
  BY DEF StoreInv, StoreType
<1>2. /\ u \in StoreType /\ u.time = s.time + 1
      /\ u.head = s.head /\ u.safeTarget = s.safeTarget
      /\ u.latestJustified = s.latestJustified /\ u.latestFinalized = s.latestFinalized
      /\ u.blocks = s.blocks /\ u.states = s.states
      /\ u.known = s.known /\ u.new = s.new
  BY <1>1 DEF StoreType
<1> SUFFICES StoreInv(u)
  OBVIOUS
<1> HIDE DEF u
<1>3. TablesInv(u)
  BY <1>2, TablesSame DEF StoreInv
<1>4. HeadsInv(u)
  BY <1>2 DEF StoreInv, HeadsInv, CheckpointFits
<1>5. /\ CurrentSlot(s) \in Nat /\ CurrentSlot(u) \in Nat
      /\ CurrentSlot(s) <= CurrentSlot(u)
  BY <1>1, <1>2 DEF CurrentSlot, IntervalsPerSlot
<1>6. /\ GroundedVotes(s, CurrentSlot(s)) \subseteq GroundedVotes(u, CurrentSlot(u))
      /\ GroundedVotes(s, CurrentSlot(s) + 1)
           \subseteq GroundedVotes(u, CurrentSlot(u) + 1)
  BY <1>2, <1>5, GroundedLater
<1>7. VotesInv(u)
  BY <1>2, <1>6 DEF StoreInv, VotesInv
<1> QED
  BY <1>2, <1>3, <1>4, <1>7 DEF StoreInv

(* The next interval.                                                      *)
LEMMA TickInv ==
  ASSUME NEW s, StoreInv(s), NEW hasProposal
  PROVE  /\ StoreInv(tickInterval(s, hasProposal))
         /\ LET t == tickInterval(s, hasProposal)
            IN  /\ t.latestJustified = s.latestJustified
                /\ t.latestFinalized = s.latestFinalized
                /\ t.blocks = s.blocks /\ t.states = s.states
<1> DEFINE u == [s EXCEPT !.time = @ + 1]
           t == tickInterval(s, hasProposal)
<1>1. s \in StoreType /\ s.time \in Nat
  BY DEF StoreInv, StoreType
<1>2. /\ u \in StoreType /\ u.time = s.time + 1
      /\ u.head = s.head /\ u.safeTarget = s.safeTarget
      /\ u.latestJustified = s.latestJustified /\ u.latestFinalized = s.latestFinalized
      /\ u.blocks = s.blocks /\ u.states = s.states
      /\ u.known = s.known /\ u.new = s.new
  BY <1>1 DEF StoreType
<1>3. t = acceptNewAttestations(u) \/ t = updateSafeTarget(u) \/ t = u
  BY DEF tickInterval
<1>4. StoreInv(u)
  BY TickedInv
<1> HIDE DEF u, t
<1>5. CASE t = acceptNewAttestations(u)
  BY <1>2, <1>4, <1>5, AcceptInv DEF SameBlocks, t
<1>6. CASE t = updateSafeTarget(u)
  <2> DEFINE h == GetForkChoiceHead(u.blocks, u.latestJustified.root, u.new,
                                    ceilDiv(2 * NumValidators, 3))
  <2>1. u.new \in VoteMaps
    BY <1>2 DEF StoreType
  <2>2. h \in DOMAIN u.blocks /\ DOMAIN u.blocks \subseteq Nat
    BY <1>2, <1>4, <2>1, HeadStored DEF StoreInv, HeadsInv, StoreType
  <2>3. t = [u EXCEPT !.safeTarget = h]
    BY <1>6 DEF updateSafeTarget
  <2> HIDE DEF h
  <2>4. /\ t \in StoreType /\ t.safeTarget = h /\ t.head = u.head
        /\ t.time = u.time
        /\ t.latestJustified = u.latestJustified /\ t.latestFinalized = u.latestFinalized
        /\ t.blocks = u.blocks /\ t.states = u.states
        /\ t.known = u.known /\ t.new = u.new
    BY <1>2, <2>2, <2>3 DEF StoreType
  <2>5. TablesInv(t)
    BY <1>4, <2>4, TablesSame DEF StoreInv
  <2>6. HeadsInv(t)
    BY <1>4, <2>2, <2>4 DEF HeadsInv, StoreInv, CheckpointFits
  <2>7. VotesInv(t)
    BY <1>4, <2>4, GroundedSame DEF VotesInv, StoreInv, CurrentSlot
  <2> QED
    BY <1>2, <2>4, <2>5, <2>6, <2>7 DEF StoreInv, t
<1>7. CASE t = u
  BY <1>2, <1>4, <1>7 DEF t
<1> QED
  BY <1>3, <1>5, <1>6, <1>7

-----------------------------------------------------------------------------
(* Votes.                                                                  *)

(* t is s but for the votes.                                               *)
SameButVotes(s, t) ==
  /\ t.time = s.time /\ t.head = s.head /\ t.safeTarget = s.safeTarget
  /\ t.latestJustified = s.latestJustified /\ t.latestFinalized = s.latestFinalized
  /\ t.blocks = s.blocks /\ t.states = s.states

(* The stores that differ from s in their votes only, all of them grounded.*)
VoteStores(s) ==
  {t \in StoreType : /\ SameButVotes(s, t)
                     /\ t.known \in GroundedVotes(s, CurrentSlot(s) + 1)
                     /\ t.new \in GroundedVotes(s, CurrentSlot(s))}

(* Changing the votes again.                                               *)
LEMMA VoteStoreAgain ==
  ASSUME NEW s \in StoreType, NEW t \in VoteStores(s),
         NEW k \in GroundedVotes(s, CurrentSlot(s) + 1),
         NEW m \in GroundedVotes(s, CurrentSlot(s))
  PROVE  [t EXCEPT !.known = k, !.new = m] \in VoteStores(s)
<1> DEFINE u == [t EXCEPT !.known = k, !.new = m]
<1>1. t \in StoreType /\ SameButVotes(s, t)
  BY DEF VoteStores
<1>2. k \in VoteMaps /\ m \in VoteMaps
  BY DEF GroundedVotes
<1>3. u \in StoreType /\ u.known = k /\ u.new = m /\ SameButVotes(t, u)
  BY <1>1, <1>2 DEF StoreType, SameButVotes
<1> HIDE DEF u
<1>4. SameButVotes(s, u)
  BY <1>1, <1>3 DEF SameButVotes
<1>5. u \in VoteStores(s)
  BY <1>3, <1>4 DEF VoteStores
<1> QED
  BY <1>5 DEF u

(* The invariant holds of them all.                                        *)
LEMMA VoteStoreInv ==
  ASSUME NEW s, StoreInv(s), NEW t \in VoteStores(s)
  PROVE  StoreInv(t)
<1>1. /\ t \in StoreType /\ SameButVotes(s, t)
      /\ t.known \in GroundedVotes(s, CurrentSlot(s) + 1)
      /\ t.new \in GroundedVotes(s, CurrentSlot(s))
  BY DEF StoreInv, VoteStores
<1>2. TablesInv(t)
  BY <1>1, TablesSame DEF StoreInv, SameButVotes
<1>3. HeadsInv(t)
  BY <1>1 DEF StoreInv, HeadsInv, SameButVotes, CheckpointFits
<1>4. VotesInv(t)
  BY <1>1, GroundedSame DEF VotesInv, SameButVotes, CurrentSlot
<1> QED
  BY <1>1, <1>2, <1>3, <1>4 DEF StoreInv

(* A store is one of its own.                                              *)
LEMMA VoteStoreSelf ==
  ASSUME NEW s \in StoreType, VotesInv(s)
  PROVE  s \in VoteStores(s)
BY DEF VoteStores, VotesInv, SameButVotes

(* Those that gossip can reach: the known votes are the same.              *)
GossipStores(s) == {t \in VoteStores(s) : t.known = s.known}

(* A store is one of its own.                                              *)
LEMMA GossipStoreSelf ==
  ASSUME NEW s \in StoreType, VotesInv(s)
  PROVE  s \in GossipStores(s)
BY VoteStoreSelf DEF GossipStores

(* A vote that passes the checks is grounded.                              *)
LEMMA ValidGrounded ==
  ASSUME NEW s \in StoreType, NEW t \in VoteStores(s), NEW att,
         validateAttestationData(t, att)
  PROVE  Grounded(s, att, CurrentSlot(s) + 1)
<1>1. t.blocks = s.blocks /\ t.time = s.time
  BY DEF VoteStores, SameButVotes
<1> QED
  BY <1>1 DEF validateAttestationData, Grounded, CurrentSlot

(* The type of an attestation whose validator is known.                    *)
LEMMA RawKnown ==
  ASSUME NEW att \in RawAttestation, att.validator \in Validators
  PROVE  att \in AttestationType
BY DEF RawAttestation, AttestationType

(* A vote from gossip.                                                     *)
LEMMA GossipInside ==
  ASSUME NEW s \in StoreType, NEW t \in GossipStores(s),
         NEW att \in RawAttestation, NEW sig
  PROVE  GossipVote(t, att, sig) \in GossipStores(s)
<1>1. /\ t \in StoreType /\ SameButVotes(s, t)
      /\ t.known \in GroundedVotes(s, CurrentSlot(s) + 1)
      /\ t.new \in GroundedVotes(s, CurrentSlot(s))
      /\ t \in VoteStores(s) /\ t.known = s.known
  BY DEF VoteStores, GossipStores
<1> DEFINE m == IF Newer(t.new, att) THEN Put(t.new, att.validator, att) ELSE t.new
<1>2. ASSUME validateAttestationData(t, att), verifyAttestationSignature(att, sig),
             att.slot <= CurrentSlot(t)
      PROVE  [t EXCEPT !.new = m] \in GossipStores(s)
  <2>1. att \in AttestationType
    BY <1>2, RawKnown DEF verifyAttestationSignature
  <2>2. Grounded(s, att, CurrentSlot(s))
    <3>1. Grounded(s, att, CurrentSlot(s) + 1)
      BY <1>1, <1>2, ValidGrounded
    <3>2. att.slot <= CurrentSlot(s)
      BY <1>1, <1>2 DEF SameButVotes, CurrentSlot
    <3> QED
      BY <3>1, <3>2 DEF Grounded
  <2>3. Put(t.new, att.validator, att) \in GroundedVotes(s, CurrentSlot(s))
    BY <1>1, <2>1, <2>2, PutGrounded
  <2>4. m \in GroundedVotes(s, CurrentSlot(s))
    BY <1>1, <2>3
  <2> HIDE DEF m
  <2>5. [t EXCEPT !.new = m] = [t EXCEPT !.known = t.known, !.new = m]
    BY <1>1 DEF StoreType
  <2>6. [t EXCEPT !.new = m].known = t.known
    BY <1>1 DEF StoreType
  <2>7. [t EXCEPT !.new = m] \in VoteStores(s)
    BY <1>1, <2>4, <2>5, VoteStoreAgain
  <2> QED
    BY <1>1, <2>6, <2>7 DEF GossipStores
<1>3. \/ GossipVote(t, att, sig) = t
      \/ /\ GossipVote(t, att, sig) = [t EXCEPT !.new = m]
         /\ validateAttestationData(t, att) /\ verifyAttestationSignature(att, sig)
         /\ att.slot <= CurrentSlot(t)
  BY DEF GossipVote
<1> QED
  BY <1>2, <1>3

(* A vote from a block body.                                               *)
LEMMA OnChainInside ==
  ASSUME NEW s \in StoreType, NEW t \in VoteStores(s), NEW att \in AttestationType
  PROVE  OnChainVote(t, att) \in VoteStores(s)
<1>1. /\ t \in StoreType /\ SameButVotes(s, t)
      /\ t.known \in GroundedVotes(s, CurrentSlot(s) + 1)
      /\ t.new \in GroundedVotes(s, CurrentSlot(s))
  BY DEF VoteStores
<1> DEFINE superseded == /\ att.validator \in DOMAIN t.new
                         /\ t.new[att.validator].slot <= att.slot
           k == IF Newer(t.known, att) THEN Put(t.known, att.validator, att) ELSE t.known
           m == IF superseded THEN Without(t.new, att.validator) ELSE t.new
<1>2. ASSUME validateAttestationData(t, att)
      PROVE  [t EXCEPT !.known = k, !.new = m] \in VoteStores(s)
  <2>1. Grounded(s, att, CurrentSlot(s) + 1)
    BY <1>2, ValidGrounded
  <2>2. Put(t.known, att.validator, att) \in GroundedVotes(s, CurrentSlot(s) + 1)
    BY <1>1, <2>1, PutGrounded
  <2>3. Without(t.new, att.validator) \in GroundedVotes(s, CurrentSlot(s))
    BY <1>1, WithoutGrounded
  <2>4. /\ k \in GroundedVotes(s, CurrentSlot(s) + 1)
        /\ m \in GroundedVotes(s, CurrentSlot(s))
    BY <1>1, <2>2, <2>3
  <2> HIDE DEF k, m
  <2> QED
    BY <2>4, VoteStoreAgain
<1>3. \/ OnChainVote(t, att) = t
      \/ /\ OnChainVote(t, att) = [t EXCEPT !.known = k, !.new = m]
         /\ validateAttestationData(t, att)
  BY DEF OnChainVote
<1> QED
  BY <1>2, <1>3

(* The votes of an aggregate.                                              *)
LEMMA AggregateInside ==
  ASSUME NEW s \in StoreType, VotesInv(s), NEW agg \in Aggregates, agg.lengthOK
  PROVE  AggregatedVotes(s, agg) \in GossipStores(s)
<1> DEFINE X == GossipStores(s)
           b == s
           q == agg.votes
           n == Len(q)
           vote(i) == [agg.data EXCEPT !.validator = q[i][1]]
           g == [i \in 1 .. n |-> [x \in X |-> GossipVote(x, vote(i), q[i][2])]]
           P(it) == it = [S \in SUBSET (DOMAIN q) |->
                            IF S = {} THEN b
                            ELSE GossipVote(it[S \ {Max(S)}], vote(Max(S)), q[Max(S)][2])]
<1>0. b \in X /\ q \in Seq(Nat \X BOOLEAN)
  BY GossipStoreSelf, ForkChoiceAssumption
<1>6. AggregatedVotes(s, agg) = (CHOOSE f : P(f))[DOMAIN q]
  BY DEF AggregatedVotes, FoldLeft, MapThenFoldSet
<1> HIDE DEF b, q
<1>1. n \in Nat /\ DOMAIN q = 1 .. n /\ \A i \in 1 .. n : q[i] \in Nat \X BOOLEAN
  BY <1>0
<1>2. g \in [1 .. n -> [X -> X]]
  <2> HIDE DEF X, n
  <2>1. \A i \in 1 .. n, x \in X : GossipVote(x, vote(i), q[i][2]) \in X
    <3>1. \A i \in 1 .. n : vote(i) \in RawAttestation
      <4> TAKE i \in 1 .. n
      <4>1. q[i][1] \in Nat
        BY <1>1
      <4>2. agg.data \in RawAttestation
        BY ForkChoiceAssumption
      <4> QED
        BY <4>1, <4>2 DEF RawAttestation
    <3> QED
      BY <3>1, GossipInside DEF X
  <2> QED
    BY <2>1
<1> HIDE DEF X
<1>3. PICK it \in [SUBSET (1 .. n) -> X] : Folds(it, n, X, b, g)
  <2> HIDE DEF n, g
  <2> QED
    BY <1>0, <1>1, <1>2, FoldExists
<1>4. ASSUME NEW S \in SUBSET (1 .. n), NEW x \in X, S # {}
      PROVE  g[Max(S)][x] = GossipVote(x, vote(Max(S)), q[Max(S)][2])
  BY <1>1, <1>4, MaxOf
<1>5. P(it)
  <2>1. ASSUME NEW S \in SUBSET (1 .. n)
        PROVE  it[S] = IF S = {} THEN b
                       ELSE GossipVote(it[S \ {Max(S)}], vote(Max(S)), q[Max(S)][2])
    <3>1. it[S \ {Max(S)}] \in X
      BY <1>3
    <3> HIDE DEF g, n
    <3> QED
      BY <1>3, <1>4, <3>1 DEF Folds
  <2> HIDE DEF n
  <2> QED
    BY <1>1, <2>1
<1>7. PICK f : f = (CHOOSE h : P(h)) /\ P(f)
  BY <1>5
<1>8. Folds(f, n, X, b, g)
  <2>1. ASSUME NEW S \in SUBSET (1 .. n)
        PROVE  /\ S = {} => f[S] = b
               /\ S # {} => f[S] = GossipVote(f[S \ {Max(S)}], vote(Max(S)), q[Max(S)][2])
    BY <1>1, <1>7
  <2> HIDE DEF g, n, P
  <2> QED
    BY <1>4, <2>1 DEF Folds
<1>9. f[1 .. n] \in X
  <2> HIDE DEF g, n, P
  <2> QED
    BY <1>0, <1>1, <1>2, <1>8, FoldInside
<1> QED
  BY <1>1, <1>6, <1>7, <1>9 DEF X

(* The votes of a block body, from known validators.                       *)
LEMMA BodyInside ==
  ASSUME NEW s \in StoreType, VotesInv(s), NEW body \in Seq(AttestationType)
  PROVE  FoldLeft(OnChainVote, s, body) \in VoteStores(s)
<1> DEFINE X == VoteStores(s)
           b == s
           q == body
           n == Len(q)
           g == [i \in 1 .. n |-> [x \in X |-> OnChainVote(x, q[i])]]
           P(it) == it = [S \in SUBSET (DOMAIN q) |->
                            IF S = {} THEN b
                            ELSE OnChainVote(it[S \ {Max(S)}], q[Max(S)])]
<1>0. b \in X /\ q \in Seq(AttestationType)
  BY VoteStoreSelf
<1>6. FoldLeft(OnChainVote, s, body) = (CHOOSE f : P(f))[DOMAIN q]
  BY DEF FoldLeft, MapThenFoldSet
<1> HIDE DEF b, q
<1>1. n \in Nat /\ DOMAIN q = 1 .. n /\ \A i \in 1 .. n : q[i] \in AttestationType
  BY <1>0
<1>2. g \in [1 .. n -> [X -> X]]
  <2> HIDE DEF X, n
  <2>1. \A i \in 1 .. n, x \in X : OnChainVote(x, q[i]) \in X
    BY <1>1, OnChainInside DEF X
  <2> QED
    BY <2>1
<1> HIDE DEF X
<1>3. PICK it \in [SUBSET (1 .. n) -> X] : Folds(it, n, X, b, g)
  <2> HIDE DEF n, g
  <2> QED
    BY <1>0, <1>1, <1>2, FoldExists
<1>4. ASSUME NEW S \in SUBSET (1 .. n), NEW x \in X, S # {}
      PROVE  g[Max(S)][x] = OnChainVote(x, q[Max(S)])
  BY <1>1, <1>4, MaxOf
<1>5. P(it)
  <2>1. ASSUME NEW S \in SUBSET (1 .. n)
        PROVE  it[S] = IF S = {} THEN b
                       ELSE OnChainVote(it[S \ {Max(S)}], q[Max(S)])
    <3>1. it[S \ {Max(S)}] \in X
      BY <1>3
    <3> HIDE DEF g, n
    <3> QED
      BY <1>3, <1>4, <3>1 DEF Folds
  <2> HIDE DEF n
  <2> QED
    BY <1>1, <2>1
<1>7. PICK f : f = (CHOOSE h : P(h)) /\ P(f)
  BY <1>5
<1>8. Folds(f, n, X, b, g)
  <2>1. ASSUME NEW S \in SUBSET (1 .. n)
        PROVE  /\ S = {} => f[S] = b
               /\ S # {} => f[S] = OnChainVote(f[S \ {Max(S)}], q[Max(S)])
    BY <1>1, <1>7
  <2> HIDE DEF g, n, P
  <2> QED
    BY <1>4, <2>1 DEF Folds
<1>9. f[1 .. n] \in X
  <2> HIDE DEF g, n, P
  <2> QED
    BY <1>0, <1>1, <1>2, <1>8, FoldInside
<1> QED
  BY <1>1, <1>6, <1>7, <1>9 DEF X

(* The vote of the proposer.                                               *)
LEMMA ProposerInside ==
  ASSUME NEW s \in StoreType, VotesInv(s), NEW atts \in Seq(RawAttestation)
  PROVE  FoldLeft(LAMBDA t, att : GossipVote(t, att, TRUE), s, atts) \in GossipStores(s)
<1> DEFINE X == GossipStores(s)
           b == s
           q == atts
           n == Len(q)
           g == [i \in 1 .. n |-> [x \in X |-> GossipVote(x, q[i], TRUE)]]
           P(it) == it = [S \in SUBSET (DOMAIN q) |->
                            IF S = {} THEN b
                            ELSE GossipVote(it[S \ {Max(S)}], q[Max(S)], TRUE)]
<1>0. b \in X /\ q \in Seq(RawAttestation)
  BY GossipStoreSelf
<1>6. FoldLeft(LAMBDA t, att : GossipVote(t, att, TRUE), s, atts) = (CHOOSE f : P(f))[DOMAIN q]
  BY DEF FoldLeft, MapThenFoldSet
<1> HIDE DEF b, q
<1>1. n \in Nat /\ DOMAIN q = 1 .. n /\ \A i \in 1 .. n : q[i] \in RawAttestation
  BY <1>0
<1>2. g \in [1 .. n -> [X -> X]]
  <2> HIDE DEF X, n
  <2>1. \A i \in 1 .. n, x \in X : GossipVote(x, q[i], TRUE) \in X
    BY <1>1, GossipInside DEF X
  <2> QED
    BY <2>1
<1> HIDE DEF X
<1>3. PICK it \in [SUBSET (1 .. n) -> X] : Folds(it, n, X, b, g)
  <2> HIDE DEF n, g
  <2> QED
    BY <1>0, <1>1, <1>2, FoldExists
<1>4. ASSUME NEW S \in SUBSET (1 .. n), NEW x \in X, S # {}
      PROVE  g[Max(S)][x] = GossipVote(x, q[Max(S)], TRUE)
  BY <1>1, <1>4, MaxOf
<1>5. P(it)
  <2>1. ASSUME NEW S \in SUBSET (1 .. n)
        PROVE  it[S] = IF S = {} THEN b
                       ELSE GossipVote(it[S \ {Max(S)}], q[Max(S)], TRUE)
    <3>1. it[S \ {Max(S)}] \in X
      BY <1>3
    <3> HIDE DEF g, n
    <3> QED
      BY <1>3, <1>4, <3>1 DEF Folds
  <2> HIDE DEF n
  <2> QED
    BY <1>1, <2>1
<1>7. PICK f : f = (CHOOSE h : P(h)) /\ P(f)
  BY <1>5
<1>8. Folds(f, n, X, b, g)
  <2>1. ASSUME NEW S \in SUBSET (1 .. n)
        PROVE  /\ S = {} => f[S] = b
               /\ S # {} => f[S] = GossipVote(f[S \ {Max(S)}], q[Max(S)], TRUE)
    BY <1>1, <1>7
  <2> HIDE DEF g, n, P
  <2> QED
    BY <1>4, <2>1 DEF Folds
<1>9. f[1 .. n] \in X
  <2> HIDE DEF g, n, P
  <2> QED
    BY <1>0, <1>1, <1>2, <1>8, FoldInside
<1> QED
  BY <1>1, <1>6, <1>7, <1>9 DEF X

-----------------------------------------------------------------------------
(* Blocks.                                                                 *)

(* A block that may be stored under root: its parent is stored, it is      *)
(* later than its parent, and root is not the root of another block.       *)
Storable(s, root, block) ==
  /\ root \in Nat \ {ZeroHash, GenesisRoot}
  /\ block \in BlockType
  /\ block.parent \in DOMAIN s.blocks
  /\ CanProcessSlots(s.states[block.parent], block.slot)
  /\ root \in DOMAIN s.blocks => s.blocks[root] = block

PostState(s, root, block) == StateTransition(s.states[block.parent], block, root)

(* The tables hold blocks and states.                                      *)
LEMMA StoredTypes ==
  ASSUME NEW s \in StoreType
  PROVE  /\ DOMAIN s.blocks \subseteq Nat
         /\ \A r \in DOMAIN s.blocks : s.blocks[r] \in BlockType
         /\ \A r \in DOMAIN s.states : s.states[r] \in StateType
<1>1. /\ s.blocks \in UNION {[R -> BlockType] : R \in SUBSET Nat}
      /\ s.states \in UNION {[R -> StateType] : R \in SUBSET Nat}
  BY DEF StoreType
<1>2. PICK R \in SUBSET Nat : s.blocks \in [R -> BlockType]
  BY <1>1
<1>3. PICK Q \in SUBSET Nat : s.states \in [Q -> StateType]
  BY <1>1
<1> QED
  BY <1>2, <1>3

(* The blocks of a branch are numbers.                                     *)
LEMMA RootedInNat ==
  ASSUME NEW st \in StateType, GoodState(st)
  PROVE  Rooted(st, st.justifiedSlots, Nat)
<1>1. st.hist \in Seq(Nat) /\ Len(st.hist) = st.header.slot /\ st.header.slot \in Nat
  BY DEF StateType, GoodState
<1>2. \A i \in 0 .. st.header.slot - 1 : i + 1 \in 1 .. Len(st.hist)
  BY <1>1
<1>3. \A i \in 1 .. Len(st.hist) : st.hist[i] \in Nat
  BY <1>1
<1> QED
  BY <1>2, <1>3 DEF Rooted

(* The post-state of a storable block.                                     *)
LEMMA PostStateIs ==
  ASSUME NEW s \in StoreType, TablesInv(s), NEW root, NEW block,
         Storable(s, root, block), NEW Roots,
         Rooted(s.states[block.parent], s.states[block.parent].justifiedSlots, Roots),
         block.parent \in Roots,
         NEW Atts \in SUBSET RawAttestation, block.body \in Seq(Atts),
         \A att \in Atts : att.target.root \in Roots
  PROVE  IsAfterBlock(s.states[block.parent], block, root, Roots,
                      PostState(s, root, block))
<1> DEFINE p == block.parent
           st == s.states[p]
<1>1. p \in DOMAIN s.blocks /\ block.slot \in Nat /\ root \in Nat
  BY DEF Storable, BlockType
<1>2. st \in StateType
  BY <1>1, StoredTypes DEF TablesInv
<1>3. GoodState(st) /\ st.header.root = p
  <2>1. StateFits(s, p)
    BY <1>1 DEF TablesInv
  <2>2. /\ GoodState(s.states[p])
        /\ s.states[p].header = [slot |-> s.blocks[p].slot, root |-> p, filled |-> FALSE]
    BY <2>1 DEF StateFits
  <2> QED
    BY <2>2
<1>4. NextBlock(st, block, root)
  BY <1>1, <1>3 DEF NextBlock, Storable
<1>5. \A att \in Atts : VoteType(att) /\ att.target.root \in Roots
  BY DEF RawAttestation, VoteType
<1> HIDE DEF st
<1>6. st.header.root \in Roots /\ Rooted(st, st.justifiedSlots, Roots)
  BY <1>3 DEF st
<1>7. IsAfterBlock(st, block, root, Roots, StateTransition(st, block, root))
  BY <1>2, <1>3, <1>4, <1>5, <1>6, TransitionGood
<1> QED
  BY <1>7 DEF PostState, st

(* t is s with the block root, whose state is state.                       *)
HasBlock(s, root, block, state, t) ==
  /\ t \in StoreType
  /\ t.time = s.time /\ t.head = s.head /\ t.safeTarget = s.safeTarget
  /\ t.latestJustified = s.latestJustified /\ t.latestFinalized = s.latestFinalized
  /\ t.known = s.known /\ t.new = s.new
  /\ DOMAIN t.blocks = DOMAIN s.blocks \union {root}
  /\ DOMAIN t.states = DOMAIN s.blocks \union {root}
  /\ t.blocks[root] = block /\ t.states[root] = state
  /\ \A r \in DOMAIN s.blocks : r # root => /\ t.blocks[r] = s.blocks[r]
                                            /\ t.states[r] = s.states[r]

(* PutBlock, field by field.                                               *)
LEMMA PutBlockIs ==
  ASSUME NEW s \in StoreType, DOMAIN s.states = DOMAIN s.blocks,
         NEW root \in Nat, NEW block \in BlockType, NEW state \in StateType
  PROVE  HasBlock(s, root, block, state, PutBlock(s, root, block, state))
<1> DEFINE bs == Put(s.blocks, root, block)
           ss == Put(s.states, root, state)
           R == DOMAIN s.blocks \union {root}
           t == PutBlock(s, root, block, state)
<1>1. /\ DOMAIN s.blocks \subseteq Nat
      /\ \A r \in DOMAIN s.blocks : s.blocks[r] \in BlockType
      /\ \A r \in DOMAIN s.states : s.states[r] \in StateType
  BY StoredTypes
<1>2. /\ DOMAIN bs = R /\ bs[root] = block
      /\ \A r \in DOMAIN s.blocks : r # root => bs[r] = s.blocks[r]
  BY DEF Put
<1>3. /\ DOMAIN ss = R /\ ss[root] = state
      /\ \A r \in DOMAIN s.blocks : r # root => ss[r] = s.states[r]
  BY DEF Put
<1>4. bs = [r \in R |-> bs[r]] /\ ss = [r \in R |-> ss[r]]
  BY DEF Put
<1>5. t = [s EXCEPT !.blocks = bs, !.states = ss]
  BY DEF PutBlock
<1> HIDE DEF bs, ss, t
<1>6. bs \in [R -> BlockType] /\ ss \in [R -> StateType] /\ R \in SUBSET Nat
  BY <1>1, <1>2, <1>3, <1>4
<1> HIDE DEF R
<1>7. /\ bs \in UNION {[Q -> BlockType] : Q \in SUBSET Nat}
      /\ ss \in UNION {[Q -> StateType] : Q \in SUBSET Nat}
  BY <1>6
<1>8. t \in StoreType /\ t.blocks = bs /\ t.states = ss
  BY <1>5, <1>7 DEF StoreType
<1>9. /\ t.time = s.time /\ t.head = s.head /\ t.safeTarget = s.safeTarget
      /\ t.latestJustified = s.latestJustified /\ t.latestFinalized = s.latestFinalized
      /\ t.known = s.known /\ t.new = s.new
  BY <1>5 DEF StoreType
<1>10. HasBlock(s, root, block, state, t)
  BY <1>2, <1>3, <1>8, <1>9 DEF HasBlock, R
<1> QED
  BY <1>10 DEF t

(* A block stored a second time.                                           *)
LEMMA PutAgain ==
  ASSUME NEW s \in StoreType, TablesInv(s), NEW root, NEW block,
         Storable(s, root, block), root \in DOMAIN s.blocks
  PROVE  /\ PostState(s, root, block) = s.states[root]
         /\ PutBlock(s, root, block, PostState(s, root, block)) = s
<1>1. s.blocks[root] = block /\ root # GenesisRoot
  BY DEF Storable
<1>2. PostState(s, root, block) = s.states[root]
  BY <1>1 DEF TablesInv, StateFits, PostState
<1>3. /\ s.blocks = [r \in DOMAIN s.blocks |-> s.blocks[r]]
      /\ s.states = [r \in DOMAIN s.states |-> s.states[r]]
      /\ DOMAIN s.states = DOMAIN s.blocks
  BY DEF StoreType, TablesInv
<1>4. Put(s.blocks, root, block) = s.blocks /\ Put(s.states, root, s.states[root]) = s.states
  BY <1>1, <1>3, PutSame
<1>5. [s EXCEPT !.blocks = s.blocks, !.states = s.states] = s
  BY DEF StoreType
<1>6. PutBlock(s, root, block, s.states[root]) = s
  BY <1>4, <1>5 DEF PutBlock
<1> QED
  BY <1>2, <1>6

(* The state of a stored block justifies and finalizes stored blocks.      *)
LEMMA CheckpointsFit ==
  ASSUME NEW s \in StoreType, TablesInv(s), NEW r \in DOMAIN s.blocks,
         NEW c \in {s.states[r].latestJustified, s.states[r].latestFinalized}
  PROVE  CheckpointFits(s, c)
<1> DEFINE st == s.states[r]
<1>1. StateFits(s, r) /\ HistoryFits(s, r) /\ r \in DOMAIN s.states
  BY DEF TablesInv
<1>2. st \in StateType /\ s.blocks[r] \in BlockType
  BY <1>1, StoredTypes
<1>3. /\ GoodState(st) /\ st.header.slot = s.blocks[r].slot
      /\ r # GenesisRoot => /\ s.blocks[r].parent \in DOMAIN s.blocks
                            /\ s.blocks[s.blocks[r].parent].slot < s.blocks[r].slot
  BY <1>1 DEF StateFits
<1>4. c \in CheckpointType /\ c.slot \in Nat /\ st.hist \in Seq(Nat) /\ st.header.slot \in Nat
  BY <1>2 DEF StateType, CheckpointType
<1>5. CASE r = GenesisRoot
  <2>1. c = Checkpoint(ZeroHash, 0)
    BY <1>5 DEF TablesInv, GenesisState
  <2> QED
    BY <2>1 DEF CheckpointFits, Checkpoint
<1>6. CASE r # GenesisRoot
  <2>1. s.blocks[s.blocks[r].parent] \in BlockType
    BY <1>3, <1>6, StoredTypes
  <2>2. s.blocks[s.blocks[r].parent].slot \in Nat
    BY <2>1 DEF BlockType
  <2>3. st.header.slot > 0
    BY <1>3, <1>4, <1>6, <2>2
  <2>4. c.slot < Len(st.hist) /\ st.hist[c.slot + 1] = c.root
    BY <1>3, <2>3 DEF GoodState, OnBranch, InHistory
  <2>5. c.slot + 1 \in 1 .. Len(st.hist)
    <3>1. Len(st.hist) \in Nat
      BY <1>4
    <3> QED
      BY <1>4, <2>4, <3>1
  <2>6. c.root # ZeroHash => c.root \in DOMAIN s.blocks
                             /\ s.blocks[c.root].slot = (c.slot + 1) - 1
    BY <1>1, <2>4, <2>5 DEF HistoryFits
  <2> QED
    BY <1>4, <2>6 DEF CheckpointFits
<1> QED
  BY <1>5, <1>6

(* Nobody is the parent of a block that is not stored.                     *)
LEMMA ParentsStored ==
  ASSUME NEW s, TablesInv(s), NEW r \in DOMAIN s.blocks
  PROVE  /\ r # GenesisRoot => s.blocks[r].parent \in DOMAIN s.blocks
         /\ r = GenesisRoot => s.blocks[r].parent = ZeroHash
<1>1. StateFits(s, r)
  BY DEF TablesInv
<1> QED
  BY <1>1 DEF TablesInv, StateFits, GenesisBlock

(* The history of a new block.                                             *)
LEMMA NewHistoryFits ==
  ASSUME NEW s \in StoreType, TablesInv(s), NEW root, NEW block,
         Storable(s, root, block), NEW t, NEW state,
         HasBlock(s, root, block, state, t), root \notin DOMAIN s.blocks,
         state.hist = Extended(s.states[block.parent].hist, block.parent,
                               block.slot - s.blocks[block.parent].slot - 1),
         block.slot > s.blocks[block.parent].slot
  PROVE  HistoryFits(t, root)
<1> DEFINE p == block.parent
           h == s.states[p].hist
           n == s.blocks[p].slot
           k == block.slot - n - 1
           g == Extended(h, p, k)
<1>1. p \in DOMAIN s.blocks /\ block.slot \in Nat /\ p \in Nat
  BY DEF Storable, BlockType
<1>2. s.blocks[p] \in BlockType /\ s.states[p] \in StateType
  BY <1>1, StoredTypes DEF TablesInv
<1>3. n \in Nat /\ h \in Seq(Nat) /\ k \in Nat
  <2>1. n \in Nat /\ h \in Seq(Nat)
    BY <1>2 DEF BlockType, StateType
  <2> QED
    BY <1>1, <2>1
<1>4. HistoryFits(s, p) /\ StateFits(s, p)
  BY <1>1 DEF TablesInv
<1>5. Len(h) = n
  BY <1>4 DEF StateFits, GoodState
<1>6. \A i \in 1 .. n : h[i] # ZeroHash => h[i] \in DOMAIN s.blocks
                                           /\ s.blocks[h[i]].slot = i - 1
  BY <1>4, <1>5 DEF HistoryFits
<1> HIDE DEF h, n, k
<1>7. /\ Len(g) = n + 1 + k
      /\ \A i \in 1 .. n : g[i] = h[i]
      /\ g[n + 1] = p
      /\ \A i \in n + 2 .. n + 1 + k : g[i] = ZeroHash
  <2>1. /\ Len(g) = Len(h) + 1 + k
        /\ \A i \in 1 .. Len(h) : g[i] = h[i]
        /\ g[Len(h) + 1] = p
        /\ \A i \in Len(h) + 2 .. Len(h) + 1 + k : g[i] = ZeroHash
    <3> HIDE DEF p
    <3> QED
      BY <1>1, <1>3, HistoryParts
  <2> QED
    BY <1>5, <2>1
<1>8. /\ t.states[root].hist = g
      /\ \A r \in DOMAIN s.blocks : r \in DOMAIN t.blocks /\ t.blocks[r] = s.blocks[r]
  BY DEF HasBlock, h, n, k
<1>9. s.blocks[p].slot = n
  BY DEF n
<1> HIDE DEF g
<1>10. ASSUME NEW i \in 1 .. Len(g), g[i] # ZeroHash
       PROVE  g[i] \in DOMAIN t.blocks /\ t.blocks[g[i]].slot = i - 1
  <2>1. i \in 1 .. n \/ i = n + 1 \/ i \in n + 2 .. n + 1 + k
    BY <1>3, <1>7
  <2>2. CASE i \in 1 .. n
    BY <1>6, <1>7, <1>8, <1>10, <2>2
  <2>3. CASE i = n + 1
    BY <1>1, <1>3, <1>7, <1>8, <1>9, <2>3
  <2> QED
    BY <1>7, <1>10, <2>1, <2>2, <2>3
<1> QED
  BY <1>8, <1>10 DEF HistoryFits

(* A block is stored: the tables still fit.                                *)
LEMMA NewTablesFit ==
  ASSUME NEW s \in StoreType, TablesInv(s), NEW root, NEW block,
         Storable(s, root, block), root \notin DOMAIN s.blocks, NEW t,
         HasBlock(s, root, block, PostState(s, root, block), t)
  PROVE  TablesInv(t) /\ Grows(s.blocks, t.blocks)
<1> DEFINE p == block.parent
           new == PostState(s, root, block)
           old == s.states[p]
<1>1. PICK n \in Nat : IsTree(s.blocks, n)
  BY DEF TablesInv
<1>2. /\ p \in DOMAIN s.blocks /\ p \in Nat /\ block.slot \in Nat /\ block \in BlockType
      /\ root \in Nat /\ root # ZeroHash /\ root # GenesisRoot
      /\ block.body \in Seq(RawAttestation)
  BY DEF Storable, BlockType
<1>3. StateFits(s, p) /\ s.blocks[p] \in BlockType /\ old \in StateType
  BY <1>2, StoredTypes DEF TablesInv
<1>4. old.header.slot = s.blocks[p].slot /\ old.header.root = p /\ s.blocks[p].slot \in Nat
  BY <1>3 DEF StateFits, BlockType
<1>5. IsAfterBlock(old, block, root, Nat, new)
  <2>1. Rooted(old, old.justifiedSlots, Nat)
    BY <1>3, RootedInNat DEF StateFits
  <2>2. \A att \in RawAttestation : att.target.root \in Nat
    BY DEF RawAttestation, CheckpointType
  <2> QED
    BY <1>2, <2>1, <2>2, PostStateIs
<1>6. /\ DOMAIN t.blocks = DOMAIN s.blocks \union {root}
      /\ DOMAIN t.states = DOMAIN s.blocks \union {root}
      /\ t.blocks[root] = block /\ t.states[root] = new
      /\ \A r \in DOMAIN s.blocks : t.blocks[r] = s.blocks[r] /\ t.states[r] = s.states[r]
  BY DEF HasBlock
<1>7. /\ GoodState(new)
      /\ new.header = [slot |-> block.slot, root |-> root, filled |-> FALSE]
      /\ block.slot > s.blocks[p].slot
      /\ new.hist = Extended(old.hist, p, block.slot - s.blocks[p].slot - 1)
  BY <1>4, <1>5 DEF IsAfterBlock, EmptySlots
<1>8. new = StateTransition(old, block, root)
  BY DEF PostState
<1>9. HistoryFits(t, root)
  BY <1>7, NewHistoryFits
<1> HIDE DEF new
<1>10. StateFits(t, root)
  BY <1>2, <1>6, <1>7, <1>8 DEF StateFits
<1>11. ASSUME NEW r \in DOMAIN s.blocks
       PROVE  StateFits(t, r) /\ HistoryFits(t, r)
  <2>1. StateFits(s, r) /\ HistoryFits(s, r)
    BY DEF TablesInv
  <2>2. StateFits(t, r)
    BY <1>6, <2>1 DEF StateFits
  <2>3. HistoryFits(t, r)
    BY <1>6, <2>1 DEF HistoryFits
  <2> QED
    BY <2>2, <2>3
<1>12. ASSUME NEW r \in DOMAIN s.blocks
       PROVE  s.blocks[r].parent # root
  BY <1>2, ParentsStored
<1>13. Grows(s.blocks, t.blocks)
  BY <1>6, <1>12 DEF Grows
<1>14. IsTree(t.blocks, n + root + block.slot)
  <2> DEFINE m == n + root + block.slot
  <2>1. m \in Nat /\ n <= m /\ root \in 1 .. m /\ block.slot \in 0 .. m
    BY <1>2 DEF ZeroHash
  <2> HIDE DEF m
  <2>2. DOMAIN t.blocks \subseteq 1 .. m
    BY <1>1, <1>6, <2>1 DEF IsTree
  <2>3. ASSUME NEW r \in DOMAIN t.blocks
        PROVE  /\ t.blocks[r].slot \in 0 .. m
               /\ t.blocks[r].parent \in DOMAIN t.blocks
                    => t.blocks[t.blocks[r].parent].slot < t.blocks[r].slot
    <3>1. CASE r = root
      BY <1>2, <1>6, <1>7, <2>1, <3>1
    <3>2. CASE r \in DOMAIN s.blocks
      BY <1>1, <1>6, <1>12, <2>1, <3>2 DEF IsTree
    <3> QED
      BY <1>6, <3>1, <3>2
  <2>4. IsTree(t.blocks, m)
    BY <2>1, <2>2, <2>3 DEF IsTree
  <2> QED
    BY <2>4 DEF m
<1>15. n + root + block.slot \in Nat
  BY <1>2
<1>16. /\ GenesisRoot \in DOMAIN t.blocks /\ t.blocks[GenesisRoot] = GenesisBlock
       /\ t.states[GenesisRoot] = GenesisState(GenesisRoot)
  BY <1>6 DEF TablesInv
<1>17. \A r \in DOMAIN t.blocks : StateFits(t, r) /\ HistoryFits(t, r)
  BY <1>6, <1>9, <1>10, <1>11
<1> QED
  BY <1>6, <1>13, <1>14, <1>15, <1>16, <1>17 DEF TablesInv

(* s with the block root: what the handlers that store a block start from. *)
Stored(s, root, block) == PutBlock(s, root, block, PostState(s, root, block))

(* Storing a block, whether it is new or not.                              *)
LEMMA StoredFits ==
  ASSUME NEW s \in StoreType, TablesInv(s), NEW root, NEW block,
         Storable(s, root, block)
  PROVE  /\ HasBlock(s, root, block, PostState(s, root, block), Stored(s, root, block))
         /\ TablesInv(Stored(s, root, block))
         /\ Grows(s.blocks, Stored(s, root, block).blocks)
         /\ \A r \in DOMAIN s.states :
              Stored(s, root, block).states[r] = s.states[r]
<1> DEFINE new == PostState(s, root, block)
           t == Stored(s, root, block)
<1>1. DOMAIN s.states = DOMAIN s.blocks
  BY DEF TablesInv
<1> SUFFICES /\ HasBlock(s, root, block, new, t) /\ TablesInv(t)
             /\ Grows(s.blocks, t.blocks)
             /\ \A r \in DOMAIN s.states : t.states[r] = s.states[r]
  OBVIOUS
<1>2. CASE root \in DOMAIN s.blocks
  <2>1. new = s.states[root] /\ t = s
    BY <1>2, PutAgain DEF Stored
  <2> HIDE DEF t, new
  <2>2. s.blocks[root] = block /\ DOMAIN s.blocks = DOMAIN s.blocks \union {root}
    BY <1>2 DEF Storable
  <2>3. HasBlock(s, root, block, new, t)
    BY <1>1, <2>1, <2>2 DEF HasBlock
  <2> QED
    BY <2>1, <2>3 DEF Grows
<1>3. CASE root \notin DOMAIN s.blocks
  <2>1. HasBlock(s, root, block, new, t)
    <3>1. root \in Nat /\ block \in BlockType /\ block.parent \in DOMAIN s.blocks
          /\ block.body \in Seq(RawAttestation)
      BY DEF Storable, BlockType
    <3>2. s.states[block.parent] \in StateType /\ block.parent \in Nat
      BY <1>1, <3>1, StoredTypes
    <3>3. Rooted(s.states[block.parent], s.states[block.parent].justifiedSlots, Nat)
      BY <3>1, <3>2, RootedInNat DEF TablesInv, StateFits
    <3>4. \A att \in RawAttestation : att.target.root \in Nat
      BY DEF RawAttestation, CheckpointType
    <3>5. IsAfterBlock(s.states[block.parent], block, root, Nat, new)
      BY <3>1, <3>2, <3>3, <3>4, PostStateIs
    <3>6. new \in StateType
      BY <3>5 DEF IsAfterBlock
    <3> HIDE DEF new
    <3>7. HasBlock(s, root, block, new, PutBlock(s, root, block, new))
      BY <1>1, <3>1, <3>6, PutBlockIs
    <3> QED
      BY <3>7 DEF Stored, new
  <2> HIDE DEF t, new
  <2>2. TablesInv(t) /\ Grows(s.blocks, t.blocks)
    BY <1>3, <2>1, NewTablesFit DEF new
  <2>3. \A r \in DOMAIN s.states : t.states[r] = s.states[r]
    BY <1>1, <1>3, <2>1 DEF HasBlock
  <2> QED
    BY <2>1, <2>2, <2>3
<1> QED
  BY <1>2, <1>3

(* t has the blocks of s, unchanged, and no earlier checkpoints.           *)
GrownFrom(s, t) ==
  /\ Grows(s.blocks, t.blocks)
  /\ \A r \in DOMAIN s.states : t.states[r] = s.states[r]
  /\ t.latestJustified = s.latestJustified \/ t.latestJustified.slot > s.latestJustified.slot
  /\ t.latestFinalized = s.latestFinalized \/ t.latestFinalized.slot > s.latestFinalized.slot

(* Growing is transitive.                                                  *)
LEMMA GrownAgain ==
  ASSUME NEW s \in StoreType, NEW t \in StoreType, NEW u \in StoreType,
         DOMAIN s.states = DOMAIN s.blocks, DOMAIN t.states = DOMAIN t.blocks,
         GrownFrom(s, t), GrownFrom(t, u)
  PROVE  GrownFrom(s, u)
<1>1. ASSUME NEW c \in CheckpointType, NEW d \in CheckpointType, NEW e \in CheckpointType,
             d = c \/ d.slot > c.slot, e = d \/ e.slot > d.slot
      PROVE  e = c \/ e.slot > c.slot
  <2>1. c.slot \in Nat /\ d.slot \in Nat /\ e.slot \in Nat
    BY DEF CheckpointType
  <2> QED
    BY <1>1, <2>1
<1>2. /\ u.latestJustified = s.latestJustified \/ u.latestJustified.slot > s.latestJustified.slot
      /\ u.latestFinalized = s.latestFinalized \/ u.latestFinalized.slot > s.latestFinalized.slot
  BY <1>1 DEF GrownFrom, StoreType
<1>3. \A r \in DOMAIN s.states : u.states[r] = s.states[r]
  BY DEF GrownFrom, Grows
<1>4. Grows(s.blocks, u.blocks)
  BY DEF GrownFrom, Grows
<1> QED
  BY <1>2, <1>3, <1>4 DEF GrownFrom

(* Storing a block keeps the invariant.                                    *)
LEMMA StoredInv ==
  ASSUME NEW s, StoreInv(s), NEW root, NEW block, Storable(s, root, block)
  PROVE  StoreInv(Stored(s, root, block)) /\ GrownFrom(s, Stored(s, root, block))
<1> DEFINE t == Stored(s, root, block)
<1>1. s \in StoreType /\ TablesInv(s) /\ HeadsInv(s) /\ VotesInv(s)
  BY DEF StoreInv
<1>2. /\ HasBlock(s, root, block, PostState(s, root, block), t)
      /\ TablesInv(t)
      /\ Grows(s.blocks, t.blocks)
      /\ \A r \in DOMAIN s.states : t.states[r] = s.states[r]
  BY <1>1, StoredFits
<1> SUFFICES StoreInv(t) /\ GrownFrom(s, t)
  OBVIOUS
<1> HIDE DEF t
<1>3. /\ t \in StoreType
      /\ t.time = s.time /\ t.head = s.head /\ t.safeTarget = s.safeTarget
      /\ t.latestJustified = s.latestJustified /\ t.latestFinalized = s.latestFinalized
      /\ t.known = s.known /\ t.new = s.new
  BY <1>2 DEF HasBlock
<1>4. /\ DOMAIN s.blocks \subseteq DOMAIN t.blocks
      /\ \A r \in DOMAIN s.blocks : t.blocks[r] = s.blocks[r]
  BY <1>2 DEF Grows
<1>5. HeadsInv(t)
  BY <1>1, <1>3, <1>4 DEF HeadsInv, CheckpointFits
<1>6. CurrentSlot(s) \in Nat /\ CurrentSlot(t) = CurrentSlot(s)
  BY <1>1, <1>3 DEF CurrentSlot, IntervalsPerSlot, StoreType
<1>7. /\ GroundedVotes(s, CurrentSlot(s)) \subseteq GroundedVotes(t, CurrentSlot(s))
      /\ GroundedVotes(s, CurrentSlot(s) + 1) \subseteq GroundedVotes(t, CurrentSlot(s) + 1)
  BY <1>4, <1>6, GroundedLater
<1>8. VotesInv(t)
  BY <1>1, <1>3, <1>6, <1>7 DEF VotesInv
<1> QED
  BY <1>2, <1>3, <1>5, <1>8 DEF StoreInv, GrownFrom

(* The checkpoints ProcessEnvelope takes over from the state of a block.   *)
Checkpointed(t, state) ==
  [t EXCEPT
    !.latestJustified = NewerCheckpoint(@, state.latestJustified),
    !.latestFinalized = NewerCheckpoint(@, state.latestFinalized)]

(* They keep the invariant.                                                *)
LEMMA CheckpointedInv ==
  ASSUME NEW t, StoreInv(t), NEW r \in DOMAIN t.blocks
  PROVE  LET u == Checkpointed(t, t.states[r])
         IN  StoreInv(u) /\ GrownFrom(t, u)
<1> DEFINE u == Checkpointed(t, t.states[r])
           j == NewerCheckpoint(t.latestJustified, t.states[r].latestJustified)
           f == NewerCheckpoint(t.latestFinalized, t.states[r].latestFinalized)
<1>1. t \in StoreType /\ TablesInv(t) /\ HeadsInv(t) /\ VotesInv(t)
  BY DEF StoreInv
<1>2. /\ CheckpointFits(t, t.states[r].latestJustified)
      /\ CheckpointFits(t, t.states[r].latestFinalized)
  BY <1>1, CheckpointsFit
<1>3. t.states[r] \in StateType
  BY <1>1, StoredTypes DEF TablesInv
<1>4. j \in CheckpointType /\ f \in CheckpointType
  BY <1>1, <1>3 DEF NewerCheckpoint, StoreType, StateType
<1>5. CheckpointFits(t, j) /\ CheckpointFits(t, f)
  BY <1>1, <1>2 DEF HeadsInv, NewerCheckpoint
<1>6. /\ j = t.latestJustified \/ j.slot > t.latestJustified.slot
      /\ f = t.latestFinalized \/ f.slot > t.latestFinalized.slot
  BY DEF NewerCheckpoint
<1>7. u = [t EXCEPT !.latestJustified = j, !.latestFinalized = f]
  BY DEF Checkpointed
<1> SUFFICES StoreInv(u) /\ GrownFrom(t, u)
  OBVIOUS
<1> HIDE DEF u, j, f
<1>8. /\ u \in StoreType /\ u.latestJustified = j /\ u.latestFinalized = f
      /\ u.time = t.time /\ u.head = t.head /\ u.safeTarget = t.safeTarget
      /\ u.blocks = t.blocks /\ u.states = t.states
      /\ u.known = t.known /\ u.new = t.new
  BY <1>1, <1>4, <1>7 DEF StoreType
<1>9. TablesInv(u)
  BY <1>1, <1>8, TablesSame
<1>10. HeadsInv(u)
  BY <1>1, <1>5, <1>8 DEF HeadsInv, CheckpointFits
<1>11. VotesInv(u)
  BY <1>1, <1>8, GroundedSame DEF VotesInv, CurrentSlot
<1>12. GrownFrom(t, u)
  BY <1>6, <1>8 DEF GrownFrom, Grows
<1> QED
  BY <1>8, <1>9, <1>10, <1>11, <1>12 DEF StoreInv

(* An envelope that passes the checks holds a storable block with votes of *)
(* known validators.                                                       *)
LEMMA EnvelopeStorable ==
  ASSUME NEW s, StoreInv(s), NEW e \in Envelopes, CanProcessEnvelope(s, e)
  PROVE  /\ Storable(s, e.root, e.block)
         /\ e.block.body \in Seq(AttestationType)
<1>1. /\ e.root \in Nat \ {ZeroHash, GenesisRoot} /\ e.block \in BlockType
      /\ e.proposerAtt \in Seq(RawAttestation)
  BY ForkChoiceAssumption
<1>2. /\ e.root \notin DOMAIN s.blocks /\ e.block.parent \in DOMAIN s.states
      /\ CanProcessSlots(s.states[e.block.parent], e.block.slot)
      /\ SignaturesOK(e)
  BY DEF CanProcessEnvelope, CanStateTransition
<1>3. DOMAIN s.states = DOMAIN s.blocks
  BY DEF StoreInv, TablesInv
<1>4. Storable(s, e.root, e.block)
  BY <1>1, <1>2, <1>3 DEF Storable
<1> DEFINE body == e.block.body
           prop == e.proposerAtt
           atts == body \o prop
<1>5. body \in Seq(RawAttestation) /\ prop \in Seq(RawAttestation)
  BY <1>1 DEF BlockType
<1>6. \A i \in DOMAIN atts : atts[i].validator \in Validators
  BY <1>2 DEF SignaturesOK, verifyAttestationSignature
<1> SUFFICES body \in Seq(AttestationType)
  BY <1>4
<1> HIDE DEF body, prop
<1>7. /\ Len(body) \in Nat /\ DOMAIN body = 1 .. Len(body)
      /\ \A i \in 1 .. Len(body) : i \in DOMAIN atts /\ atts[i] = body[i]
  BY <1>5
<1>8. \A i \in 1 .. Len(body) : body[i] \in AttestationType
  BY <1>5, <1>6, <1>7, RawKnown
<1> QED
  BY <1>5, <1>7, <1>8

(* ProcessEnvelope keeps the invariant and stores one block.               *)
LEMMA EnvelopeInv ==
  ASSUME NEW s, StoreInv(s), NEW e \in Envelopes, CanProcessEnvelope(s, e)
  PROVE  /\ StoreInv(ProcessEnvelope(s, e))
         /\ GrownFrom(s, ProcessEnvelope(s, e))
         /\ LET t == ProcessEnvelope(s, e)
                stored == Stored(s, e.root, e.block)
                post == stored.states[e.root]
            IN  /\ t.blocks = stored.blocks /\ t.states = stored.states
                /\ t.latestJustified = NewerCheckpoint(s.latestJustified, post.latestJustified)
                /\ t.latestFinalized = NewerCheckpoint(s.latestFinalized, post.latestFinalized)
<1> DEFINE stored == Stored(s, e.root, e.block)
           checkpointed == Checkpointed(stored, stored.states[e.root])
           voted == FoldLeft(OnChainVote, checkpointed, e.block.body)
           headed == updateHead(voted)
           last == FoldLeft(LAMBDA t, att : GossipVote(t, att, TRUE), headed, e.proposerAtt)
<1>1. Storable(s, e.root, e.block) /\ e.block.body \in Seq(AttestationType)
  BY EnvelopeStorable
<1>2. e.proposerAtt \in Seq(RawAttestation)
  BY ForkChoiceAssumption
<1>3. StoreInv(stored) /\ GrownFrom(s, stored)
  BY <1>1, StoredInv
<1>4. /\ e.root \in DOMAIN stored.blocks
      /\ stored.states[e.root] = PostState(s, e.root, e.block)
      /\ stored.latestJustified = s.latestJustified
      /\ stored.latestFinalized = s.latestFinalized
  BY <1>1, StoredFits DEF StoreInv, HasBlock
<1>5. ProcessEnvelope(s, e) = last
  BY <1>4 DEF ProcessEnvelope, Stored, Checkpointed, PostState
<1> HIDE DEF stored
<1>6. StoreInv(checkpointed) /\ GrownFrom(stored, checkpointed)
  BY <1>3, <1>4, CheckpointedInv
<1> HIDE DEF checkpointed
<1>7. voted \in VoteStores(checkpointed)
  BY <1>1, <1>6, BodyInside DEF StoreInv
<1> HIDE DEF voted
<1>8. StoreInv(voted) /\ SameButVotes(checkpointed, voted)
  BY <1>6, <1>7, VoteStoreInv DEF VoteStores
<1>9. StoreInv(headed) /\ SameButHead(voted, headed)
  BY <1>8, UpdateHeadInv DEF HeadlessInv, StoreInv, HeadsInv
<1> HIDE DEF headed
<1>10. last \in VoteStores(headed)
  BY <1>2, <1>9, ProposerInside DEF StoreInv, GossipStores
<1> HIDE DEF last
<1>11. StoreInv(last) /\ SameButVotes(headed, last)
  BY <1>9, <1>10, VoteStoreInv DEF VoteStores
<1>12. /\ last.blocks = checkpointed.blocks /\ last.states = checkpointed.states
       /\ last.latestJustified = checkpointed.latestJustified
       /\ last.latestFinalized = checkpointed.latestFinalized
  BY <1>8, <1>9, <1>11 DEF SameButVotes, SameButHead
<1>13. GrownFrom(s, last)
  <2>1. /\ s \in StoreType /\ stored \in StoreType /\ checkpointed \in StoreType
        /\ DOMAIN s.states = DOMAIN s.blocks /\ DOMAIN stored.states = DOMAIN stored.blocks
    BY <1>3, <1>6 DEF StoreInv, TablesInv
  <2>2. GrownFrom(s, checkpointed)
    BY <1>3, <1>6, <2>1, GrownAgain
  <2> QED
    BY <1>12, <2>2 DEF GrownFrom
<1>14. /\ checkpointed.blocks = stored.blocks /\ checkpointed.states = stored.states
       /\ checkpointed.latestJustified =
            NewerCheckpoint(s.latestJustified, stored.states[e.root].latestJustified)
       /\ checkpointed.latestFinalized =
            NewerCheckpoint(s.latestFinalized, stored.states[e.root].latestFinalized)
  BY <1>3, <1>4 DEF checkpointed, Checkpointed, StoreInv, StoreType
<1> QED
  BY <1>5, <1>11, <1>12, <1>13, <1>14 DEF stored

-----------------------------------------------------------------------------
(* The node's own blocks.                                                  *)

(* A recursive function on 0 .. n that starts with b and applies g stays   *)
(* in X.                                                                   *)
LEMMA RoundsInside ==
  ASSUME NEW n \in Nat, NEW X, NEW b \in X, NEW g \in [X -> X],
         NEW f, f[0] = b, \A i \in 1 .. n : f[i - 1] \in X => f[i] = g[f[i - 1]]
  PROVE  f[n] \in X
<1> DEFINE Bad == {i \in 0 .. n : f[i] \notin X}
<1>1. Bad \in SUBSET Nat
  OBVIOUS
<1>2. ASSUME Bad # {} PROVE FALSE
  <2>1. PICK m \in Bad : \A y \in Bad : m <= y
    <3> HIDE DEF Bad
    <3> QED
      BY <1>1, <1>2, SmallestOf
  <2>2. m \in 0 .. n /\ f[m] \notin X
    BY <2>1
  <2>3. m # 0
    BY <2>2
  <2>4. m \in 1 .. n /\ m - 1 \in 0 .. n
    BY <2>2, <2>3
  <2>5. m - 1 \notin Bad
    <3> HIDE DEF Bad
    <3> QED
      BY <2>1, <2>4
  <2>6. f[m - 1] \in X
    BY <2>4, <2>5
  <2>7. f[m] = g[f[m - 1]]
    BY <2>4, <2>6
  <2>8. g[f[m - 1]] \in X
    BY <2>6
  <2> QED
    BY <2>2, <2>7, <2>8
<1>3. n \notin Bad
  BY <1>2
<1> QED
  BY <1>3

(* f is such a function.                                                   *)
IsRounds(f, n, X, b, g) ==
  /\ f \in [0 .. n -> X]
  /\ f[0] = b
  /\ \A i \in 1 .. n : f[i] = g[f[i - 1]]

(* There is one.                                                           *)
LEMMA RoundsExist ==
  ASSUME NEW n \in Nat, NEW X, NEW b \in X, NEW g \in [X -> X]
  PROVE  \E f : IsRounds(f, n, X, b, g)
<1> DEFINE h == [i \in 1 .. n |-> g]
<1>1. h \in [1 .. n -> [X -> X]]
  OBVIOUS
<1>2. \A i \in 1 .. n : h[i] = g
  OBVIOUS
<1> HIDE DEF h
<1>3. PICK it \in [SUBSET (1 .. n) -> X] : Folds(it, n, X, b, h)
  BY <1>1, FoldExists
<1> DEFINE f == [i \in 0 .. n |-> it[1 .. i]]
<1>4. \A i \in 0 .. n : 1 .. i \in SUBSET (1 .. n)
  OBVIOUS
<1>5. f \in [0 .. n -> X]
  BY <1>4
<1>6. f[0] = b
  <2>1. 1 .. 0 = {}
    OBVIOUS
  <2>2. it[1 .. 0] = b
    BY <1>3, <1>4, <2>1 DEF Folds
  <2> QED
    BY <2>2
<1>7. ASSUME NEW i \in 1 .. n
      PROVE  f[i] = g[f[i - 1]]
  <2> DEFINE s == 1 .. i
  <2>1. s \in SUBSET (1 .. n) /\ i \in s /\ \A y \in s : y <= i
    OBVIOUS
  <2>2. Max(s) = i
    <3>1. Max(s) \in s /\ \A y \in s : Max(s) >= y
      BY <2>1, MaxOf
    <3> QED
      BY <2>1, <3>1
  <2>3. s \ {i} = 1 .. i - 1
    OBVIOUS
  <2>4. it[1 .. i - 1] \in X
    BY <1>4
  <2> HIDE DEF s
  <2>5. it[s] = h[i][it[1 .. i - 1]]
    BY <1>3, <2>1, <2>2, <2>3, <2>4 DEF Folds
  <2> QED
    BY <1>2, <2>5 DEF s
<1> HIDE DEF f
<1>8. IsRounds(f, n, X, b, g)
  BY <1>5, <1>6, <1>7 DEF IsRounds
<1> QED
  BY <1>8

(* The network delivers no block of a validator this node runs: a key is   *)
(* in one place only.                                                      *)
ForeignBlocks == \A e \in Envelopes : e.block.proposer \notin Own

(* The blocks of this slot on the head with only known votes.              *)
OwnBlocks(t, slot) ==
  {block \in BlockType :
     /\ block.slot = slot /\ block.parent = t.head /\ block.stateRootOK
     /\ block.proposer \in Own
     /\ block.body \in Seq({t.known[u] : u \in DOMAIN t.known})}

(* A round of ProduceBlock makes such blocks of such a block.              *)
LEMMA RoundInside ==
  ASSUME NEW t \in StoreType, NEW slot, NEW advanced, NEW block \in OwnBlocks(t, slot),
         NEW order \in SetToSeqs(MoreAttestations(t, advanced, block))
  PROVE  [block EXCEPT !.body = @ \o order] \in OwnBlocks(t, slot)
<1> DEFINE votes == {t.known[u] : u \in DOMAIN t.known}
           more == MoreAttestations(t, advanced, block)
           body == block.body
           next == [block EXCEPT !.body = body \o order]
<1>1. /\ block \in BlockType /\ block.slot = slot /\ block.parent = t.head
      /\ block.stateRootOK /\ block.proposer \in Own /\ body \in Seq(votes)
  BY DEF OwnBlocks
<1>2. more \in SUBSET votes
  BY DEF MoreAttestations
<1>3. t.known \in VoteMaps
  BY DEF StoreType
<1>4. IsFiniteSet(DOMAIN t.known) /\ \A u \in DOMAIN t.known : t.known[u] \in AttestationType
  BY <1>3, VotesFinite
<1>5. votes \subseteq RawAttestation
  <2>1. AttestationType \subseteq RawAttestation
    BY NumValidatorsAssumption DEF AttestationType, RawAttestation, Validators
  <2> QED
    BY <1>4, <2>1
<1>6. IsFiniteSet(votes)
  <2> DEFINE known == t.known
  <2>1. known \in [DOMAIN known -> votes]
    <3>1. PICK V \in SUBSET Validators : known \in [V -> AttestationType]
      BY <1>3 DEF VoteMaps
    <3> QED
      BY <3>1
  <2>2. known \in Surjection(DOMAIN known, votes)
    BY <2>1 DEF Surjection
  <2> HIDE DEF known, votes
  <2> QED
    BY <1>4, <2>2, FS_Surjection DEF known
<1> HIDE DEF votes
<1>7. IsFiniteSet(more)
  BY <1>2, <1>6, FS_Subset
<1>8. order \in [1 .. Cardinality(more) -> more] /\ Cardinality(more) \in Nat
  BY <1>7, FS_CardinalityType DEF SetToSeqs
<1> HIDE DEF more
<1>9. order \in Seq(votes)
  BY <1>2, <1>8
<1>10. body \o order \in Seq(votes)
  BY <1>1, <1>9
<1> DEFINE longer == body \o order
<1>11. longer \in Seq(votes) /\ longer \in Seq(RawAttestation)
  BY <1>5, <1>10
<1>12. next = [block EXCEPT !.body = longer]
  OBVIOUS
<1> HIDE DEF longer, next, body
<1>13. /\ next \in BlockType /\ next.slot = block.slot /\ next.parent = block.parent
       /\ next.proposer = block.proposer
       /\ next.stateRootOK = block.stateRootOK /\ next.body = longer
  BY <1>1, <1>11, <1>12 DEF BlockType
<1>14. next \in OwnBlocks(t, slot)
  BY <1>1, <1>11, <1>13 DEF OwnBlocks, votes
<1> QED
  BY <1>14 DEF next, body

(* What ProduceBlock may end up with.                                      *)
LEMMA CandidatesInside ==
  ASSUME NEW t \in StoreType, NEW slot \in Nat, NEW v \in Own, v \in Nat
  PROVE  CandidateBlocks(t, slot, v) \subseteq OwnBlocks(t, slot)
<1> DEFINE C == OwnBlocks(t, slot)
           X == SUBSET C
           advanced == ProcessSlots(t.states[t.head], slot)
           empty == [slot |-> slot, proposer |-> v, parent |-> t.head,
                     body |-> << >>, stateRootOK |-> TRUE]
           extend(block) ==
             LET more == MoreAttestations(t, advanced, block)
             IN  IF more = {} THEN {block}
                 ELSE {[block EXCEPT !.body = @ \o order] : order \in SetToSeqs(more)}
           g == [S \in X |-> UNION {extend(block) : block \in S}]
           n == NumValidators
           P(f) == f = [i \in 0 .. n |->
                          IF i = 0 THEN {empty}
                          ELSE UNION {extend(block) : block \in f[i - 1]}]
<1>1. n \in Nat
  BY NumValidatorsAssumption
<1>2. CandidateBlocks(t, slot, v) = (CHOOSE f : P(f))[n]
  BY DEF CandidateBlocks
<1>3. {empty} \in X
  <2>1. t.head \in Nat
    BY DEF StoreType
  <2>2. << >> \in Seq(RawAttestation) /\ << >> \in Seq({t.known[u] : u \in DOMAIN t.known})
    OBVIOUS
  <2>3. empty \in BlockType
    BY <2>1, <2>2 DEF BlockType
  <2>4. empty \in C
    BY <2>2, <2>3 DEF OwnBlocks
  <2> QED
    BY <2>4
<1>4. \A block \in C : extend(block) \in X
  <2> TAKE block \in C
  <2> HIDE DEF advanced, C
  <2>1. \A order \in SetToSeqs(MoreAttestations(t, advanced, block)) :
          [block EXCEPT !.body = @ \o order] \in C
    BY RoundInside DEF C
  <2> QED
    BY <2>1
<1> HIDE DEF extend, empty, C, n
<1>5. g \in [X -> X]
  BY <1>4
<1> DEFINE b == {empty}
<1>6. b \in X
  BY <1>3
<1> HIDE DEF b
<1>7. PICK it \in [0 .. n -> X] : it[0] = b /\ \A i \in 1 .. n : it[i] = g[it[i - 1]]
  <2> HIDE DEF X, g
  <2>1. n \in Nat /\ b \in X /\ g \in [X -> X]
    BY <1>1, <1>5, <1>6
  <2>2. PICK it : IsRounds(it, n, X, b, g)
    BY <2>1, RoundsExist
  <2> QED
    BY <2>2 DEF IsRounds
<1>8. P(it)
  <2>1. ASSUME NEW i \in 0 .. n
        PROVE  it[i] = IF i = 0 THEN {empty}
                       ELSE UNION {extend(block) : block \in it[i - 1]}
    <3>1. CASE i = 0
      BY <1>7, <3>1 DEF b
    <3>2. CASE i # 0
      <4>1. i \in 1 .. n /\ i - 1 \in 0 .. n
        BY <1>1, <3>2
      <4>2. it[i] = g[it[i - 1]] /\ it[i - 1] \in X
        BY <1>7, <4>1
      <4> QED
        BY <3>2, <4>2
    <3> QED
      BY <3>1, <3>2
  <2> QED
    BY <2>1
<1>9. PICK f : f = (CHOOSE h : P(h)) /\ P(f)
  <2> HIDE DEF P
  <2> QED
    BY <1>8, Zenon
<1>10. f[0] = b /\ \A i \in 1 .. n : f[i - 1] \in X => f[i] = g[f[i - 1]]
  <2> DEFINE later(i) == UNION {extend(block) : block \in f[i - 1]}
  <2>1. \A i \in 0 .. n : f[i] = IF i = 0 THEN {empty} ELSE later(i)
    BY <1>9
  <2>2. ASSUME NEW i \in 1 .. n, f[i - 1] \in X PROVE g[f[i - 1]] = later(i)
    BY <2>2
  <2> HIDE DEF later, g
  <2>3. f[0] = b
    BY <1>1, <2>1 DEF b
  <2>4. ASSUME NEW i \in 1 .. n, f[i - 1] \in X PROVE f[i] = g[f[i - 1]]
    <3>1. i \in 0 .. n /\ i # 0
      BY <1>1
    <3> QED
      BY <2>1, <2>2, <2>4, <3>1
  <2> QED
    BY <2>3, <2>4
<1>11. f[n] \in X
  <2> HIDE DEF X, g, P
  <2> QED
    BY <1>1, <1>5, <1>6, <1>10, RoundsInside
<1> QED
  BY <1>2, <1>9, <1>11 DEF C

(* The block ProduceBlock stores.                                          *)
LEMMA OwnBlockStorable ==
  ASSUME Inv, NEW t, StoreInv(t), SameBlocks(store, t), NEW slot \in Nat \ {0},
         CanProcessSlots(t.states[t.head], slot),
         NEW block \in OwnBlocks(t, slot), NEW root \in RootsOf(block)
  PROVE  /\ Storable(t, root, block)
         /\ \A e \in Envelopes : e.root = root => e.block = block
         /\ ForeignBlocks => root \in DOMAIN store.blocks \union OwnRoots
<1>1. /\ block \in BlockType /\ block.slot = slot /\ block.parent = t.head
      /\ block.proposer \in Own
  BY DEF OwnBlocks
<1>2. t.head \in DOMAIN t.blocks /\ t.blocks = store.blocks
  BY DEF StoreInv, HeadsInv, SameBlocks
<1>3. PICK n \in Nat : IsTree(store.blocks, n)
  BY DEF Inv, StoreInv, TablesInv
<1> DEFINE own == {r \in DOMAIN store.blocks : store.blocks[r] = block}
           foreign == {e.root : e \in {e \in Envelopes : e.block = block}}
<1>4. \/ root \in own
      \/ root \in foreign
      \/ root \in OwnRoots \ DOMAIN store.blocks
  BY DEF RootsOf
<1>5. CASE root \in own
  <2>1. root \in Nat /\ root # ZeroHash
    BY <1>3, <1>5 DEF IsTree, ZeroHash
  <2>2. root # GenesisRoot
    <3>1. block # GenesisBlock
      BY <1>1 DEF GenesisBlock
    <3> QED
      BY <1>5, <3>1 DEF Inv, StoreInv, TablesInv
  <2>3. \A e \in Envelopes : e.root = root => e.block = block
    BY <1>5 DEF Inv, RootsInv
  <2> QED
    BY <1>1, <1>2, <1>5, <2>1, <2>2, <2>3 DEF Storable
<1>6. CASE root \in foreign
  <2>1. PICK e \in Envelopes : e.root = root /\ e.block = block
    BY <1>6
  <2>2. root \in Nat \ {ZeroHash, GenesisRoot}
    BY <2>1, ForkChoiceAssumption
  <2>3. \A f \in Envelopes : f.root = root => f.block = block
    BY <2>1, ForkChoiceAssumption
  <2>4. root \in DOMAIN t.blocks => t.blocks[root] = block
    BY <1>2, <2>1 DEF Inv, RootsInv
  <2> QED
    BY <1>1, <1>2, <2>1, <2>2, <2>3, <2>4 DEF Storable, ForeignBlocks
<1>7. CASE root \in OwnRoots \ DOMAIN store.blocks
  <2>1. root \in Nat \ {ZeroHash, GenesisRoot} /\ \A e \in Envelopes : e.root # root
    BY <1>7, ForkChoiceAssumption
  <2> QED
    BY <1>1, <1>2, <1>7, <2>1 DEF Storable
<1> QED
  BY <1>4, <1>5, <1>6, <1>7

(* A block stored under its root.                                          *)
LEMMA StoredRoots ==
  ASSUME NEW s, StoreInv(s), RootsInv(s), NEW root, NEW block,
         Storable(s, root, block),
         \A e \in Envelopes : e.root = root => e.block = block
  PROVE  RootsInv(Stored(s, root, block))
<1> DEFINE t == Stored(s, root, block)
<1>1. HasBlock(s, root, block, PostState(s, root, block), t)
  BY StoredFits DEF StoreInv
<1> SUFFICES RootsInv(t)
  OBVIOUS
<1> HIDE DEF t
<1>2. /\ DOMAIN t.blocks = DOMAIN s.blocks \union {root}
      /\ t.blocks[root] = block
      /\ \A r \in DOMAIN s.blocks : r # root => t.blocks[r] = s.blocks[r]
  BY <1>1 DEF HasBlock
<1> QED
  BY <1>2 DEF RootsInv

-----------------------------------------------------------------------------
(* Every step keeps the invariant, and the store only grows.               *)

(* The initial store.                                                      *)
LEMMA InitInv == Init => Inv
<1> SUFFICES ASSUME Init PROVE Inv
  OBVIOUS
<1> DEFINE g == GenesisRoot
<1>1. store = NewStore(g) /\ signed = {}
  BY DEF Init
<1>2. g \in Nat \ {ZeroHash} /\ \A e \in Envelopes : e.root # g
  BY ForkChoiceAssumption
<1>3. /\ store.time = 0 /\ store.head = g /\ store.safeTarget = g
      /\ store.latestJustified = Checkpoint(g, 0)
      /\ store.latestFinalized = Checkpoint(g, 0)
      /\ store.blocks = Put(EmptyMap, g, GenesisBlock)
      /\ store.states = Put(EmptyMap, g, GenesisState(g))
      /\ store.known = EmptyMap /\ store.new = EmptyMap
  BY <1>1 DEF NewStore
<1>4. /\ DOMAIN store.blocks = {g} /\ store.blocks[g] = GenesisBlock
      /\ DOMAIN store.states = {g} /\ store.states[g] = GenesisState(g)
  BY <1>3 DEF Put, EmptyMap
<1>5. /\ store.blocks = [r \in {g} |-> GenesisBlock]
      /\ store.states = [r \in {g} |-> GenesisState(g)]
  BY <1>3 DEF Put, EmptyMap
<1>6. GenesisBlock \in BlockType
  <2>1. << >> \in Seq(RawAttestation)
    OBVIOUS
  <2> QED
    BY <2>1 DEF GenesisBlock, BlockType, ZeroHash
<1>7. GenesisState(g) \in StateType /\ GoodState(GenesisState(g))
  <2>1. << >> \in Seq(Nat) /\ Len(<< >>) = 0
    OBVIOUS
  <2>2. GenesisState(g) \in StateType
    BY <1>2, <2>1 DEF GenesisState, StateType, CheckpointType, Checkpoint, ZeroHash,
         EmptyBitlist
  <2>3. IsBitlist(EmptyBitlist, 0)
    BY DEF IsBitlist, EmptyBitlist
  <2> QED
    BY <2>1, <2>2, <2>3 DEF GenesisState, GoodState, Checkpoint
<1>8. /\ store.blocks \in UNION {[R -> BlockType] : R \in SUBSET Nat}
      /\ store.states \in UNION {[R -> StateType] : R \in SUBSET Nat}
  <2>1. /\ store.blocks \in [{g} -> BlockType] /\ store.states \in [{g} -> StateType]
        /\ {g} \in SUBSET Nat
    BY <1>2, <1>5, <1>6, <1>7
  <2> QED
    BY <2>1
<1>9. EmptyMap \in VoteMaps
  BY EmptyGrounded DEF GroundedVotes
<1>10. store \in StoreType
  <2>1. Checkpoint(g, 0) \in CheckpointType
    BY <1>2 DEF Checkpoint, CheckpointType
  <2> HIDE DEF g
  <2>2. store = [time |-> 0, head |-> g, safeTarget |-> g,
                 latestJustified |-> Checkpoint(g, 0),
                 latestFinalized |-> Checkpoint(g, 0),
                 blocks |-> store.blocks, states |-> store.states,
                 known |-> EmptyMap, new |-> EmptyMap]
    BY <1>1, <1>3 DEF NewStore
  <2> QED
    BY <1>2, <1>8, <1>9, <2>1, <2>2 DEF StoreType
<1>11. TablesInv(store)
  <2>1. IsTree(store.blocks, g)
    BY <1>2, <1>4 DEF IsTree, GenesisBlock, ZeroHash
  <2>2. StateFits(store, g)
    BY <1>4, <1>7 DEF StateFits, GenesisState, GenesisBlock
  <2>3. HistoryFits(store, g)
    BY <1>4 DEF HistoryFits, GenesisState
  <2> QED
    BY <1>2, <1>4, <2>1, <2>2, <2>3 DEF TablesInv
<1>12. HeadsInv(store)
  BY <1>3, <1>4 DEF HeadsInv, CheckpointFits, Checkpoint, GenesisBlock
<1>13. VotesInv(store)
  BY <1>3, EmptyGrounded DEF VotesInv
<1>14. RootsInv(store)
  BY <1>2, <1>4 DEF RootsInv
<1> QED
  BY <1>1, <1>10, <1>11, <1>12, <1>13, <1>14 DEF Inv, StoreInv

(* A store with the tables and the checkpoints of s.                       *)
LEMMA GrownSame ==
  ASSUME NEW s, NEW t, t.blocks = s.blocks, t.states = s.states,
         t.latestJustified = s.latestJustified, t.latestFinalized = s.latestFinalized
  PROVE  GrownFrom(s, t)
BY DEF GrownFrom, Grows

(* The vote TryAttest signs.                                               *)
LEMMA OwnVoteType ==
  ASSUME NEW t, StoreInv(t), NEW v \in Own, NEW slot \in Nat,
         getVoteTarget(t) \in DOMAIN t.blocks
  PROVE  OwnAttestation(t, v, slot, BlockCheckpoint(t, t.head)) \in AttestationType
<1>1. \A r \in DOMAIN t.blocks : BlockCheckpoint(t, r) \in CheckpointType
  <2> TAKE r \in DOMAIN t.blocks
  <2>1. r \in Nat /\ t.blocks[r] \in BlockType
    BY StoredTypes DEF StoreInv
  <2>2. t.blocks[r].slot \in Nat
    BY <2>1 DEF BlockType
  <2> QED
    BY <2>1, <2>2 DEF BlockCheckpoint, Checkpoint, CheckpointType
<1>2. t.head \in DOMAIN t.blocks /\ t.latestJustified \in CheckpointType /\ v \in Validators
  BY ForkChoiceAssumption DEF StoreInv, HeadsInv, StoreType
<1>3. /\ BlockCheckpoint(t, t.head) \in CheckpointType
      /\ BlockCheckpoint(t, getVoteTarget(t)) \in CheckpointType
  BY <1>1, <1>2
<1> QED
  BY <1>2, <1>3 DEF OwnAttestation, AttestationType

(* The steps that change nothing but votes.                                *)
LEMMA VotesStep ==
  ASSUME Inv, NEW t \in VoteStores(store)
  PROVE  StoreInv(t) /\ RootsInv(t) /\ GrownFrom(store, t)
<1>1. SameButVotes(store, t)
  BY DEF VoteStores
<1>2. StoreInv(t)
  BY VoteStoreInv DEF Inv
<1>3. RootsInv(t)
  BY <1>1 DEF Inv, RootsInv, SameButVotes
<1> QED
  BY <1>1, <1>2, <1>3, GrownSame DEF SameButVotes

(* The steps that only accept the pending votes.                           *)
LEMMA AcceptStep ==
  ASSUME Inv
  PROVE  LET t == acceptNewAttestations(store)
         IN  StoreInv(t) /\ RootsInv(t) /\ GrownFrom(store, t) /\ SameBlocks(store, t)
<1> DEFINE t == acceptNewAttestations(store)
<1>1. StoreInv(t) /\ SameBlocks(store, t)
  BY AcceptInv DEF Inv
<1> HIDE DEF t
<1>2. RootsInv(t) /\ GrownFrom(store, t)
  BY <1>1, GrownSame DEF Inv, RootsInv, SameBlocks
<1> QED
  BY <1>1, <1>2 DEF t

(* The invariant after the step, and what the step did.                    *)
Kept == Inv' /\ GrownFrom(store, store')

(* Tick.                                                                   *)
LEMMA TickStep ==
  ASSUME Inv, NEW hasProposal \in BOOLEAN, Tick(hasProposal)
  PROVE  Kept
<1> DEFINE t == tickInterval(store, hasProposal)
<1>1. store' = t /\ signed' = signed
  BY DEF Tick
<1>2. /\ StoreInv(t)
      /\ t.latestJustified = store.latestJustified
      /\ t.latestFinalized = store.latestFinalized
      /\ t.blocks = store.blocks /\ t.states = store.states
  BY TickInv DEF Inv
<1> HIDE DEF t
<1>3. GrownFrom(store, t) /\ RootsInv(t)
  BY <1>2, GrownSame DEF Inv, RootsInv
<1> QED
  BY <1>1, <1>2, <1>3 DEF Kept, Inv

(* ReceiveBlock.                                                           *)
LEMMA BlockStep ==
  ASSUME Inv, NEW e \in Envelopes, ReceiveBlock(e)
  PROVE  Kept
<1> DEFINE t == ProcessEnvelope(store, e)
<1>1. store' = t /\ signed' = signed /\ CanProcessEnvelope(store, e)
  BY DEF ReceiveBlock
<1>2. StoreInv(t) /\ GrownFrom(store, t)
  BY <1>1, EnvelopeInv DEF Inv
<1>3. RootsInv(t)
  <2>1. t.blocks = Stored(store, e.root, e.block).blocks
    BY <1>1, EnvelopeInv DEF Inv
  <2>2. Storable(store, e.root, e.block)
    BY <1>1, EnvelopeStorable DEF Inv
  <2>3. RootsInv(Stored(store, e.root, e.block))
    BY <2>2, StoredRoots, ForkChoiceAssumption DEF Inv
  <2> QED
    BY <2>1, <2>3 DEF RootsInv
<1> HIDE DEF t
<1> QED
  BY <1>1, <1>2, <1>3 DEF Kept, Inv

(* ProduceBlock accepts the pending votes and stores a block.              *)
LEMMA ProducedIs ==
  ASSUME Inv, NEW v \in Own, NEW slot, ProduceBlock(v, slot)
  PROVE  \E block \in OwnBlocks(acceptNewAttestations(store), slot) :
           \E root : /\ Storable(acceptNewAttestations(store), root, block)
                     /\ store' = Stored(acceptNewAttestations(store), root, block)
                     /\ ForeignBlocks => root \in DOMAIN store.blocks \union OwnRoots
                     /\ \A e \in Envelopes : e.root = root => e.block = block
<1> DEFINE t == acceptNewAttestations(store)
<1>1. StoreInv(t) /\ SameBlocks(store, t)
  BY AcceptStep
<1>2. slot \in Nat \ {0} /\ v \in Nat
  <2>1. store.time \in Nat
    BY DEF Inv, StoreInv, StoreType
  <2>2. slot \in Nat /\ slot > 0
    <3>1. slot \in 1 .. CurrentSlot(store) /\ CurrentSlot(store) \in Nat
      BY <2>1 DEF CurrentSlot, IntervalsPerSlot, ProduceBlock, MayPropose
    <3> QED
      BY <3>1
  <2> QED
    BY <2>2, ForkChoiceAssumption, NumValidatorsAssumption DEF Validators
<1>3. CanProcessSlots(t.states[t.head], slot)
  BY DEF ProduceBlock, CanProduceBlock
<1>4. PICK block \in CandidateBlocks(t, slot, v) : \E root \in RootsOf(block) :
        store' = PutBlock(t, root, block,
                          ProcessBlock(ProcessSlots(t.states[t.head], slot), block, root))
  BY DEF ProduceBlock
<1> PICK root \in RootsOf(block) :
        store' = PutBlock(t, root, block,
                          ProcessBlock(ProcessSlots(t.states[t.head], slot), block, root))
  BY <1>4
<1> HIDE DEF t
<1>5. block \in OwnBlocks(t, slot)
  BY <1>1, <1>2, CandidatesInside DEF StoreInv
<1>6. /\ Storable(t, root, block)
      /\ \A e \in Envelopes : e.root = root => e.block = block
      /\ ForeignBlocks => root \in DOMAIN store.blocks \union OwnRoots
  BY <1>1, <1>2, <1>3, <1>5, OwnBlockStorable
<1>7. store' = Stored(t, root, block)
  <2>1. block.parent = t.head /\ block.slot = slot
    BY <1>5 DEF OwnBlocks
  <2> QED
    BY <2>1 DEF Stored, PostState, StateTransition
<1> QED
  BY <1>5, <1>6, <1>7 DEF t

(* ProduceBlock.                                                           *)
LEMMA ProduceStep ==
  ASSUME Inv, NEW v \in Own, NEW slot, ProduceBlock(v, slot)
  PROVE  Kept
<1> DEFINE t == acceptNewAttestations(store)
<1>1. StoreInv(t) /\ RootsInv(t) /\ GrownFrom(store, t)
  BY AcceptStep
<1>2. PICK block \in OwnBlocks(t, slot) :
        \E root : /\ Storable(t, root, block) /\ store' = Stored(t, root, block)
                  /\ \A e \in Envelopes : e.root = root => e.block = block
  BY ProducedIs
<1>3. PICK root : /\ Storable(t, root, block) /\ store' = Stored(t, root, block)
                  /\ \A e \in Envelopes : e.root = root => e.block = block
  BY <1>2
<1>4. signed' = signed
  BY DEF ProduceBlock
<1> HIDE DEF t
<1> DEFINE u == Stored(t, root, block)
<1>5. StoreInv(u) /\ GrownFrom(t, u) /\ RootsInv(u)
  BY <1>1, <1>3, StoredInv, StoredRoots
<1> HIDE DEF u
<1>6. GrownFrom(store, u)
  <2>1. /\ store \in StoreType /\ t \in StoreType /\ u \in StoreType
        /\ DOMAIN store.states = DOMAIN store.blocks /\ DOMAIN t.states = DOMAIN t.blocks
    BY <1>1, <1>5 DEF Inv, StoreInv, TablesInv
  <2> QED
    BY <1>1, <1>5, <2>1, GrownAgain
<1> QED
  BY <1>3, <1>4, <1>5, <1>6 DEF Kept, Inv, u

(* Every step.                                                             *)
LEMMA NextKept == Inv /\ [Next]_vars => Kept
<1> SUFFICES ASSUME Inv, [Next]_vars PROVE Kept
  OBVIOUS
<1>0. store \in StoreType /\ VotesInv(store) /\ store.time \in Nat
  BY DEF Inv, StoreInv, StoreType
<1>1. CASE UNCHANGED vars
  <2>1. store' = store /\ signed' = signed
    BY <1>1 DEF vars
  <2>2. GrownFrom(store, store)
    BY GrownSame
  <2> QED
    BY <2>1, <2>2 DEF Kept, Inv
<1>2. ASSUME NEW vote \in GossipVotes, ReceiveVote(vote) PROVE Kept
  <2> DEFINE t == GossipVote(store, vote.att, vote.sig)
  <2>1. store' = t /\ signed' = signed
    BY <1>2 DEF ReceiveVote
  <2>2. vote.att \in RawAttestation
    BY ForkChoiceAssumption
  <2>3. t \in VoteStores(store)
    BY <1>0, <2>2, GossipStoreSelf, GossipInside DEF GossipStores
  <2> HIDE DEF t
  <2> QED
    BY <2>1, <2>3, VotesStep DEF Kept, Inv
<1>3. ASSUME NEW att \in signed, ProcessOwnVote(att) PROVE Kept
  <2> DEFINE t == GossipVote(store, att, TRUE)
  <2>1. store' = t /\ signed' = {}
    BY <1>3 DEF ProcessOwnVote
  <2>2. att \in RawAttestation
    BY NumValidatorsAssumption DEF Inv, AttestationType, RawAttestation, Validators
  <2>3. t \in VoteStores(store)
    BY <1>0, <2>2, GossipStoreSelf, GossipInside DEF GossipStores
  <2> HIDE DEF t
  <2> QED
    BY <2>1, <2>3, VotesStep DEF Kept, Inv
<1>4. ASSUME NEW agg \in Aggregates, ReceiveAggregate(agg) PROVE Kept
  <2> DEFINE t == AggregatedVotes(store, agg)
  <2>1. store' = t /\ signed' = signed
    BY <1>4 DEF ReceiveAggregate
  <2>2. t \in VoteStores(store)
    <3>1. CASE agg.lengthOK
      BY <1>0, <3>1, AggregateInside DEF GossipStores
    <3>2. CASE ~ agg.lengthOK
      BY <1>0, <3>2, VoteStoreSelf DEF AggregatedVotes
    <3> QED
      BY <3>1, <3>2
  <2> HIDE DEF t
  <2> QED
    BY <2>1, <2>2, VotesStep DEF Kept, Inv
<1>5. ASSUME NEW v \in Own, NEW slot,
             ProduceBlockFails(v, slot) \/ ProduceAttestationFails(v, slot)
      PROVE  Kept
  <2> DEFINE t == acceptNewAttestations(store)
  <2>1. store' = t /\ signed' = signed
    BY <1>5 DEF ProduceBlockFails, ProduceAttestationFails
  <2>2. StoreInv(t) /\ RootsInv(t) /\ GrownFrom(store, t)
    BY AcceptStep
  <2> HIDE DEF t
  <2> QED
    BY <2>1, <2>2 DEF Kept, Inv
<1>6. ASSUME NEW v \in Own, NEW slot \in Nat, ProduceAttestation(v, slot) PROVE Kept
  <2> DEFINE t == acceptNewAttestations(store)
             att == OwnAttestation(t, v, slot, BlockCheckpoint(t, t.head))
  <2>1. store' = t /\ signed' = {att} /\ getVoteTarget(t) \in DOMAIN t.blocks
    BY <1>6 DEF ProduceAttestation
  <2>2. StoreInv(t) /\ RootsInv(t) /\ GrownFrom(store, t)
    BY AcceptStep
  <2> HIDE DEF t
  <2>4. att \in AttestationType
    BY <2>1, <2>2, OwnVoteType
  <2> HIDE DEF att
  <2> QED
    BY <2>1, <2>2, <2>4 DEF Kept, Inv
<1>7. \A slot \in 0 .. CurrentSlot(store) : slot \in Nat
  BY <1>0 DEF CurrentSlot, IntervalsPerSlot
<1> QED
  BY <1>1, <1>2, <1>3, <1>4, <1>5, <1>6, <1>7, TickStep, BlockStep, ProduceStep DEF Next

(* The inductive invariant holds in every reachable state.                 *)
THEOREM Invariance == Spec => []Inv
<1>1. Inv /\ [Next]_vars => Inv'
  BY NextKept DEF Kept
<1> QED
  BY InitInv, <1>1, PTL DEF Spec

(* StoreOnlyGrows: no handler, in whatever order the network drives them,  *)
(* changes or removes a stored block or state or moves a checkpoint back.  *)
THEOREM StoreGrows == Spec => StoreOnlyGrows
<1> DEFINE A == /\ \/ store'.latestJustified = store.latestJustified
                   \/ store'.latestJustified.slot > store.latestJustified.slot
                /\ \/ store'.latestFinalized = store.latestFinalized
                   \/ store'.latestFinalized.slot > store.latestFinalized.slot
                /\ \A r \in DOMAIN store.blocks :
                     /\ r \in DOMAIN store'.blocks
                     /\ store'.blocks[r] = store.blocks[r]
                     /\ store'.states[r] = store.states[r]
<1>1. Inv /\ [Next]_vars => A
  <2> SUFFICES ASSUME Inv, [Next]_vars PROVE A
    OBVIOUS
  <2>1. GrownFrom(store, store')
    BY NextKept DEF Kept
  <2>2. DOMAIN store.states = DOMAIN store.blocks
    BY DEF Inv, StoreInv, TablesInv
  <2> QED
    BY <2>1, <2>2 DEF GrownFrom, Grows
<1> HIDE DEF A
<1>2. Spec => [][A]_vars
  BY Invariance, <1>1, PTL DEF Spec
<1> QED
  BY <1>2 DEF StoreOnlyGrows, A

(* VotesGrounded: every vote that gossip, an aggregate, a block body or a  *)
(* proposer brought into the store names stored blocks at their slots, and *)
(* is not from the future.                                                 *)
THEOREM VotesAreGrounded == Spec => []VotesGrounded
<1>1. Inv => VotesGrounded
  <2> SUFFICES ASSUME Inv, NEW votes \in {store.known, store.new}, NEW v \in DOMAIN votes
               PROVE  /\ votes[v].head.root \in DOMAIN store.blocks
                      /\ \A c \in {votes[v].source, votes[v].target} :
                           /\ c.root \in DOMAIN store.blocks
                           /\ store.blocks[c.root].slot = c.slot
                      /\ votes[v].slot <= CurrentSlot(store)
                                          + (IF votes = store.new THEN 0 ELSE 1)
    BY DEF VotesGrounded
  <2>1. VotesInv(store) /\ store.time \in Nat
    BY DEF Inv, StoreInv, StoreType
  <2>2. CurrentSlot(store) \in Nat
    BY <2>1 DEF CurrentSlot, IntervalsPerSlot
  <2>3. CASE votes = store.new
    BY <2>1, <2>2, <2>3 DEF VotesInv, GroundedVotes, Grounded
  <2>4. CASE votes # store.new
    BY <2>1, <2>2, <2>4 DEF VotesInv, GroundedVotes, Grounded
  <2> QED
    BY <2>3, <2>4
<1> QED
  BY Invariance, <1>1, PTL

(* The older ancestors of a block at a slot, and what its history says of  *)
(* them.                                                                   *)
OlderAt(s, r, slot) == {q \in Anc(s.blocks, r) \ {r} : s.blocks[q].slot = slot}

Follows(s, r) ==
  LET h == s.states[r].hist
  IN  \A i \in 1 .. Len(h) :
        OlderAt(s, r, i - 1) = IF h[i] = ZeroHash THEN {} ELSE {h[i]}

(* A history is right if that of the parent is.                            *)
LEMMA FollowsParent ==
  ASSUME NEW s \in StoreType, TablesInv(s), NEW r \in DOMAIN s.blocks,
         r # GenesisRoot, Follows(s, s.blocks[r].parent)
  PROVE  Follows(s, r)
<1> DEFINE p == s.blocks[r].parent
           h == s.states[p].hist
           n == s.blocks[p].slot
           k == s.blocks[r].slot - n - 1
           g == Extended(h, p, k)
<1>1. PICK m \in Nat : IsTree(s.blocks, m)
  BY DEF TablesInv
<1>2. /\ p \in DOMAIN s.blocks /\ s.blocks[p].slot < s.blocks[r].slot
      /\ s.states[r].hist = g
  <2>1. StateFits(s, r)
    BY DEF TablesInv
  <2> QED
    BY <2>1 DEF StateFits
<1>3. /\ s.blocks[p] \in BlockType /\ s.blocks[r] \in BlockType
      /\ s.states[p] \in StateType /\ p \in Nat
  BY <1>2, StoredTypes DEF TablesInv
<1>4. n \in Nat /\ h \in Seq(Nat) /\ k \in Nat /\ s.blocks[r].slot \in Nat
  <2>1. n \in Nat /\ h \in Seq(Nat) /\ s.blocks[r].slot \in Nat
    BY <1>3 DEF BlockType, StateType
  <2> QED
    BY <1>2, <2>1
<1>5. Len(h) = n
  <2>1. StateFits(s, p)
    BY <1>2 DEF TablesInv
  <2> HIDE DEF p
  <2>2. GoodState(s.states[p]) /\ s.states[p].header.slot = s.blocks[p].slot
    BY <2>1 DEF StateFits
  <2> QED
    BY <2>2 DEF GoodState
<1>6. p # ZeroHash
  BY <1>1, <1>2 DEF IsTree, ZeroHash
<1>7. /\ Anc(s.blocks, r) = {r} \union Anc(s.blocks, p)
      /\ p \in Anc(s.blocks, p)
  BY <1>1, <1>2, AncIs
<1>8. \A q \in Anc(s.blocks, p) : q = p \/ s.blocks[q].slot < n
  BY <1>1, <1>2, AncOlder
<1>9. \A q \in Anc(s.blocks, p) : q # r /\ s.blocks[q].slot \in Nat
  <2> TAKE q \in Anc(s.blocks, p)
  <2>1. q \in DOMAIN s.blocks
    BY <1>1, <1>2, AncOlder
  <2>2. s.blocks[q].slot \in Nat
    BY <1>1, <2>1 DEF IsTree
  <2> QED
    BY <1>2, <1>4, <1>8, <2>2
<1>10. \A i \in 1 .. n :
         {q \in Anc(s.blocks, p) \ {p} : s.blocks[q].slot = i - 1}
           = IF h[i] = ZeroHash THEN {} ELSE {h[i]}
  BY <1>5 DEF Follows, OlderAt
<1> DEFINE A == Anc(s.blocks, p)
<1>11. \A i \in Nat : OlderAt(s, r, i - 1) = {q \in A : s.blocks[q].slot = i - 1}
  BY <1>7, <1>9 DEF OlderAt
<1>12. s.blocks[p].slot = n
  OBVIOUS
<1>13. /\ Len(g) = n + 1 + k
       /\ \A i \in 1 .. n : g[i] = h[i]
       /\ g[n + 1] = p
       /\ \A i \in n + 2 .. n + 1 + k : g[i] = ZeroHash
  <2>1. /\ Len(g) = Len(h) + 1 + k
        /\ \A i \in 1 .. Len(h) : g[i] = h[i]
        /\ g[Len(h) + 1] = p
        /\ \A i \in Len(h) + 2 .. Len(h) + 1 + k : g[i] = ZeroHash
    <3>1. h \in Seq(Nat) /\ p \in Nat /\ k \in Nat
      BY <1>3, <1>4
    <3> HIDE DEF p, h, k
    <3> QED
      BY <3>1, HistoryParts
  <2> HIDE DEF g, h, n, k
  <2> QED
    BY <1>5, <2>1
<1> HIDE DEF p, h, n, k, g, A
<1>14. ASSUME NEW i \in 1 .. Len(g)
       PROVE  OlderAt(s, r, i - 1) = IF g[i] = ZeroHash THEN {} ELSE {g[i]}
  <2>1. i \in Nat /\ (i \in 1 .. n \/ i = n + 1 \/ i \in n + 2 .. n + 1 + k)
    BY <1>4, <1>13
  <2>2. OlderAt(s, r, i - 1) = {q \in A : s.blocks[q].slot = i - 1}
    BY <1>11, <2>1
  <2>3. CASE i \in 1 .. n
    <3>1. {q \in A : s.blocks[q].slot = i - 1}
            = {q \in A \ {p} : s.blocks[q].slot = i - 1}
      BY <1>4, <1>12, <2>3
    <3>2. {q \in A \ {p} : s.blocks[q].slot = i - 1}
            = IF h[i] = ZeroHash THEN {} ELSE {h[i]}
      BY <1>10, <2>3 DEF A
    <3> QED
      BY <1>13, <2>2, <2>3, <3>1, <3>2
  <2>4. CASE i = n + 1
    <3>1. \A q \in A : s.blocks[q].slot = i - 1 <=> q = p
      BY <1>4, <1>8, <1>9, <1>12, <2>4 DEF A
    <3>2. p \in A
      BY <1>7 DEF A
    <3>3. {q \in A : s.blocks[q].slot = i - 1} = {p}
      BY <3>1, <3>2
    <3> QED
      BY <1>6, <1>13, <2>2, <2>4, <3>3
  <2>5. CASE i \in n + 2 .. n + 1 + k
    <3>1. \A q \in A : s.blocks[q].slot # i - 1
      BY <1>4, <1>8, <1>9, <1>12, <2>5 DEF A
    <3> QED
      BY <1>13, <2>2, <2>5, <3>1
  <2> QED
    BY <2>1, <2>3, <2>4, <2>5
<1> QED
  BY <1>2, <1>14 DEF Follows

(* Every history is right.                                                 *)
LEMMA TablesFollow ==
  ASSUME NEW s \in StoreType, TablesInv(s)
  PROVE  \A r \in DOMAIN s.blocks : Follows(s, r)
<1> DEFINE blocks == s.blocks
           S == {r \in DOMAIN blocks : Follows(s, r)}
<1>1. PICK n \in Nat : IsTree(blocks, n)
  BY DEF TablesInv
<1>2. ASSUME NEW r \in DOMAIN blocks,
             blocks[r].parent \in DOMAIN blocks => blocks[r].parent \in S
      PROVE  r \in S
  <2>1. CASE r = GenesisRoot
    <3>1. s.states[r].hist = << >>
      BY <2>1 DEF TablesInv, GenesisState
    <3> QED
      BY <3>1 DEF Follows
  <2>2. CASE r # GenesisRoot
    <3>1. blocks[r].parent \in DOMAIN blocks
      BY <2>2, ParentsStored
    <3> QED
      BY <1>2, <2>2, <3>1, FollowsParent
  <2> QED
    BY <2>1, <2>2
<1> SUFFICES \A r \in DOMAIN blocks : Follows(s, r)
  OBVIOUS
<1>3. DOMAIN blocks \subseteq S
  <2> HIDE DEF S, blocks
  <2> QED
    BY <1>1, <1>2, UpwardInduction
<1> QED
  BY <1>3

(* TablesAgree: the store is well-formed after every handler, and the      *)
(* history in the state of every stored block is the branch that the block *)
(* table says leads to it, whatever order blocks arrived in.               *)
THEOREM TablesAlwaysAgree == Spec => []TablesAgree
<1>1. Inv => TypeOK
  <2> SUFFICES ASSUME Inv PROVE TypeOK
    OBVIOUS
  <2>1. store \in StoreType /\ TablesInv(store) /\ HeadsInv(store) /\ VotesInv(store)
    BY DEF Inv, StoreInv
  <2>2. \A r \in DOMAIN store.states : store.states[r] \in StateType
    BY <2>1, StoredTypes
  <2>3. ASSUME NEW votes \in {store.known, store.new}, NEW v \in DOMAIN votes
        PROVE  votes[v] \in AttestationType /\ votes[v].validator = v
    <3>1. votes \in VoteMaps /\ votes[v].validator = v
      BY <2>1 DEF VotesInv, GroundedVotes
    <3> QED
      BY <3>1, VotesFinite
  <2>4. /\ store.time \in Nat
        /\ {store.latestJustified, store.latestFinalized} \subseteq CheckpointType
    BY <2>1 DEF StoreType
  <2>5. /\ {store.head, store.safeTarget} \subseteq DOMAIN store.blocks
        /\ DOMAIN store.blocks = DOMAIN store.states
    BY <2>1 DEF HeadsInv, TablesInv
  <2> QED
    BY <2>2, <2>3, <2>4, <2>5 DEF TypeOK, Inv
<1>2. Inv => StatesFollowTree
  <2> SUFFICES ASSUME Inv, NEW r \in DOMAIN store.blocks
               PROVE  /\ store.states[r].header.slot = store.blocks[r].slot
                      /\ Len(store.states[r].hist) = store.blocks[r].slot
                      /\ \A i \in 1 .. Len(store.states[r].hist) :
                           IF store.states[r].hist[i] = ZeroHash
                           THEN OlderAt(store, r, i - 1) = {}
                           ELSE OlderAt(store, r, i - 1) = {store.states[r].hist[i]}
    BY DEF StatesFollowTree, OlderAt, Anc, Ancestors
  <2>1. store \in StoreType /\ TablesInv(store)
    BY DEF Inv, StoreInv
  <2>2. StateFits(store, r)
    BY <2>1 DEF TablesInv
  <2>3. /\ store.states[r].header.slot = store.blocks[r].slot
        /\ Len(store.states[r].hist) = store.blocks[r].slot
    BY <2>2 DEF StateFits, GoodState
  <2>4. Follows(store, r)
    BY <2>1, TablesFollow
  <2> QED
    BY <2>3, <2>4 DEF Follows
<1> QED
  BY Invariance, <1>1, <1>2, PTL DEF TablesAgree

-----------------------------------------------------------------------------
(* The head and the safe target.  The state transition does not compare    *)
(* the target of a body's vote with the block table, so that a body may    *)
(* justify an empty slot, and the zero hash becomes the justified root: the*)
(* search for the head then starts at genesis.  What follows is about      *)
(* networks that deliver no vote for the zero hash inside a block.         *)
NoEmptyTargets ==
  \A e \in Envelopes : \A i \in DOMAIN e.block.body :
    e.block.body[i].target.root # ZeroHash

(* The checkpoints of the store are blocks, and so is every slot that one  *)
(* of its states has justified.                                            *)
JustInv(s) ==
  /\ s.latestJustified.root # ZeroHash
  /\ s.latestFinalized.root # ZeroHash
  /\ \A r \in DOMAIN s.blocks :
       Rooted(s.states[r], s.states[r].justifiedSlots, Nat \ {ZeroHash})

HeadInv(s) == HeadGood(s.blocks, s.latestJustified, s.known, s.head)

(* updateHead finds the head.                                              *)
LEMMA UpdateHeadGood ==
  ASSUME NEW s, HeadlessInv(s), JustInv(s)
  PROVE  HeadInv(updateHead(s)) /\ JustInv(updateHead(s))
<1> DEFINE t == updateHead(s)
           h == GetForkChoiceHead(s.blocks, s.latestJustified.root, s.known, 0)
<1>1. SameButHead(s, t)
  BY UpdateHeadInv
<1>2. s \in StoreType /\ s.known \in VoteMaps
  BY DEF HeadlessInv, StoreType
<1>3. t.head = h
  BY <1>2 DEF updateHead, StoreType
<1>4. PICK n \in Nat : IsTree(s.blocks, n)
  BY DEF HeadlessInv, TablesInv
<1>5. /\ s.latestJustified.root \in DOMAIN s.blocks
      /\ s.blocks[s.latestJustified.root].slot = s.latestJustified.slot
  BY DEF HeadlessInv, JustInv, CheckpointFits
<1>6. IsFiniteSet(DOMAIN s.known)
  BY <1>2, VotesFinite
<1>7. HeadGood(s.blocks, s.latestJustified, s.known, h)
  BY <1>4, <1>5, <1>6, HeadIsGood
<1> HIDE DEF t, h
<1>8. HeadInv(t) /\ JustInv(t)
  BY <1>1, <1>3, <1>7 DEF HeadInv, JustInv, SameButHead
<1> QED
  BY <1>8 DEF t

(* The same of acceptNewAttestations.                                      *)
LEMMA AcceptHeadGood ==
  ASSUME NEW s, StoreInv(s), JustInv(s)
  PROVE  LET t == acceptNewAttestations(s)
         IN  HeadInv(t) /\ JustInv(t)
<1> DEFINE u == [s EXCEPT !.known = PutAll(s.known, s.new), !.new = EmptyMap]
<1>1. s \in StoreType /\ s.time \in Nat
  BY DEF StoreInv, StoreType
<1>2. CurrentSlot(s) \in Nat
  BY <1>1 DEF CurrentSlot, IntervalsPerSlot
<1>3. PutAll(s.known, s.new) \in GroundedVotes(s, CurrentSlot(s) + 1)
  BY <1>2, PutAllGrounded DEF StoreInv, VotesInv
<1>4. EmptyMap \in GroundedVotes(s, CurrentSlot(s))
  BY EmptyGrounded
<1>5. s \in VoteStores(s)
  BY <1>1, VoteStoreSelf DEF StoreInv
<1>6. u \in VoteStores(s)
  BY <1>1, <1>3, <1>4, <1>5, VoteStoreAgain
<1>7. acceptNewAttestations(s) = updateHead(u)
  BY DEF acceptNewAttestations
<1> HIDE DEF u
<1>8. StoreInv(u) /\ SameButVotes(s, u)
  BY <1>6, VoteStoreInv DEF VoteStores
<1>9. HeadlessInv(u) /\ JustInv(u)
  BY <1>8 DEF HeadlessInv, StoreInv, HeadsInv, JustInv, SameButVotes
<1> QED
  BY <1>7, <1>9, UpdateHeadGood

(* A block whose body names no zero target.                                *)
LEMMA StoredJust ==
  ASSUME NEW s, StoreInv(s), JustInv(s), NEW root, NEW block,
         Storable(s, root, block),
         \A i \in DOMAIN block.body : block.body[i].target.root # ZeroHash
  PROVE  LET t == Stored(s, root, block)
         IN  /\ JustInv(t)
             /\ t.states[root].latestJustified.root # ZeroHash
             /\ t.states[root].latestFinalized.root # ZeroHash
<1> DEFINE p == block.parent
           old == s.states[p]
           new == PostState(s, root, block)
           t == Stored(s, root, block)
           Roots == Nat \ {ZeroHash}
           Atts == {att \in RawAttestation : att.target.root \in Roots}
<1>1. s \in StoreType /\ TablesInv(s)
  BY DEF StoreInv
<1>2. PICK n \in Nat : IsTree(s.blocks, n)
  BY <1>1 DEF TablesInv
<1>3. p \in DOMAIN s.blocks /\ block.body \in Seq(RawAttestation)
  BY DEF Storable, BlockType
<1>4. p \in Roots
  BY <1>2, <1>3 DEF IsTree, ZeroHash
<1>5. block.body \in Seq(Atts)
  <2> DEFINE body == block.body
  <2>1. body \in Seq(RawAttestation) /\ \A i \in DOMAIN body : body[i].target.root # ZeroHash
    BY <1>3
  <2> HIDE DEF body
  <2>2. \A i \in 1 .. Len(body) : body[i] \in RawAttestation /\ body[i].target.root # ZeroHash
    BY <2>1
  <2>3. \A i \in 1 .. Len(body) : body[i] \in Atts
    BY <2>2 DEF RawAttestation, CheckpointType
  <2>4. body \in Seq(Atts)
    BY <2>1, <2>3
  <2> QED
    BY <2>4 DEF body
<1>6. Rooted(old, old.justifiedSlots, Roots)
  BY <1>3 DEF JustInv
<1>7. Atts \in SUBSET RawAttestation /\ \A att \in Atts : att.target.root \in Roots
  OBVIOUS
<1> HIDE DEF Atts, Roots
<1>8. IsAfterBlock(old, block, root, Roots, new)
  BY <1>1, <1>4, <1>5, <1>6, <1>7, PostStateIs
<1>9. /\ new.latestJustified.root # ZeroHash /\ new.latestFinalized.root # ZeroHash
      /\ Rooted(new, new.justifiedSlots, Nat \ {ZeroHash})
  BY <1>8 DEF IsAfterBlock, Roots
<1>10. HasBlock(s, root, block, new, t)
  BY <1>1, StoredFits
<1> SUFFICES /\ JustInv(t)
             /\ t.states[root].latestJustified.root # ZeroHash
             /\ t.states[root].latestFinalized.root # ZeroHash
  OBVIOUS
<1> HIDE DEF t, new
<1> QED
  BY <1>9, <1>10 DEF HasBlock, JustInv

(* An envelope.                                                            *)
LEMMA EnvelopeGood ==
  ASSUME NoEmptyTargets, NEW s, StoreInv(s), JustInv(s), NEW e \in Envelopes,
         CanProcessEnvelope(s, e)
  PROVE  LET t == ProcessEnvelope(s, e)
         IN  HeadInv(t) /\ JustInv(t) /\ t.safeTarget = s.safeTarget
<1> DEFINE stored == Stored(s, e.root, e.block)
           checkpointed == Checkpointed(stored, stored.states[e.root])
           voted == FoldLeft(OnChainVote, checkpointed, e.block.body)
           headed == updateHead(voted)
           last == FoldLeft(LAMBDA t, att : GossipVote(t, att, TRUE), headed, e.proposerAtt)
<1>1. Storable(s, e.root, e.block) /\ e.block.body \in Seq(AttestationType)
  BY EnvelopeStorable
<1>2. e.proposerAtt \in Seq(RawAttestation)
  BY ForkChoiceAssumption
<1>3. StoreInv(stored)
  BY <1>1, StoredInv
<1>4. /\ e.root \in DOMAIN stored.blocks
      /\ stored.states[e.root] = PostState(s, e.root, e.block)
      /\ stored.safeTarget = s.safeTarget
  BY <1>1, StoredFits DEF StoreInv, HasBlock
<1>5. ProcessEnvelope(s, e) = last
  BY <1>4 DEF ProcessEnvelope, Stored, Checkpointed, PostState
<1>6. /\ JustInv(stored)
      /\ stored.states[e.root].latestJustified.root # ZeroHash
      /\ stored.states[e.root].latestFinalized.root # ZeroHash
  BY <1>1, StoredJust DEF NoEmptyTargets
<1> HIDE DEF stored
<1>7. StoreInv(checkpointed)
  BY <1>3, <1>4, CheckpointedInv
<1>8. /\ checkpointed.latestJustified =
           NewerCheckpoint(stored.latestJustified, stored.states[e.root].latestJustified)
      /\ checkpointed.latestFinalized =
           NewerCheckpoint(stored.latestFinalized, stored.states[e.root].latestFinalized)
      /\ checkpointed.blocks = stored.blocks /\ checkpointed.states = stored.states
      /\ checkpointed.safeTarget = stored.safeTarget
  BY <1>3 DEF Checkpointed, StoreInv, StoreType
<1> HIDE DEF checkpointed
<1>9. JustInv(checkpointed)
  BY <1>6, <1>8 DEF JustInv, NewerCheckpoint
<1>10. voted \in VoteStores(checkpointed)
  BY <1>1, <1>7, BodyInside DEF StoreInv
<1> HIDE DEF voted
<1>11. StoreInv(voted) /\ SameButVotes(checkpointed, voted)
  BY <1>7, <1>10, VoteStoreInv DEF VoteStores
<1>12. HeadlessInv(voted) /\ JustInv(voted)
  BY <1>9, <1>11 DEF HeadlessInv, StoreInv, HeadsInv, JustInv, SameButVotes
<1>13. HeadInv(headed) /\ JustInv(headed) /\ StoreInv(headed) /\ SameButHead(voted, headed)
  BY <1>12, UpdateHeadGood, UpdateHeadInv
<1> HIDE DEF headed
<1>14. last \in GossipStores(headed)
  BY <1>2, <1>13, ProposerInside DEF StoreInv
<1> HIDE DEF last
<1>15. SameButVotes(headed, last) /\ last.known = headed.known
  BY <1>14 DEF GossipStores, VoteStores
<1>16. HeadInv(last) /\ JustInv(last)
  BY <1>13, <1>15 DEF HeadInv, JustInv, SameButVotes
<1>17. last.safeTarget = s.safeTarget
  BY <1>4, <1>8, <1>11, <1>13, <1>15 DEF SameButVotes, SameButHead
<1> QED
  BY <1>5, <1>16, <1>17

(* A block of the node's own is a leaf without votes.                      *)
LEMMA OwnBlockGood ==
  ASSUME NEW s, StoreInv(s), JustInv(s), HeadInv(s), NEW root, NEW slot,
         NEW block \in OwnBlocks(s, slot), Storable(s, root, block)
  PROVE  LET t == Stored(s, root, block)
         IN  HeadInv(t) /\ JustInv(t) /\ t.safeTarget = s.safeTarget
<1> DEFINE t == Stored(s, root, block)
<1>1. s \in StoreType /\ TablesInv(s) /\ HeadsInv(s) /\ VotesInv(s)
  BY DEF StoreInv
<1>2. PICK n \in Nat : IsTree(s.blocks, n)
  BY <1>1 DEF TablesInv
<1>3. /\ IsFiniteSet(DOMAIN s.known)
      /\ \A v \in DOMAIN s.known : /\ s.known[v].head.root \in DOMAIN s.blocks
                                   /\ s.known[v].target.root \in DOMAIN s.blocks
  BY <1>1, VotesFinite DEF VotesInv, GroundedVotes, Grounded
<1>4. JustInv(t)
  <2> DEFINE votes == {s.known[u] : u \in DOMAIN s.known}
             body == block.body
  <2>1. body \in Seq(votes)
    BY DEF OwnBlocks
  <2>2. \A att \in votes : att.target.root # ZeroHash
    BY <1>2, <1>3 DEF IsTree, ZeroHash
  <2>3. \A i \in DOMAIN body : body[i].target.root # ZeroHash
    <3> HIDE DEF votes, body
    <3> QED
      BY <2>1, <2>2
  <2> QED
    BY <2>3, StoredJust
<1>5. HasBlock(s, root, block, PostState(s, root, block), t)
      /\ TablesInv(t) /\ Grows(s.blocks, t.blocks)
  BY <1>1, StoredFits
<1> SUFFICES HeadInv(t) /\ JustInv(t) /\ t.safeTarget = s.safeTarget
  OBVIOUS
<1> HIDE DEF t
<1>6. PICK m \in Nat : IsTree(t.blocks, m)
  BY <1>5 DEF TablesInv
<1>7. VotesStored(s.blocks, s.known)
  BY <1>3 DEF VotesStored
<1>8. s.latestJustified.slot \in Nat /\ s.head \in DOMAIN s.blocks
  BY <1>1 DEF StoreType, CheckpointType, HeadsInv
<1>9. HeadGood(t.blocks, s.latestJustified, s.known, s.head)
  BY <1>2, <1>5, <1>6, <1>7, <1>8, HeadStaysGood DEF HeadInv
<1>10. /\ t.head = s.head /\ t.latestJustified = s.latestJustified
       /\ t.known = s.known /\ t.safeTarget = s.safeTarget
  BY <1>5 DEF HasBlock
<1> QED
  BY <1>4, <1>9, <1>10 DEF HeadInv

(* h is the justified block, or two thirds of the validators have pending  *)
(* votes for it.                                                           *)
Backed(s, h) ==
  \/ h = s.latestJustified.root
  \/ Supermajority({v \in DOMAIN s.new : h \in Anc(s.blocks, s.new[v].head.root)})

(* The next interval.                                                      *)
LEMMA TickGood ==
  ASSUME NEW s, StoreInv(s), JustInv(s), HeadInv(s), NEW hasProposal
  PROVE  LET t == tickInterval(s, hasProposal)
         IN  /\ HeadInv(t) /\ JustInv(t)
             /\ t.safeTarget = s.safeTarget \/ Backed(s, t.safeTarget)
<1> DEFINE u == [s EXCEPT !.time = @ + 1]
           t == tickInterval(s, hasProposal)
<1>1. s \in StoreType /\ s.time \in Nat
  BY DEF StoreInv, StoreType
<1>2. /\ u \in StoreType /\ u.time = s.time + 1
      /\ u.head = s.head /\ u.safeTarget = s.safeTarget
      /\ u.latestJustified = s.latestJustified /\ u.latestFinalized = s.latestFinalized
      /\ u.blocks = s.blocks /\ u.states = s.states
      /\ u.known = s.known /\ u.new = s.new
  BY <1>1 DEF StoreType
<1>3. t = acceptNewAttestations(u) \/ t = updateSafeTarget(u) \/ t = u
  BY DEF tickInterval
<1> SUFFICES /\ HeadInv(t) /\ JustInv(t)
             /\ t.safeTarget = s.safeTarget \/ Backed(s, t.safeTarget)
  OBVIOUS
<1>4. StoreInv(u)
  BY TickedInv
<1> HIDE DEF u, t
<1>5. HeadInv(u) /\ JustInv(u)
  BY <1>2 DEF HeadInv, JustInv
<1>6. CASE t = acceptNewAttestations(u)
  <2>1. SameBlocks(u, acceptNewAttestations(u))
    BY <1>4, AcceptInv
  <2>2. HeadInv(t) /\ JustInv(t)
    BY <1>4, <1>5, <1>6, AcceptHeadGood
  <2> QED
    BY <1>2, <1>6, <2>1, <2>2 DEF SameBlocks
<1>7. CASE t = updateSafeTarget(u)
  <2> DEFINE minScore == ceilDiv(2 * NumValidators, 3)
             root == s.latestJustified.root
             h == GetForkChoiceHead(s.blocks, root, s.new, minScore)
             V == {v \in DOMAIN s.new : h \in Anc(s.blocks, s.new[v].head.root)}
  <2>1. t = [u EXCEPT !.safeTarget = h]
    BY <1>2, <1>7 DEF updateSafeTarget
  <2>2. PICK n \in Nat : IsTree(s.blocks, n)
    BY DEF StoreInv, TablesInv
  <2>3. VotesStored(s.blocks, s.new)
    BY VotesFinite DEF StoreInv, VotesInv, GroundedVotes, Grounded, VotesStored
  <2>4. minScore \in Nat /\ 3 * minScore >= 2 * NumValidators
    BY NumValidatorsAssumption DEF ceilDiv
  <2>5. root \in DOMAIN s.blocks
    BY DEF StoreInv, HeadsInv, JustInv, CheckpointFits
  <2>6. h = root \/ (Cardinality(V) \in Nat /\ Cardinality(V) >= minScore)
    <3> HIDE DEF minScore, root
    <3> QED
      BY <2>2, <2>3, <2>4, <2>5, HeadBacked
  <2> HIDE DEF minScore, V
  <2>7. h = root \/ Supermajority(V)
    BY <2>4, <2>6, NumValidatorsAssumption DEF Supermajority
  <2>8. Backed(s, h)
    BY <2>7 DEF Backed, V
  <2> HIDE DEF h
  <2>9. /\ t.safeTarget = h /\ t.head = u.head
        /\ t.latestJustified = u.latestJustified /\ t.latestFinalized = u.latestFinalized
        /\ t.blocks = u.blocks /\ t.states = u.states /\ t.known = u.known
    BY <1>2, <2>1 DEF StoreType
  <2> QED
    BY <1>5, <2>8, <2>9 DEF HeadInv, JustInv
<1>8. CASE t = u
  BY <1>2, <1>5, <1>8
<1> QED
  BY <1>3, <1>6, <1>7, <1>8

(* What the steps do to the store.                                         *)
LEMMA StepCases ==
  ASSUME Inv, [Next]_vars
  PROVE  \/ \E hasProposal \in BOOLEAN : store' = tickInterval(store, hasProposal)
         \/ \E e \in Envelopes : /\ CanProcessEnvelope(store, e)
                                 /\ store' = ProcessEnvelope(store, e)
         \/ store' \in GossipStores(store)
         \/ store' = acceptNewAttestations(store)
         \/ \E slot : \E block \in OwnBlocks(acceptNewAttestations(store), slot) :
              \E root : /\ Storable(acceptNewAttestations(store), root, block)
                        /\ store' = Stored(acceptNewAttestations(store), root, block)
                        /\ ForeignBlocks => root \in DOMAIN store.blocks \union OwnRoots
<1>0. store \in StoreType /\ VotesInv(store)
  BY DEF Inv, StoreInv
<1>1. CASE UNCHANGED vars
  BY <1>0, <1>1, GossipStoreSelf DEF vars
<1>2. CASE \E hasProposal \in BOOLEAN : Tick(hasProposal)
  BY <1>2 DEF Tick
<1>3. CASE \E e \in Envelopes : ReceiveBlock(e)
  BY <1>3 DEF ReceiveBlock
<1>4. ASSUME NEW vote \in GossipVotes, ReceiveVote(vote)
      PROVE  store' \in GossipStores(store)
  BY <1>0, <1>4, GossipStoreSelf, GossipInside, ForkChoiceAssumption DEF ReceiveVote
<1>5. ASSUME NEW att \in signed, ProcessOwnVote(att)
      PROVE  store' \in GossipStores(store)
  <2>1. att \in RawAttestation
    BY NumValidatorsAssumption DEF Inv, AttestationType, RawAttestation, Validators
  <2> QED
    BY <1>0, <1>5, <2>1, GossipStoreSelf, GossipInside DEF ProcessOwnVote
<1>6. ASSUME NEW agg \in Aggregates, ReceiveAggregate(agg)
      PROVE  store' \in GossipStores(store)
  <2>1. CASE agg.lengthOK
    BY <1>0, <1>6, <2>1, AggregateInside DEF ReceiveAggregate
  <2>2. CASE ~ agg.lengthOK
    BY <1>0, <1>6, <2>2, GossipStoreSelf DEF ReceiveAggregate, AggregatedVotes
  <2> QED
    BY <2>1, <2>2
<1>7. ASSUME NEW v \in Own, NEW slot,
             \/ ProduceBlockFails(v, slot) \/ ProduceAttestationFails(v, slot)
             \/ ProduceAttestation(v, slot)
      PROVE  store' = acceptNewAttestations(store)
  BY <1>7 DEF ProduceBlockFails, ProduceAttestationFails, ProduceAttestation
<1>8. ASSUME NEW v \in Own, NEW slot, ProduceBlock(v, slot)
      PROVE  \E block \in OwnBlocks(acceptNewAttestations(store), slot) :
               \E root : /\ Storable(acceptNewAttestations(store), root, block)
                         /\ store' = Stored(acceptNewAttestations(store), root, block)
                         /\ ForeignBlocks => root \in DOMAIN store.blocks \union OwnRoots
  BY <1>8, ProducedIs
<1> QED
  BY <1>1, <1>2, <1>3, <1>4, <1>5, <1>6, <1>7, <1>8 DEF Next

(* Under the hypothesis on the network the head invariants are kept, and   *)
(* the safe target moves to a backed block only.                           *)
LEMMA HeadKept ==
  ASSUME NoEmptyTargets, Inv, JustInv(store), HeadInv(store), [Next]_vars
  PROVE  /\ JustInv(store') /\ HeadInv(store')
         /\ store'.safeTarget = store.safeTarget \/ Backed(store, store'.safeTarget)
<1> DEFINE t == acceptNewAttestations(store)
<1>1. StoreInv(store)
  BY DEF Inv
<1>2. StoreInv(t) /\ JustInv(t) /\ HeadInv(t) /\ t.safeTarget = store.safeTarget
  BY <1>1, AcceptInv, AcceptHeadGood DEF SameBlocks
<1> HIDE DEF t
<1>3. ASSUME NEW hasProposal \in BOOLEAN, store' = tickInterval(store, hasProposal)
      PROVE  /\ JustInv(store') /\ HeadInv(store')
             /\ store'.safeTarget = store.safeTarget \/ Backed(store, store'.safeTarget)
  BY <1>1, <1>3, TickGood
<1>4. ASSUME NEW e \in Envelopes, CanProcessEnvelope(store, e),
             store' = ProcessEnvelope(store, e)
      PROVE  JustInv(store') /\ HeadInv(store') /\ store'.safeTarget = store.safeTarget
  BY <1>1, <1>4, EnvelopeGood
<1>5. ASSUME store' \in GossipStores(store)
      PROVE  JustInv(store') /\ HeadInv(store') /\ store'.safeTarget = store.safeTarget
  <2>1. SameButVotes(store, store') /\ store'.known = store.known
    BY <1>5 DEF GossipStores, VoteStores
  <2> QED
    BY <2>1 DEF SameButVotes, JustInv, HeadInv
<1>6. ASSUME NEW slot, NEW block \in OwnBlocks(t, slot), NEW root,
             Storable(t, root, block), store' = Stored(t, root, block)
      PROVE  JustInv(store') /\ HeadInv(store') /\ store'.safeTarget = store.safeTarget
  BY <1>2, <1>6, OwnBlockGood
<1> QED
  BY <1>2, <1>3, <1>4, <1>5, <1>6, StepCases DEF t

(* The head invariants in the initial state.                               *)
LEMMA InitHead == Init => JustInv(store) /\ HeadInv(store)
<1> SUFFICES ASSUME Init PROVE JustInv(store) /\ HeadInv(store)
  OBVIOUS
<1>1. /\ store.head = GenesisRoot /\ store.latestJustified = Checkpoint(GenesisRoot, 0)
      /\ store.latestFinalized = Checkpoint(GenesisRoot, 0)
      /\ store.blocks = Put(EmptyMap, GenesisRoot, GenesisBlock)
      /\ store.states = Put(EmptyMap, GenesisRoot, GenesisState(GenesisRoot))
      /\ GenesisRoot # ZeroHash
  BY ForkChoiceAssumption DEF Init, NewStore
<1>2. DOMAIN store.blocks = {GenesisRoot} /\ store.blocks[GenesisRoot] = GenesisBlock
  BY <1>1 DEF Put, EmptyMap
<1>3. JustInv(store)
  <2>1. store.states[GenesisRoot].header.slot = 0
    BY <1>1 DEF Put, EmptyMap, GenesisState
  <2> QED
    BY <1>1, <1>2, <2>1 DEF JustInv, Checkpoint, Rooted
<1>4. PICK n \in Nat : IsTree(store.blocks, n)
  BY InitInv DEF Inv, StoreInv, TablesInv
<1>5. /\ GenesisRoot \in Anc(store.blocks, GenesisRoot)
      /\ Anc(store.blocks, GenesisRoot) \subseteq {GenesisRoot}
  BY <1>2, <1>4, AncIs
<1>6. HeadInv(store)
  <2>1. /\ store.latestJustified.root = GenesisRoot /\ store.latestJustified.slot = 0
        /\ store.blocks[GenesisRoot].slot = 0 /\ store.head = GenesisRoot
    BY <1>1, <1>2 DEF Checkpoint, GenesisBlock
  <2>2. \A r \in Anc(store.blocks, store.head) :
          ~ (store.blocks[r].slot > store.latestJustified.slot)
    BY <1>5, <2>1
  <2>3. store.latestJustified.root \in Anc(store.blocks, store.head)
    BY <1>5, <2>1
  <2> QED
    BY <2>2, <2>3 DEF HeadInv, HeadGood
<1> QED
  BY <1>3, <1>6

(* HeadFollowsVotes: after every handler, not only those that look for the *)
(* head, it is the heaviest descendant of the justified block by the known *)
(* votes: no handler changes votes, blocks or checkpoint and leaves the    *)
(* head behind.                                                            *)
THEOREM HeadIsHeaviest ==
  ASSUME NoEmptyTargets
  PROVE  Spec => []HeadFollowsVotes
<1> DEFINE HInv == JustInv(store) /\ HeadInv(store)
<1>1. Init => HInv
  BY InitHead
<1>2. Inv /\ HInv /\ [Next]_vars => HInv'
  BY HeadKept
<1>3. HInv => HeadFollowsVotes
  BY DEF HeadInv, HeadGood, HeadFollowsVotes, HeadExtendsJustified, HeadHeaviest,
         Ancestors, Anc
<1> HIDE DEF HInv
<1> QED
  BY Invariance, <1>1, <1>2, <1>3, PTL DEF Spec

(* SafeTargetBacked: the safe target moves only when an interval begins,   *)
(* and then to the justified block or to one that two thirds of the        *)
(* validators support with a pending vote.                                 *)
THEOREM SafeTargetIsBacked ==
  ASSUME NoEmptyTargets
  PROVE  Spec => SafeTargetBacked
<1> DEFINE HInv == JustInv(store) /\ HeadInv(store)
           A == store'.safeTarget # store.safeTarget =>
                  \/ store'.safeTarget = store.latestJustified.root
                  \/ Supermajority({v \in DOMAIN store.new :
                       store'.safeTarget \in Ancestors(store.new[v].head.root)})
<1>1. Init => HInv
  BY InitHead
<1>2. Inv /\ HInv /\ [Next]_vars => HInv'
  BY HeadKept
<1>3. Inv /\ HInv /\ [Next]_vars => A
  BY HeadKept DEF Backed, Ancestors, Anc
<1> HIDE DEF HInv, A
<1>4. Spec => [][A]_vars
  BY Invariance, <1>1, <1>2, <1>3, PTL DEF Spec
<1> QED
  BY <1>4, PTL DEF SafeTargetBacked, A


-----------------------------------------------------------------------------
(* The vote target.                                                        *)

(* f walks from r to the next block of Good, or to the zero hash.          *)
WalksTo(blocks, Good, f) ==
  f = [r \in DOMAIN blocks \union {ZeroHash} |->
         IF r = ZeroHash THEN ZeroHash
         ELSE IF r \in Good THEN r
         ELSE f[blocks[r].parent]]

(* There is such a walk.                                                   *)
LEMMA WalkExists ==
  ASSUME NEW blocks, ZeroHash \notin DOMAIN blocks, NEW Good,
         \A r \in DOMAIN blocks : blocks[r].parent \in DOMAIN blocks \union {ZeroHash},
         \A r \in DOMAIN blocks : blocks[r].parent # r
  PROVE  \E f : WalksTo(blocks, Good, f)
<1> DEFINE D == DOMAIN blocks \union {ZeroHash}
           next == [r \in D |-> IF r = ZeroHash \/ r \in Good THEN r ELSE blocks[r].parent]
           d == [r \in D |-> CHOOSE y : y \in Leaves(next, r)]
<1>1. next \in [D -> D]
  OBVIOUS
<1>2. \A r \in D : next[r] = r <=> r = ZeroHash \/ r \in Good
  <2> TAKE r \in D
  <2>1. CASE r = ZeroHash \/ r \in Good
    BY <2>1
  <2>2. CASE ~ (r = ZeroHash \/ r \in Good)
    <3>1. r \in DOMAIN blocks /\ next[r] = blocks[r].parent
      BY <2>2
    <3>2. blocks[r].parent # r
      BY <3>1
    <3> HIDE DEF next
    <3> QED
      BY <2>2, <3>1, <3>2
  <2> QED
    BY <2>1, <2>2
<1>3. Descends(next, d)
  <2> HIDE DEF next, D
  <2> QED
    BY <1>1, DescentExists
<1>4. d = [r \in D |-> d[r]]
  <2> HIDE DEF next, D
  <2> QED
    OBVIOUS
<1>5. \A r \in D : d[r] = IF next[r] = r THEN r ELSE d[next[r]]
  <2> HIDE DEF d, next, D
  <2> QED
    BY <1>1, <1>3 DEF Descends
<1>6. \A r \in D : d[r] = IF r = ZeroHash THEN ZeroHash
                          ELSE IF r \in Good THEN r ELSE d[blocks[r].parent]
  <2> HIDE DEF d
  <2> QED
    BY <1>2, <1>5
<1> HIDE DEF d
<1>7. WalksTo(blocks, Good, d)
  BY <1>4, <1>6 DEF WalksTo
<1> QED
  BY <1>7

(* It ends at an ancestor, and no ancestor in Good is later.               *)
LEMMA WalkEnds ==
  ASSUME NEW blocks, NEW n, IsTree(blocks, n), NEW Good,
         \A r \in DOMAIN blocks : blocks[r].parent \in DOMAIN blocks \union {ZeroHash},
         NEW f, WalksTo(blocks, Good, f), NEW r \in DOMAIN blocks
  PROVE  /\ f[r] # ZeroHash => f[r] \in Good /\ f[r] \in Anc(blocks, r)
         /\ \A q \in Anc(blocks, r) :
              q \in Good => f[r] # ZeroHash /\ blocks[f[r]].slot >= blocks[q].slot
<1> DEFINE D == DOMAIN blocks
           S == {y \in D : /\ f[y] # ZeroHash => f[y] \in Good /\ f[y] \in Anc(blocks, y)
                           /\ \A q \in Anc(blocks, y) :
                                q \in Good =>
                                  f[y] # ZeroHash /\ blocks[f[y]].slot >= blocks[q].slot}
<1>1. ZeroHash \notin D /\ \A y \in D : blocks[y].slot \in Nat
  BY DEF IsTree, ZeroHash
<1>2. ASSUME NEW y \in D, blocks[y].parent \in D => blocks[y].parent \in S
      PROVE  y \in S
  <2> DEFINE p == blocks[y].parent
  <2>1. f[y] = IF y \in Good THEN y ELSE f[p]
    BY <1>1 DEF WalksTo
  <2>2. Anc(blocks, y) = {y} \union (IF p \in D THEN Anc(blocks, p) ELSE {})
    BY AncIs
  <2>3. CASE y \in Good
    <3>1. \A q \in Anc(blocks, y) : blocks[y].slot >= blocks[q].slot
      BY <1>1, AncOlder
    <3> QED
      BY <1>1, <2>1, <2>2, <2>3, <3>1
  <2>4. CASE y \notin Good /\ p \in D
    BY <1>2, <2>1, <2>2, <2>4
  <2>5. CASE y \notin Good /\ p \notin D
    <3>1. p = ZeroHash
      BY <2>5
    <3>2. f[p] = ZeroHash
      BY <3>1 DEF WalksTo
    <3> QED
      BY <2>1, <2>2, <2>5, <3>2
  <2> QED
    BY <2>3, <2>4, <2>5
<1>3. D \subseteq S
  <2> HIDE DEF S
  <2> QED
    BY <1>2, UpwardInduction
<1> QED
  BY <1>3

(* One step of the walk back towards the safe target.                      *)
Back(s, r) ==
  IF /\ {r, s.safeTarget} \subseteq DOMAIN s.blocks
     /\ s.blocks[r].slot > s.blocks[s.safeTarget].slot
  THEN s.blocks[r].parent ELSE r

(* It stays above every ancestor that is not after the safe target.        *)
LEMMA BackInside ==
  ASSUME NEW s, StoreInv(s), NEW r \in DOMAIN s.blocks
  PROVE  /\ Back(s, r) \in DOMAIN s.blocks
         /\ Back(s, r) \in Anc(s.blocks, r)
         /\ \A q \in Anc(s.blocks, r) :
              s.blocks[q].slot <= s.blocks[s.safeTarget].slot
                => q \in Anc(s.blocks, Back(s, r))
<1> DEFINE D == DOMAIN s.blocks
           p == s.blocks[r].parent
<1>1. TablesInv(s) /\ s.safeTarget \in D
  BY DEF StoreInv, HeadsInv
<1>2. PICK n \in Nat : IsTree(s.blocks, n)
  BY <1>1 DEF TablesInv
<1>3. \A q \in D : s.blocks[q].slot \in Nat
  BY <1>2 DEF IsTree
<1>4. r \in Anc(s.blocks, r)
  BY <1>2, AncIs
<1>5. CASE s.blocks[r].slot > s.blocks[s.safeTarget].slot
  <2>1. Back(s, r) = p
    BY <1>1, <1>5 DEF Back
  <2>2. r # GenesisRoot
    BY <1>1, <1>3, <1>5 DEF TablesInv, GenesisBlock
  <2>3. p \in D
    BY <1>1, <2>2, ParentsStored
  <2>4. Anc(s.blocks, r) = {r} \union Anc(s.blocks, p) /\ p \in Anc(s.blocks, p)
    BY <1>2, <2>3, AncIs
  <2>5. ~ (s.blocks[r].slot <= s.blocks[s.safeTarget].slot)
    BY <1>1, <1>3, <1>5
  <2> QED
    BY <2>1, <2>3, <2>4, <2>5
<1>6. CASE ~ (s.blocks[r].slot > s.blocks[s.safeTarget].slot)
  <2>1. Back(s, r) = r
    BY <1>6 DEF Back
  <2> QED
    BY <1>4, <2>1
<1> QED
  BY <1>5, <1>6

(* The vote target is an ancestor of the head and justifiable; and it is   *)
(* not before an ancestor of the head that is justifiable and not after    *)
(* the safe target.                                                        *)
LEMMA VoteTargetIs ==
  ASSUME NEW s, StoreInv(s), getVoteTarget(s) \in DOMAIN s.blocks
  PROVE  LET g == getVoteTarget(s)
             fin == s.latestFinalized.slot
         IN  /\ g \in Anc(s.blocks, s.head)
             /\ IsJustifiableAfter(s.blocks[g].slot, fin)
             /\ \A q \in Anc(s.blocks, s.head) :
                  /\ s.blocks[q].slot <= s.blocks[s.safeTarget].slot
                  /\ IsJustifiableAfter(s.blocks[q].slot, fin)
                  => s.blocks[g].slot >= s.blocks[q].slot
<1> DEFINE D == DOMAIN s.blocks
           fin == s.latestFinalized.slot
           good(r) == IsJustifiableAfter(s.blocks[r].slot, fin)
           Good == {r \in D : good(r)}
           P(f) == f = [r \in D \union {ZeroHash} |->
                          IF r = ZeroHash THEN ZeroHash
                          ELSE IF good(r) THEN r
                          ELSE f[s.blocks[r].parent]]
           L(f) == f = [i \in 0 .. JustificationLookback |->
                          IF i = 0 THEN s.head ELSE Back(s, f[i - 1])]
           g == getVoteTarget(s)
<1>1. TablesInv(s) /\ s.head \in D
  BY DEF StoreInv, HeadsInv
<1>2. PICK n \in Nat : IsTree(s.blocks, n)
  BY <1>1 DEF TablesInv
<1>3. ZeroHash \notin D /\ \A r \in D : s.blocks[r].parent \in D \union {ZeroHash}
  BY <1>1, <1>2, ParentsStored DEF IsTree, ZeroHash
<1>4. \A r \in D : s.blocks[r].parent # r
  BY <1>2 DEF IsTree
<1>5. g = (CHOOSE f : P(f))[(CHOOSE f : L(f))[JustificationLookback]]
  BY DEF getVoteTarget, Back
<1> HIDE DEF g, good
<1>6. \A f : P(f) <=> WalksTo(s.blocks, Good, f)
  <2> TAKE f
  <2>1. \A r \in D : r \in Good <=> good(r)
    OBVIOUS
  <2> DEFINE h == [r \in D \union {ZeroHash} |->
                     IF r = ZeroHash THEN ZeroHash
                     ELSE IF good(r) THEN r ELSE f[s.blocks[r].parent]]
             k == [r \in D \union {ZeroHash} |->
                     IF r = ZeroHash THEN ZeroHash
                     ELSE IF r \in Good THEN r ELSE f[s.blocks[r].parent]]
  <2>2. h = k
    <3> HIDE DEF Good
    <3> QED
      BY <1>3, <2>1
  <2> HIDE DEF Good
  <2>3. WalksTo(s.blocks, Good, f) <=> f = k
    BY DEF WalksTo
  <2> QED
    BY <2>2, <2>3
<1>7. \E f : P(f)
  <2>1. \E f : WalksTo(s.blocks, Good, f)
    <3> HIDE DEF Good
    <3> QED
      BY <1>3, <1>4, WalkExists
  <2> QED
    BY <1>6, <2>1
<1>8. PICK f : f = (CHOOSE h : P(h)) /\ P(f)
  BY <1>7
<1>9. \E h : L(h)
  <2> DEFINE h1 == Back(s, s.head)
             h2 == Back(s, h1)
             h3 == Back(s, h2)
             h == [i \in 0 .. 3 |-> IF i = 0 THEN s.head ELSE IF i = 1 THEN h1
                                    ELSE IF i = 2 THEN h2 ELSE h3]
  <2>1. h[0] = s.head /\ h[1] = h1 /\ h[2] = h2 /\ h[3] = h3
    OBVIOUS
  <2>2. h = [i \in 0 .. 3 |-> h[i]]
    OBVIOUS
  <2> HIDE DEF h
  <2>3. ASSUME NEW i \in 0 .. 3 PROVE h[i] = IF i = 0 THEN s.head ELSE Back(s, h[i - 1])
    <3>1. i = 0 \/ (i = 1 /\ i - 1 = 0) \/ (i = 2 /\ i - 1 = 1) \/ (i = 3 /\ i - 1 = 2)
      OBVIOUS
    <3> QED
      BY <2>1, <3>1
  <2>4. h = [i \in 0 .. 3 |-> IF i = 0 THEN s.head ELSE Back(s, h[i - 1])]
    BY <2>2, <2>3
  <2> QED
    BY <2>4 DEF JustificationLookback
<1>10. PICK l : l = (CHOOSE h : L(h)) /\ L(l)
  BY <1>9
<1>11. l[0] = s.head /\ l[1] = Back(s, l[0]) /\ l[2] = Back(s, l[1]) /\ l[3] = Back(s, l[2])
  <2>1. \A i \in 0 .. 3 : l[i] = IF i = 0 THEN s.head ELSE Back(s, l[i - 1])
    BY <1>10 DEF JustificationLookback
  <2> QED
    BY <2>1
<1> DEFINE K == {r \in D : /\ r \in Anc(s.blocks, s.head)
                           /\ \A q \in Anc(s.blocks, s.head) :
                                s.blocks[q].slot <= s.blocks[s.safeTarget].slot
                                  => q \in Anc(s.blocks, r)}
<1>12. s.head \in K
  BY <1>1, <1>2, AncIs
<1>13. ASSUME NEW r \in K PROVE Back(s, r) \in K
  <2>1. /\ Back(s, r) \in D /\ Back(s, r) \in Anc(s.blocks, r)
        /\ \A q \in Anc(s.blocks, r) :
             s.blocks[q].slot <= s.blocks[s.safeTarget].slot
               => q \in Anc(s.blocks, Back(s, r))
    BY BackInside
  <2>2. Anc(s.blocks, r) \subseteq Anc(s.blocks, s.head)
    BY <1>1, <1>2, AncTransitive
  <2> QED
    BY <2>1, <2>2
<1>14. l[3] \in K
  <2> HIDE DEF K
  <2> QED
    BY <1>11, <1>12, <1>13
<1>15. g = f[l[3]]
  BY <1>5, <1>8, <1>10 DEF JustificationLookback
<1>16. WalksTo(s.blocks, Good, f)
  BY <1>6, <1>8
<1> DEFINE r == l[3]
<1>17. r \in D /\ r \in K
  BY <1>14
<1>18. /\ f[r] # ZeroHash => f[r] \in Good /\ f[r] \in Anc(s.blocks, r)
       /\ \A q \in Anc(s.blocks, r) :
            q \in Good => f[r] # ZeroHash /\ s.blocks[f[r]].slot >= s.blocks[q].slot
  <2> HIDE DEF Good, r, K
  <2> QED
    BY <1>2, <1>3, <1>16, <1>17, WalkEnds
<1>19. f[r] = g /\ g # ZeroHash /\ g \in D
  BY <1>3, <1>15 DEF g
<1>20. Anc(s.blocks, r) \subseteq Anc(s.blocks, s.head)
  BY <1>1, <1>2, <1>17, AncTransitive
<1> HIDE DEF r
<1>21. g \in Anc(s.blocks, s.head) /\ good(g)
  BY <1>18, <1>19, <1>20
<1>22. ASSUME NEW q \in Anc(s.blocks, s.head),
              s.blocks[q].slot <= s.blocks[s.safeTarget].slot, good(q)
       PROVE  s.blocks[g].slot >= s.blocks[q].slot
  <2>1. q \in D
    BY <1>1, <1>2, AncIs
  <2>2. q \in Anc(s.blocks, r) /\ q \in Good
    BY <1>17, <1>22, <2>1
  <2> QED
    BY <1>18, <1>19, <2>2
<1> QED
  BY <1>21, <1>22 DEF g, good

(* What OwnVotesOnBranch says of a vote att that is signed in the store t. *)
OnOneBranch(t, att) ==
  /\ {att.source.root, att.target.root} \subseteq Anc(t.blocks, att.head.root)
  /\ IsJustifiableAfter(att.target.slot, t.latestFinalized.slot)
  /\ \/ validateAttestationData(t, att)
     \/ t.blocks[t.safeTarget].slot < t.latestJustified.slot
     \/ ~ IsJustifiableAfter(t.latestJustified.slot, t.latestFinalized.slot)

(* The vote that ProduceAttestation signs.                                 *)
LEMMA OwnVoteGood ==
  ASSUME NEW t, StoreInv(t), JustInv(t), HeadInv(t), NEW v, NEW slot \in Nat,
         slot <= CurrentSlot(t), getVoteTarget(t) \in DOMAIN t.blocks
  PROVE  OnOneBranch(t, OwnAttestation(t, v, slot, BlockCheckpoint(t, t.head)))
<1> DEFINE D == DOMAIN t.blocks
           g == getVoteTarget(t)
           j == t.latestJustified
           fin == t.latestFinalized.slot
           att == OwnAttestation(t, v, slot, BlockCheckpoint(t, t.head))
<1>1. TablesInv(t) /\ t.head \in D /\ t.safeTarget \in D /\ t.time \in Nat
  BY DEF StoreInv, HeadsInv, StoreType
<1>2. PICK n \in Nat : IsTree(t.blocks, n)
  BY <1>1 DEF TablesInv
<1>3. j.root \in D /\ t.blocks[j.root].slot = j.slot /\ j.root \in Anc(t.blocks, t.head)
  BY DEF StoreInv, HeadsInv, JustInv, CheckpointFits, HeadInv, HeadGood
<1>4. /\ g \in Anc(t.blocks, t.head) /\ IsJustifiableAfter(t.blocks[g].slot, fin)
      /\ \A q \in Anc(t.blocks, t.head) :
           /\ t.blocks[q].slot <= t.blocks[t.safeTarget].slot
           /\ IsJustifiableAfter(t.blocks[q].slot, fin)
           => t.blocks[g].slot >= t.blocks[q].slot
  BY VoteTargetIs
<1>5. /\ att.slot = slot /\ att.source = j
      /\ att.head.root = t.head
      /\ att.target.root = g /\ att.target.slot = t.blocks[g].slot
  BY DEF OwnAttestation, BlockCheckpoint, Checkpoint
<1>6. g \in D /\ \A q \in D : t.blocks[q].slot \in Nat
  BY <1>2 DEF IsTree
<1> HIDE DEF g, att
<1>7. ASSUME ~ (t.blocks[t.safeTarget].slot < j.slot), IsJustifiableAfter(j.slot, fin)
      PROVE  validateAttestationData(t, att)
  <2>1. t.blocks[j.root].slot <= t.blocks[t.safeTarget].slot
    BY <1>1, <1>3, <1>6, <1>7
  <2>2. j.slot <= t.blocks[g].slot
    BY <1>3, <1>4, <1>6, <1>7, <2>1
  <2>3. CurrentSlot(t) \in Nat
    BY <1>1 DEF CurrentSlot, IntervalsPerSlot
  <2>4. att.slot <= CurrentSlot(t) + 1
    BY <1>5, <2>3
  <2> QED
    BY <1>1, <1>3, <1>5, <1>6, <2>2, <2>4 DEF validateAttestationData
<1>8. OnOneBranch(t, att)
  BY <1>3, <1>4, <1>5, <1>7 DEF OnOneBranch
<1> QED
  BY <1>8 DEF att

(* OwnVotesOnBranch: whatever blocks and votes arrive between the duties   *)
(* of a slot, a vote this node signs names a source and a justifiable      *)
(* target on the branch of its head, and its own validation accepts the    *)
(* vote but for the two exceptions.                                        *)
THEOREM OwnVotesStayOnBranch ==
  ASSUME NoEmptyTargets
  PROVE  Spec => OwnVotesOnBranch
<1> DEFINE HInv == JustInv(store) /\ HeadInv(store)
           A == \A att \in signed' \ signed :
                  /\ {att.source.root, att.target.root} \subseteq Ancestors(att.head.root)'
                  /\ IsJustifiableAfter(att.target.slot, store'.latestFinalized.slot)
                  /\ \/ validateAttestationData(store, att)'
                     \/ store'.blocks[store'.safeTarget].slot < store'.latestJustified.slot
                     \/ ~ IsJustifiableAfter(store'.latestJustified.slot,
                                             store'.latestFinalized.slot)
<1>1. Init => HInv
  BY InitHead
<1>2. Inv /\ HInv /\ [Next]_vars => HInv'
  BY HeadKept
<1>3. Inv /\ HInv /\ [Next]_vars => A
  <2> SUFFICES ASSUME Inv, HInv, [Next]_vars, NEW att \in signed' \ signed
               PROVE  OnOneBranch(store', att)
    BY DEF OnOneBranch, Ancestors, Anc
  <2>1. PICK v \in Own : \E slot \in 0 .. CurrentSlot(store) : ProduceAttestation(v, slot)
    BY DEF Next, vars, Tick, ReceiveBlock, ReceiveVote, ProcessOwnVote, ReceiveAggregate,
           ProduceBlock, ProduceBlockFails, ProduceAttestationFails
  <2> PICK slot \in 0 .. CurrentSlot(store) : ProduceAttestation(v, slot)
    BY <2>1
  <2> DEFINE t == acceptNewAttestations(store)
  <2>2. /\ store' = t /\ getVoteTarget(t) \in DOMAIN t.blocks
        /\ att = OwnAttestation(t, v, slot, BlockCheckpoint(t, t.head))
    BY DEF ProduceAttestation
  <2>3. StoreInv(t) /\ JustInv(t) /\ HeadInv(t) /\ t.time = store.time
    BY AcceptInv, AcceptHeadGood DEF Inv, SameBlocks
  <2>4. slot \in Nat /\ slot <= CurrentSlot(t)
    BY <2>3 DEF CurrentSlot, IntervalsPerSlot, StoreInv, StoreType
  <2> HIDE DEF t
  <2> QED
    BY <2>2, <2>3, <2>4, OwnVoteGood
<1> HIDE DEF HInv, A
<1>4. Spec => [][A]_vars
  BY Invariance, <1>1, <1>2, <1>3, PTL DEF Spec
<1> QED
  BY <1>4, PTL DEF OwnVotesOnBranch, A

-----------------------------------------------------------------------------
(* The checkpoints of the store, which ProcessEnvelope takes one by one    *)
(* from the states of the blocks it receives.                              *)

(* The blocks that came through ProcessEnvelope.                           *)
Received(s) == DOMAIN s.blocks \ (OwnRoots \union {GenesisRoot})

GenesisCheckpoint == Checkpoint(GenesisRoot, 0)

(* The checkpoints are genesis or those of received blocks, and no         *)
(* received block has a later one.                                         *)
CheckpointsInv(s) ==
  /\ \/ s.latestJustified = GenesisCheckpoint
     \/ \E r \in Received(s) : s.latestJustified = s.states[r].latestJustified
  /\ \/ s.latestFinalized = GenesisCheckpoint
     \/ \E r \in Received(s) : s.latestFinalized = s.states[r].latestFinalized
  /\ \A r \in DOMAIN s.blocks \ OwnRoots :
       /\ s.states[r].latestJustified.slot <= s.latestJustified.slot
       /\ s.states[r].latestFinalized.slot <= s.latestFinalized.slot

(* The slots that are compared are numbers.                                *)
LEMMA CheckpointSlots ==
  ASSUME NEW s, StoreInv(s)
  PROVE  /\ s.latestJustified.slot \in Nat /\ s.latestFinalized.slot \in Nat
         /\ \A r \in DOMAIN s.blocks : /\ s.states[r].latestJustified.slot \in Nat
                                       /\ s.states[r].latestFinalized.slot \in Nat
<1>1. s \in StoreType /\ DOMAIN s.states = DOMAIN s.blocks
  BY DEF StoreInv, TablesInv
<1>2. s.latestJustified \in CheckpointType /\ s.latestFinalized \in CheckpointType
  BY <1>1 DEF StoreType
<1>3. \A r \in DOMAIN s.blocks : /\ s.states[r].latestJustified \in CheckpointType
                                 /\ s.states[r].latestFinalized \in CheckpointType
  BY <1>1, StoredTypes DEF StateType
<1> QED
  BY <1>2, <1>3 DEF CheckpointType

(* A store with the same tables and checkpoints.                           *)
LEMMA CheckpointsSame ==
  ASSUME NEW s, CheckpointsInv(s), NEW t, t.blocks = s.blocks, t.states = s.states,
         t.latestJustified = s.latestJustified, t.latestFinalized = s.latestFinalized
  PROVE  CheckpointsInv(t)
BY DEF CheckpointsInv, Received

(* An envelope: the store takes the later of its checkpoint and the new    *)
(* block's.                                                                *)
LEMMA EnvelopeCheckpoints ==
  ASSUME NEW s, StoreInv(s), CheckpointsInv(s), NEW e \in Envelopes,
         CanProcessEnvelope(s, e)
  PROVE  CheckpointsInv(ProcessEnvelope(s, e))
<1> DEFINE t == ProcessEnvelope(s, e)
           stored == Stored(s, e.root, e.block)
           post == stored.states[e.root]
<1>1. /\ StoreInv(t) /\ t.blocks = stored.blocks /\ t.states = stored.states
      /\ t.latestJustified = NewerCheckpoint(s.latestJustified, post.latestJustified)
      /\ t.latestFinalized = NewerCheckpoint(s.latestFinalized, post.latestFinalized)
  BY EnvelopeInv
<1>2. Storable(s, e.root, e.block)
  BY EnvelopeStorable
<1>3. /\ DOMAIN stored.blocks = DOMAIN s.blocks \union {e.root}
      /\ \A r \in DOMAIN s.states : stored.states[r] = s.states[r]
      /\ DOMAIN s.states = DOMAIN s.blocks
  BY <1>2, StoredFits DEF StoreInv, HasBlock, TablesInv
<1>4. e.root \notin OwnRoots \union {GenesisRoot}
  BY ForkChoiceAssumption
<1>5. s.latestJustified.slot \in Nat /\ s.latestFinalized.slot \in Nat
  BY CheckpointSlots
<1>6. \A r \in DOMAIN t.blocks : /\ t.states[r].latestJustified.slot \in Nat
                                 /\ t.states[r].latestFinalized.slot \in Nat
  BY <1>1, CheckpointSlots
<1> SUFFICES CheckpointsInv(t)
  OBVIOUS
<1> HIDE DEF t, stored
<1>7. e.root \in Received(t) /\ Received(s) \subseteq Received(t)
      /\ \A r \in Received(s) : t.states[r] = s.states[r]
  BY <1>1, <1>3, <1>4 DEF Received
<1>8. /\ t.latestJustified \in {s.latestJustified, post.latestJustified}
      /\ t.latestFinalized \in {s.latestFinalized, post.latestFinalized}
      /\ s.latestJustified.slot <= t.latestJustified.slot
      /\ s.latestFinalized.slot <= t.latestFinalized.slot
      /\ post.latestJustified.slot <= t.latestJustified.slot
      /\ post.latestFinalized.slot <= t.latestFinalized.slot
      /\ t.latestJustified.slot \in Nat /\ t.latestFinalized.slot \in Nat
  BY <1>1, <1>3, <1>5, <1>6 DEF NewerCheckpoint
<1>9. /\ \/ t.latestJustified = GenesisCheckpoint
         \/ \E r \in Received(t) : t.latestJustified = t.states[r].latestJustified
      /\ \/ t.latestFinalized = GenesisCheckpoint
         \/ \E r \in Received(t) : t.latestFinalized = t.states[r].latestFinalized
  BY <1>1, <1>7, <1>8 DEF CheckpointsInv
<1>10. ASSUME NEW r \in DOMAIN t.blocks \ OwnRoots
       PROVE  /\ t.states[r].latestJustified.slot <= t.latestJustified.slot
              /\ t.states[r].latestFinalized.slot <= t.latestFinalized.slot
  <2>1. CASE r = e.root
    BY <1>1, <1>8, <2>1
  <2>2. CASE r # e.root
    <3>1. r \in DOMAIN s.blocks \ OwnRoots /\ t.states[r] = s.states[r]
      BY <1>1, <1>3, <2>2
    <3>2. /\ s.states[r].latestJustified.slot <= s.latestJustified.slot
          /\ s.states[r].latestFinalized.slot <= s.latestFinalized.slot
      BY <3>1 DEF CheckpointsInv
    <3> QED
      BY <1>5, <1>6, <1>8, <3>1, <3>2
  <2> QED
    BY <2>1, <2>2
<1> QED
  BY <1>9, <1>10 DEF CheckpointsInv

(* A block of the node's own leaves the checkpoints alone.                 *)
LEMMA OwnCheckpoints ==
  ASSUME NEW s, StoreInv(s), CheckpointsInv(s), NEW root, NEW block,
         Storable(s, root, block), root \in DOMAIN s.blocks \union OwnRoots
  PROVE  CheckpointsInv(Stored(s, root, block))
<1> DEFINE t == Stored(s, root, block)
<1>1. /\ HasBlock(s, root, block, PostState(s, root, block), t)
      /\ \A r \in DOMAIN s.states : t.states[r] = s.states[r]
      /\ DOMAIN s.states = DOMAIN s.blocks
  BY StoredFits DEF StoreInv, TablesInv
<1> SUFFICES CheckpointsInv(t)
  OBVIOUS
<1> HIDE DEF t
<1>2. /\ t.latestJustified = s.latestJustified /\ t.latestFinalized = s.latestFinalized
      /\ DOMAIN t.blocks \ OwnRoots = DOMAIN s.blocks \ OwnRoots
      /\ \A r \in DOMAIN s.blocks : t.states[r] = s.states[r]
  BY <1>1 DEF HasBlock
<1>3. Received(t) = Received(s) /\ Received(s) \subseteq DOMAIN s.blocks
  BY <1>2 DEF Received
<1> QED
  BY <1>2, <1>3 DEF CheckpointsInv

(* The initial state.                                                      *)
LEMMA InitCheckpoints == Init => CheckpointsInv(store)
<1> SUFFICES ASSUME Init PROVE CheckpointsInv(store)
  OBVIOUS
<1>1. /\ store.latestJustified = GenesisCheckpoint
      /\ store.latestFinalized = GenesisCheckpoint
      /\ DOMAIN store.blocks = {GenesisRoot}
      /\ store.states[GenesisRoot] = GenesisState(GenesisRoot)
  BY DEF Init, NewStore, GenesisCheckpoint, Put, EmptyMap
<1>2. /\ GenesisCheckpoint.slot = 0
      /\ store.states[GenesisRoot].latestJustified.slot = 0
      /\ store.states[GenesisRoot].latestFinalized.slot = 0
  BY <1>1 DEF GenesisCheckpoint, Checkpoint, GenesisState
<1> QED
  BY <1>1, <1>2 DEF CheckpointsInv

(* Every step.                                                             *)
LEMMA CheckpointsKept ==
  ASSUME ForeignBlocks, Inv, CheckpointsInv(store), [Next]_vars
  PROVE  CheckpointsInv(store')
<1> DEFINE t == acceptNewAttestations(store)
<1>1. StoreInv(store)
  BY DEF Inv
<1>2. StoreInv(t) /\ CheckpointsInv(t) /\ t.blocks = store.blocks
  BY <1>1, AcceptInv, CheckpointsSame DEF SameBlocks
<1> HIDE DEF t
<1>3. ASSUME NEW hasProposal \in BOOLEAN, store' = tickInterval(store, hasProposal)
      PROVE  CheckpointsInv(store')
  <2> DEFINE u == tickInterval(store, hasProposal)
  <2>1. /\ u.latestJustified = store.latestJustified
        /\ u.latestFinalized = store.latestFinalized
        /\ u.blocks = store.blocks /\ u.states = store.states
    BY <1>1, TickInv
  <2> HIDE DEF u
  <2>2. CheckpointsInv(u)
    BY <2>1, CheckpointsSame
  <2> QED
    BY <1>3, <2>2 DEF u
<1>4. ASSUME NEW e \in Envelopes, CanProcessEnvelope(store, e),
             store' = ProcessEnvelope(store, e)
      PROVE  CheckpointsInv(store')
  BY <1>1, <1>4, EnvelopeCheckpoints
<1>5. ASSUME store' \in GossipStores(store)
      PROVE  CheckpointsInv(store')
  <2>1. SameButVotes(store, store')
    BY <1>5 DEF GossipStores, VoteStores
  <2> QED
    BY <2>1, CheckpointsSame DEF SameButVotes
<1>6. ASSUME NEW block, NEW root, Storable(t, root, block), store' = Stored(t, root, block),
             root \in DOMAIN store.blocks \union OwnRoots
      PROVE  CheckpointsInv(store')
  BY <1>2, <1>6, OwnCheckpoints
<1> QED
  BY <1>2, <1>3, <1>4, <1>5, <1>6, StepCases DEF t

(* CheckpointsNewest: whichever blocks of whichever branches arrive in     *)
(* whichever order, ProcessEnvelope leaves the store with the latest       *)
(* justified and the latest finalized checkpoint of the blocks it received.*)
THEOREM CheckpointsAreNewest ==
  ASSUME ForeignBlocks
  PROVE  Spec => []CheckpointsNewest
<1> DEFINE CInv == CheckpointsInv(store)
<1>1. Init => CInv
  BY InitCheckpoints
<1>2. Inv /\ CInv /\ [Next]_vars => CInv'
  BY CheckpointsKept
<1>3. CInv => CheckpointsNewest
  BY DEF CheckpointsInv, CheckpointsNewest, Received, GenesisCheckpoint
<1> HIDE DEF CInv
<1> QED
  BY Invariance, <1>1, <1>2, <1>3, PTL DEF Spec

-----------------------------------------------------------------------------
(* The tree of blocks, its head and its checkpoints.                       *)

(* The tree of the refinement mapping.                                     *)
Parents(s) ==
  [r \in DOMAIN s.blocks |-> IF r = GenesisRoot THEN r ELSE s.blocks[r].parent]

(* A branch of that tree is a block's ancestors.                           *)
LEMMA BranchIs ==
  ASSUME NEW s, StoreInv(s), NEW r \in DOMAIN s.blocks
  PROVE  Tree!Branch(Parents(s), r) = Anc(s.blocks, r)
<1> DEFINE D == DOMAIN s.blocks
           tree == Parents(s)
           P(f) == f = [c \in DOMAIN tree |->
                          IF c = GenesisRoot THEN {c} ELSE {c} \union f[tree[c]]]
           up == CHOOSE f : P(f)
           anc == [c \in D |-> Anc(s.blocks, c)]
<1>1. s \in StoreType /\ TablesInv(s)
  BY DEF StoreInv
<1>2. PICK n \in Nat : IsTree(s.blocks, n)
  BY <1>1 DEF TablesInv
<1>3. ZeroHash \notin D
  BY <1>2 DEF IsTree, ZeroHash
<1>4. DOMAIN tree = D /\ \A c \in D : tree[c] = IF c = GenesisRoot THEN c ELSE s.blocks[c].parent
  BY DEF Parents
<1>5. \A c \in D : Anc(s.blocks, c) = IF c = GenesisRoot THEN {c}
                                      ELSE {c} \union Anc(s.blocks, s.blocks[c].parent)
  <2> TAKE c \in D
  <2>1. Anc(s.blocks, c) = {c} \union (IF s.blocks[c].parent \in D
                                       THEN Anc(s.blocks, s.blocks[c].parent) ELSE {})
    BY <1>2, AncIs
  <2>2. /\ c # GenesisRoot => s.blocks[c].parent \in D
        /\ c = GenesisRoot => s.blocks[c].parent = ZeroHash
    BY <1>1, ParentsStored
  <2> QED
    BY <1>3, <2>1, <2>2
<1>6. \A c \in D : c # GenesisRoot => s.blocks[c].parent \in D
  BY <1>1, ParentsStored
<1> HIDE DEF tree
<1>7. P(anc)
  <2> DEFINE e(c) == IF c = GenesisRoot THEN {c} ELSE {c} \union anc[tree[c]]
  <2>1. ASSUME NEW c \in D PROVE Anc(s.blocks, c) = e(c)
    <3>1. CASE c = GenesisRoot
      BY <1>5, <3>1
    <3>2. CASE c # GenesisRoot
      <4>1. anc[tree[c]] = Anc(s.blocks, s.blocks[c].parent)
        BY <1>4, <1>6, <3>2
      <4> HIDE DEF anc
      <4> QED
        BY <1>5, <3>2, <4>1
    <3> QED
      BY <3>1, <3>2
  <2> HIDE DEF e
  <2>2. anc = [c \in D |-> e(c)]
    BY <2>1
  <2> QED
    BY <1>4, <2>2 DEF e
<1>8. P(up)
  <2> HIDE DEF anc, P
  <2> QED
    BY <1>7
<1> HIDE DEF up
<1>9. \A c \in D : up[c] = IF c = GenesisRoot THEN {c} ELSE {c} \union up[tree[c]]
  BY <1>4, <1>8
<1> HIDE DEF P
<1> DEFINE S == {c \in D : up[c] = Anc(s.blocks, c)}
<1>10. ASSUME NEW q \in D, s.blocks[q].parent \in D => s.blocks[q].parent \in S
      PROVE  q \in S
  <2>1. CASE q = GenesisRoot
    BY <1>5, <1>9, <2>1
  <2>2. CASE q # GenesisRoot
    <3>1. tree[q] = s.blocks[q].parent /\ s.blocks[q].parent \in S
      BY <1>4, <1>6, <1>10, <2>2
    <3>2. Anc(s.blocks, q) = {q} \union Anc(s.blocks, s.blocks[q].parent)
      BY <1>5, <2>2
    <3>3. up[q] = {q} \union up[tree[q]]
      BY <1>9, <2>2
    <3>4. up[q] = Anc(s.blocks, q)
      BY <3>1, <3>2, <3>3
    <3> QED
      BY <3>4
  <2> QED
    BY <2>1, <2>2
<1>11. D \subseteq S
  <2> HIDE DEF S
  <2> QED
    BY <1>2, <1>10, UpwardInduction
<1>12. up[r] = Anc(s.blocks, r)
  BY <1>11
<1> QED
  BY <1>12 DEF Tree!Branch, up, P, tree

(* A step leaves the block table alone or adds one child of a stored block.*)
LEMMA BlocksGrow ==
  ASSUME Inv, [Next]_vars
  PROVE  \/ store'.blocks = store.blocks
         \/ \E b \in DOMAIN store'.blocks :
              /\ DOMAIN store'.blocks = DOMAIN store.blocks \union {b}
              /\ b # GenesisRoot
              /\ store'.blocks[b].parent \in DOMAIN store.blocks
<1> DEFINE t == acceptNewAttestations(store)
           Added(more) ==
             \E b \in DOMAIN more : /\ DOMAIN more = DOMAIN store.blocks \union {b}
                                    /\ b # GenesisRoot
                                    /\ more[b].parent \in DOMAIN store.blocks
<1>1. StoreInv(store)
  BY DEF Inv
<1>2. StoreInv(t) /\ t.blocks = store.blocks
  BY <1>1, AcceptInv DEF SameBlocks
<1> HIDE DEF t
<1>3. ASSUME NEW s, StoreInv(s), s.blocks = store.blocks, NEW root, NEW block,
             Storable(s, root, block)
      PROVE  Added(Stored(s, root, block).blocks)
  <2> DEFINE u == Stored(s, root, block)
  <2>1. HasBlock(s, root, block, PostState(s, root, block), u)
    BY <1>3, StoredFits DEF StoreInv
  <2> HIDE DEF u
  <2>2. /\ DOMAIN u.blocks = DOMAIN store.blocks \union {root}
        /\ u.blocks[root] = block
    BY <1>3, <2>1 DEF HasBlock
  <2>3. root # GenesisRoot /\ block.parent \in DOMAIN store.blocks
    BY <1>3 DEF Storable
  <2>4. Added(u.blocks)
    BY <2>2, <2>3
  <2> QED
    BY <2>4 DEF u
<1>4. ASSUME NEW hasProposal \in BOOLEAN, store' = tickInterval(store, hasProposal)
      PROVE  store'.blocks = store.blocks
  BY <1>1, <1>4, TickInv
<1>5. ASSUME NEW e \in Envelopes, CanProcessEnvelope(store, e),
             store' = ProcessEnvelope(store, e)
      PROVE  Added(store'.blocks)
  <2>1. Storable(store, e.root, e.block)
    BY <1>1, <1>5, EnvelopeStorable
  <2>2. store'.blocks = Stored(store, e.root, e.block).blocks
    BY <1>1, <1>5, EnvelopeInv
  <2> HIDE DEF Added
  <2> QED
    BY <1>1, <1>3, <2>1, <2>2
<1>6. ASSUME store' \in GossipStores(store)
      PROVE  store'.blocks = store.blocks
  BY <1>6 DEF GossipStores, VoteStores, SameButVotes
<1>7. ASSUME NEW block, NEW root, Storable(t, root, block), store' = Stored(t, root, block)
      PROVE  Added(store'.blocks)
  <2> HIDE DEF Added
  <2> QED
    BY <1>2, <1>3, <1>7
<1>8. store'.blocks = store.blocks \/ Added(store'.blocks)
  <2> HIDE DEF Added
  <2> QED
    BY <1>2, <1>4, <1>5, <1>6, <1>7, StepCases DEF t
<1> QED
  BY <1>8

(* A checkpoint of the store that stays or moves on is, in the tree, a     *)
(* block that stays or is replaced by a later one.                         *)
LEMMA MovesLater ==
  ASSUME NEW t, StoreInv(t), NEW old, NEW new,
         CheckpointFits(t, old), CheckpointFits(t, new),
         old.root # ZeroHash, new.root # ZeroHash,
         new = old \/ new.slot > old.slot
  PROVE  \/ new.root = old.root
         \/ /\ new.root \in DOMAIN t.blocks
            /\ t.blocks[new.root].slot > t.blocks[old.root].slot
BY DEF CheckpointFits

(* ImplementsBlockTree: whatever blocks and votes arrive, the store is a   *)
(* tree of blocks that grows by one later child at a time, its justified   *)
(* and its finalized checkpoint are blocks of that tree that only move to  *)
(* later ones, and its head is on the branch of the justified one.         *)
THEOREM StoreImplementsBlockTree ==
  ASSUME NoEmptyTargets
  PROVE  Spec => ImplementsBlockTree
<1> DEFINE HInv == JustInv(store) /\ HeadInv(store)
<1>1. Init => HInv
  BY InitHead
<1>2. Inv /\ HInv /\ [Next]_vars => HInv'
  BY HeadKept
<1>3. Init => Tree!Init
  <2> SUFFICES ASSUME Init PROVE Tree!Init
    OBVIOUS
  <2>1. /\ store.head = GenesisRoot
        /\ store.latestJustified = GenesisCheckpoint
        /\ store.latestFinalized = GenesisCheckpoint
        /\ DOMAIN store.blocks = {GenesisRoot}
        /\ store.blocks[GenesisRoot] = GenesisBlock
    BY DEF Init, NewStore, GenesisCheckpoint, Put, EmptyMap
  <2>2. GenesisBlock.slot = 0
    BY DEF GenesisBlock
  <2> QED
    BY <2>1, <2>2 DEF Tree!Init, GenesisCheckpoint, Checkpoint
<1>4. Inv /\ Inv' /\ HInv /\ HInv' /\ [Next]_vars => Tree!Next
  <2> SUFFICES ASSUME Inv, Inv', HInv, HInv', [Next]_vars
               PROVE  Tree!Next
    OBVIOUS
  <2>1. GrownFrom(store, store')
    BY NextKept DEF Kept
  <2>2. StoreInv(store) /\ StoreInv(store')
    BY DEF Inv
  <2>3. PICK n \in Nat : IsTree(store'.blocks, n)
    BY <2>2 DEF StoreInv, TablesInv
  <2>4. \A r \in DOMAIN store.blocks : /\ r \in DOMAIN store'.blocks
                                       /\ store'.blocks[r] = store.blocks[r]
    BY <2>1 DEF GrownFrom, Grows
  <2>5. Tree!Grow
    <3>1. CASE store'.blocks = store.blocks
      BY <3>1 DEF Tree!Grow
    <3>2. ASSUME NEW b \in DOMAIN store'.blocks,
                 DOMAIN store'.blocks = DOMAIN store.blocks \union {b},
                 b # GenesisRoot, store'.blocks[b].parent \in DOMAIN store.blocks
          PROVE  Tree!Grow
      <4>1. store'.blocks[b].slot > store.blocks[store'.blocks[b].parent].slot
        BY <2>3, <2>4, <3>2 DEF IsTree
      <4> QED
        BY <2>4, <3>2, <4>1 DEF Tree!Grow, Tree!Blocks
    <3> QED
      BY <3>1, <3>2, BlocksGrow
  <2>6. /\ CheckpointFits(store', store.latestJustified)
        /\ CheckpointFits(store', store.latestFinalized)
        /\ CheckpointFits(store', store'.latestJustified)
        /\ CheckpointFits(store', store'.latestFinalized)
    BY <2>2, <2>4 DEF StoreInv, HeadsInv, CheckpointFits
  <2>7. /\ store.latestJustified.root # ZeroHash /\ store'.latestJustified.root # ZeroHash
        /\ store.latestFinalized.root # ZeroHash /\ store'.latestFinalized.root # ZeroHash
    BY DEF JustInv
  <2>8. Tree!Later(store.latestJustified.root, store'.latestJustified.root)
    <3> DEFINE old == store.latestJustified
               new == store'.latestJustified
    <3>1. new = old \/ new.slot > old.slot
      BY <2>1 DEF GrownFrom
    <3>2. \/ new.root = old.root
          \/ /\ new.root \in DOMAIN store'.blocks
             /\ store'.blocks[new.root].slot > store'.blocks[old.root].slot
      BY <2>2, <2>6, <2>7, <3>1, MovesLater
    <3>3. old.root \in DOMAIN store'.blocks
      BY <2>6, <2>7 DEF CheckpointFits
    <3> QED
      BY <3>2, <3>3 DEF Tree!Later
  <2>9. Tree!Later(store.latestFinalized.root, store'.latestFinalized.root)
    <3> DEFINE old == store.latestFinalized
               new == store'.latestFinalized
    <3>1. new = old \/ new.slot > old.slot
      BY <2>1 DEF GrownFrom
    <3>2. \/ new.root = old.root
          \/ /\ new.root \in DOMAIN store'.blocks
             /\ store'.blocks[new.root].slot > store'.blocks[old.root].slot
      BY <2>2, <2>6, <2>7, <3>1, MovesLater
    <3>3. old.root \in DOMAIN store'.blocks
      BY <2>6, <2>7 DEF CheckpointFits
    <3> QED
      BY <3>2, <3>3 DEF Tree!Later
  <2>10. Tree!Choose
    <3> DEFINE j == store'.latestJustified.root
    <3>1. store'.head \in DOMAIN store'.blocks /\ j \in Anc(store'.blocks, store'.head)
      BY <2>2 DEF StoreInv, HeadsInv, HeadInv, HeadGood
    <3>2. j \in Tree!Branch(Parents(store'), store'.head)
      BY <2>2, <3>1, BranchIs
    <3> QED
      BY <2>8, <2>9, <3>1, <3>2 DEF Tree!Choose, Parents
  <2> QED
    BY <2>5, <2>10 DEF Tree!Next
<1> HIDE DEF HInv
<1> QED
  BY Invariance, <1>1, <1>2, <1>3, <1>4, PTL DEF Spec, ImplementsBlockTree, Tree!Spec
=============================================================================
