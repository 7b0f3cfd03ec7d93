----------------------------- MODULE SyncProofs -----------------------------
(***************************************************************************)
(* The store has no holes, for any peers, side branch, depth of the walk,  *)
(* losses, failures and restarts.                                          *)
(***************************************************************************)
EXTENDS Sync, TLAPS

(* The inductive invariant: besides the types, no peer is ahead of the     *)
(* clock and every block in the store has its parent there.                *)
SyncInv ==
  /\ TypeOK
  /\ \A p \in Peers : peerHead[p] <= slot
  /\ HistoryComplete

(* The head is a block of the store.                                       *)
LEMMA HeadsInside ==
  ASSUME NEW blocks, NEW v, NEW b \in HeadsOf(blocks, v)
  PROVE  b \in blocks
BY DEF HeadsOf

(* The slot of a block of the store.                                       *)
LEMMA SlotInside ==
  ASSUME NEW s \in Nat, NEW b \in - s .. s
  PROVE  SlotOf(b) \in 0 .. s
BY DEF SlotOf

(* A walk without its oldest block.                                        *)
LEMMA FrontOfSeq ==
  ASSUME NEW S, NEW s \in Seq(S), s # << >>
  PROVE  Front(s) \in Seq(S) /\ Len(Front(s)) = Len(s) - 1
<1> DEFINE n == Len(s) - 1
<1>1. n \in 0 .. Len(s) /\ Front(s) = SubSeq(s, 1, n)
  BY DEF Front
<1> HIDE DEF n
<1>2. SubSeq(s, 1, n) \in Seq(S)
  BY <1>1
<1>3. Len(SubSeq(s, 1, n)) = n
  BY <1>1
<1> QED
  BY <1>1, <1>2, <1>3 DEF n

(* ProcessBlock adds a block whose parent is there or nothing.             *)
LEMMA ProcessedComplete ==
  ASSUME TypeOK, HistoryComplete, NEW k \in - slot .. slot, have' = Processed(have, k),
         head' \in HeadsOf(have', settled)
  PROVE  /\ have' \subseteq - slot .. slot /\ head' \in have'
         /\ 0 \in have' /\ \A b \in have' \ {0} : ParentOf(b) \in have'
<1>1. head' \in have'
  BY HeadsInside
<1>2. have' = have \/ (have' = have \union {k} /\ (k \in have \/ ParentOf(k) \in have))
  BY DEF Processed, Accepts
<1>3. /\ have \subseteq - slot .. slot /\ 0 \in have
      /\ \A b \in have \ {0} : ParentOf(b) \in have
  BY DEF TypeOK, HistoryComplete
<1>4. CASE have' = have
  BY <1>1, <1>3, <1>4, Zenon
<1>5. CASE have' = have \union {k} /\ (k \in have \/ ParentOf(k) \in have)
  <2>1. have' \subseteq - slot .. slot /\ 0 \in have'
    BY <1>3, <1>5, Zenon
  <2>2. ASSUME NEW b \in have' \ {0} PROVE ParentOf(b) \in have'
    <3>1. b = k \/ b \in have
      BY <1>5, Zenon
    <3> QED
      BY <1>3, <1>5, <3>1, Zenon
  <2> QED
    BY <1>1, <2>1, <2>2, Zenon
<1> QED
  BY <1>2, <1>4, <1>5, Zenon

-----------------------------------------------------------------------------
(* The store after NewStore is genesis.                                    *)
LEMMA SyncInit == Init => SyncInv
<1> SUFFICES ASSUME Init PROVE SyncInv
  OBVIOUS
<1>1. {MaxSyncDepth, MaxSlot, MaxSide, MaxFailures, MaxRestarts} \subseteq Nat
  BY SyncAssumption
<1>2. have = {0} /\ head = 0 /\ slot = 0 /\ 0 \in 0 .. slot
  BY DEF Init
<1>3. TypeOK
  <2>1. pending \in Seq(1 .. slot) /\ Len(pending) <= MaxSyncDepth
    BY <1>1 DEF Init
  <2>2. {initial, synced, settled} \subseteq BOOLEAN /\ todo \subseteq Peers
    BY Zenon DEF Init
  <2>3. peerHead \in [Peers -> 0 .. MaxSlot] /\ pc = "peers"
    BY <1>1 DEF Init
  <2>4. tickSlot = 0 /\ headSlot = 0 /\ next = 0 /\ failures = 0 /\ restarts = 0
    BY DEF Init
  <2> QED
    BY <1>1, <1>2, <2>1, <2>2, <2>3, <2>4 DEF TypeOK
<1> QED
  BY <1>2, <1>3 DEF Init, SyncInv, HistoryComplete

(* A later clock leaves room for more.                                     *)
LEMMA ClockTickInv ==
  ASSUME SyncInv, ClockTick
  PROVE  SyncInv'
<1>1. TypeOK /\ (\A p \in Peers : peerHead[p] <= slot) /\ HistoryComplete
  BY DEF SyncInv
<1>3. /\ slot \in Nat /\ slot < MaxSlot /\ slot' = slot + 1 /\ MaxSlot \in Nat
      /\ UNCHANGED <<peerHead, restarts, have, head, settled, pc, initial, tickSlot, headSlot, todo, next,
                     pending, synced, failures>>
  BY <1>1, SyncAssumption DEF TypeOK, ClockTick, iteration, walk, forkChoice
<1>4. pending' \in Seq(1 .. slot') /\ Len(pending') <= MaxSyncDepth
  <2>1. 1 .. slot \subseteq 1 .. slot'
    BY <1>3
  <2> QED
    BY <1>1, <1>3, <2>1 DEF TypeOK
<1>5. TypeOK'
  BY <1>1, <1>3, <1>4 DEF TypeOK
<1> QED
  BY <1>1, <1>3, <1>5 DEF SyncInv, HistoryComplete, TypeOK

(* A peer is never ahead of the clock.                                     *)
LEMMA PeerAdvancesInv ==
  ASSUME SyncInv, NEW p \in Peers, PeerAdvances(p)
  PROVE  SyncInv'
<1>1. TypeOK /\ (\A q \in Peers : peerHead[q] <= slot) /\ HistoryComplete
  BY DEF SyncInv
<1>3. /\ peerHead[p] < slot /\ peerHead' = [peerHead EXCEPT ![p] = @ + 1]
      /\ UNCHANGED <<slot, restarts, have, head, settled, pc, initial, tickSlot, headSlot, todo, next,
                     pending, synced, failures>>
  BY DEF PeerAdvances, iteration, walk, forkChoice
<1>4. /\ peerHead' \in [Peers -> 0 .. MaxSlot]
      /\ \A q \in Peers : peerHead'[q] <= slot
  BY <1>1, <1>3, SyncAssumption DEF TypeOK
<1>5. TypeOK'
  BY <1>1, <1>3, <1>4 DEF TypeOK
<1> QED
  BY <1>1, <1>3, <1>4, <1>5 DEF SyncInv, HistoryComplete

(* A block from gossip is added to its parent or dropped.                  *)
LEMMA GossipInv ==
  ASSUME SyncInv, NEW k \in - slot .. slot, Gossip(k)
  PROVE  SyncInv'
<1>1. TypeOK /\ (\A p \in Peers : peerHead[p] <= slot) /\ HistoryComplete
  BY DEF SyncInv
<1>2. /\ have' = Processed(have, k) /\ head' \in HeadsOf(have', settled)
      /\ UNCHANGED <<settled, slot, peerHead, restarts, pc, initial, tickSlot, headSlot,
                     todo, next, pending, synced, failures>>
  BY DEF Gossip, world, iteration, walk
<1>3. /\ have' \subseteq - slot .. slot /\ head' \in have'
      /\ 0 \in have' /\ \A b \in have' \ {0} : ParentOf(b) \in have'
  BY <1>1, <1>2, ProcessedComplete
<1>4. TypeOK'
  BY <1>1, <1>2, <1>3 DEF TypeOK
<1> QED
  BY <1>1, <1>2, <1>3, <1>4 DEF SyncInv, HistoryComplete

(* Votes move the head inside the store.                                   *)
LEMMA VotesInv ==
  ASSUME SyncInv, Votes
  PROVE  SyncInv'
<1>1. TypeOK /\ (\A p \in Peers : peerHead[p] <= slot) /\ HistoryComplete
  BY DEF SyncInv
<1>2. UNCHANGED <<have, slot, peerHead, restarts, pc, initial, tickSlot, headSlot,
                  todo, next, pending, synced, failures>>
  BY DEF Votes, world, iteration, walk
<1>3. head' \in have'
  BY <1>2, HeadsInside DEF Votes
<1>4. {initial', synced', settled'} \subseteq BOOLEAN
  <2>1. settled' \in BOOLEAN
    BY DEF Votes
  <2>2. initial' \in BOOLEAN /\ synced' \in BOOLEAN
    BY <1>1, <1>2 DEF TypeOK
  <2> QED
    BY <2>1, <2>2
<1>5. TypeOK'
  BY <1>1, <1>2, <1>3, <1>4 DEF TypeOK
<1> QED
  BY <1>1, <1>2, <1>5 DEF SyncInv, HistoryComplete

(* A restart empties the store and forgets the walk.                       *)
LEMMA RestartInv ==
  ASSUME SyncInv, Restart
  PROVE  SyncInv'
<1>1. TypeOK /\ (\A p \in Peers : peerHead[p] <= slot) /\ HistoryComplete
  BY DEF SyncInv
<1>3. /\ UNCHANGED <<slot, peerHead, failures>>
      /\ restarts < MaxRestarts /\ restarts' = restarts + 1
      /\ pc' = "peers" /\ todo' = Peers /\ have' = {0} /\ head' = 0 /\ tickSlot' = 0 /\ headSlot' = 0
      /\ next' = 0 /\ pending' = << >>
  BY DEF Restart, Start
<1>4. {initial', synced', settled'} \subseteq BOOLEAN
  BY Zenon DEF Restart, Start
<1>5. have' \subseteq - slot .. slot /\ 0 \in 0 .. slot /\ slot \in Nat
  BY <1>1, <1>3 DEF TypeOK
<1>6. /\ restarts' \in 0 .. MaxRestarts
      /\ pending' \in Seq(1 .. slot) /\ Len(pending') <= MaxSyncDepth
  BY <1>1, <1>3, SyncAssumption DEF TypeOK
<1>7. TypeOK'
  BY <1>1, <1>3, <1>4, <1>5, <1>6 DEF TypeOK
<1> QED
  BY <1>1, <1>3, <1>5, <1>7 DEF SyncInv, HistoryComplete

-----------------------------------------------------------------------------
(* The main loop.                                                          *)

(* A tick reads the clock and the head.                                    *)
LEMMA TickInv ==
  ASSUME SyncInv, Tick
  PROVE  SyncInv'
<1>1. TypeOK /\ (\A p \in Peers : peerHead[p] <= slot) /\ HistoryComplete
  BY DEF SyncInv
<1>3. /\ tickSlot' = slot /\ headSlot' = SlotOf(head) /\ todo' \in {Peers, todo}
      /\ pc' \in {"peers", "duty"}
      /\ UNCHANGED <<slot, peerHead, restarts, have, head, settled, initial, next, pending, synced, failures>>
  BY DEF Tick, HeadSlot, world, walk, forkChoice
<1>4. slot \in Nat /\ headSlot' \in 0 .. slot
  BY <1>1, <1>3, SlotInside DEF TypeOK
<1>5. TypeOK'
  BY <1>1, <1>3, <1>4 DEF TypeOK
<1> QED
  BY <1>1, <1>3, <1>4, <1>5 DEF SyncInv, HistoryComplete

(* A walk starts at a head that a peer has.                                *)
LEMMA AskStatusInv ==
  ASSUME SyncInv, NEW p \in Peers, AskStatus(p)
  PROVE  SyncInv'
<1>1. TypeOK /\ (\A q \in Peers : peerHead[q] <= slot) /\ HistoryComplete
  BY DEF SyncInv
<1>3. /\ todo' = todo \ {p} /\ pc' \in {pc, "walk"}
      /\ \/ next' = next /\ pending' = pending
         \/ next' = peerHead[p] /\ pending' = << >>
      /\ UNCHANGED <<slot, peerHead, restarts, have, head, settled, initial, tickSlot, headSlot, failures>>
  BY DEF AskStatus, world, iteration, walk, forkChoice
<1>4. {initial', synced', settled'} \subseteq BOOLEAN
  BY <1>1, Zenon DEF TypeOK, AskStatus, iteration, walk, forkChoice
<1>5. slot \in Nat /\ peerHead[p] \in 0 .. slot /\ MaxSyncDepth \in Nat
  BY <1>1, SyncAssumption DEF TypeOK
<1>6. pending' \in Seq(1 .. slot) /\ Len(pending') <= MaxSyncDepth
  <2>1. CASE pending' = pending
    BY <1>1, <2>1 DEF TypeOK
  <2>2. CASE pending' = << >>
    BY <1>5, <2>2
  <2> QED
    BY <1>3, <2>1, <2>2
<1>7. TypeOK'
  BY <1>1, <1>3, <1>4, <1>5, <1>6 DEF TypeOK
<1> QED
  BY <1>1, <1>3, <1>7 DEF SyncInv, HistoryComplete

(* Failures are counted, what the loop has stays.                          *)
LEMMA FailuresInv ==
  ASSUME SyncInv, (\E p \in Peers : StatusFails(p)) \/ FetchFails
  PROVE  SyncInv'
<1>1. TypeOK /\ (\A p \in Peers : peerHead[p] <= slot) /\ HistoryComplete
  BY DEF SyncInv
<1>3. /\ todo' \subseteq todo /\ pc' \in {pc, "apply"}
      /\ failures < MaxFailures /\ failures' = failures + 1
      /\ UNCHANGED <<slot, peerHead, restarts, have, head, settled, initial, tickSlot, headSlot, next,
                     pending, synced>>
  BY DEF StatusFails, FetchFails, world, iteration, walk, forkChoice
<1>4. failures' \in 0 .. MaxFailures
  BY <1>1, <1>3, SyncAssumption DEF TypeOK
<1>5. TypeOK'
  BY <1>1, <1>3, <1>4 DEF TypeOK
<1> QED
  BY <1>1, <1>3, <1>5 DEF SyncInv, HistoryComplete

(* Going on with the duties changes only the place in the loop.            *)
LEMMA LoopMovesInv ==
  ASSUME SyncInv, NoPeerLeft \/ WalkEnds \/ Duties
  PROVE  SyncInv'
<1>1. TypeOK /\ (\A p \in Peers : peerHead[p] <= slot) /\ HistoryComplete
  BY DEF SyncInv
<1>3. /\ pc' \in {"idle", "duty", "apply"}
      /\ tickSlot' \in {tickSlot, 0} /\ headSlot' \in {headSlot, 0}
      /\ UNCHANGED <<slot, peerHead, restarts, have, head, settled, todo, next,
                     pending, synced, failures>>
  BY DEF NoPeerLeft, WalkEnds, Duties, world, iteration, walk, forkChoice
<1>4. {initial', synced', settled'} \subseteq BOOLEAN
  BY <1>1, Zenon DEF TypeOK, NoPeerLeft, WalkEnds, Duties, iteration, walk, forkChoice
<1>5. TypeOK'
  BY <1>1, <1>3, <1>4 DEF TypeOK
<1> QED
  BY <1>1, <1>3, <1>5 DEF SyncInv, HistoryComplete

(* The walk never asks for a parent of genesis: genesis is there.          *)
LEMMA FetchInv ==
  ASSUME SyncInv, Fetch
  PROVE  SyncInv'
<1>1. TypeOK /\ (\A p \in Peers : peerHead[p] <= slot) /\ HistoryComplete
  BY DEF SyncInv
<1>3. /\ next \notin have /\ Len(pending) < MaxSyncDepth
      /\ pending' = Append(pending, next) /\ next' = next - 1
      /\ UNCHANGED <<slot, peerHead, restarts, have, head, settled, pc, initial, tickSlot, headSlot, todo,
                     synced, failures>>
  BY DEF Fetch, WalkGoesOn, world, iteration, forkChoice
<1>4. slot \in Nat /\ next \in 1 .. slot /\ MaxSyncDepth \in Nat
  BY <1>1, <1>3, SyncAssumption DEF TypeOK, HistoryComplete
<1>5. pending' \in Seq(1 .. slot) /\ Len(pending') <= MaxSyncDepth
  BY <1>1, <1>3, <1>4 DEF TypeOK
<1>6. TypeOK'
  BY <1>1, <1>3, <1>4, <1>5 DEF TypeOK
<1> QED
  BY <1>1, <1>3, <1>6 DEF SyncInv, HistoryComplete

(* What a walk fetched is processed like gossip, oldest first.             *)
LEMMA ApplyInv ==
  ASSUME SyncInv, Apply
  PROVE  SyncInv'
<1>1. TypeOK /\ (\A p \in Peers : peerHead[p] <= slot) /\ HistoryComplete
  BY DEF SyncInv, HistoryComplete
<1> DEFINE k == Last(pending)
<1>3. /\ pending # << >> /\ have' = Processed(have, k) /\ pending' = Front(pending)
      /\ head' \in HeadsOf(have', settled)
      /\ UNCHANGED <<settled, slot, peerHead, restarts, pc, initial, tickSlot, headSlot, todo,
                     next, failures>>
  BY DEF Apply, OldestFirst, world, iteration
<1>4. slot \in Nat /\ k \in 1 .. slot
  BY <1>1, <1>3 DEF TypeOK, Last
<1>5. pending' \in Seq(1 .. slot) /\ Len(pending') <= MaxSyncDepth
  <2>1. pending \in Seq(1 .. slot) /\ Len(pending) <= MaxSyncDepth
    BY <1>1 DEF TypeOK
  <2>2. Front(pending) \in Seq(1 .. slot) /\ Len(Front(pending)) = Len(pending) - 1
    BY <1>3, <2>1, FrontOfSeq
  <2>3. Len(pending) \in Nat /\ MaxSyncDepth \in Nat
    BY <2>1, SyncAssumption
  <2> QED
    BY <1>3, <2>1, <2>2, <2>3
<1>6. {initial', synced', settled'} \subseteq BOOLEAN
  <2>1. synced' \in BOOLEAN
    BY DEF Apply, OldestFirst
  <2>2. initial' \in BOOLEAN /\ settled' \in BOOLEAN
    BY <1>1, <1>3 DEF TypeOK
  <2> QED
    BY <2>1, <2>2
<1>7. /\ have' \subseteq - slot .. slot /\ head' \in have'
      /\ 0 \in have' /\ \A b \in have' \ {0} : ParentOf(b) \in have'
  <2>1. k \in - slot .. slot
    BY <1>4
  <2> QED
    BY <1>1, <1>3, <2>1, ProcessedComplete
<1>8. TypeOK'
  BY <1>1, <1>3, <1>4, <1>5, <1>6, <1>7 DEF TypeOK
<1> QED
  BY <1>1, <1>3, <1>7, <1>8 DEF SyncInv, HistoryComplete

(* The status is refreshed or stays as old as it was.                      *)
LEMMA WalkReturnsInv ==
  ASSUME SyncInv, WalkReturns
  PROVE  SyncInv'
<1>1. TypeOK /\ (\A p \in Peers : peerHead[p] <= slot) /\ HistoryComplete
  BY DEF SyncInv
<1>3. /\ pc' \in {"duty", "peers"} /\ headSlot' \in {headSlot, SlotOf(head)}
      /\ todo' \in {todo, {}} /\ next' = 0
      /\ UNCHANGED <<slot, peerHead, restarts, have, head, settled, initial, tickSlot,
                     pending, failures>>
  BY DEF WalkReturns, HeadSlot, world, forkChoice
<1>4. {initial', synced', settled'} \subseteq BOOLEAN
  BY <1>1, <1>3, Zenon DEF TypeOK, WalkReturns
<1>5. slot \in Nat /\ headSlot' \in 0 .. slot
  <2>1. slot \in Nat /\ headSlot \in 0 .. slot /\ head \in - slot .. slot
    BY <1>1, SyncAssumption DEF TypeOK
  <2>2. SlotOf(head) \in 0 .. slot
    BY <2>1, SlotInside
  <2> QED
    BY <1>3, <2>1, <2>2
<1>6. TypeOK'
  BY <1>1, <1>3, <1>4, <1>5 DEF TypeOK
<1> QED
  BY <1>1, <1>3, <1>6 DEF SyncInv, HistoryComplete

-----------------------------------------------------------------------------
(* The invariant holds whatever the network, the peers and the clock do.   *)
THEOREM SyncInvariance == Spec => []SyncInv
<1>1. Init => SyncInv
  BY SyncInit
<1>2. SyncInv /\ [Next]_vars => SyncInv'
  <2> SUFFICES ASSUME SyncInv, [Next]_vars PROVE SyncInv'
    OBVIOUS
  <2>1. CASE ClockTick
    BY <2>1, ClockTickInv
  <2>2. ASSUME NEW p \in Peers, PeerAdvances(p) PROVE SyncInv'
    BY <2>2, PeerAdvancesInv
  <2>3. CASE (\E p \in Peers : StatusFails(p)) \/ FetchFails
    BY <2>3, FailuresInv
  <2>4. ASSUME NEW k \in - slot .. slot, Gossip(k) PROVE SyncInv'
    BY <2>4, GossipInv
  <2>5. CASE Restart
    BY <2>5, RestartInv
  <2>8. CASE Votes
    BY <2>8, VotesInv
  <2>6. CASE LoopStep
    <3>1. CASE Tick
      BY <3>1, TickInv
    <3>2. ASSUME NEW p \in Peers, AskStatus(p) PROVE SyncInv'
      BY <3>2, AskStatusInv
    <3>3. CASE NoPeerLeft \/ WalkEnds \/ Duties
      BY <3>3, LoopMovesInv
    <3>4. CASE Fetch
      BY <3>4, FetchInv
    <3>5. CASE Apply
      BY <3>5, ApplyInv
    <3>6. CASE WalkReturns
      BY <3>6, WalkReturnsInv
    <3> QED
      BY <2>6, <3>1, <3>2, <3>3, <3>4, <3>5, <3>6 DEF LoopStep
  <2>7. CASE UNCHANGED vars
    BY <2>7 DEF vars, world, iteration, walk, forkChoice, HistoryComplete, SyncInv, TypeOK
  <2> QED
    BY <2>1, <2>2, <2>3, <2>4, <2>5, <2>6, <2>7, <2>8 DEF Next
<1> QED
  BY <1>1, <1>2, PTL DEF Spec

(* The store never has a block without its ancestors.                      *)
THEOREM StoreIsComplete == Spec => []StoreComplete
<1>1. SyncInv => StoreComplete
  BY DEF SyncInv, StoreComplete
<1> QED
  BY <1>1, SyncInvariance, PTL
=============================================================================
