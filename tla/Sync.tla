-------------------------------- MODULE Sync --------------------------------
(***************************************************************************)
(* The main loop of a node (node/ticker.go), the sync walk it calls        *)
(* (node/sync.go) and the request/response protocol (network/reqresp),     *)
(* next to the clock, gossip and peers that hold the chain.                *)
(*                                                                         *)
(* The peers extend one chain by a block per slot: block k has slot k and  *)
(* parent k - 1, block 0 is genesis.  Others have built a side branch:     *)
(* block -k has slot k and parent 1 - k.  Until the votes this node has    *)
(* settle on the chain its head may move from one branch to the other.     *)
(* Requests may fail (timeout, closed stream, empty answer), gossip may be *)
(* lost, and the node may restart with an empty store.                     *)
(***************************************************************************)
EXTENDS Integers, SequencesExt

CONSTANTS
  Peers,
  MaxSyncDepth,  \* maxSyncDepth: 64 in the code
  MaxSlot,       \* bound: the clock stops here
  MaxSide,       \* bound: the length of the side branch
  MaxFailures,   \* bound: requests that fail
  MaxRestarts    \* bound: restarts of the node

ASSUME SyncAssumption ==
  /\ Peers # {}
  /\ {MaxSyncDepth, MaxSlot, MaxSide, MaxFailures, MaxRestarts} \subseteq Nat

VARIABLES
  slot,      \* the wall clock
  peerHead,  \* the head slot of each peer
  have,      \* the blocks in the node's store
  head,      \* the fork-choice head
  settled,   \* are the votes the node knows for the peers' chain?
  pc,        \* where the main loop is
  initial,   \* the walk belongs to initialSync
  tickSlot,  \* the slot this iteration of the loop read from the clock
  headSlot,  \* status.HeadSlot of this iteration
  todo,      \* the peers this iteration has not tried yet
  next,      \* nextRoot
  pending,   \* the blocks fetched so far, newest first
  synced,    \* some block of the walk was processed without error
  failures,  \* how many requests failed
  restarts   \* how often the node restarted

world == <<slot, peerHead, restarts>>
forkChoice == <<have, head, settled>>
iteration == <<initial, tickSlot, headSlot>>
walk == <<next, pending, synced>>
vars == <<world, forkChoice, pc, iteration, todo, walk, failures>>

SlotOf(b) == IF b < 0 THEN - b ELSE b
ParentOf(b) == IF b < 0 THEN b + 1 ELSE b - 1

(* GetStatus: the slot of the head.                                        *)
HeadSlot == SlotOf(head)

(* The heads the fork choice may have, see Ghost: the end of a branch, and *)
(* of the peers' chain if there is a block of it and the votes are for it. *)
HeadsOf(blocks, votesSettled) ==
  LET ends == {b \in blocks : \A c \in blocks \ {0} : ParentOf(c) # b}
      ours == {b \in ends : b > 0}
  IN  IF votesSettled /\ ours # {} THEN ours ELSE ends

(* ProcessBlock: a block needs its parent's state; a known one is no error.*)
Accepts(blocks, k) == k \in blocks \/ ParentOf(k) \in blocks

(* Mutant: blocks with unknown parents are stored.                         *)
ProcessedAny(blocks, k) == blocks \union {k}

Processed(blocks, k) == IF Accepts(blocks, k) THEN blocks \union {k} ELSE blocks

(* A node starts with the initial sync.                                    *)
Start ==
  /\ pc' = "peers" /\ initial' = TRUE /\ todo' = Peers
  /\ have' = {0} /\ head' = 0 /\ settled' = FALSE
  /\ tickSlot' = 0 /\ headSlot' = 0 /\ next' = 0 /\ pending' = << >>
  /\ synced' = FALSE

Init ==
  /\ slot = 0 /\ peerHead = [p \in Peers |-> 0]
  /\ have = {0} /\ head = 0 /\ settled = FALSE
  /\ pc = "peers" /\ initial = TRUE /\ todo = Peers
  /\ tickSlot = 0 /\ headSlot = 0 /\ next = 0 /\ pending = << >>
  /\ synced = FALSE /\ failures = 0 /\ restarts = 0

-----------------------------------------------------------------------------
(* The environment.                                                        *)

(* Requests may take slots; between the last of them and the duties the    *)
(* loop does not wait.                                                     *)
ClockTick ==
  /\ slot < MaxSlot
  /\ pc # "duty"
  /\ slot' = slot + 1
  /\ UNCHANGED <<peerHead, restarts, forkChoice, pc, iteration, todo, walk, failures>>

PeerAdvances(p) ==
  /\ peerHead[p] < slot
  /\ peerHead' = [peerHead EXCEPT ![p] = @ + 1]
  /\ UNCHANGED <<slot, restarts, forkChoice, pc, iteration, todo, walk, failures>>

(* A gossiped block; one whose parent is unknown is dropped, not kept.     *)
Gossip(b) ==
  /\ - MaxSide <= b /\ b \notin have
  /\ have' = Processed(have, b)
  /\ head' \in HeadsOf(have', settled)
  /\ UNCHANGED <<settled, world, pc, iteration, todo, walk, failures>>

(* Votes move the head to another branch, possibly to an earlier slot, or  *)
(* settle on the peers' chain.                                             *)
Votes ==
  /\ ~ settled
  /\ settled' \in BOOLEAN
  /\ head' \in HeadsOf(have, settled')
  /\ UNCHANGED <<have, world, pc, iteration, todo, walk, failures>>

Settle == Votes /\ settled'

Restart ==
  /\ restarts < MaxRestarts
  /\ Start
  /\ restarts' = restarts + 1
  /\ UNCHANGED <<slot, peerHead, failures>>

-----------------------------------------------------------------------------
(* The main loop.                                                          *)

(* A tick of the timer: sync first if the head is behind the clock.        *)
Tick ==
  /\ pc = "idle"
  /\ tickSlot' = slot
  /\ headSlot' = HeadSlot
  /\ IF tickSlot' > headSlot' + 2 THEN pc' = "peers" /\ todo' = Peers
     ELSE pc' = "duty" /\ UNCHANGED todo
  /\ UNCHANGED <<world, forkChoice, initial, walk, failures>>

(* RequestStatus to the next peer.  The walk starts if the peer is ahead.  *)
AskStatus(p) ==
  /\ pc = "peers"
  /\ p \in todo
  /\ todo' = todo \ {p}
  /\ IF peerHead[p] > HeadSlot
     THEN /\ pc' = "walk"
          /\ next' = peerHead[p] /\ pending' = << >> /\ synced' = FALSE
     ELSE UNCHANGED <<pc, walk>>
  /\ UNCHANGED <<world, forkChoice, iteration, failures>>

StatusFails(p) ==
  /\ pc = "peers"
  /\ p \in todo
  /\ failures < MaxFailures
  /\ failures' = failures + 1
  /\ todo' = todo \ {p}
  /\ UNCHANGED <<world, forkChoice, pc, iteration, walk>>

NoPeerLeft ==
  /\ pc = "peers"
  /\ todo = {}
  /\ pc' = IF initial THEN "idle" ELSE "duty"
  /\ initial' = FALSE
  /\ UNCHANGED <<world, forkChoice, tickSlot, headSlot, todo, walk, failures>>

(* Mutant: the walk stops one block short of its depth.                    *)
WalkGoesOnShort == next \notin have /\ Len(pending) < MaxSyncDepth - 1

(* The walk goes on while blocks are missing and it is not too deep.       *)
WalkGoesOn == next \notin have /\ Len(pending) < MaxSyncDepth

(* RequestBlocksByRoot for one root.                                       *)
Fetch ==
  /\ pc = "walk"
  /\ WalkGoesOn
  /\ pending' = Append(pending, next)
  /\ next' = next - 1
  /\ UNCHANGED <<world, forkChoice, pc, iteration, todo, synced, failures>>

(* A failed request ends the walk; what was fetched is processed anyway.   *)
FetchFails ==
  /\ pc = "walk"
  /\ WalkGoesOn
  /\ failures < MaxFailures
  /\ failures' = failures + 1
  /\ pc' = "apply"
  /\ UNCHANGED <<world, forkChoice, iteration, todo, walk>>

WalkEnds ==
  /\ pc = "walk"
  /\ ~ WalkGoesOn
  /\ pc' = "apply"
  /\ UNCHANGED <<world, forkChoice, iteration, todo, walk, failures>>

(* Blocks are processed oldest first.                                      *)
OldestFirst(blocks) == [oldest |-> Last(blocks), rest |-> Front(blocks)]

Apply ==
  /\ pc = "apply"
  /\ pending # << >>
  /\ LET step == OldestFirst(pending)
     IN  /\ have' = Processed(have, step.oldest)
         /\ head' \in HeadsOf(have', settled)
         /\ synced' = (synced \/ Accepts(have, step.oldest))
         /\ pending' = step.rest
  /\ UNCHANGED <<settled, world, pc, iteration, todo, next, failures>>

(* syncWithPeer returns.  Only a successful walk refreshes the status and  *)
(* ends the loop over the peers; initialSync asks every peer.  What was    *)
(* local to the walk or to the iteration is back at its default.           *)
WalkReturns ==
  LET done == synced /\ ~ initial
  IN  /\ pc = "apply"
      /\ pending = << >>
      /\ pc' = IF done THEN "duty" ELSE "peers"
      /\ headSlot' = (IF done THEN HeadSlot ELSE headSlot)
      /\ todo' = (IF done THEN {} ELSE todo)
      /\ next' = 0 /\ synced' = FALSE
      /\ UNCHANGED <<world, forkChoice, initial, tickSlot, pending, failures>>

(* Mutant: one slot stricter than the condition for a sync.                *)
DutyAllowedShort == tickSlot <= headSlot + 1

DutyAllowed == tickSlot <= headSlot + 2

Duties ==
  /\ pc = "duty"
  /\ pc' = "idle"
  /\ tickSlot' = 0 /\ headSlot' = 0
  /\ UNCHANGED <<world, forkChoice, initial, todo, walk, failures>>

LoopStep ==
  \/ Tick
  \/ \E p \in Peers : AskStatus(p)
  \/ NoPeerLeft
  \/ Fetch
  \/ WalkEnds
  \/ Apply
  \/ WalkReturns
  \/ Duties

Next ==
  \/ ClockTick
  \/ \E p \in Peers : PeerAdvances(p) \/ StatusFails(p)
  \/ \E b \in - slot .. slot : Gossip(b)
  \/ Votes \/ Restart
  \/ FetchFails
  \/ LoopStep

(* The clock, the peers and the loop keep going, and the votes settle;     *)
(* gossip may be lost and nothing has to fail.                             *)
Fairness ==
  /\ WF_vars(ClockTick)
  /\ \A p \in Peers : WF_vars(PeerAdvances(p))
  /\ WF_vars(LoopStep) /\ WF_vars(Settle)

Spec == Init /\ [][Next]_vars /\ Fairness
-----------------------------------------------------------------------------
(* Properties.                                                             *)

(* Type invariant. *)
TypeOK ==
  /\ slot \in 0 .. MaxSlot
  /\ peerHead \in [Peers -> 0 .. MaxSlot]
  /\ have \subseteq - slot .. slot /\ head \in have
  /\ pc \in {"idle", "peers", "walk", "apply", "duty"}
  /\ {initial, synced, settled} \subseteq BOOLEAN
  /\ {tickSlot, headSlot, next} \subseteq 0 .. slot
  /\ todo \subseteq Peers
  /\ pending \in Seq(1 .. slot) /\ Len(pending) <= MaxSyncDepth
  /\ failures \in 0 .. MaxFailures /\ restarts \in 0 .. MaxRestarts

(* The store never has a block without its ancestors, although blocks come *)
(* from gossip and from walks that were cut short.                         *)
HistoryComplete == 0 \in have /\ \A b \in have \ {0} : ParentOf(b) \in have

(* The store is well formed and has no holes.                              *)
StoreComplete == TypeOK /\ HistoryComplete

(* A node that is behind comes back to its duties, for the present slot:   *)
(* the conditions for a sync, for a walk and for the duties leave no head  *)
(* slot with which the loop neither syncs nor acts, although they compare  *)
(* with a slot and a status read before the walk.                          *)
DutiesResume == []<>(pc = "duty" /\ DutyAllowed /\ tickSlot = slot)

(* A node that is behind, by a late start, lost gossip or a restart,       *)
(* catches up: from some point on its head is near the clock.  initialSync *)
(* "allows a node that restarts mid-devnet to catch up".                   *)
CatchesUp == <>[](slot <= HeadSlot + 2)
=============================================================================
