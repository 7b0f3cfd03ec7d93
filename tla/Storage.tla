------------------------------ MODULE Storage -------------------------------
(***************************************************************************)
(* The three maps of storage/memory under concurrent use.  ProcessBlock    *)
(* and ProduceBlock run under the fork-choice mutex but put block,         *)
(* envelope and state one after the other, each put under the lock of the  *)
(* maps; GetBlock and GetSignedBlock of the fork-choice store read without *)
(* the mutex.  The threads that write are the reader of the block topic    *)
(* and the main loop, which processes the blocks of a sync walk and        *)
(* produces blocks; stream handlers read.                                  *)
(***************************************************************************)
EXTENDS Integers, FiniteSets, TLC

CONSTANTS
  Genesis,
  Parent,    \* the blocks other than genesis, and their parents
  Own,       \* the blocks this node may produce
  Invalid    \* blocks whose transition or signatures fail

Blocks == DOMAIN Parent \cup {Genesis}

ASSUME StorageAssumption ==
  /\ Genesis \notin DOMAIN Parent
  /\ \A b \in DOMAIN Parent : Parent[b] \in Blocks
  /\ Own \cap Invalid = {} /\ Own \cup Invalid \subseteq DOMAIN Parent

Threads == {"gossip", "main"}
Nobody == "nobody"

VARIABLES
  mu,         \* who holds the fork-choice mutex
  blocks, signedBlocks, states,  \* the keys of the three maps
  head,
  call,       \* per thread: its call of the store
  announced,  \* heads that GetStatus returned
  applied     \* how often each block's checkpoints and votes were applied

vars == <<mu, blocks, signedBlocks, states, head, call, announced, applied>>

maps == <<blocks, signedBlocks, states>>
Idle == [pc |-> "idle", kind |-> "none", block |-> Genesis]

(* NewStore puts the anchor before any other goroutine has the store.      *)
Init ==
  /\ mu = Nobody
  /\ blocks = {Genesis} /\ signedBlocks = {Genesis} /\ states = {Genesis}
  /\ head = Genesis
  /\ call = [t \in Threads |-> Idle]
  /\ announced = {}
  /\ applied = [b \in Blocks |-> 0]

At(t, pc) == call[t].pc = pc
Goto(t, pc) == call' = [call EXCEPT ![t].pc = pc]
Begin(t, kind, b) ==
  /\ At(t, "idle")
  /\ call' = [call EXCEPT ![t] = [pc |-> "lock", kind |-> kind, block |-> b]]
  /\ UNCHANGED <<mu, maps, head, announced, applied>>

-----------------------------------------------------------------------------
(* Calls of the store.                                                     *)

(* OnBlock: gossip brings any block, known or not.  This node's own blocks *)
(* come back once they are published.                                      *)
GossipBlock(b) == (b \in Own => b \in states) /\ Begin("gossip", "process", b)

(* A sync walk stops at a block the node has: GetBlock, without the mutex. *)
(* The child it fetched last is then processed.                            *)
WalkConnected(b) ==
  /\ Parent[b] \in blocks /\ b \notin Own
  /\ Begin("main", "walk", b)

Propose == Begin("main", "produce", Genesis)

Lock(t) == At(t, "lock") /\ mu = Nobody /\ mu' = t /\ Goto(t, "check")

EnterStore(t) ==
  Lock(t) /\ UNCHANGED <<maps, head, announced, applied>>

Return(t) == call' = [call EXCEPT ![t] = Idle] /\ mu' = Nobody

Known(b) == b \in blocks

(* The checks of ProcessBlock: known, parent state, transition and         *)
(* signatures.                                                             *)
CheckBlock(t) ==
  LET b == call[t].block
      orphan == ~ Known(b) /\ Parent[b] \notin states
  IN  /\ At(t, "check") /\ call[t].kind # "produce"
      /\ IF Known(b) \/ orphan \/ b \in Invalid THEN Return(t)
         ELSE Goto(t, "block") /\ UNCHANGED mu
      /\ UNCHANGED <<maps, head, announced, applied>>

(* ProduceBlock builds on the head.                                        *)
BuildBlock(t) ==
  /\ At(t, "check") /\ call[t].kind = "produce" /\ head \in states
  /\ \E b \in Own \ blocks :
       /\ Parent[b] = head
       /\ call' = [call EXCEPT ![t].pc = "block", ![t].block = b]
  /\ UNCHANGED <<mu, maps, head, announced, applied>>

BuildFails(t) ==
  /\ At(t, "check") /\ call[t].kind = "produce"
  /\ Return(t)
  /\ UNCHANGED <<maps, head, announced, applied>>

PutBlock(t) ==
  /\ At(t, "block")
  /\ blocks' = blocks \cup {call[t].block}
  /\ Goto(t, "signed")
  /\ UNCHANGED <<mu, signedBlocks, states, head, announced, applied>>

(* Mutant: ProduceBlock stores no envelope.                                *)
EnvelopeOnlyReceived(t) == IF call[t].kind = "produce" THEN {} ELSE {call[t].block}

Envelope(t) == {call[t].block}

(* Mutant: the mutex is released before the state is stored.               *)
PutSignedBlockUnlocks(t) ==
  /\ At(t, "signed")
  /\ signedBlocks' = signedBlocks \cup Envelope(t)
  /\ Goto(t, "state")
  /\ mu' = Nobody
  /\ UNCHANGED <<blocks, states, head, announced, applied>>

PutSignedBlock(t) ==
  /\ At(t, "signed")
  /\ signedBlocks' = signedBlocks \cup Envelope(t)
  /\ Goto(t, "state")
  /\ UNCHANGED <<mu, blocks, states, head, announced, applied>>

(* ProduceBlock returns after the puts, ProcessBlock applies checkpoints   *)
(* and votes and updates the head.                                         *)
PutState(t) ==
  /\ At(t, "state")
  /\ states' = states \cup {call[t].block}
  /\ IF call[t].kind = "produce" THEN Return(t)
     ELSE Goto(t, "apply") /\ UNCHANGED mu
  /\ UNCHANGED <<blocks, signedBlocks, head, announced, applied>>

(* The votes may make any block of the tree the head (see ForkChoice).     *)
Apply(t) ==
  /\ At(t, "apply")
  /\ head' \in blocks
  /\ applied' = [applied EXCEPT ![call[t].block] = @ + 1]
  /\ Return(t)
  /\ UNCHANGED <<maps, announced>>

(* AdvanceTime and votes may move the head too.                            *)
MoveHead ==
  /\ mu = Nobody
  /\ head' \in blocks \ {head}
  /\ UNCHANGED <<mu, maps, call, announced, applied>>

(* A peer asks for the status; it will then ask for the head's block.      *)
GetStatus ==
  /\ mu = Nobody
  /\ announced' = announced \cup {head}
  /\ UNCHANGED <<mu, maps, head, call, applied>>

InStore(t) ==
  \/ CheckBlock(t) \/ BuildBlock(t) \/ BuildFails(t)
  \/ PutBlock(t) \/ PutSignedBlock(t) \/ PutState(t) \/ Apply(t)

Next ==
  \/ \E b \in DOMAIN Parent : GossipBlock(b) \/ WalkConnected(b)
  \/ Propose \/ MoveHead \/ GetStatus
  \/ \E t \in Threads : EnterStore(t) \/ InStore(t)

Spec == Init /\ [][Next]_vars

-----------------------------------------------------------------------------
(* Properties.                                                             *)

(* A head this node announced can be fetched from it: OnBlocksByRoot reads *)
(* the envelopes without the mutex, at any later time.                     *)
AnnouncedServable == announced \subseteq signedBlocks

(* A call of ProcessBlock, from gossip or a sync walk, is over.            *)
Delivered(t) ==
  ~ At(t, "idle") /\ call'[t].pc = "idle" /\ call[t].kind \in {"process", "walk"}

(* When ProcessBlock is over, whatever the other thread did meanwhile, the *)
(* block is stored and its checkpoints and votes have been applied exactly *)
(* once, even if it came by gossip and by a walk at the same time, with    *)
(* three exceptions: an invalid block is not stored; a block of this       *)
(* node's own was stored by ProduceBlock, which applies nothing, and is    *)
(* known when it comes back; and a gossiped block whose parent has no      *)
(* state yet is refused.  A walk's block is never refused, although the    *)
(* walk stopped at a block it saw without the mutex.                       *)
DeliveryApplied ==
  [][\A t \in Threads : Delivered(t) =>
       LET b == call[t].block
       IN  \/ b \in Invalid /\ b \notin states'
           \/ b \in states' /\ applied'[b] = IF b \in Own THEN 0 ELSE 1
           \/ call[t].kind = "process" /\ Parent[b] \notin states]_vars
=============================================================================
