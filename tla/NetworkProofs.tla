---------------------------- MODULE NetworkProofs ---------------------------
(***************************************************************************)
(* What the three maps of Storage promise to readers that take no mutex,   *)
(* for any block tree and any calls of the two writing threads; what the   *)
(* cache of seen messages promises for any gossip (Gossip, here G); and    *)
(* what one request and its answer promise for any request and any peer    *)
(* (Reqresp, here R).                                                      *)
(***************************************************************************)
EXTENDS MCNetwork, SequenceTheorems, WellFoundedInduction, TLAPS

Pcs == {"idle", "lock", "check", "block", "signed", "state", "apply"}
Kinds == {"none", "process", "walk", "produce"}
CallType == [pc : Pcs, kind : Kinds, block : Blocks]

(* The types of the variables.                                             *)
StorageTypes ==
  /\ mu \in Threads \cup {Nobody}
  /\ call \in [Threads -> CallType]
  /\ {blocks, signedBlocks, states} \subseteq SUBSET Blocks
  /\ head \in Blocks
  /\ applied \in [Blocks -> {0, 1}]

(* A thread is past Lock exactly while it holds the mutex.                 *)
MutexHeld ==
  \A t \in Threads : mu = t <=> ~ (At(t, "idle") \/ At(t, "lock"))

(* How far the three puts of thread t have come.                           *)
PutsAt(t) ==
  LET b == call[t].block
      pc == call[t].pc
  IN  /\ pc \in {"idle", "lock", "check", "block", "apply"} =>
           signedBlocks = blocks /\ states = blocks
      /\ pc = "block" => b \notin blocks
      /\ pc = "signed" => /\ signedBlocks = blocks \ {b} /\ states = blocks \ {b}
                          /\ b \in blocks
      /\ pc = "state" => /\ signedBlocks = blocks /\ states = blocks \ {b}
                         /\ b \in blocks
      /\ pc = "apply" => b \in blocks
      /\ pc \in {"block", "signed", "state", "apply"} => applied[b] = 0

(* Between two calls the three maps agree; within one they are as far as   *)
(* the puts of the thread that holds the mutex.                            *)
MapsAgree ==
  /\ mu = Nobody => signedBlocks = blocks /\ states = blocks
  /\ \A t \in Threads : mu = t => PutsAt(t)

(* What is received has a parent, and the parent of what a walk delivers   *)
(* is in the block map.                                                    *)
CallsGrounded ==
  \A t \in Threads :
    /\ call[t].kind \in {"process", "walk"} => call[t].block \in DOMAIN Parent
    /\ call[t].kind = "walk" => Parent[call[t].block] \in blocks

AppliedStored == \A b \in Blocks : applied[b] # 0 => b \in blocks

(* The inductive invariant.  The head and what was announced have their    *)
(* envelopes, and only stored blocks are applied.                          *)
StorageInv ==
  /\ StorageTypes /\ MutexHeld /\ MapsAgree /\ CallsGrounded
  /\ head \in signedBlocks
  /\ announced \subseteq signedBlocks
  /\ AppliedStored
 

-----------------------------------------------------------------------------
(* NewStore leaves the maps in agreement.                                  *)
LEMMA StorageInit == Init => StorageInv
<1> SUFFICES ASSUME Init PROVE StorageInv
  OBVIOUS
<1>1. StorageTypes /\ MutexHeld
  BY DEF Init, StorageTypes, MutexHeld, At, CallType, Pcs, Kinds, Idle, Threads,
         Nobody, Blocks
<1>2. MapsAgree /\ CallsGrounded
  BY DEF Init, MapsAgree, CallsGrounded, Idle, Threads, Nobody
<1> QED
  BY <1>1, <1>2 DEF Init, StorageInv, AppliedStored

(* A call begins outside the mutex and changes nothing but the thread's    *)
(* own call.                                                               *)
LEMMA BeginInv ==
  ASSUME StorageInv, NEW t \in Threads, NEW what \in Kinds, NEW b \in Blocks,
         Begin(t, what, b),
         what \in {"process", "walk"} => b \in DOMAIN Parent,
         what = "walk" => Parent[b] \in blocks
  PROVE  StorageInv'
<1>1. StorageTypes /\ MutexHeld /\ MapsAgree /\ CallsGrounded
  BY DEF StorageInv
<1>2. /\ call' = [call EXCEPT ![t] = [pc |-> "lock", kind |-> what, block |-> b]]
      /\ call[t].pc = "idle"
      /\ UNCHANGED <<mu, blocks, signedBlocks, states, head, announced, applied>>
  BY DEF Begin, At, maps
<1>3. StorageTypes'
  BY <1>1, <1>2 DEF StorageTypes, CallType, Pcs
<1>4. MutexHeld'
  BY <1>1, <1>2 DEF StorageTypes, MutexHeld, At
<1>5. MapsAgree'
  BY <1>1, <1>2 DEF StorageTypes, MutexHeld, At, MapsAgree, PutsAt
<1>6. CallsGrounded'
  BY <1>1, <1>2 DEF StorageTypes, CallsGrounded
<1> QED
  BY <1>2, <1>3, <1>4, <1>5, <1>6 DEF StorageInv, AppliedStored

(* A thread gets the mutex only between two calls of the other.            *)
LEMMA EnterStoreInv ==
  ASSUME StorageInv, NEW t \in Threads, EnterStore(t)
  PROVE  StorageInv'
<1>1. StorageTypes /\ MutexHeld /\ MapsAgree /\ CallsGrounded
  BY DEF StorageInv
<1>2. /\ call' = [call EXCEPT ![t].pc = "check"]
      /\ call[t].pc = "lock" /\ mu = Nobody /\ mu' = t
      /\ UNCHANGED <<blocks, signedBlocks, states, head, announced, applied>>
  BY DEF EnterStore, Lock, At, Goto, maps
<1>3. StorageTypes'
  BY <1>1, <1>2 DEF StorageTypes, CallType, Pcs
<1>4. MutexHeld'
  BY <1>1, <1>2 DEF StorageTypes, MutexHeld, At, Threads, Nobody
<1>5. MapsAgree'
  BY <1>1, <1>2 DEF StorageTypes, MapsAgree, PutsAt, Threads, Nobody
<1>6. CallsGrounded'
  BY <1>1, <1>2 DEF StorageTypes, CallsGrounded
<1> QED
  BY <1>2, <1>3, <1>4, <1>5, <1>6 DEF StorageInv, AppliedStored

-----------------------------------------------------------------------------
(* The steps of a call under the mutex.                                    *)

(* ProcessBlock goes on with a block that is in none of the maps.          *)
LEMMA CheckBlockInv ==
  ASSUME StorageInv, NEW t \in Threads, CheckBlock(t)
  PROVE  StorageInv'
<1>1. StorageTypes /\ MutexHeld /\ MapsAgree /\ CallsGrounded
      /\ AppliedStored
  BY DEF StorageInv
<1> DEFINE b == call[t].block
<1>2. /\ call[t].pc = "check" /\ call[t].kind \in {"process", "walk", "none"}
      /\ \/ call' = [call EXCEPT ![t] = Idle] /\ mu' = Nobody
         \/ /\ call' = [call EXCEPT ![t].pc = "block"] /\ mu' = mu
            /\ b \notin blocks
      /\ UNCHANGED <<blocks, signedBlocks, states, head, announced, applied>>
  BY <1>1 DEF CheckBlock, At, Goto, Return, Known, maps, StorageTypes, CallType, Kinds
<1>9. /\ call' \in [Threads -> CallType]
      /\ \A u \in Threads \ {t} : call'[u] = call[u]
      /\ \/ call'[t] = Idle /\ mu' = Nobody
         \/ /\ call'[t].pc = "block" /\ mu' = mu /\ b \notin blocks
            /\ call'[t].kind = call[t].kind /\ call'[t].block = b
  <2>1. CASE call' = [call EXCEPT ![t] = Idle] /\ mu' = Nobody
    BY <1>1, <2>1 DEF StorageTypes, CallType, Pcs, Kinds, Idle, Blocks
  <2>2. CASE call' = [call EXCEPT ![t].pc = "block"] /\ mu' = mu /\ b \notin blocks
    BY <1>1, <2>2 DEF StorageTypes, CallType, Pcs
  <2> QED
    BY <1>2, <2>1, <2>2
<1>3. mu = t /\ PutsAt(t)
  BY <1>1, <1>2 DEF MutexHeld, At, MapsAgree
<1>4. StorageTypes'
  BY <1>1, <1>2, <1>9 DEF StorageTypes, Threads
<1>5. MutexHeld'
  BY <1>1, <1>3, <1>9 DEF StorageTypes, MutexHeld, At, Threads, Nobody, Idle
<1>6. MapsAgree'
  BY <1>1, <1>2, <1>3, <1>9
  DEF StorageTypes, AppliedStored, CallType, MapsAgree, PutsAt, Threads, Nobody
<1>7. CallsGrounded'
  BY <1>1, <1>2, <1>9 DEF CallsGrounded, Idle
<1> QED
  BY <1>1, <1>2, <1>3, <1>4, <1>5, <1>6, <1>7
  DEF StorageInv, AppliedStored, StorageTypes, PutsAt

(* ProduceBlock takes a block that is in none of the maps.                 *)
LEMMA BuildBlockInv ==
  ASSUME StorageInv, NEW t \in Threads, BuildBlock(t)
  PROVE  StorageInv'
<1>1. StorageTypes /\ MutexHeld /\ MapsAgree /\ CallsGrounded
      /\ AppliedStored
  BY DEF StorageInv
<1> DEFINE b == call[t].block
<1>2. /\ call[t].pc = "check" /\ call[t].kind = "produce"
      /\ UNCHANGED <<mu, blocks, signedBlocks, states, head, announced, applied>>
  BY DEF BuildBlock, At, maps
<1>8. PICK c \in Own \ blocks : call' = [call EXCEPT ![t].pc = "block", ![t].block = c]
  BY DEF BuildBlock
<1>9. /\ call' \in [Threads -> CallType] /\ c \in Blocks
      /\ \A u \in Threads \ {t} : call'[u] = call[u]
      /\ call'[t].pc = "block" /\ call'[t].kind = call[t].kind /\ call'[t].block = c
  <2> DEFINE mid == [call EXCEPT ![t].pc = "block"]
  <2>1. c \in Blocks
    BY StorageAssumption DEF Blocks
  <2>2. /\ mid \in [Threads -> CallType]
        /\ \A u \in Threads \ {t} : mid[u] = call[u]
        /\ mid[t].pc = "block" /\ mid[t].kind = call[t].kind
    BY <1>1 DEF StorageTypes, CallType, Pcs
  <2>3. call' = [mid EXCEPT ![t].block = c]
    BY <1>8
  <2> HIDE DEF mid
  <2> QED
    BY <2>1, <2>2, <2>3 DEF CallType
<1>3. mu = t /\ PutsAt(t)
  BY <1>1, <1>2 DEF MutexHeld, At, MapsAgree
<1>4. StorageTypes'
  BY <1>1, <1>2, <1>9 DEF StorageTypes
<1>5. MutexHeld'
  BY <1>1, <1>2, <1>3, <1>9 DEF MutexHeld, At, Threads
<1>6. MapsAgree'
  BY <1>1, <1>2, <1>3, <1>8, <1>9
  DEF StorageTypes, AppliedStored, MapsAgree, PutsAt, Threads, Nobody
<1>7. CallsGrounded'
  BY <1>1, <1>2, <1>9 DEF CallsGrounded
<1> QED
  BY <1>1, <1>2, <1>3, <1>4, <1>5, <1>6, <1>7
  DEF StorageInv, AppliedStored, StorageTypes, PutsAt

(* A failed production leaves the maps alone.                              *)
LEMMA BuildFailsInv ==
  ASSUME StorageInv, NEW t \in Threads, BuildFails(t)
  PROVE  StorageInv'
<1>1. StorageTypes /\ MutexHeld /\ MapsAgree /\ CallsGrounded
      /\ AppliedStored
  BY DEF StorageInv
<1> DEFINE b == call[t].block
<1>2. /\ call[t].pc = "check"
      /\ call' = [call EXCEPT ![t] = Idle] /\ mu' = Nobody
      /\ UNCHANGED <<blocks, signedBlocks, states, head, announced, applied>>
  BY DEF BuildFails, At, Return, maps
<1>3. mu = t /\ PutsAt(t)
  BY <1>1, <1>2 DEF MutexHeld, At, MapsAgree
<1>4. StorageTypes'
  BY <1>1, <1>2, <1>3 DEF StorageTypes, CallType, Pcs, PutsAt, Idle, Kinds, Blocks
<1>5. MutexHeld'
  BY <1>1, <1>2, <1>3 DEF StorageTypes, MutexHeld, At, Threads, Nobody, Idle
<1>6. MapsAgree'
  BY <1>1, <1>2, <1>3, <1>5
  DEF StorageTypes, MapsAgree, PutsAt, MutexHeld, At, Threads, Nobody, Idle
<1>7. CallsGrounded'
  BY <1>1, <1>2 DEF StorageTypes, CallsGrounded, Idle
<1> QED
  BY <1>1, <1>2, <1>3, <1>4, <1>5, <1>6, <1>7
  DEF StorageInv, AppliedStored, StorageTypes, PutsAt

(* The first put: the block has no envelope and no state yet.              *)
LEMMA PutBlockInv ==
  ASSUME StorageInv, NEW t \in Threads, PutBlock(t)
  PROVE  StorageInv'
<1>1. StorageTypes /\ MutexHeld /\ MapsAgree /\ CallsGrounded
      /\ AppliedStored
  BY DEF StorageInv
<1> DEFINE b == call[t].block
<1>2. /\ call[t].pc = "block"
      /\ call' = [call EXCEPT ![t].pc = "signed"]
      /\ blocks' = blocks \cup {b}
      /\ UNCHANGED <<mu, signedBlocks, states, head, announced, applied>>
  BY DEF PutBlock, At, Goto
<1>3. mu = t /\ PutsAt(t)
  BY <1>1, <1>2 DEF MutexHeld, At, MapsAgree
<1>4. StorageTypes'
  BY <1>1, <1>2, <1>3 DEF StorageTypes, CallType, Pcs, PutsAt, Idle, Kinds, Blocks
<1>5. MutexHeld'
  BY <1>1, <1>2, <1>3 DEF StorageTypes, MutexHeld, At, Threads, Nobody, Idle
<1>6. MapsAgree'
  BY <1>1, <1>2, <1>3, <1>5
  DEF StorageTypes, MapsAgree, PutsAt, MutexHeld, At, Threads, Nobody, Idle
<1>7. CallsGrounded'
  BY <1>1, <1>2 DEF StorageTypes, CallsGrounded, Idle
<1> QED
  BY <1>1, <1>2, <1>3, <1>4, <1>5, <1>6, <1>7
  DEF StorageInv, AppliedStored, StorageTypes, PutsAt

(* The second put: the envelope follows the block.                         *)
LEMMA PutSignedBlockInv ==
  ASSUME StorageInv, NEW t \in Threads, PutSignedBlock(t)
  PROVE  StorageInv'
<1>1. StorageTypes /\ MutexHeld /\ MapsAgree /\ CallsGrounded
      /\ AppliedStored
  BY DEF StorageInv
<1> DEFINE b == call[t].block
<1>2. /\ call[t].pc = "signed"
      /\ call' = [call EXCEPT ![t].pc = "state"]
      /\ signedBlocks' = signedBlocks \cup {b}
      /\ UNCHANGED <<mu, blocks, states, head, announced, applied>>
  BY DEF PutSignedBlock, Envelope, At, Goto
<1>3. mu = t /\ PutsAt(t)
  BY <1>1, <1>2 DEF MutexHeld, At, MapsAgree
<1>4. StorageTypes'
  BY <1>1, <1>2, <1>3 DEF StorageTypes, CallType, Pcs, PutsAt, Idle, Kinds, Blocks
<1>5. MutexHeld'
  BY <1>1, <1>2, <1>3 DEF StorageTypes, MutexHeld, At, Threads, Nobody, Idle
<1>6. MapsAgree'
  BY <1>1, <1>2, <1>3, <1>5
  DEF StorageTypes, MapsAgree, PutsAt, MutexHeld, At, Threads, Nobody, Idle
<1>7. CallsGrounded'
  BY <1>1, <1>2 DEF StorageTypes, CallsGrounded, Idle
<1> QED
  BY <1>1, <1>2, <1>3, <1>4, <1>5, <1>6, <1>7
  DEF StorageInv, AppliedStored, StorageTypes, PutsAt

(* The third put: the maps agree again.                                    *)
LEMMA PutStateInv ==
  ASSUME StorageInv, NEW t \in Threads, PutState(t)
  PROVE  StorageInv'
<1>1. StorageTypes /\ MutexHeld /\ MapsAgree /\ CallsGrounded
      /\ AppliedStored
  BY DEF StorageInv
<1> DEFINE b == call[t].block
<1>2. /\ call[t].pc = "state"
      /\ \/ call' = [call EXCEPT ![t] = Idle] /\ mu' = Nobody
         \/ call' = [call EXCEPT ![t].pc = "apply"] /\ mu' = mu
      /\ states' = states \cup {b}
      /\ UNCHANGED <<blocks, signedBlocks, head, announced, applied>>
  BY DEF PutState, At, Goto, Return
<1>9. /\ call' \in [Threads -> CallType]
      /\ \A u \in Threads \ {t} : call'[u] = call[u]
      /\ \/ call'[t] = Idle /\ mu' = Nobody
         \/ /\ call'[t].pc = "apply" /\ mu' = mu
            /\ call'[t].kind = call[t].kind /\ call'[t].block = b
  <2>1. CASE call' = [call EXCEPT ![t] = Idle] /\ mu' = Nobody
    BY <1>1, <2>1 DEF StorageTypes, CallType, Pcs, Kinds, Idle, Blocks
  <2>2. CASE call' = [call EXCEPT ![t].pc = "apply"] /\ mu' = mu
    BY <1>1, <2>2 DEF StorageTypes, CallType, Pcs
  <2> QED
    BY <1>2, <2>1, <2>2
<1>3. mu = t /\ PutsAt(t)
  BY <1>1, <1>2 DEF MutexHeld, At, MapsAgree
<1>4. StorageTypes'
  BY <1>1, <1>2, <1>9 DEF StorageTypes, Threads, CallType
<1>5. MutexHeld'
  BY <1>1, <1>3, <1>9 DEF StorageTypes, MutexHeld, At, Threads, Nobody, Idle
<1>6. MapsAgree'
  BY <1>1, <1>2, <1>3, <1>9
  DEF StorageTypes, MapsAgree, PutsAt, Threads, Nobody
<1>7. CallsGrounded'
  BY <1>1, <1>2, <1>9 DEF CallsGrounded, Idle
<1> QED
  BY <1>1, <1>2, <1>3, <1>4, <1>5, <1>6, <1>7
  DEF StorageInv, AppliedStored, StorageTypes, PutsAt

(* Checkpoints and votes of a block are applied when all is stored.        *)
LEMMA ApplyInv ==
  ASSUME StorageInv, NEW t \in Threads, Apply(t)
  PROVE  StorageInv'
<1>1. StorageTypes /\ MutexHeld /\ MapsAgree /\ CallsGrounded
      /\ AppliedStored
  BY DEF StorageInv
<1> DEFINE b == call[t].block
<1>2. /\ call[t].pc = "apply"
      /\ call' = [call EXCEPT ![t] = Idle] /\ mu' = Nobody
      /\ head' \in blocks
      /\ applied' = [applied EXCEPT ![b] = @ + 1]
      /\ UNCHANGED <<blocks, signedBlocks, states, announced>>
  BY DEF Apply, At, Return, maps
<1>3. mu = t /\ PutsAt(t)
  BY <1>1, <1>2 DEF MutexHeld, At, MapsAgree
<1>4. StorageTypes'
  BY <1>1, <1>2, <1>3 DEF StorageTypes, CallType, Pcs, PutsAt, Idle, Kinds, Blocks
<1>5. MutexHeld'
  BY <1>1, <1>2, <1>3 DEF StorageTypes, MutexHeld, At, Threads, Nobody, Idle
<1>6. MapsAgree'
  BY <1>1, <1>2, <1>3, <1>5
  DEF StorageTypes, MapsAgree, PutsAt, MutexHeld, At, Threads, Nobody, Idle
<1>7. CallsGrounded'
  BY <1>1, <1>2 DEF StorageTypes, CallsGrounded, Idle
<1> QED
  BY <1>1, <1>2, <1>3, <1>4, <1>5, <1>6, <1>7
  DEF StorageInv, AppliedStored, StorageTypes, PutsAt

-----------------------------------------------------------------------------
(* Steps outside the mutex that see it free.                               *)

(* The head moves to a stored block, and the head is what is announced.    *)
LEMMA ReadersInv ==
  ASSUME StorageInv, MoveHead \/ GetStatus
  PROVE  StorageInv'
<1>1. /\ StorageTypes /\ MutexHeld /\ MapsAgree /\ CallsGrounded
      /\ AppliedStored /\ head \in signedBlocks
  BY DEF StorageInv
<1>2. /\ mu = Nobody /\ UNCHANGED <<mu, blocks, signedBlocks, states, call, applied>>
      /\ head' \in blocks \union {head} /\ announced' \subseteq announced \union {head}
  BY DEF MoveHead, GetStatus, maps
<1>3. signedBlocks = blocks
  BY <1>1, <1>2 DEF MapsAgree
<1>4. head' \in signedBlocks /\ head' \in Blocks
  BY <1>1, <1>2, <1>3 DEF StorageTypes
<1>5. StorageTypes' /\ MutexHeld' /\ MapsAgree' /\ CallsGrounded' /\ AppliedStored'
  BY <1>1, <1>2, <1>4
  DEF StorageTypes, MutexHeld, At, MapsAgree, PutsAt, CallsGrounded, AppliedStored
<1> QED
  BY <1>1, <1>2, <1>4, <1>5 DEF StorageInv

(* Whatever the threads do, the maps agree whenever the mutex is free.     *)
THEOREM StorageInvariance == Spec => []StorageInv
<1>1. Init => StorageInv
  BY StorageInit
<1>2. StorageInv /\ [Next]_vars => StorageInv'
  <2> SUFFICES ASSUME StorageInv, [Next]_vars PROVE StorageInv'
    OBVIOUS
  <2>1. ASSUME NEW b \in DOMAIN Parent, GossipBlock(b) PROVE StorageInv'
    BY <2>1, BeginInv DEF GossipBlock, Threads, Kinds, Blocks
  <2>2. ASSUME NEW b \in DOMAIN Parent, WalkConnected(b) PROVE StorageInv'
    BY <2>2, BeginInv DEF WalkConnected, Threads, Kinds, Blocks
  <2>3. CASE Propose
    BY <2>3, BeginInv DEF Propose, Threads, Kinds, Blocks
  <2>4. CASE MoveHead \/ GetStatus
    BY <2>4, ReadersInv
  <2>5. ASSUME NEW t \in Threads, EnterStore(t) PROVE StorageInv'
    BY <2>5, EnterStoreInv
  <2>6. ASSUME NEW t \in Threads, InStore(t) PROVE StorageInv'
    BY <2>6, CheckBlockInv, BuildBlockInv, BuildFailsInv, PutBlockInv, PutSignedBlockInv,
       PutStateInv, ApplyInv DEF InStore
  <2>7. CASE UNCHANGED vars
    BY <2>7 DEF vars, StorageInv, StorageTypes, MutexHeld, At, MapsAgree, PutsAt,
                CallsGrounded, AppliedStored
  <2> QED
    BY <2>1, <2>2, <2>3, <2>4, <2>5, <2>6, <2>7 DEF Next
<1> QED
  BY <1>1, <1>2, PTL DEF Spec

(* Whatever a status announced can be served: the head moves only to       *)
(* blocks whose three puts are done, and no envelope is removed.           *)
THEOREM AnnouncedIsServable == Spec => []AnnouncedServable
<1>1. StorageInv => AnnouncedServable
  BY DEF StorageInv, AnnouncedServable
<1> QED
  BY <1>1, StorageInvariance, PTL

(* Who writes what: ProduceBlock this node's own blocks, ProcessBlock      *)
(* valid ones of others.                                                   *)
WritesOwn ==
  \A t \in Threads :
    /\ call[t].pc \in {"block", "signed", "state", "apply"} =>
         /\ call[t].kind = "produce" <=> call[t].block \in Own
         /\ call[t].block \notin Invalid
    /\ call[t].pc = "apply" => call[t].kind # "produce"
    /\ call[t].pc # "idle" => call[t].kind # "none"
    /\ call[t].kind \in {"process", "walk"} /\ call[t].block \in Own =>
         call[t].block \in blocks

(* The stored blocks are valid, and those that are not this node's own     *)
(* have been applied, or are about to be.                                  *)
AppliedInv ==
  /\ WritesOwn
  /\ blocks \cap Invalid = {}
  /\ \A b \in DOMAIN Parent :
       applied[b] = IF b \in blocks \ Own
                       /\ \A t \in Threads :
                            call[t].block = b =>
                              call[t].pc \notin {"signed", "state", "apply"}
                    THEN 1 ELSE 0

(* While one thread is past Lock the other is not.                         *)
LEMMA OtherWaits ==
  ASSUME StorageInv, NEW t \in Threads, call[t].pc \notin {"idle", "lock"}
  PROVE  /\ mu = t /\ PutsAt(t)
         /\ \A u \in Threads \ {t} : call[u].pc \in {"idle", "lock"}
BY DEF StorageInv, MutexHeld, At, MapsAgree

(* A call that begins or gets the mutex.                                   *)
LEMMA AppliedOutside ==
  ASSUME StorageInv, AppliedInv, NEW t \in Threads,
         UNCHANGED <<blocks, applied>>,
         call' = [call EXCEPT ![t] = call'[t]],
         call[t].pc \in {"idle", "lock", "check"},
         call'[t].pc \in {"idle", "lock", "check"},
         call'[t].pc # "idle" => call'[t].kind # "none",
         call'[t].kind \in {"process", "walk"} /\ call'[t].block \in Own =>
           call'[t].block \in blocks
  PROVE  AppliedInv'
<1>1. \A u \in Threads : call'[u] = IF u = t THEN call'[t] ELSE call[u]
  BY DEF StorageInv, StorageTypes
<1>2. WritesOwn'
  BY <1>1 DEF AppliedInv, WritesOwn
<1>3. \A b : (\A u \in Threads :
              call'[u].block = b => call'[u].pc \notin {"signed", "state", "apply"})
          <=> (\A u \in Threads :
              call[u].block = b => call[u].pc \notin {"signed", "state", "apply"})
  BY <1>1
<1> QED
  BY <1>2, <1>3 DEF AppliedInv

(* A step of the thread that holds the mutex.                              *)
LEMMA AppliedInside ==
  ASSUME StorageInv, AppliedInv, NEW t \in Threads, InStore(t)
  PROVE  AppliedInv'
<1> DEFINE b == call[t].block
           Writing(pc) == pc \in {"signed", "state", "apply"}
<1>0. /\ mu = t /\ PutsAt(t)
      /\ \A u \in Threads \ {t} : call[u].pc \in {"idle", "lock"}
  <2>1. call[t].pc \notin {"idle", "lock"}
    BY DEF InStore, CheckBlock, BuildBlock, BuildFails, PutBlock, PutSignedBlock, PutState,
       Apply, At
  <2> QED
    BY <2>1, OtherWaits
<1>1. \A c : (\A u \in Threads : call[u].block = c => ~ Writing(call[u].pc))
          <=> ~ (c = b /\ Writing(call[t].pc))
  BY <1>0
<1>2. ASSUME call' = [call EXCEPT ![t] = call'[t]]
      PROVE  /\ \A u \in Threads \ {t} : call'[u] = call[u]
             /\ \A c : (\A u \in Threads : call'[u].block = c => ~ Writing(call'[u].pc))
                     <=> ~ (c = call'[t].block /\ Writing(call'[t].pc))
  <2>1. \A u \in Threads \ {t} : call'[u] = call[u]
    BY <1>2 DEF StorageInv, StorageTypes
  <2> QED
    BY <1>0, <2>1
<1>3. call \in [Threads -> CallType]
  BY DEF StorageInv, StorageTypes
<1>4. CASE CheckBlock(t) \/ BuildFails(t)
  <2>1. /\ call[t].pc = "check" /\ UNCHANGED <<blocks, applied>>
        /\ \/ call' = [call EXCEPT ![t] = Idle]
           \/ /\ call' = [call EXCEPT ![t].pc = "block"]
              /\ b \notin blocks /\ b \notin Invalid /\ call[t].kind # "produce"
    BY <1>4 DEF CheckBlock, BuildFails, At, Goto, Return, Known, maps
  <2>2. CASE call' = [call EXCEPT ![t] = Idle]
    <3>1. call'[t] = Idle /\ call' = [call EXCEPT ![t] = call'[t]]
      BY <1>3, <2>2
    <3> QED
      BY <2>1, <3>1, AppliedOutside DEF Idle
  <2>3. CASE /\ call' = [call EXCEPT ![t].pc = "block"]
             /\ b \notin blocks /\ b \notin Invalid /\ call[t].kind # "produce"
    <3>1. /\ call' = [call EXCEPT ![t] = call'[t]]
          /\ call'[t].pc = "block" /\ call'[t].kind = call[t].kind /\ call'[t].block = b
      BY <1>3, <2>3 DEF CallType
    <3>2. b \notin Own
      <4>1. call[t].kind # "none"
        BY <2>1 DEF AppliedInv, WritesOwn
      <4>2. call[t].kind \in {"process", "walk"}
        BY <1>3, <2>3, <4>1 DEF CallType, Kinds
      <4> QED
        BY <2>3, <4>2 DEF AppliedInv, WritesOwn
    <3>3. WritesOwn'
      BY <1>2, <2>1, <2>3, <3>1, <3>2 DEF AppliedInv, WritesOwn
    <3> QED
      BY <1>1, <1>2, <2>1, <3>1, <3>3 DEF AppliedInv
  <2> QED
    BY <2>1, <2>2, <2>3
<1>5. CASE BuildBlock(t)
  <2>1. /\ call[t].pc = "check" /\ call[t].kind = "produce" /\ UNCHANGED <<blocks, applied>>
    BY <1>5 DEF BuildBlock, At, maps
  <2>2. PICK c \in Own \ blocks : call' = [call EXCEPT ![t].pc = "block", ![t].block = c]
    BY <1>5 DEF BuildBlock
  <2>3. /\ call' = [call EXCEPT ![t] = call'[t]]
        /\ call'[t].pc = "block" /\ call'[t].kind = "produce" /\ call'[t].block = c
    <3> DEFINE mid == [call EXCEPT ![t].pc = "block"]
    <3>1. /\ mid \in [Threads -> [pc : {"block"} \cup Pcs, kind : Kinds, block : Blocks]]
          /\ mid = [call EXCEPT ![t] = mid[t]]
          /\ mid[t].pc = "block" /\ mid[t].kind = "produce"
      BY <1>3, <2>1 DEF CallType
    <3>2. call' = [mid EXCEPT ![t].block = c]
      BY <2>2
    <3> HIDE DEF mid
    <3>3. /\ call' = [mid EXCEPT ![t] = call'[t]]
          /\ call'[t].pc = "block" /\ call'[t].kind = "produce" /\ call'[t].block = c
      BY <3>1, <3>2
    <3>4. call' = [call EXCEPT ![t] = call'[t]]
      BY <1>3, <3>1, <3>3
    <3> QED
      BY <3>3, <3>4
  <2>4. c \notin Invalid
    BY StorageAssumption
  <2>5. WritesOwn'
    <3>1. \A u \in Threads \ {t} : call'[u] = call[u]
      BY <1>2, <2>3
    <3>2. c \in Own /\ blocks' = blocks
      BY <2>1
    <3> QED
      BY <2>3, <2>4, <3>1, <3>2 DEF AppliedInv, WritesOwn
  <2> QED
    BY <1>1, <1>2, <2>1, <2>3, <2>5 DEF AppliedInv
<1>6. CASE PutBlock(t)
  <2>1. /\ call[t].pc = "block" /\ call' = [call EXCEPT ![t].pc = "signed"]
        /\ blocks' = blocks \cup {b} /\ applied' = applied
    BY <1>6 DEF PutBlock, At, Goto
  <2>2. /\ call' = [call EXCEPT ![t] = call'[t]]
        /\ call'[t].pc = "signed" /\ call'[t].kind = call[t].kind /\ call'[t].block = b
    BY <1>3, <2>1 DEF CallType
  <2>3. WritesOwn'
    BY <1>2, <2>1, <2>2 DEF AppliedInv, WritesOwn
  <2>4. b \notin blocks /\ b \notin Invalid
    BY <1>0, <2>1 DEF PutsAt, AppliedInv, WritesOwn
  <2> QED
    BY <1>1, <1>2, <2>1, <2>2, <2>3, <2>4 DEF AppliedInv
<1>7. CASE PutSignedBlock(t)
  <2>1. /\ call[t].pc = "signed" /\ call' = [call EXCEPT ![t].pc = "state"]
        /\ UNCHANGED <<blocks, applied>>
    BY <1>7 DEF PutSignedBlock, At, Goto
  <2>2. /\ call' = [call EXCEPT ![t] = call'[t]]
        /\ call'[t].pc = "state" /\ call'[t].kind = call[t].kind /\ call'[t].block = b
    BY <1>3, <2>1 DEF CallType
  <2>3. WritesOwn'
    BY <1>2, <2>1, <2>2 DEF AppliedInv, WritesOwn
  <2> QED
    BY <1>1, <1>2, <2>1, <2>2, <2>3 DEF AppliedInv
<1>8. CASE PutState(t)
  <2>1. /\ call[t].pc = "state" /\ UNCHANGED <<blocks, applied>>
        /\ IF call[t].kind = "produce" THEN call' = [call EXCEPT ![t] = Idle]
           ELSE call' = [call EXCEPT ![t].pc = "apply"]
    BY <1>8 DEF PutState, At, Goto, Return
  <2>2. CASE call[t].kind = "produce"
    <3>1. call'[t] = Idle /\ call' = [call EXCEPT ![t] = call'[t]]
      BY <1>3, <2>1, <2>2
    <3>2. b \in Own
      BY <2>1, <2>2 DEF AppliedInv, WritesOwn
    <3>3. WritesOwn'
      BY <1>2, <2>1, <3>1 DEF AppliedInv, WritesOwn, Idle
    <3> QED
      BY <1>1, <1>2, <2>1, <3>1, <3>2, <3>3 DEF AppliedInv, Idle
  <2>3. CASE call[t].kind # "produce"
    <3>1. /\ call' = [call EXCEPT ![t] = call'[t]]
          /\ call'[t].pc = "apply" /\ call'[t].kind = call[t].kind /\ call'[t].block = b
      BY <1>3, <2>1, <2>3 DEF CallType
    <3>2. WritesOwn'
      BY <1>2, <2>1, <2>3, <3>1 DEF AppliedInv, WritesOwn
    <3> QED
      BY <1>1, <1>2, <2>1, <3>1, <3>2 DEF AppliedInv
  <2> QED
    BY <2>2, <2>3
<1>9. CASE Apply(t)
  <2>1. /\ call[t].pc = "apply" /\ call' = [call EXCEPT ![t] = Idle]
        /\ applied' = [applied EXCEPT ![b] = @ + 1] /\ blocks' = blocks
    BY <1>9 DEF Apply, At, Return, maps
  <2>2. call'[t] = Idle /\ call' = [call EXCEPT ![t] = call'[t]]
    BY <1>3, <2>1
  <2>3. b \in blocks \ Own /\ applied[b] = 0 /\ b \in Blocks
    BY <1>0, <1>3, <2>1 DEF PutsAt, AppliedInv, WritesOwn, CallType
  <2>4. WritesOwn'
    BY <1>2, <2>1, <2>2 DEF AppliedInv, WritesOwn, Idle
  <2>5. \A c \in DOMAIN Parent : applied'[c] = IF c = b THEN 1 ELSE applied[c]
    BY <2>1, <2>3 DEF StorageInv, StorageTypes, Blocks
  <2> QED
    BY <1>1, <1>2, <2>1, <2>2, <2>3, <2>4, <2>5 DEF AppliedInv, Idle
<1> QED
  BY <1>4, <1>5, <1>6, <1>7, <1>8, <1>9 DEF InStore

(* The marks hold for every order of the two threads' steps.               *)
LEMMA AppliedNext == StorageInv /\ AppliedInv /\ [Next]_vars => AppliedInv'
<1> SUFFICES ASSUME StorageInv, AppliedInv, [Next]_vars PROVE AppliedInv'
  OBVIOUS
<1>1. ASSUME NEW t \in Threads, NEW what \in {"process", "walk", "produce"}, NEW b,
             Begin(t, what, b), what # "produce" /\ b \in Own => b \in blocks
      PROVE  AppliedInv'
  <2>1. /\ call' = [call EXCEPT ![t] = [pc |-> "lock", kind |-> what, block |-> b]]
        /\ call[t].pc = "idle" /\ UNCHANGED <<blocks, applied>>
    BY <1>1 DEF Begin, At, maps
  <2>2. /\ call'[t] = [pc |-> "lock", kind |-> what, block |-> b]
        /\ call' = [call EXCEPT ![t] = call'[t]]
    BY <2>1 DEF StorageInv, StorageTypes
  <2>3. call'[t].pc = "lock" /\ call'[t].kind = what /\ call'[t].block = b
    BY <2>2
  <2>4. call'[t].kind \in {"process", "walk"} /\ call'[t].block \in Own =>
          call'[t].block \in blocks
    BY <1>1, <2>3
  <2>5. call'[t].pc # "idle" => call'[t].kind # "none"
    BY <1>1, <2>3
  <2> HIDE <2>2
  <2> QED
    BY <2>1, <2>2, <2>3, <2>4, <2>5, AppliedOutside
<1>2. ASSUME NEW b \in DOMAIN Parent, GossipBlock(b) PROVE AppliedInv'
  <2>1. b \in Own => b \in blocks
    <3>1. mu = Nobody => states \subseteq blocks
      BY DEF StorageInv, MapsAgree
    <3>2. ASSUME NEW u \in Threads, mu = u PROVE states \subseteq blocks
      <4>1. PutsAt(u) /\ call[u].pc \in Pcs
        BY <3>2 DEF StorageInv, MapsAgree, StorageTypes, CallType
      <4> QED
        BY <4>1 DEF PutsAt, Pcs
    <3>3. states \subseteq blocks
      BY <3>1, <3>2 DEF StorageInv, StorageTypes
    <3> QED
      BY <1>2, <3>3 DEF GossipBlock
  <2> QED
    BY <1>1, <1>2, <2>1 DEF GossipBlock, Threads
<1>3. ASSUME NEW b \in DOMAIN Parent, WalkConnected(b) PROVE AppliedInv'
  BY <1>1, <1>3 DEF WalkConnected, Threads
<1>4. CASE Propose
  BY <1>1, <1>4 DEF Propose, Threads
<1>5. CASE MoveHead \/ GetStatus \/ UNCHANGED vars
  BY <1>5 DEF MoveHead, GetStatus, vars, maps, AppliedInv, WritesOwn
<1>6. ASSUME NEW t \in Threads, EnterStore(t) PROVE AppliedInv'
  <2>1. /\ call' = [call EXCEPT ![t].pc = "check"]
        /\ call[t].pc = "lock" /\ UNCHANGED <<blocks, applied>>
    BY <1>6 DEF EnterStore, Lock, At, Goto, maps
  <2>2. /\ call' = [call EXCEPT ![t] = call'[t]]
        /\ call'[t].pc = "check" /\ call'[t].kind = call[t].kind
        /\ call'[t].block = call[t].block
    BY <2>1 DEF StorageInv, StorageTypes, CallType
  <2>3. call[t].kind # "none"
    BY <2>1 DEF AppliedInv, WritesOwn
  <2>4. call[t].kind \in {"process", "walk"} /\ call[t].block \in Own =>
          call[t].block \in blocks
    BY DEF AppliedInv, WritesOwn
  <2> QED
    BY <2>1, <2>2, <2>3, <2>4, AppliedOutside
<1>7. ASSUME NEW t \in Threads, InStore(t) PROVE AppliedInv'
  BY <1>7, AppliedInside
<1> QED
  BY <1>2, <1>3, <1>4, <1>5, <1>6, <1>7 DEF Next

(* What holds when a call of ProcessBlock is over.                         *)
LEMMA DeliverySettled ==
  ASSUME StorageInv, AppliedInv, StorageInv', AppliedInv', [Next]_vars,
         NEW t \in Threads, Delivered(t)
  PROVE  LET b == call[t].block
         IN  \/ b \in Invalid /\ b \notin states'
             \/ b \in states' /\ applied'[b] = IF b \in Own THEN 0 ELSE 1
             \/ call[t].kind = "process" /\ Parent[b] \notin states
<1> DEFINE b == call[t].block
<1>1. b \in DOMAIN Parent /\ call[t].pc # "idle" /\ call'[t].pc = "idle"
  BY DEF Delivered, StorageInv, CallsGrounded, At
<1>2. call[t].kind \in {"process", "walk"} /\ call \in [Threads -> CallType]
  BY DEF Delivered, StorageInv, StorageTypes
<1>3. CheckBlock(t) \/ Apply(t)
  <2>1. ASSUME NEW u \in Threads, NEW r, call' = [call EXCEPT ![u] = r], r.pc # "idle"
        PROVE  FALSE
    BY <1>1, <1>2, <2>1
  <2>2. ASSUME NEW u \in Threads, NEW pc, call' = [call EXCEPT ![u].pc = pc], pc # "idle"
        PROVE  FALSE
    <3>1. call'[t].pc = call[t].pc \/ call'[t].pc = pc
      BY <1>2, <2>2 DEF CallType
    <3> QED
      BY <1>1, <2>2, <3>1
  <2>3. ASSUME NEW u \in Threads, u # t, call' = [call EXCEPT ![u] = Idle]
        PROVE  FALSE
    BY <1>1, <1>2, <2>3
  <2>4. ASSUME NEW u \in Threads, NEW what, NEW c, Begin(u, what, c) PROVE FALSE
    <3> DEFINE new == [pc |-> "lock", kind |-> what, block |-> c]
    <3>1. new.pc # "idle"
      OBVIOUS
    <3>2. call' = [call EXCEPT ![u] = new]
      BY <2>4 DEF Begin
    <3> HIDE DEF new
    <3> QED
      BY <2>1, <3>1, <3>2
  <2>5. CASE \E c \in DOMAIN Parent : GossipBlock(c) \/ WalkConnected(c)
    BY <2>4, <2>5 DEF GossipBlock, WalkConnected, Threads
  <2>6. CASE Propose \/ MoveHead \/ GetStatus \/ UNCHANGED vars
    BY <1>1, <2>4, <2>6 DEF Propose, MoveHead, GetStatus, vars, Threads
  <2>7. ASSUME NEW u \in Threads, EnterStore(u) PROVE FALSE
    BY <2>2, <2>7 DEF EnterStore, Lock, Goto
  <2>8. ASSUME NEW u \in Threads, PutBlock(u) \/ PutSignedBlock(u) PROVE FALSE
    BY <2>2, <2>8 DEF PutBlock, PutSignedBlock, Goto
  <2>9. ASSUME NEW u \in Threads, BuildBlock(u) PROVE FALSE
    <3>1. PICK c \in Own : call' = [call EXCEPT ![u].pc = "block", ![u].block = c]
      BY <2>9 DEF BuildBlock
    <3> QED
      BY <1>1, <1>2, <3>1 DEF CallType
  <2>10. ASSUME NEW u \in Threads, BuildFails(u) PROVE FALSE
    BY <1>2, <2>3, <2>10 DEF BuildFails, Return
  <2>11. ASSUME NEW u \in Threads, PutState(u) PROVE FALSE
    BY <1>2, <2>2, <2>3, <2>11 DEF PutState, Goto, Return
  <2>12. ASSUME NEW u \in Threads, CheckBlock(u) \/ Apply(u) PROVE u = t
    BY <2>2, <2>3, <2>12 DEF CheckBlock, Apply, Goto, Return
  <2> QED
    BY <2>5, <2>6, <2>7, <2>8, <2>9, <2>10, <2>11, <2>12 DEF Next, InStore
<1>4. CASE Apply(t)
  <2>1. call[t].pc = "apply" /\ states' = states /\ applied' = [applied EXCEPT ![b] = @ + 1]
    BY <1>4 DEF Apply, At, maps
  <2>2. PutsAt(t)
    BY <2>1, OtherWaits
  <2>3. b \in states /\ applied[b] = 0
    BY <2>1, <2>2 DEF PutsAt
  <2>4. b \notin Own
    BY <1>2, <2>1 DEF AppliedInv, WritesOwn
  <2>5. applied'[b] = 1
    BY <1>1, <2>1, <2>3 DEF StorageInv, StorageTypes, Blocks
  <2> QED
    BY <2>1, <2>3, <2>4, <2>5
<1>5. CASE CheckBlock(t)
  <2>1. /\ call[t].pc = "check" /\ UNCHANGED <<blocks, states, applied>>
        /\ b \in blocks \/ Parent[b] \notin states \/ b \in Invalid
    <3>1. ~ (call' = [call EXCEPT ![t].pc = "block"])
      BY <1>1, <1>2 DEF CallType
    <3> QED
      BY <1>5, <3>1 DEF CheckBlock, At, Goto, Known, maps
  <2>2. /\ PutsAt(t)
        /\ \A u \in Threads \ {t} : call[u].pc \in {"idle", "lock"}
    BY <2>1, OtherWaits
  <2>3. states = blocks
    BY <2>1, <2>2 DEF PutsAt
  <2>4. CASE b \in blocks
    <3>1. \A u \in Threads : call[u].pc \notin {"signed", "state", "apply"}
      BY <2>1, <2>2
    <3>2. applied[b] = IF b \in Own THEN 0 ELSE 1
      BY <1>1, <2>4, <3>1 DEF AppliedInv
    <3> QED
      BY <2>1, <2>3, <2>4, <3>2
  <2>5. CASE b \in Invalid
    BY <2>1, <2>3, <2>5 DEF AppliedInv
  <2>6. CASE b \notin blocks /\ Parent[b] \notin states
    <3>1. call[t].kind # "walk"
      BY <2>3, <2>6 DEF StorageInv, CallsGrounded
    <3> QED
      BY <1>2, <2>6, <3>1
  <2> QED
    BY <2>1, <2>4, <2>5, <2>6
<1> QED
  BY <1>3, <1>4, <1>5

(* DeliveryApplied: whatever the two threads do, a block that ProcessBlock *)
(* was given is stored and applied exactly once when the call is over,     *)
(* unless it is invalid, this node's own or a gossiped orphan.             *)
THEOREM DeliveredIsAppliedOnce == Spec => DeliveryApplied
<1>1. Init => AppliedInv
  BY StorageAssumption DEF Init, AppliedInv, WritesOwn, Idle, Threads, Blocks
<1>2. /\ StorageInv /\ AppliedInv /\ StorageInv' /\ AppliedInv' /\ [Next]_vars
      => [\A t \in Threads : Delivered(t) =>
            LET b == call[t].block
            IN  \/ b \in Invalid /\ b \notin states'
                \/ b \in states' /\ applied'[b] = IF b \in Own THEN 0 ELSE 1
                \/ call[t].kind = "process" /\ Parent[b] \notin states]_vars
  BY DeliverySettled
<1> QED
  BY <1>1, <1>2, AppliedNext, StorageInvariance, PTL DEF Spec, DeliveryApplied

-----------------------------------------------------------------------------
(* Gossip.                                                                 *)

(* What is hashed after the topic.                                         *)
Payload(data) == IF G!IsSnappy(data) THEN G!Decode(data) ELSE data

(* The data of every message is a sequence of bytes, and so is its content.*)
LEMMA WireBytes ==
  ASSUME NEW data \in G!Wire
  PROVE  data \in Seq(Nat) /\ Payload(data) \in Seq(Nat)
<1>1. Contents \subseteq Seq(Nat) /\ SnappyTags \subseteq Nat
  BY GossipAssumed DEF G!GossipAssumption
<1>2. CASE data \in Contents
  <2>1. ~ G!IsSnappy(data)
    BY <1>2, GossipAssumed DEF G!GossipAssumption, G!IsSnappy
  <2> QED
    BY <1>1, <1>2, <2>1 DEF Payload
<1>3. ASSUME NEW tag \in SnappyTags, NEW content \in Contents, data = G!Encode(tag, content)
      PROVE  data \in Seq(Nat) /\ Payload(data) \in Seq(Nat)
  <2>1. data = <<tag>> \o content /\ content \in Seq(Nat) /\ tag \in Nat
    BY <1>1, <1>3 DEF G!Encode
  <2>2. <<tag>> \in Seq(Nat)
    BY <2>1
  <2>3. data \in Seq(Nat) /\ data # << >>
    BY <2>1, <2>2
  <2>4. Tail(data) \in Seq(Nat)
    BY <2>3
  <2> QED
    BY <2>3, <2>4 DEF Payload, G!Decode
<1> QED
  BY <1>2, <1>3 DEF G!Wire

(* The length of a topic's name.                                           *)
NameLen(topic) == IF topic = G!Block THEN 2 ELSE 3

(* An id has the domain first, then the length of the topic's name, the    *)
(* name and the content.                                                   *)
HasParts(id, topic, data) ==
  /\ Len(id) = 2 + NameLen(topic) + Len(Payload(data))
  /\ id[1] = IF G!IsSnappy(data) THEN 1 ELSE 0
  /\ id[2] = NameLen(topic)
  /\ \A k \in 1 .. Len(Payload(data)) : id[2 + NameLen(topic) + k] = Payload(data)[k]

(* So has the id ComputeMessageID returns.                                 *)
LEMMA MessageIDIs ==
  ASSUME NEW topic \in G!Topics, NEW data \in G!Wire
  PROVE  HasParts(G!ComputeMessageID(topic, data), topic, data)
<1> DEFINE id == G!ComputeMessageID(topic, data)
           name == G!TopicBytes(topic)
           dom == IF G!IsSnappy(data) THEN 1 ELSE 0
           first == <<dom, Len(name)>>
           p == Payload(data)
           front == first \o name
<1>1. name \in Seq(Nat) /\ Len(name) = NameLen(topic) /\ NameLen(topic) \in {2, 3}
  BY DEF G!TopicBytes, NameLen
<1>2. id = front \o p
  BY DEF G!ComputeMessageID, G!DomainValidSnappy, G!DomainInvalidSnappy, Payload
<1>3. dom \in Nat
  OBVIOUS
<1> HIDE DEF id, name, p, dom
<1>4. first \in Seq(Nat) /\ Len(first) = 2 /\ first[1] = dom /\ first[2] = NameLen(topic)
  BY <1>1, <1>3
<1>5. p \in Seq(Nat)
  BY WireBytes DEF p
<1> HIDE DEF first
<1>6. /\ front \in Seq(Nat) /\ Len(front) = 2 + NameLen(topic)
      /\ front[1] = dom /\ front[2] = NameLen(topic)
  <2>1. /\ front \in Seq(Nat) /\ Len(front) = Len(first) + Len(name)
        /\ \A i \in 1 .. Len(first) + Len(name) :
             front[i] = IF i <= Len(first) THEN first[i] ELSE name[i - Len(first)]
    BY <1>1, <1>4, ConcatProperties
  <2> HIDE DEF front
  <2> QED
    BY <1>1, <1>4, <2>1
<1> HIDE DEF front
<1>7. /\ Len(id) = Len(front) + Len(p)
      /\ \A i \in 1 .. Len(front) + Len(p) :
           id[i] = IF i <= Len(front) THEN front[i] ELSE p[i - Len(front)]
  BY <1>2, <1>5, <1>6, ConcatProperties
<1>8. Len(p) \in Nat
  BY <1>5
<1>9. /\ Len(id) = 2 + NameLen(topic) + Len(p)
      /\ id[1] = dom /\ id[2] = NameLen(topic)
      /\ \A k \in 1 .. Len(p) : id[2 + NameLen(topic) + k] = p[k]
  <2> DEFINE n == NameLen(topic)
  <2>1. n \in Nat /\ Len(front) = 2 + n
    BY <1>1, <1>6
  <2>2. ASSUME NEW k \in 1 .. Len(p) PROVE id[2 + n + k] = p[k]
    <3>1. 2 + n + k \in 1 .. Len(front) + Len(p)
      BY <1>8, <2>1
    <3>2. ~ (2 + n + k <= Len(front)) /\ (2 + n + k) - Len(front) = k
      BY <1>8, <2>1
    <3> HIDE DEF n
    <3> QED
      BY <1>7, <3>1, <3>2
  <2>3. id[1] = front[1] /\ id[2] = front[2]
    BY <1>7, <1>8, <2>1
  <2> QED
    BY <1>6, <1>7, <2>1, <2>2, <2>3
<1> QED
  BY <1>9 DEF HasParts, id, p, dom

(* Equal ids, equal messages: neither the domain nor the topic's name can  *)
(* be taken for a part of the content.                                     *)
LEMMA IdsTellApart ==
  ASSUME NEW t \in G!Topics, NEW d \in G!Wire, NEW u \in G!Topics, NEW e \in G!Wire,
         G!ComputeMessageID(t, d) = G!ComputeMessageID(u, e)
  PROVE  t = u /\ (G!IsSnappy(d) <=> G!IsSnappy(e)) /\ Payload(d) = Payload(e)
<1> DEFINE id == G!ComputeMessageID(t, d)
<1>1. HasParts(id, t, d)
  BY MessageIDIs
<1>2. HasParts(id, u, e)
  BY MessageIDIs
<1> HIDE DEF id
<1>3. G!IsSnappy(d) <=> G!IsSnappy(e)
  BY <1>1, <1>2 DEF HasParts
<1>4. t = u
  <2>1. NameLen(t) = NameLen(u)
    BY <1>1, <1>2 DEF HasParts
  <2> QED
    BY <2>1 DEF NameLen, G!Topics, G!Block, G!Attestation
<1>5. Payload(d) \in Seq(Nat) /\ Payload(e) \in Seq(Nat)
  BY WireBytes
<1>6. NameLen(t) \in Nat
  BY DEF NameLen
<1> DEFINE p == Payload(d)
           q == Payload(e)
<1>7. /\ Len(p) = Len(q)
      /\ \A k \in 1 .. Len(p) : p[k] = id[2 + NameLen(t) + k]
      /\ \A k \in 1 .. Len(q) : q[k] = id[2 + NameLen(t) + k]
  BY <1>1, <1>2, <1>4, <1>5, <1>6 DEF HasParts
<1> HIDE DEF p, q
<1>8. p = q
  BY <1>5, <1>7, SeqEqual DEF p, q
<1> QED
  BY <1>3, <1>4, <1>8 DEF p, q

(* What the log holds.                                                     *)
Ids == {G!ComputeMessageID(t, d) : t \in G!Topics, d \in G!Wire}
Messages == [what : {"accepted", "dropped"}, topic : G!Topics, data : G!Wire, id : Ids]
Events == Messages \cup [what : {"expired"}, id : Ids]

Identified(e) == e \in Messages /\ e.id = G!ComputeMessageID(e.topic, e.data)

(* ComputeMessageID tells messages apart and nothing else.                 *)
LEMMA SameIds ==
  ASSUME NEW e, NEW f, Identified(e), Identified(f)
  PROVE  G!SameMessage(e, f) <=> e.id = f.id
<1>1. e.topic \in G!Topics /\ e.data \in G!Wire /\ f.topic \in G!Topics /\ f.data \in G!Wire
  BY DEF Identified, Messages
<1>2. e.id = G!ComputeMessageID(e.topic, e.data) /\ f.id = G!ComputeMessageID(f.topic, f.data)
  BY DEF Identified
<1>3. ASSUME G!SameMessage(e, f) PROVE e.id = f.id
  BY <1>2, <1>3 DEF G!SameMessage, G!ComputeMessageID
<1>4. ASSUME e.id = f.id PROVE G!SameMessage(e, f)
  <2>0. G!ComputeMessageID(e.topic, e.data) = G!ComputeMessageID(f.topic, f.data)
    BY <1>2, <1>4
  <2>1. /\ e.topic = f.topic /\ (G!IsSnappy(e.data) <=> G!IsSnappy(f.data))
        /\ Payload(e.data) = Payload(f.data)
    <3>1. \A t, u \in G!Topics : \A d, x \in G!Wire :
            G!ComputeMessageID(t, d) = G!ComputeMessageID(u, x) =>
              t = u /\ (G!IsSnappy(d) <=> G!IsSnappy(x)) /\ Payload(d) = Payload(x)
      BY IdsTellApart
    <3> DEFINE t == e.topic
               u == f.topic
               d == e.data
               x == f.data
    <3>2. /\ t \in G!Topics /\ u \in G!Topics /\ d \in G!Wire /\ x \in G!Wire
          /\ G!ComputeMessageID(t, d) = G!ComputeMessageID(u, x)
      BY <1>1, <2>0
    <3> HIDE DEF t, u, d, x
    <3>3. t = u /\ (G!IsSnappy(d) <=> G!IsSnappy(x)) /\ Payload(d) = Payload(x)
      BY <3>1, <3>2
    <3> QED
      BY <3>3 DEF t, u, d, x
  <2>2. CASE G!IsSnappy(e.data)
    BY <2>1, <2>2 DEF G!SameMessage, Payload
  <2>3. CASE ~ G!IsSnappy(e.data)
    BY <2>1, <2>3 DEF G!SameMessage, Payload
  <2> QED
    BY <2>2, <2>3
<1> QED
  BY <1>3, <1>4

Accepted(l, i, id) == l[i].what = "accepted" /\ l[i].id = id
Expired(l, i, id) == l[i].what = "expired" /\ l[i].id = id

(* The message with this id was accepted and has not expired since.        *)
Live(l, id) ==
  \E j \in 1 .. Len(l) :
    Accepted(l, j, id) /\ \A k \in j + 1 .. Len(l) : ~ Expired(l, k, id)

(* The inductive invariant: the cache holds the ids that are live.         *)
GossipInv ==
  /\ log \in Seq(Events) /\ seen \subseteq Ids
  /\ \A i \in 1 .. Len(log) : log[i].what # "expired" => Identified(log[i])
  /\ \A id \in Ids : id \in seen <=> Live(log, id)
  /\ SeenMeansSame

(* Nothing was seen.                                                       *)
LEMMA GossipInit == G!Init => GossipInv
BY DEF G!Init, GossipInv, Live, SeenMeansSame, G!SeenMeansSame, G!NothingShadowed,
   G!NotHandledTwice

(* The log grows by an event at its end.                                   *)
LEMMA LogGrows ==
  ASSUME GossipInv, NEW e \in Events, log' = Append(log, e)
  PROVE  /\ log' \in Seq(Events) /\ Len(log') = Len(log) + 1 /\ Len(log) \in Nat
         /\ log'[Len(log) + 1] = e
         /\ \A i \in 1 .. Len(log) : log'[i] = log[i]
BY AppendProperties DEF GossipInv

(* What is live after an event.                                            *)
LEMMA LiveNext ==
  ASSUME GossipInv, NEW e \in Events, log' = Append(log, e), NEW id \in Ids
  PROVE  Live(log', id) <=> \/ e.what = "accepted" /\ e.id = id
                            \/ Live(log, id) /\ ~ (e.what = "expired" /\ e.id = id)
<1> DEFINE n == Len(log)
<1>1. /\ Len(log') = n + 1 /\ n \in Nat /\ log'[n + 1] = e
      /\ \A i \in 1 .. n : log'[i] = log[i]
  BY LogGrows
<1> HIDE DEF n
<1>2. ASSUME Live(log', id), ~ (e.what = "accepted" /\ e.id = id)
      PROVE  Live(log, id) /\ ~ (e.what = "expired" /\ e.id = id)
  <2>1. PICK j \in 1 .. n + 1 :
          Accepted(log', j, id) /\ \A k \in j + 1 .. n + 1 : ~ Expired(log', k, id)
    BY <1>1, <1>2 DEF Live
  <2>2. j # n + 1
    BY <1>1, <1>2, <2>1 DEF Accepted
  <2>3. Accepted(log, j, id) /\ \A k \in j + 1 .. n : ~ Expired(log, k, id)
    BY <1>1, <2>1, <2>2 DEF Accepted, Expired
  <2>4. ~ Expired(log', n + 1, id)
    BY <1>1, <2>1, <2>2
  <2> QED
    BY <1>1, <2>1, <2>2, <2>3, <2>4 DEF Live, Expired, n
<1>3. ASSUME e.what = "accepted" /\ e.id = id PROVE Live(log', id)
  <2>1. n + 1 \in 1 .. n + 1 /\ Accepted(log', n + 1, id)
    BY <1>1, <1>3 DEF Accepted
  <2>2. \A k \in (n + 1) + 1 .. n + 1 : ~ Expired(log', k, id)
    BY <1>1
  <2> QED
    BY <1>1, <2>1, <2>2 DEF Live
<1>4. ASSUME Live(log, id), ~ (e.what = "expired" /\ e.id = id) PROVE Live(log', id)
  <2>1. PICK j \in 1 .. n :
          Accepted(log, j, id) /\ \A k \in j + 1 .. n : ~ Expired(log, k, id)
    BY <1>4 DEF Live, n
  <2>2. j \in 1 .. n + 1 /\ Accepted(log', j, id)
    BY <1>1, <2>1 DEF Accepted
  <2>3. \A k \in j + 1 .. n + 1 : ~ Expired(log', k, id)
    BY <1>1, <1>4, <2>1 DEF Expired
  <2> QED
    BY <1>1, <2>2, <2>3 DEF Live
<1> QED
  BY <1>2, <1>3, <1>4

(* The properties of the log hold with one more event: a message that is   *)
(* dropped was live, one that is accepted was not.                         *)
LEMMA LogKeepsSame ==
  ASSUME GossipInv, NEW e \in Events, log' = Append(log, e),
         e.what # "expired" => Identified(e),
         e.what = "dropped" => Live(log, e.id),
         e.what = "accepted" => ~ Live(log, e.id)
  PROVE  /\ SeenMeansSame'
         /\ \A i \in 1 .. Len(log') : log'[i].what # "expired" => Identified(log'[i])
<1> DEFINE n == Len(log)
<1>1. /\ Len(log') = n + 1 /\ n \in Nat /\ log'[n + 1] = e
      /\ \A i \in 1 .. n : log'[i] = log[i]
      /\ DOMAIN log = 1 .. n /\ DOMAIN log' = 1 .. n + 1
  BY LogGrows DEF GossipInv
<1>2. \A i \in 1 .. n : log[i].what # "expired" => Identified(log[i])
  BY DEF GossipInv
<1> HIDE DEF n
<1>3. G!NothingShadowed'
  <2> SUFFICES ASSUME NEW i \in 1 .. n + 1, log'[i].what = "dropped"
               PROVE  \E j \in 1 .. i - 1 :
                        log'[j].what = "accepted" /\ G!SameMessage(log'[i], log'[j])
    BY <1>1 DEF G!NothingShadowed
  <2>1. CASE i \in 1 .. n
    <3>1. PICK j \in 1 .. i - 1 : log[j].what = "accepted" /\ G!SameMessage(log[i], log[j])
      BY <1>1, <2>1 DEF GossipInv, SeenMeansSame, G!SeenMeansSame, G!NothingShadowed
    <3>2. log'[j] = log[j] /\ log'[i] = log[i]
      BY <1>1, <2>1
    <3> QED
      BY <3>1, <3>2
  <2>2. CASE i = n + 1
    <3>1. PICK j \in 1 .. n : Accepted(log, j, e.id)
      BY <1>1, <2>2 DEF Live, n
    <3>2. log'[j] = log[j] /\ Identified(log[j]) /\ Identified(e)
      BY <1>1, <1>2, <2>2, <3>1 DEF Accepted
    <3>3. G!SameMessage(e, log[j])
      BY <3>1, <3>2, SameIds DEF Accepted
    <3> QED
      BY <1>1, <2>2, <3>1, <3>2, <3>3 DEF Accepted
  <2> QED
    BY <1>1, <2>1, <2>2
<1>4. G!NotHandledTwice'
  <2> SUFFICES ASSUME NEW i \in 1 .. n + 1, NEW j \in 1 .. n + 1, i < j,
                      log'[i].what = "accepted", log'[j].what = "accepted",
                      G!SameMessage(log'[i], log'[j])
               PROVE  \E k \in i + 1 .. j - 1 :
                        log'[k].what = "expired" /\ log'[k].id = log'[i].id
    BY <1>1 DEF G!NotHandledTwice
  <2>0. i \in 1 .. n /\ log'[i] = log[i]
    BY <1>1
  <2>1. CASE j \in 1 .. n
    <3>1. PICK k \in i + 1 .. j - 1 : log[k].what = "expired" /\ log[k].id = log[i].id
      BY <1>1, <2>0, <2>1 DEF GossipInv, SeenMeansSame, G!SeenMeansSame, G!NotHandledTwice
    <3>2. log'[k] = log[k]
      BY <1>1, <2>1
    <3> QED
      BY <2>0, <3>1, <3>2
  <2>2. CASE j = n + 1
    <3>1. Identified(log[i]) /\ Identified(e) /\ log[i].id = e.id
      BY <1>1, <1>2, <2>0, <2>2, SameIds
    <3>2. Accepted(log, i, e.id) /\ ~ Live(log, e.id)
      BY <1>1, <2>0, <2>2, <3>1 DEF Accepted
    <3>3. PICK k \in i + 1 .. n : Expired(log, k, e.id)
      BY <2>0, <3>2 DEF Live, n
    <3> QED
      BY <1>1, <2>0, <2>2, <3>1, <3>3 DEF Expired
  <2> QED
    BY <1>1, <2>1, <2>2
<1>5. ASSUME NEW i \in 1 .. Len(log'), log'[i].what # "expired"
      PROVE  Identified(log'[i])
  BY <1>1, <1>2, <1>5
<1> QED
  BY <1>3, <1>4, <1>5 DEF SeenMeansSame, G!SeenMeansSame

(* The cache follows the log.                                              *)
LEMMA DeliverInv ==
  ASSUME GossipInv, NEW topic \in G!Topics, NEW data \in G!Wire, G!Deliver(topic, data)
  PROVE  GossipInv'
<1> DEFINE id == G!ComputeMessageID(topic, data)
           event(what) == [what |-> what, topic |-> topic, data |-> data, id |-> id]
<1>1. id \in Ids
  BY DEF Ids
<1>2. \A what \in {"accepted", "dropped"} :
        event(what) \in Events /\ Identified(event(what))
  <2> SUFFICES ASSUME NEW what \in {"accepted", "dropped"}
               PROVE  event(what) \in Events /\ Identified(event(what))
    OBVIOUS
  <2>1. event(what).id = G!ComputeMessageID(event(what).topic, event(what).data)
    OBVIOUS
  <2> HIDE DEF id
  <2>2. event(what) \in Messages
    BY <1>1 DEF Messages
  <2> QED
    BY <2>1, <2>2 DEF Events, Identified
<1>3. CASE id \in seen
  <2>1. log' = Append(log, event("dropped")) /\ seen' = seen
    BY <1>3 DEF G!Deliver
  <2>2. event("dropped") \in Events /\ Identified(event("dropped"))
    BY <1>2
  <2>3. Live(log, id)
    BY <1>1, <1>3 DEF GossipInv
  <2> DEFINE e == event("dropped")
  <2>4. e.what = "dropped" /\ e.id = id
    OBVIOUS
  <2> HIDE DEF e, id
  <2>5. \A x \in Ids : Live(log', x) <=> Live(log, x)
    BY <2>1, <2>2, <2>4, LiveNext DEF e
  <2>6. /\ SeenMeansSame'
        /\ \A i \in 1 .. Len(log') : log'[i].what # "expired" => Identified(log'[i])
    BY <2>1, <2>2, <2>3, <2>4, LogKeepsSame DEF e
  <2>7. log' \in Seq(Events)
    BY <2>1, <2>2, LogGrows
  <2> QED
    BY <2>1, <2>5, <2>6, <2>7 DEF GossipInv
<1>4. CASE id \notin seen
  <2>1. log' = Append(log, event("accepted")) /\ seen' = seen \cup {id}
    BY <1>4 DEF G!Deliver
  <2>2. event("accepted") \in Events /\ Identified(event("accepted"))
    BY <1>2
  <2>3. ~ Live(log, id)
    BY <1>1, <1>4 DEF GossipInv
  <2> DEFINE e == event("accepted")
  <2>4. e.what = "accepted" /\ e.id = id
    OBVIOUS
  <2> HIDE DEF e, id
  <2>5. \A x \in Ids : Live(log', x) <=> x = id \/ Live(log, x)
    BY <2>1, <2>2, <2>4, LiveNext DEF e
  <2>6. /\ SeenMeansSame'
        /\ \A i \in 1 .. Len(log') : log'[i].what # "expired" => Identified(log'[i])
    BY <2>1, <2>2, <2>3, <2>4, LogKeepsSame DEF e
  <2>7. log' \in Seq(Events)
    BY <2>1, <2>2, LogGrows
  <2> QED
    BY <1>1, <2>1, <2>5, <2>6, <2>7 DEF GossipInv
<1> QED
  BY <1>3, <1>4

(* Arrivals, publications and expiries, in any order.                      *)
LEMMA GossipNext == GossipInv /\ [G!Next]_(G!vars) => GossipInv'
<1> SUFFICES ASSUME GossipInv, [G!Next]_(G!vars) PROVE GossipInv'
  OBVIOUS
<1>1. ASSUME NEW topic \in G!Topics, NEW data \in G!Wire, G!Arrive(topic, data)
      PROVE  GossipInv'
  BY <1>1, DeliverInv DEF G!Arrive
<1>2. ASSUME NEW topic \in G!Topics, NEW content \in Contents, G!Publish(topic, content)
      PROVE  GossipInv'
  <2>1. PICK tag \in SnappyTags : G!Arrive(topic, G!Encode(tag, content))
    BY <1>2 DEF G!Publish
  <2>2. G!Encode(tag, content) \in G!Wire
    BY DEF G!Wire
  <2> QED
    BY <1>1, <2>1, <2>2
<1>3. ASSUME NEW topic \in G!Topics, G!Read(topic) PROVE GossipInv'
  <2>1. UNCHANGED <<seen, log>>
    BY <1>3 DEF G!Read
  <2> QED
    BY <2>1 DEF GossipInv, Live, Accepted, Expired, SeenMeansSame, G!SeenMeansSame,
       G!NothingShadowed, G!NotHandledTwice
<1>4. ASSUME NEW id \in seen, G!Expire(id) PROVE GossipInv'
  <2> DEFINE e == [what |-> "expired", id |-> id]
  <2>1. log' = Append(log, e) /\ seen' = seen \ {id}
    BY <1>4 DEF G!Expire
  <2>2. id \in Ids
    BY DEF GossipInv
  <2>3. e \in Events /\ e.what = "expired" /\ e.id = id
    BY <2>2 DEF Events
  <2> HIDE DEF e
  <2>4. \A x \in Ids : Live(log', x) <=> Live(log, x) /\ x # id
    BY <2>1, <2>3, LiveNext
  <2>5. /\ SeenMeansSame'
        /\ \A i \in 1 .. Len(log') : log'[i].what # "expired" => Identified(log'[i])
    BY <2>1, <2>3, LogKeepsSame
  <2>6. log' \in Seq(Events)
    BY <2>1, <2>3, LogGrows
  <2> QED
    BY <2>1, <2>4, <2>5, <2>6 DEF GossipInv
<1>5. CASE UNCHANGED G!vars
  BY <1>5 DEF G!vars, GossipInv, Live, Accepted, Expired, SeenMeansSame, G!SeenMeansSame,
     G!NothingShadowed, G!NotHandledTwice
<1> QED
  BY <1>1, <1>2, <1>3, <1>4, <1>5 DEF G!Next

(* The cache holds the ids that were accepted and have not expired.        *)
THEOREM GossipInvariance == G!Spec => []GossipInv
BY GossipInit, GossipNext, PTL DEF G!Spec

(* SeenMeansSame: no message shadows another, and none is handed on twice  *)
(* while its id is cached, for any contents and encodings, any number of   *)
(* messages and any order of arrival and expiry.                           *)
THEOREM GossipSeenMeansSame == G!Spec => []SeenMeansSame
<1>1. GossipInv => SeenMeansSame
  BY DEF GossipInv
<1> QED
  BY <1>1, GossipInvariance, PTL

-----------------------------------------------------------------------------
(* Requests and answers.                                                   *)

(* The least element of a set of naturals.                                 *)
LEMMA SmallestOf ==
  ASSUME NEW T \in SUBSET Nat, T # {}
  PROVE  \E m \in T : \A y \in T : m <= y
<1>1. IsWellFoundedOn(OpToRel(<, Nat), Nat)
  BY NatLessThanWellFounded, Zenon
<1>2. PICK m \in T : \A y \in T : ~ (<<y, m>> \in OpToRel(<, Nat))
  BY <1>1, WFMin, Zenon
<1>3. \A y \in T : ~ (y < m)
  BY <1>2, Zenon DEF OpToRel
<1> QED
  BY <1>3

(* Induction on the numbers up to n, for a set of them.                    *)
LEMMA UpToN ==
  ASSUME NEW n \in Nat, NEW T, 0 \in T, \A i \in 1 .. n : i - 1 \in T => i \in T
  PROVE  0 .. n \subseteq T
<1> DEFINE Bad == {i \in 0 .. n : i \notin T}
<1> SUFFICES ASSUME Bad # {} PROVE FALSE
  OBVIOUS
<1>1. Bad \in SUBSET Nat
  OBVIOUS
<1>2. PICK m \in Bad : \A y \in Bad : m <= y
  <2> HIDE DEF Bad
  <2> QED
    BY <1>1, SmallestOf
<1>3. m \in 1 .. n
  BY <1>2
<1>4. m - 1 \in 0 .. n /\ ~ (m <= m - 1)
  BY <1>3
<1>5. m - 1 \notin Bad
  <2> HIDE DEF Bad
  <2> QED
    BY <1>2, <1>4
<1> QED
  BY <1>2, <1>3, <1>4, <1>5

(* The loop of OnBlocksByRoot: the blocks found in the first i roots.      *)
FoundIn(f, i) ==
  IF i = 0 THEN << >>
  ELSE IF request[i] \in Stored THEN Append(f[i - 1], request[i])
  ELSE f[i - 1]

(* What it has after every round.                                          *)
LEMMA LoopExists ==
  ASSUME NEW n \in Nat
  PROVE  \E f : f = [i \in 0 .. n |-> FoundIn(f, i)]
<1> DEFINE T == {m \in 0 .. n : \E f : f = [i \in 0 .. m |-> FoundIn(f, i)]}
<1>1. 0 \in T
  <2> DEFINE f == [i \in 0 .. 0 |-> << >>]
  <2>1. f = [i \in 0 .. 0 |-> FoundIn(f, i)]
    BY DEF FoundIn
  <2> QED
    BY <2>1
<1>2. ASSUME NEW m \in 1 .. n, m - 1 \in T PROVE m \in T
  <2>1. PICK f : f = [i \in 0 .. m - 1 |-> FoundIn(f, i)]
    BY <1>2
  <2> DEFINE g == [i \in 0 .. m |-> IF i < m THEN f[i] ELSE FoundIn(f, i)]
  <2>2. \A i \in 0 .. m : g[i] = FoundIn(f, i)
    <3> SUFFICES ASSUME NEW i \in 0 .. m PROVE g[i] = FoundIn(f, i)
      OBVIOUS
    <3>1. CASE i < m
      <4>1. i \in 0 .. m - 1
        BY <3>1
      <4>2. f[i] = FoundIn(f, i)
        BY <2>1, <4>1
      <4> QED
        BY <3>1, <4>2
    <3>2. CASE ~ (i < m)
      BY <3>2
    <3> QED
      BY <3>1, <3>2
  <2>3. \A i \in 1 .. m : g[i - 1] = f[i - 1]
    OBVIOUS
  <2>4. \A i \in 0 .. m : FoundIn(g, i) = FoundIn(f, i)
    <3> HIDE DEF g
    <3> QED
      BY <2>3 DEF FoundIn
  <2>5. g = [i \in 0 .. m |-> g[i]]
    OBVIOUS
  <2> HIDE DEF g
  <2>6. g = [i \in 0 .. m |-> FoundIn(g, i)]
    BY <2>2, <2>4, <2>5
  <2> QED
    BY <2>6
<1>3. 0 .. n \subseteq T
  <2> HIDE DEF T
  <2> QED
    BY <1>1, <1>2, UpToN
<1> QED
  BY <1>3

(* OnBlocksByRoot returns the blocks it has of the roots it was asked for, *)
(* and no others.                                                          *)
LEMMA AvailableIs ==
  ASSUME request \in Seq(Roots)
  PROVE  /\ R!Available \in Seq(Roots)
         /\ {R!Available[k] : k \in 1 .. Len(R!Available)}
              = {request[i] : i \in 1 .. Len(request)} \cap Stored
<1> DEFINE n == Len(request)
           P(f) == f = [i \in 0 .. n |-> FoundIn(f, i)]
           c == CHOOSE f : P(f)
<1>0. n \in Nat
  OBVIOUS
<1>1. \E f : P(f)
  <2> HIDE DEF n
  <2> QED
    BY <1>0, LoopExists
<1>2. P(c)
  <2> HIDE DEF P
  <2> QED
    BY <1>1
<1>3. R!Available = c[n]
  BY DEF R!Available, FoundIn
<1> HIDE DEF c
<1>4. \A i \in 0 .. n : c[i] = FoundIn(c, i)
  BY <1>2
<1> DEFINE Vals(s) == {s[k] : k \in 1 .. Len(s)}
           T == {i \in 0 .. n : /\ c[i] \in Seq(Roots)
                                /\ Vals(c[i]) = {request[k] : k \in 1 .. i} \cap Stored}
<1>5. 0 \in T
  <2>1. c[0] = << >>
    BY <1>0, <1>4 DEF FoundIn
  <2>2. << >> \in Seq(Roots) /\ Vals(<< >>) = {}
    OBVIOUS
  <2>3. {request[k] : k \in 1 .. 0} = {}
    OBVIOUS
  <2>4. 0 \in 0 .. n
    BY <1>0
  <2> QED
    BY <2>1, <2>2, <2>3, <2>4
<1>6. ASSUME NEW i \in 1 .. n, i - 1 \in T PROVE i \in T
  <2>1. /\ c[i - 1] \in Seq(Roots) /\ i \in 0 .. n /\ i # 0
        /\ Vals(c[i - 1]) = {request[k] : k \in 1 .. i - 1} \cap Stored
    <3> HIDE DEF n, Vals
    <3> QED
      BY <1>0, <1>6
  <2>2. request[i] \in Roots
    OBVIOUS
  <2>3. {request[k] : k \in 1 .. i} = {request[k] : k \in 1 .. i - 1} \cup {request[i]}
    <3>1. 1 .. i = (1 .. i - 1) \cup {i}
      BY <1>0
    <3> QED
      BY <3>1
  <2>4. c[i] = IF request[i] \in Stored THEN Append(c[i - 1], request[i]) ELSE c[i - 1]
    BY <1>4, <2>1 DEF FoundIn
  <2>5. CASE request[i] \in Stored
    <3> DEFINE s == c[i - 1]
               t == Append(s, request[i])
    <3>1. /\ t \in Seq(Roots) /\ Len(t) = Len(s) + 1 /\ Len(s) \in Nat
          /\ \A k \in 1 .. Len(s) : t[k] = s[k]
          /\ t[Len(s) + 1] = request[i]
      BY <2>1, <2>2, AppendProperties
    <3> HIDE DEF s, t
    <3>2. 1 .. Len(t) = (1 .. Len(s)) \cup {Len(s) + 1}
      BY <3>1
    <3>3. Vals(t) = Vals(s) \cup {request[i]}
      BY <3>1, <3>2
    <3>4. c[i] = t /\ s = c[i - 1]
      BY <2>4, <2>5 DEF s, t
    <3> HIDE DEF Vals
    <3>5. Vals(c[i]) = {request[k] : k \in 1 .. i} \cap Stored
      BY <2>1, <2>3, <2>5, <3>3, <3>4
    <3> QED
      BY <2>1, <3>1, <3>4, <3>5
  <2>6. CASE request[i] \notin Stored
    <3>1. c[i] = c[i - 1]
      BY <2>4, <2>6
    <3> HIDE DEF Vals
    <3>2. Vals(c[i]) = {request[k] : k \in 1 .. i} \cap Stored
      BY <2>1, <2>3, <2>6, <3>1
    <3> QED
      BY <2>1, <3>1, <3>2
  <2> QED
    BY <2>5, <2>6
<1>7. 0 .. n \subseteq T
  <2> HIDE DEF T, n
  <2> QED
    BY <1>0, <1>5, <1>6, UpToN
<1>8. n \in T
  <2> HIDE DEF T, n
  <2> QED
    BY <1>0, <1>7
<1> QED
  BY <1>3, <1>8

(* What the server has to send, and how much of it is sent.                *)
Items == IF kind = "status" THEN <<R!Status>> ELSE R!Available
Sent == Len(Items) - Len(sendQueue)
TooLong == Len(request) > MaxRequestBlocks

Tokens ==
  {R!Code(TRUE), R!Code(FALSE)} \cup
  {R!Frame(x, TRUE) : x \in Roots \cup {R!Status}} \cup
  {R!Frame(x, FALSE) : x \in Roots \cup {R!Status}}

ReqrespTypes ==
  /\ kind \in {"status", "blocks"} /\ request \in Seq(Roots)
  /\ cpc \in {"open", "code", "frame", "done"}
  /\ spc \in {"none", "read", "code", "frame", "closed"}
  /\ stream \in {"open", "eof", "reset"} /\ outcome \in {"none", "ok", "error"}
  /\ got \in Seq(Roots) /\ sendQueue \in Seq(Roots \cup {R!Status}) /\ down \in Seq(Tokens)

(* How far client, server and stream can be apart.                         *)
Stages ==
  /\ outcome = "none" <=> cpc # "done"
  /\ cpc = "open" => spc = "none" /\ got = << >> /\ down = << >> /\ stream = "open"
  /\ spc = "none" => cpc \in {"open", "done"}
  /\ stream = "reset" => down = << >>
  /\ stream = "eof" => spc = "closed"
  /\ spc = "closed" => stream # "open"

(* The server has the end of its list before it.                           *)
ServerInv ==
  /\ spc \in {"code", "frame"} =>
       /\ Len(sendQueue) <= Len(Items)
       /\ \A i \in 1 .. Len(sendQueue) : sendQueue[i] = Items[Sent + i]
  /\ spc = "frame" => sendQueue # << >>

(* The client has read m frames, and kept some or all of the blocks.       *)
GotTo(m) ==
  /\ kind = "status" => got = << >>
  /\ kind = "blocks" =>
       \E at \in [1 .. Len(got) -> 1 .. m] :
         /\ \A i, j \in 1 .. Len(got) : i < j => at[i] < at[j]
         /\ \A i \in 1 .. Len(got) : got[i] = Items[at[i]]
  /\ kind = "blocks" /\ ~ foreign =>
       Len(got) = m /\ \A i \in 1 .. m : got[i] = Items[i]

Parity == IF cpc = "frame" THEN 1 ELSE 0

FrameOf(x) == {R!Frame(x, TRUE)} \cup (IF foreign THEN {R!Frame(x, FALSE)} ELSE {})
CodeOf == {R!Code(TRUE)} \cup (IF foreign THEN {R!Code(FALSE)} ELSE {})

(* What is on its way continues where the client is: codes and frames in   *)
(* turn, the frames in order.                                              *)
InFlight(m) ==
  \A p \in 1 .. Len(down) : \A j \in 1 .. Len(down) + 1 :
    /\ p + Parity = 2 * j => m + j <= Len(Items) /\ down[p] \in FrameOf(Items[m + j])
    /\ p + Parity = 2 * j - 1 => down[p] \in CodeOf

(* It ends where the server is, or where it closed the stream: after the   *)
(* last block, or after a code that has no frame.                          *)
FlightEnds(m) ==
  /\ stream = "open" =>
       /\ spc = "read" => m = 0 /\ Len(down) + Parity = 0
       /\ spc = "code" => Len(down) + Parity = 2 * (Sent - m)
       /\ spc = "frame" => Len(down) + Parity = 2 * (Sent - m) + 1
  /\ stream = "eof" /\ ~ foreign =>
       \/ TooLong
       \/ \E h \in 0 .. Len(down) : Len(down) + Parity = 2 * h + 1
       \/ Len(down) + Parity = 2 * (Len(Items) - m)

Complete ==
  kind = "blocks" /\ ~ foreign /\ outcome = "ok" => TooLong \/ got = Items

(* The inductive invariant.                                                *)
ReqrespInv ==
  /\ ReqrespTypes /\ Stages /\ ServerInv /\ Complete
  /\ \E m \in 0 .. Len(Items) :
       GotTo(m) /\ (cpc \in {"code", "frame"} => InFlight(m) /\ FlightEnds(m))

(* The list is a sequence.                                                 *)
LEMMA ItemsIs ==
  ASSUME ReqrespTypes
  PROVE  /\ Items \in Seq(Roots \cup {R!Status}) /\ Len(Items) \in Nat
         /\ kind = "blocks" => Items = R!Available /\ Items \in Seq(Roots)
<1>1. R!Available \in Seq(Roots)
  BY AvailableIs DEF ReqrespTypes
<1>2. R!Available \in Seq(Roots \cup {R!Status})
  <2>1. \A i \in 1 .. Len(R!Available) : R!Available[i] \in Roots \cup {R!Status}
    BY <1>1
  <2> QED
    BY <1>1, <2>1
<1>3. <<R!Status>> \in Seq(Roots \cup {R!Status})
  OBVIOUS
<1>4. CASE kind = "status"
  <2>1. Items = <<R!Status>> /\ Len(<<R!Status>>) = 1
    BY <1>4 DEF Items
  <2> QED
    BY <1>3, <1>4, <2>1
<1>5. CASE kind = "blocks"
  <2>1. Items = R!Available
    BY <1>5 DEF Items
  <2> QED
    BY <1>1, <1>2, <2>1
<1> QED
  BY <1>4, <1>5 DEF ReqrespTypes

(* It stays the same once the request is made.                             *)
LEMMA SameRequest ==
  ASSUME UNCHANGED <<foreign, kind, request>>
  PROVE  /\ Items' = Items /\ TooLong' = TooLong
         /\ CodeOf' = CodeOf /\ \A x : FrameOf(x)' = FrameOf(x)
<1>1. R!Available' = R!Available
  BY DEF R!Available
<1> QED
  BY <1>1 DEF Items, TooLong, CodeOf, FrameOf, R!Status

(* A token that fits where the flight ends may follow.                     *)
LEMMA TokenWritten ==
  ASSUME ReqrespTypes, NEW m \in Nat, InFlight(m),
         NEW tok \in Tokens, down' = Append(down, tok),
         UNCHANGED <<foreign, kind, request, cpc>>,
         \A j \in 1 .. Len(down) + 2 :
           /\ Len(down) + 1 + Parity = 2 * j =>
                m + j <= Len(Items) /\ tok \in FrameOf(Items[m + j])
           /\ Len(down) + 1 + Parity = 2 * j - 1 => tok \in CodeOf
  PROVE  /\ InFlight(m)'
         /\ down' \in Seq(Tokens) /\ Len(down') = Len(down) + 1 /\ Parity' = Parity
<1>1. /\ down' \in Seq(Tokens) /\ Len(down') = Len(down) + 1 /\ Len(down) \in Nat
      /\ \A p \in 1 .. Len(down) : down'[p] = down[p]
      /\ down'[Len(down) + 1] = tok
  BY AppendProperties DEF ReqrespTypes
<1>2. Items' = Items /\ CodeOf' = CodeOf /\ (\A x : FrameOf(x)' = FrameOf(x))
  BY SameRequest
<1>3. Parity' = Parity /\ Parity \in {0, 1}
  BY DEF Parity
<1>4. ASSUME NEW p \in 1 .. Len(down'), NEW j \in 1 .. Len(down') + 1
      PROVE  /\ p + Parity = 2 * j =>
                  m + j <= Len(Items) /\ down'[p] \in FrameOf(Items[m + j])
             /\ p + Parity = 2 * j - 1 => down'[p] \in CodeOf
  <2>1. CASE p = Len(down) + 1
    BY <1>1, <1>3, <2>1
  <2>2. CASE p \in 1 .. Len(down)
    <3>1. p + Parity = 2 * j \/ p + Parity = 2 * j - 1 => j \in 1 .. Len(down) + 1
      BY <1>1, <1>3, <2>2
    <3> QED
      BY <1>1, <2>2, <3>1 DEF InFlight
  <2> QED
    BY <1>1, <2>1, <2>2
<1>5. InFlight(m)'
  BY <1>2, <1>3, <1>4 DEF InFlight
<1> QED
  BY <1>1, <1>3, <1>5

(* Reading a code leaves a frame, reading a frame leaves a code.           *)
LEMMA TokenRead ==
  ASSUME ReqrespTypes, NEW m \in Nat, InFlight(m), NEW n, n = m + Parity,
         down # << >>, down' = Tail(down), cpc \in {"code", "frame"},
         cpc' = (IF cpc = "code" THEN "frame" ELSE "code"),
         UNCHANGED <<foreign, kind, request>>
  PROVE  /\ InFlight(n)'
         /\ down' \in Seq(Tokens) /\ Len(down') = Len(down) - 1 /\ Parity' = 1 - Parity
<1>1. /\ down' \in Seq(Tokens) /\ Len(down') = Len(down) - 1 /\ Len(down) \in Nat
      /\ \A p \in 1 .. Len(down') : down'[p] = down[p + 1]
  BY DEF ReqrespTypes
<1>2. Items' = Items /\ CodeOf' = CodeOf /\ (\A x : FrameOf(x)' = FrameOf(x))
  BY SameRequest
<1>3. Parity' = 1 - Parity /\ Parity \in {0, 1}
  BY DEF Parity
<1>4. ASSUME NEW p \in 1 .. Len(down'), NEW j \in 1 .. Len(down') + 1
      PROVE  /\ p + (1 - Parity) = 2 * j =>
                  /\ (m + Parity) + j <= Len(Items)
                  /\ down'[p] \in FrameOf(Items[(m + Parity) + j])
             /\ p + (1 - Parity) = 2 * j - 1 => down'[p] \in CodeOf
  <2> DEFINE q == p + 1
             k == j + Parity
  <2>1. q \in 1 .. Len(down) /\ k \in 1 .. Len(down) + 1 /\ down'[p] = down[q]
    BY <1>1, <1>3
  <2>2. /\ q + Parity = 2 * k => m + k <= Len(Items) /\ down[q] \in FrameOf(Items[m + k])
        /\ q + Parity = 2 * k - 1 => down[q] \in CodeOf
    <3> HIDE DEF q, k
    <3> QED
      BY <2>1 DEF InFlight
  <2>3. /\ p + (1 - Parity) = 2 * j => q + Parity = 2 * k
        /\ p + (1 - Parity) = 2 * j - 1 => q + Parity = 2 * k - 1
        /\ m + k = (m + Parity) + j
    BY <1>3
  <2> HIDE DEF q, k
  <2> QED
    BY <2>1, <2>2, <2>3
<1>5. InFlight(n)'
  BY <1>2, <1>3, <1>4 DEF InFlight
<1> QED
  BY <1>1, <1>3, <1>5

(* No answer yet.                                                          *)
LEMMA ReqrespInit == R!Init => ReqrespInv
<1> SUFFICES ASSUME R!Init PROVE ReqrespInv
  OBVIOUS
<1>1. kind \in {"status", "blocks"} /\ request \in Seq(Roots)
  <2>1. kind \in {"status", "blocks"}
    BY DEF R!Init
  <2>2. CASE kind = "status"
    BY <2>2 DEF R!Init
  <2>3. CASE kind = "blocks"
    <3>1. request \in R!BoundedSeq(Roots, MaxRoots)
      BY <2>3 DEF R!Init
    <3>2. PICK n \in 0 .. MaxRoots : request \in [1 .. n -> Roots]
      BY <3>1 DEF R!BoundedSeq, R!SeqOf
    <3>3. n \in Nat
      BY ReqrespAssumed DEF R!ReqrespAssumption
    <3> QED
      BY <2>3, <3>2, <3>3
  <2> QED
    BY <2>1, <2>2, <2>3
<1>2. ReqrespTypes
  BY <1>1 DEF R!Init, ReqrespTypes
<1>3. Stages /\ ServerInv /\ Complete
  BY DEF R!Init, Stages, ServerInv, Complete
<1>4. got = << >> /\ cpc = "open"
  BY DEF R!Init
<1>5. GotTo(0)
  <2> DEFINE at == [i \in 1 .. Len(got) |-> 0]
  <2>1. Len(got) = 0 /\ at \in [1 .. Len(got) -> 1 .. 0]
    BY <1>4
  <2> HIDE DEF at
  <2>2. \E f \in [1 .. Len(got) -> 1 .. 0] :
          /\ \A i, j \in 1 .. Len(got) : i < j => f[i] < f[j]
          /\ \A i \in 1 .. Len(got) : got[i] = Items[f[i]]
    <3>1. \A i \in 1 .. Len(got) : FALSE
      BY <2>1
    <3> USE <2>1
    <3> WITNESS at \in [1 .. Len(got) -> 1 .. 0]
    <3> QED
      BY <3>1
  <2>3. \A i \in 1 .. 0 : FALSE
    OBVIOUS
  <2> QED
    BY <1>4, <2>1, <2>2, <2>3 DEF GotTo
<1>6. 0 \in 0 .. Len(Items)
  BY <1>2, ItemsIs
<1> QED
  BY <1>2, <1>3, <1>4, <1>5, <1>6 DEF ReqrespInv

(* What the client has read is untouched by the server and the stream.     *)
LEMMA SameGot ==
  ASSUME NEW m, GotTo(m), UNCHANGED <<foreign, kind, request, got>>
  PROVE  GotTo(m)'
<1>1. Items' = Items
  BY SameRequest
<1> QED
  BY <1>1 DEF GotTo

(* The client's steps.                                                     *)
LEMMA SendRequestInv == ReqrespInv /\ R!SendRequest => ReqrespInv'
<1> SUFFICES ASSUME ReqrespInv, R!SendRequest PROVE ReqrespInv'
  OBVIOUS
<1>1. ReqrespTypes /\ Stages
  BY DEF ReqrespInv
<1>2. /\ cpc = "open" /\ cpc' = "code" /\ spc' = "read"
      /\ UNCHANGED <<foreign, kind, request, got, outcome, sendQueue, down, stream>>
  BY DEF R!SendRequest, R!asked
<1>3. got = << >> /\ down = << >> /\ stream = "open" /\ spc = "none" /\ outcome = "none"
  BY <1>1, <1>2 DEF Stages
<1>4. ReqrespTypes' /\ Stages' /\ ServerInv' /\ Complete'
  BY <1>1, <1>2, <1>3 DEF ReqrespTypes, Stages, ServerInv, Complete
<1>5. PICK m \in 0 .. Len(Items) : GotTo(m)
  BY DEF ReqrespInv
<1>6. Items' = Items /\ Len(Items) \in Nat
  BY <1>1, <1>2, SameRequest, ItemsIs
<1>7. GotTo(0)'
  <2>1. GotTo(0)
    <3>1. Len(got) = 0 /\ got \in Seq(Roots)
      BY <1>1, <1>3 DEF ReqrespTypes
    <3>2. \A i \in 1 .. Len(got) : FALSE
      BY <3>1
    <3>3. \A i \in 1 .. 0 : FALSE
      OBVIOUS
    <3>4. \E f \in [1 .. Len(got) -> 1 .. 0] :
            /\ \A i, j \in 1 .. Len(got) : i < j => f[i] < f[j]
            /\ \A i \in 1 .. Len(got) : got[i] = Items[f[i]]
      <4> DEFINE at == [i \in 1 .. Len(got) |-> 0]
      <4>1. at \in [1 .. Len(got) -> 1 .. 0]
        BY <3>2
      <4> HIDE DEF at
      <4> QED
        BY <3>2, <4>1
    <3> QED
      BY <1>3, <3>1, <3>3, <3>4 DEF GotTo
  <2> QED
    BY <1>2, <2>1, SameGot
<1>8. InFlight(0)' /\ FlightEnds(0)'
  BY <1>2, <1>3 DEF InFlight, FlightEnds, Parity
<1> QED
  BY <1>4, <1>6, <1>7, <1>8 DEF ReqrespInv

(* A client that ends, with the blocks it has.                             *)
LEMMA EndInv ==
  ASSUME ReqrespInv, NEW result \in {"ok", "error"}, R!End(result),
         UNCHANGED <<foreign, kind, request, got, spc, sendQueue, stream>>,
         down' \in Seq(Tokens), stream = "reset" => down' = << >>,
         cpc = "open" => down' = down,
         cpc # "done",
         kind = "blocks" /\ ~ foreign /\ result = "ok" => TooLong \/ got = Items
  PROVE  ReqrespInv'
<1>1. ReqrespTypes /\ Stages /\ ServerInv
  BY DEF ReqrespInv
<1>2. cpc' = "done" /\ outcome' = result
  BY DEF R!End
<1>3. Items' = Items /\ TooLong' = TooLong
  BY SameRequest
<1>4. ReqrespTypes' /\ Stages'
  BY <1>1, <1>2 DEF ReqrespTypes, Stages
<1>5. ServerInv'
  BY <1>1, <1>3 DEF ServerInv, Sent
<1>6. Complete'
  BY <1>2, <1>3 DEF Complete
<1>7. PICK m \in 0 .. Len(Items) : GotTo(m)
  BY DEF ReqrespInv
<1>8. GotTo(m)'
  BY <1>7, SameGot
<1> QED
  BY <1>2, <1>3, <1>4, <1>5, <1>6, <1>7, <1>8 DEF ReqrespInv

(* What is first on its way is what the client reads next.                 *)
LEMMA FirstToken ==
  ASSUME ReqrespInv, down # << >>, NEW m \in Nat, InFlight(m)
  PROVE  /\ Tail(down) \in Seq(Tokens)
         /\ cpc = "code" => Head(down) \in CodeOf
         /\ cpc = "frame" => m + 1 <= Len(Items) /\ Head(down) \in FrameOf(Items[m + 1])
<1>1. down \in Seq(Tokens)
  BY DEF ReqrespInv, ReqrespTypes
<1>2. Len(down) >= 1 /\ Len(down) \in Nat /\ Head(down) = down[1] /\ Tail(down) \in Seq(Tokens)
  BY <1>1
<1>3. CASE cpc = "code"
  <2>1. 1 + Parity = 2 * 1 - 1
    BY <1>3 DEF Parity
  <2> QED
    BY <1>2, <1>3, <2>1 DEF InFlight
<1>4. CASE cpc = "frame"
  <2>1. 1 + Parity = 2 * 1
    BY <1>4 DEF Parity
  <2> QED
    BY <1>2, <1>4, <2>1 DEF InFlight
<1> QED
  BY <1>2, <1>3, <1>4

(* After a code the client waits for a frame, or has all there is.         *)
LEMMA ReadResponseCodeInv == ReqrespInv /\ R!ReadResponseCode => ReqrespInv'
<1> SUFFICES ASSUME ReqrespInv, R!ReadResponseCode PROVE ReqrespInv'
  OBVIOUS
<1>1. ReqrespTypes /\ Stages /\ ServerInv /\ Complete
  BY DEF ReqrespInv
<1>2. cpc = "code" /\ UNCHANGED <<foreign, kind, request, got, spc, sendQueue, stream>>
  BY DEF R!ReadResponseCode, R!asked, R!server
<1>3. PICK m \in 0 .. Len(Items) : GotTo(m) /\ InFlight(m) /\ FlightEnds(m)
  BY <1>2 DEF ReqrespInv
<1>4. m \in Nat /\ Len(Items) \in Nat
  BY <1>1, <1>3, ItemsIs
<1>5. Items' = Items /\ TooLong' = TooLong
  BY <1>2, SameRequest
<1>6. CASE down # << >> /\ down' = Tail(down) /\ Head(down).ok /\ cpc' = "frame" /\ outcome' = outcome
  <2>1. m = m + Parity
    BY <1>2, <1>4 DEF Parity
  <2>2. /\ InFlight(m)'
        /\ down' \in Seq(Tokens) /\ Len(down') = Len(down) - 1 /\ Parity' = 1 - Parity
    BY <1>1, <1>2, <1>3, <1>4, <1>6, <2>1, TokenRead
  <2>3. ReqrespTypes' /\ Stages'
    BY <1>1, <1>2, <1>6, <2>2 DEF ReqrespTypes, Stages
  <2>4. ServerInv'
    BY <1>1, <1>2, <1>5 DEF ServerInv, Sent
  <2>5. Complete'
    BY <1>1, <1>2, <1>5, <1>6 DEF Complete
  <2>6. GotTo(m)'
    BY <1>2, <1>3, SameGot
  <2>7. Len(down') + Parity' = Len(down) + Parity /\ Len(down) \in Nat /\ Parity = 0
    BY <1>1, <1>2, <2>2 DEF Parity, ReqrespTypes
  <2>8. FlightEnds(m)'
    <3>1. Sent' = Sent
      BY <1>2, <1>5 DEF Sent
    <3>2. ASSUME NEW h \in 0 .. Len(down), Len(down) + Parity = 2 * h + 1
          PROVE  h \in 0 .. Len(down')
      BY <2>2, <2>7, <3>2
    <3>3. Len(down) # 0
      BY <1>1, <1>6 DEF ReqrespTypes
    <3> QED
      BY <1>2, <1>3, <1>5, <2>7, <3>1, <3>2, <3>3 DEF FlightEnds
  <2> QED
    BY <1>5, <2>2, <2>3, <2>4, <2>5, <2>6, <2>8 DEF ReqrespInv
<1>7. CASE /\ down # << >> /\ down' = Tail(down) /\ ~ Head(down).ok
           /\ R!End(IF kind = "blocks" THEN "ok" ELSE "error")
  <2>1. Head(down) \in CodeOf /\ Tail(down) \in Seq(Tokens)
    BY <1>2, <1>3, <1>4, <1>7, FirstToken
  <2>2. R!Code(TRUE).ok
    BY DEF R!Code
  <2>3. foreign
    BY <1>7, <2>1, <2>2, Zenon DEF CodeOf
  <2>4. stream # "reset"
    BY <1>1, <1>7 DEF Stages
  <2> QED
    BY <1>2, <1>7, <2>1, <2>3, <2>4, EndInv
<1>8. CASE /\ down = << >> /\ stream # "open" /\ UNCHANGED down
           /\ R!End(IF kind = "blocks" /\ stream = "eof" THEN "ok" ELSE "error")
  <2>1. ASSUME kind = "blocks", ~ foreign, stream = "eof" PROVE TooLong \/ got = Items
    <3>1. Len(down) = 0 /\ Parity = 0
      BY <1>2, <1>8 DEF Parity
    <3>2. TooLong \/ m = Len(Items)
      BY <1>3, <1>4, <2>1, <3>1 DEF FlightEnds
    <3>3. ASSUME m = Len(Items) PROVE got = Items
      <4>1. Len(got) = Len(Items) /\ \A i \in 1 .. Len(got) : got[i] = Items[i]
        BY <1>3, <2>1, <3>3 DEF GotTo
      <4>2. got \in Seq(Roots) /\ Items \in Seq(Roots)
        BY <1>1, <2>1, ItemsIs DEF ReqrespTypes
      <4> QED
        BY <4>1, <4>2, SeqEqual
    <3> QED
      BY <3>2, <3>3
  <2>2. down' \in Seq(Tokens)
    BY <1>1, <1>8 DEF ReqrespTypes
  <2> QED
    BY <1>2, <1>8, <2>1, <2>2, EndInv
<1> QED
  BY <1>6, <1>7, <1>8 DEF R!ReadResponseCode

(* The blocks of a client that has read m frames and keeps the next block. *)
LEMMA KeepBlock ==
  ASSUME ReqrespTypes, NEW m \in Nat, m + 1 <= Len(Items), GotTo(m), kind = "blocks",
         UNCHANGED <<foreign, kind, request>>, got' = Append(got, Items[m + 1])
  PROVE  GotTo(m + 1)' /\ got' \in Seq(Roots)
<1>1. Items \in Seq(Roots) /\ Items' = Items /\ got \in Seq(Roots)
  BY ItemsIs, SameRequest DEF ReqrespTypes
<1>2. Items[m + 1] \in Roots
  BY <1>1
<1>3. /\ got' \in Seq(Roots) /\ Len(got') = Len(got) + 1 /\ Len(got) \in Nat
      /\ \A i \in 1 .. Len(got) : got'[i] = got[i]
      /\ got'[Len(got) + 1] = Items[m + 1]
  BY <1>1, <1>2, AppendProperties
<1>4. PICK at \in [1 .. Len(got) -> 1 .. m] :
        /\ \A i, j \in 1 .. Len(got) : i < j => at[i] < at[j]
        /\ \A i \in 1 .. Len(got) : got[i] = Items[at[i]]
  BY DEF GotTo
<1> DEFINE new == [i \in 1 .. Len(got') |-> IF i = Len(got') THEN m + 1 ELSE at[i]]
<1>5. \A i \in 1 .. Len(got') : i # Len(got') => i \in 1 .. Len(got)
  BY <1>3
<1>6. new \in [1 .. Len(got') -> 1 .. m + 1]
  BY <1>5
<1>7. \A i, j \in 1 .. Len(got') : i < j => new[i] < new[j]
  BY <1>3, <1>4, <1>5
<1>8. \A i \in 1 .. Len(got') : got'[i] = Items[new[i]]
  BY <1>3, <1>4, <1>5
<1> HIDE DEF new
<1>9. ~ foreign => Len(got') = m + 1 /\ \A i \in 1 .. m + 1 : got'[i] = Items[i]
  BY <1>3 DEF GotTo
<1> QED
  BY <1>1, <1>3, <1>6, <1>7, <1>8, <1>9 DEF GotTo

(* The blocks of a client that skips one, which it does with a foreign     *)
(* peer only.                                                              *)
LEMMA SkipBlock ==
  ASSUME NEW m \in Nat, GotTo(m), foreign, UNCHANGED <<foreign, kind, request, got>>
  PROVE  GotTo(m + 1)'
<1>1. Items' = Items
  BY SameRequest
<1>2. ASSUME kind = "blocks"
      PROVE  \E at \in [1 .. Len(got) -> 1 .. m + 1] :
               /\ \A i, j \in 1 .. Len(got) : i < j => at[i] < at[j]
               /\ \A i \in 1 .. Len(got) : got[i] = Items[at[i]]
  <2>1. PICK at \in [1 .. Len(got) -> 1 .. m] :
          /\ \A i, j \in 1 .. Len(got) : i < j => at[i] < at[j]
          /\ \A i \in 1 .. Len(got) : got[i] = Items[at[i]]
    BY <1>2 DEF GotTo
  <2>2. at \in [1 .. Len(got) -> 1 .. m + 1]
    OBVIOUS
  <2> QED
    BY <2>1, <2>2
<1> QED
  BY <1>1, <1>2 DEF GotTo

(* After a frame the client waits for a code, or ends with an error, or    *)
(* with the status.                                                        *)
LEMMA ReadFrameInv == ReqrespInv /\ R!ReadFrame => ReqrespInv'
<1> SUFFICES ASSUME ReqrespInv, R!ReadFrame PROVE ReqrespInv'
  OBVIOUS
<1>1. ReqrespTypes /\ Stages /\ ServerInv /\ Complete
  BY DEF ReqrespInv
<1>2. cpc = "frame" /\ UNCHANGED <<foreign, kind, request, spc, sendQueue, stream>>
  BY DEF R!ReadFrame, R!asked, R!server
<1>3. PICK m \in 0 .. Len(Items) : GotTo(m) /\ InFlight(m) /\ FlightEnds(m)
  BY <1>2 DEF ReqrespInv
<1>4. m \in Nat /\ Len(Items) \in Nat
  BY <1>1, <1>3, ItemsIs
<1>5. Items' = Items /\ TooLong' = TooLong
  BY <1>2, SameRequest
<1>6. CASE down = << >> /\ R!End(R!FrameMissing) /\ UNCHANGED <<down, got>>
  <2>1. R!FrameMissing = "error" /\ down' \in Seq(Tokens)
    BY <1>1, <1>6 DEF R!FrameMissing, ReqrespTypes
  <2> QED
    BY <1>2, <1>6, <2>1, EndInv
<1>7. ASSUME down # << >>, down' = Tail(down) PROVE ReqrespInv'
  <2> DEFINE frame == Head(down)
  <2>1. /\ m + 1 <= Len(Items) /\ frame \in FrameOf(Items[m + 1])
        /\ Tail(down) \in Seq(Tokens)
    BY <1>2, <1>3, <1>4, <1>7, FirstToken
  <2>2. stream # "reset"
    BY <1>1, <1>7 DEF Stages
  <2>3. ASSUME NEW result \in {"ok", "error"}, R!End(result), UNCHANGED got,
               result = "ok" => kind = "status"
        PROVE  ReqrespInv'
    BY <1>2, <1>7, <2>1, <2>2, <2>3, EndInv
  <2>4. CASE kind = "blocks" /\ cpc' = "code" /\ UNCHANGED outcome
             /\ got' = IF frame.good THEN Append(got, frame.item) ELSE got
    <3>1. m + 1 = m + Parity
      BY <1>2, <1>4 DEF Parity
    <3>2. /\ InFlight(m + 1)'
          /\ down' \in Seq(Tokens) /\ Len(down') = Len(down) - 1 /\ Parity' = 1 - Parity
      BY <1>1, <1>2, <1>3, <1>4, <1>7, <2>4, <3>1, TokenRead
    <3>3. frame.item = Items[m + 1] /\ (~ foreign => frame.good)
      <4>1. CASE frame = R!Frame(Items[m + 1], TRUE)
        BY <4>1 DEF R!Frame
      <4>2. CASE foreign /\ frame = R!Frame(Items[m + 1], FALSE)
        BY <4>2 DEF R!Frame
      <4> QED
        BY <2>1, <4>1, <4>2, Zenon DEF FrameOf
    <3>4. GotTo(m + 1)' /\ got' \in Seq(Roots)
      <4>1. CASE frame.good
        <5>1. got' = Append(got, Items[m + 1])
          BY <2>4, <3>3, <4>1
        <5> QED
          BY <1>1, <1>2, <1>3, <1>4, <2>1, <2>4, <5>1, KeepBlock
      <4>2. CASE ~ frame.good
        <5>1. foreign /\ got' = got
          BY <2>4, <3>3, <4>2
        <5>2. got' \in Seq(Roots)
          BY <1>1, <5>1 DEF ReqrespTypes
        <5> QED
          BY <1>2, <1>3, <1>4, <5>1, <5>2, SkipBlock
      <4> QED
        BY <4>1, <4>2
    <3>5. ReqrespTypes' /\ Stages'
      BY <1>1, <1>2, <2>2, <2>4, <3>2, <3>4 DEF ReqrespTypes, Stages
    <3>6. ServerInv'
      BY <1>1, <1>2, <1>5 DEF ServerInv, Sent
    <3>7. Complete'
      BY <1>1, <1>2, <2>4, <1>5 DEF Complete, Stages
    <3>8. Len(down) \in Nat /\ Len(down) # 0 /\ Parity = 1
      BY <1>1, <1>2, <1>7 DEF Parity, ReqrespTypes
    <3>9. FlightEnds(m + 1)'
      <4>1. Sent' = Sent /\ Len(down') + Parity' = Len(down) + Parity - 2
        BY <1>2, <1>5, <3>2, <3>8 DEF Sent
      <4>2. ASSUME stream = "open"
            PROVE  /\ spc # "read"
                   /\ spc = "code" => Len(down') + Parity' = 2 * (Sent - (m + 1))
                   /\ spc = "frame" => Len(down') + Parity' = 2 * (Sent - (m + 1)) + 1
        <5>1. Sent \in Int
          BY <1>1, <1>4 DEF Sent, ReqrespTypes
        <5> QED
          BY <1>3, <1>4, <3>8, <4>1, <4>2, <5>1 DEF FlightEnds
      <4>3. ASSUME stream = "eof", ~ foreign
            PROVE  \/ TooLong
                   \/ \E h \in 0 .. Len(down') : Len(down') + Parity' = 2 * h + 1
                   \/ Len(down') + Parity' = 2 * (Len(Items) - (m + 1))
        <5>1. ASSUME NEW h \in 0 .. Len(down), Len(down) + Parity = 2 * h + 1
              PROVE  \E k \in 0 .. Len(down') : Len(down') + Parity' = 2 * k + 1
          <6>1. h - 1 \in 0 .. Len(down') /\ Len(down') + Parity' = 2 * (h - 1) + 1
            BY <3>2, <3>8, <4>1, <5>1
          <6> QED
            BY <6>1
        <5>2. ASSUME Len(down) + Parity = 2 * (Len(Items) - m)
              PROVE  Len(down') + Parity' = 2 * (Len(Items) - (m + 1))
          BY <1>4, <3>8, <4>1, <5>2
        <5> QED
          BY <1>3, <4>3, <5>1, <5>2 DEF FlightEnds
      <4> QED
        BY <1>2, <1>5, <4>1, <4>2, <4>3 DEF FlightEnds
    <3>10. m + 1 \in 0 .. Len(Items')
      BY <1>4, <1>5, <2>1
    <3> QED
      BY <3>2, <3>4, <3>5, <3>6, <3>7, <3>9, <3>10 DEF ReqrespInv
  <2>5. CASE ~ R!Fits(frame)
    <3>1. R!End("error") /\ UNCHANGED got
      BY <1>7, <2>5 DEF R!ReadFrame
    <3> QED
      BY <2>3, <3>1
  <2>6. CASE R!Fits(frame) /\ kind = "status"
    <3>1. R!End(IF frame.good THEN "ok" ELSE "error") /\ UNCHANGED got
      BY <1>7, <2>6 DEF R!ReadFrame
    <3> QED
      BY <2>3, <2>6, <3>1
  <2>7. CASE R!Fits(frame) /\ kind # "status"
    <3>1. /\ cpc' = "code" /\ UNCHANGED outcome
          /\ got' = IF frame.good THEN Append(got, frame.item) ELSE got
      BY <1>7, <2>7 DEF R!ReadFrame
    <3>2. kind = "blocks"
      BY <1>1, <2>7 DEF ReqrespTypes
    <3> QED
      BY <2>4, <3>1, <3>2
  <2> QED
    BY <2>5, <2>6, <2>7
<1> QED
  BY <1>6, <1>7 DEF R!ReadFrame

(* The steps of the server and the stream leave the client as it is.  They *)
(* keep the invariant if they keep the flight whole.                       *)
LEMMA ServerStepInv ==
  ASSUME ReqrespInv, UNCHANGED <<foreign, kind, request, cpc, got, outcome>>,
         ReqrespTypes', Stages', ServerInv',
         \A m \in 0 .. Len(Items) :
           cpc \in {"code", "frame"} /\ InFlight(m) /\ FlightEnds(m)
             => InFlight(m)' /\ FlightEnds(m)'
  PROVE  ReqrespInv'
<1>1. Items' = Items /\ TooLong' = TooLong
  BY SameRequest
<1>2. Complete'
  BY <1>1 DEF ReqrespInv, Complete
<1>3. PICK m \in 0 .. Len(Items) :
        GotTo(m) /\ (cpc \in {"code", "frame"} => InFlight(m) /\ FlightEnds(m))
  BY DEF ReqrespInv
<1>4. GotTo(m)'
  BY <1>3, SameGot
<1>5. cpc' \in {"code", "frame"} => InFlight(m)' /\ FlightEnds(m)'
  BY <1>3
<1> QED
  BY <1>1, <1>2, <1>3, <1>4, <1>5 DEF ReqrespInv

(* The flight does not change with the server's own state.                 *)
LEMMA SameFlight ==
  ASSUME UNCHANGED <<foreign, kind, request, cpc, down>>
  PROVE  /\ \A m : InFlight(m) => InFlight(m)'
         /\ Parity' = Parity
<1>1. Items' = Items /\ CodeOf' = CodeOf /\ (\A x : FrameOf(x)' = FrameOf(x))
  BY SameRequest
<1>2. Parity' = Parity
  BY DEF Parity
<1> QED
  BY <1>1, <1>2 DEF InFlight

(* Close, after the last block or a code that has no frame.                *)
LEMMA CloseInv ==
  ASSUME ReqrespInv, R!Close, spc \in {"read", "code", "frame"},
         UNCHANGED <<foreign, kind, request, cpc, got, outcome, sendQueue, down>>,
         \/ TooLong
         \/ spc = "frame"
         \/ spc = "code" /\ sendQueue = << >>
  PROVE  ReqrespInv'
<1>1. ReqrespTypes /\ Stages /\ ServerInv
  BY DEF ReqrespInv
<1>2. spc' = "closed" /\ stream' = IF stream = "open" THEN "eof" ELSE stream
  BY DEF R!Close
<1>3. Items' = Items /\ TooLong' = TooLong /\ Len(Items) \in Nat
  BY <1>1, SameRequest, ItemsIs
<1>4. ReqrespTypes' /\ Stages'
  BY <1>1, <1>2 DEF ReqrespTypes, Stages
<1>5. ServerInv'
  BY <1>2 DEF ServerInv
<1>6. ASSUME NEW m \in 0 .. Len(Items), InFlight(m), FlightEnds(m)
      PROVE  InFlight(m)' /\ FlightEnds(m)'
  <2>1. InFlight(m)' /\ Parity' = Parity /\ Parity \in {0, 1}
    BY <1>6, SameFlight DEF Parity
  <2>2. Len(down) \in Nat /\ Len(sendQueue) \in Nat
    BY <1>1 DEF ReqrespTypes
  <2>3. stream' = "eof" => stream = "open"
    BY <1>1, <1>2 DEF Stages
  <2>4. ASSUME stream = "open", spc = "frame"
        PROVE  \E h \in 0 .. Len(down) : Len(down) + Parity = 2 * h + 1
    <3>1. Len(down) + Parity = 2 * (Sent - m) + 1 /\ Sent - m \in Int
      BY <1>3, <1>6, <2>2, <2>4 DEF FlightEnds, Sent
    <3>2. Sent - m \in 0 .. Len(down)
      BY <2>1, <2>2, <3>1
    <3> QED
      BY <3>1, <3>2
  <2>5. ASSUME stream = "open", spc = "code", sendQueue = << >>
        PROVE  Len(down) + Parity = 2 * (Len(Items) - m)
    <3>1. Sent = Len(Items)
      BY <1>3, <2>5 DEF Sent
    <3> QED
      BY <1>6, <2>5, <3>1 DEF FlightEnds
  <2>6. FlightEnds(m)'
    BY <1>2, <1>3, <2>1, <2>3, <2>4, <2>5 DEF FlightEnds
  <2> QED
    BY <2>1, <2>6
<1> QED
  BY <1>4, <1>5, <1>6, ServerStepInv

(* The server reads the request and finds the blocks.                      *)
LEMMA ReadRequestInv == ReqrespInv /\ R!ReadRequest => ReqrespInv'
<1> SUFFICES ASSUME ReqrespInv, R!ReadRequest PROVE ReqrespInv'
  OBVIOUS
<1>1. ReqrespTypes /\ Stages
  BY DEF ReqrespInv
<1>2. spc = "read" /\ UNCHANGED <<foreign, kind, request, cpc, got, outcome, down>>
  BY DEF R!ReadRequest, R!asked, R!client
<1>3. CASE TooLong
  <2>1. R!Close /\ UNCHANGED sendQueue
    BY <1>3 DEF R!ReadRequest, TooLong
  <2> QED
    BY <1>2, <1>3, <2>1, CloseInv
<1>4. CASE ~ TooLong
  <2>1. spc' = "code" /\ UNCHANGED stream /\ sendQueue' = Items
    BY <1>4 DEF R!ReadRequest, TooLong, Items
  <2>2. /\ Items' = Items /\ TooLong' = TooLong
        /\ Items \in Seq(Roots \cup {R!Status}) /\ Len(Items) \in Nat
    BY <1>1, <1>2, SameRequest, ItemsIs
  <2>3. ReqrespTypes'
    BY <1>1, <1>2, <2>1, <2>2 DEF ReqrespTypes, R!Status
  <2>4. Stages'
    BY <1>1, <1>2, <2>1 DEF Stages
  <2>5. Sent' = 0
    BY <2>1, <2>2 DEF Sent
  <2>6. ServerInv'
    BY <2>1, <2>2, <2>5 DEF ServerInv
  <2>7. ASSUME NEW m \in 0 .. Len(Items), InFlight(m), FlightEnds(m)
        PROVE  InFlight(m)' /\ FlightEnds(m)'
    <3>1. InFlight(m)' /\ Parity' = Parity
      BY <1>2, <2>7, SameFlight
    <3>2. stream = "open" => m = 0 /\ Len(down) + Parity = 0
      BY <1>2, <2>7 DEF FlightEnds
    <3>3. stream # "eof"
      BY <1>1, <1>2 DEF Stages
    <3>4. FlightEnds(m)'
      BY <1>2, <2>1, <2>5, <3>1, <3>2, <3>3 DEF FlightEnds
    <3> QED
      BY <3>1, <3>4
  <2> QED
    BY <1>2, <2>3, <2>4, <2>6, <2>7, ServerStepInv
<1> QED
  BY <1>3, <1>4

(* A code goes out.                                                        *)
LEMMA WriteCodeInv == ReqrespInv /\ R!WriteCode => ReqrespInv'
<1> SUFFICES ASSUME ReqrespInv, R!WriteCode PROVE ReqrespInv'
  OBVIOUS
<1>1. ReqrespTypes /\ Stages /\ ServerInv
  BY DEF ReqrespInv
<1>2. /\ spc = "code" /\ spc' = "frame" /\ sendQueue # << >>
      /\ down' = R!Written(R!Code(TRUE))
      /\ UNCHANGED <<foreign, kind, request, cpc, got, outcome, sendQueue, stream>>
  BY DEF R!WriteCode, R!asked, R!client
<1>3. Items' = Items /\ TooLong' = TooLong /\ Len(Items) \in Nat /\ Sent' = Sent
  BY <1>1, <1>2, SameRequest, ItemsIs DEF Sent
<1>4. ServerInv'
  BY <1>1, <1>2, <1>3 DEF ServerInv
<1>5. stream # "eof"
  BY <1>1, <1>2 DEF Stages
<1>6. CASE stream # "open"
  <2>1. UNCHANGED down
    BY <1>2, <1>6 DEF R!Written
  <2>2. ReqrespTypes' /\ Stages'
    BY <1>1, <1>2, <2>1 DEF ReqrespTypes, Stages
  <2>3. \A m : InFlight(m) => InFlight(m)'
    BY <1>2, <2>1, SameFlight
  <2>4. \A m : FlightEnds(m)'
    BY <1>2, <1>5, <1>6 DEF FlightEnds
  <2> QED
    BY <1>2, <1>4, <2>2, <2>3, <2>4, ServerStepInv
<1>7. CASE stream = "open"
  <2> DEFINE tok == R!Code(TRUE)
  <2>1. down' = Append(down, tok) /\ tok \in Tokens /\ tok \in CodeOf
    BY <1>2, <1>7 DEF R!Written, Tokens, CodeOf
  <2>2. down' \in Seq(Tokens)
    BY <1>1, <2>1, AppendProperties DEF ReqrespTypes
  <2>3. ReqrespTypes' /\ Stages'
    BY <1>1, <1>2, <1>7, <2>2 DEF ReqrespTypes, Stages
  <2>4. ASSUME NEW m \in 0 .. Len(Items), InFlight(m), FlightEnds(m)
        PROVE  InFlight(m)' /\ FlightEnds(m)'
    <3>1. Len(down) + Parity = 2 * (Sent - m) /\ Sent \in Int /\ m \in Nat
      BY <1>1, <1>2, <1>3, <1>7, <2>4 DEF FlightEnds, Sent, ReqrespTypes
    <3>2. Parity \in {0, 1} /\ Len(down) \in Nat
      BY <1>1 DEF Parity, ReqrespTypes
    <3>3. \A j \in 1 .. Len(down) + 2 : Len(down) + 1 + Parity # 2 * j
      BY <3>1, <3>2
    <3> HIDE DEF tok
    <3>4. InFlight(m)' /\ Len(down') = Len(down) + 1 /\ Parity' = Parity
      <4>1. \A j \in 1 .. Len(down) + 2 :
              /\ Len(down) + 1 + Parity = 2 * j =>
                   m + j <= Len(Items) /\ tok \in FrameOf(Items[m + j])
              /\ Len(down) + 1 + Parity = 2 * j - 1 => tok \in CodeOf
        BY <2>1, <3>3
      <4> QED
        BY <1>1, <1>2, <2>1, <2>4, <3>1, <4>1, TokenWritten
    <3>5. FlightEnds(m)'
      <4>1. Len(down') + Parity' = 2 * (Sent' - m) + 1
        BY <1>3, <3>1, <3>2, <3>4
      <4>2. stream' = "open" /\ spc' = "frame"
        BY <1>2, <1>7
      <4> QED
        BY <4>1, <4>2 DEF FlightEnds
    <3> QED
      BY <3>4, <3>5
  <2> QED
    BY <1>2, <1>4, <2>3, <2>4, ServerStepInv
<1> QED
  BY <1>6, <1>7

(* The tokens of a stream, one by one.                                     *)
LEMMA TokenIs ==
  /\ R!Code(TRUE) \in Tokens /\ R!Code(FALSE) \in Tokens
  /\ \A y \in Roots \cup {R!Status} :
       R!Frame(y, TRUE) \in Tokens /\ R!Frame(y, FALSE) \in Tokens
  /\ R!Code(TRUE) \in CodeOf /\ (foreign => R!Code(FALSE) \in CodeOf)
  /\ \A y : R!Frame(y, TRUE) \in FrameOf(y) /\ (foreign => R!Frame(y, FALSE) \in FrameOf(y))
<1>1. R!Code(TRUE) \in Tokens /\ R!Code(FALSE) \in Tokens
  BY Zenon DEF Tokens
<1>2. R!Code(TRUE) \in CodeOf /\ (foreign => R!Code(FALSE) \in CodeOf)
  BY Zenon DEF CodeOf
<1>3. \A y \in Roots \cup {R!Status} :
        R!Frame(y, TRUE) \in Tokens /\ R!Frame(y, FALSE) \in Tokens
  BY Zenon DEF Tokens
<1>4. \A y : R!Frame(y, TRUE) \in FrameOf(y) /\ (foreign => R!Frame(y, FALSE) \in FrameOf(y))
  BY Zenon DEF FrameOf
<1> QED
  BY <1>1, <1>2, <1>3, <1>4, Zenon

(* A frame goes out, with the first of what is left to send.               *)
LEMMA FrameSent ==
  ASSUME ReqrespTypes, ServerInv, NEW m \in 0 .. Len(Items), InFlight(m),
         NEW x, x \in FrameOf(Head(sendQueue)), x \in Tokens,
         down' = Append(down, x), sendQueue' = Tail(sendQueue),
         UNCHANGED <<foreign, kind, request, cpc>>,
         spc \in {"code", "frame"}, sendQueue # << >>,
         Len(down) + Parity = 2 * (Sent - m) + 1
  PROVE  /\ InFlight(m)' /\ Len(down') + Parity' = 2 * (Sent' - m)
<1>1. Items' = Items /\ Items \in Seq(Roots \cup {R!Status}) /\ Len(Items) \in Nat
  BY SameRequest, ItemsIs
<1>2. /\ Len(sendQueue) \in Nat /\ Len(sendQueue) >= 1 /\ Head(sendQueue) = sendQueue[1]
      /\ Len(sendQueue') = Len(sendQueue) - 1
  BY DEF ReqrespTypes
<1>3. Head(sendQueue) = Items[Sent + 1] /\ Sent \in 0 .. Len(Items) - 1 /\ Sent' = Sent + 1
  BY <1>1, <1>2 DEF ServerInv, Sent
<1>4. Parity \in {0, 1} /\ Len(down) \in Nat /\ m \in Nat
  BY <1>1 DEF Parity, ReqrespTypes
<1>5. ASSUME NEW j \in 1 .. Len(down) + 2
      PROVE  /\ Len(down) + 1 + Parity = 2 * j =>
                  m + j <= Len(Items) /\ x \in FrameOf(Items[m + j])
             /\ Len(down) + 1 + Parity # 2 * j - 1
  <2> DEFINE ahead == Sent - m
             here == Len(down) + 1 + Parity
  <2>a. ahead \in Int /\ here = 2 * ahead + 2 /\ j \in Int /\ Sent = m + ahead
    BY <1>3, <1>4
  <2> HIDE DEF ahead, here
  <2>b. here # 2 * j - 1 /\ (here = 2 * j => j = ahead + 1)
    BY <2>a
  <2>1. Len(down) + 1 + Parity # 2 * j - 1
    BY <2>b DEF here
  <2>2. ASSUME Len(down) + 1 + Parity = 2 * j PROVE m + j = Sent + 1
    <3>1. j = ahead + 1
      BY <2>b, <2>2 DEF here
    <3> QED
      BY <1>4, <2>a, <3>1
  <2> QED
    BY <1>1, <1>3, <2>1, <2>2
<1>6. InFlight(m)' /\ Len(down') = Len(down) + 1 /\ Parity' = Parity
  BY <1>4, <1>5, TokenWritten
<1> QED
  BY <1>3, <1>4, <1>6

(* With what is left, the server still has the end of its list.            *)
LEMMA RestInv ==
  ASSUME ReqrespTypes, ServerInv, spc \in {"code", "frame"}, sendQueue # << >>,
         sendQueue' = Tail(sendQueue), UNCHANGED <<foreign, kind, request>>, spc' = "code"
  PROVE  ServerInv' /\ sendQueue' \in Seq(Roots \cup {R!Status})
<1>1. Items' = Items /\ Len(Items) \in Nat
  BY SameRequest, ItemsIs
<1>2. /\ Len(sendQueue) \in Nat /\ Len(sendQueue') = Len(sendQueue) - 1
      /\ sendQueue' \in Seq(Roots \cup {R!Status})
      /\ \A i \in 1 .. Len(sendQueue') : sendQueue'[i] = sendQueue[i + 1]
  BY DEF ReqrespTypes
<1>3. Sent' = Sent + 1 /\ Sent \in Int
  BY <1>1, <1>2 DEF Sent
<1>4. Len(sendQueue') <= Len(Items')
  BY <1>1, <1>2 DEF ServerInv
<1>5. ASSUME NEW i \in 1 .. Len(sendQueue') PROVE sendQueue'[i] = Items'[Sent' + i]
  <2>1. i + 1 \in 1 .. Len(sendQueue) /\ Sent' + i = Sent + (i + 1)
    BY <1>2, <1>3
  <2> QED
    BY <1>1, <1>2, <2>1 DEF ServerInv
<1> QED
  BY <1>2, <1>4, <1>5 DEF ServerInv

(* WriteFrame, or the end of the handler.                                  *)
LEMMA WriteFrameInv == ReqrespInv /\ R!WriteFrame => ReqrespInv'
<1> SUFFICES ASSUME ReqrespInv, R!WriteFrame PROVE ReqrespInv'
  OBVIOUS
<1>1. ReqrespTypes /\ Stages /\ ServerInv
  BY DEF ReqrespInv
<1>2. spc = "frame" /\ UNCHANGED <<foreign, kind, request, cpc, got, outcome>>
  BY DEF R!WriteFrame, R!asked, R!client
<1>3. CASE Head(sendQueue) \in Unencodable \/ stream # "open"
  <2>1. R!Close /\ UNCHANGED <<sendQueue, down>>
    BY <1>3 DEF R!WriteFrame
  <2> QED
    BY <1>2, <2>1, CloseInv
<1>4. CASE ~ (Head(sendQueue) \in Unencodable \/ stream # "open")
  <2> DEFINE x == R!Frame(Head(sendQueue), TRUE)
  <2>1. /\ spc' = "code" /\ UNCHANGED stream /\ stream = "open"
        /\ down' = Append(down, x) /\ sendQueue' = Tail(sendQueue)
    BY <1>4 DEF R!WriteFrame, R!Written, R!Rest
  <2>2. sendQueue # << >>
    BY <1>1, <1>2 DEF ServerInv
  <2>3. x \in Tokens /\ x \in FrameOf(Head(sendQueue))
    <3>1. Head(sendQueue) \in Roots \cup {R!Status}
      BY <1>1, <2>2 DEF ReqrespTypes
    <3> QED
      BY <3>1, TokenIs, Zenon
  <2> HIDE DEF x
  <2>4. ServerInv' /\ sendQueue' \in Seq(Roots \cup {R!Status})
    BY <1>1, <1>2, <2>1, <2>2, RestInv
  <2>5. down' \in Seq(Tokens)
    BY <1>1, <2>1, <2>3, AppendProperties DEF ReqrespTypes
  <2>6. ReqrespTypes' /\ Stages'
    BY <1>1, <1>2, <2>1, <2>4, <2>5 DEF ReqrespTypes, Stages, R!Status
  <2>7. ASSUME NEW m \in 0 .. Len(Items), InFlight(m), FlightEnds(m)
        PROVE  InFlight(m)' /\ FlightEnds(m)'
    <3>1. Len(down) + Parity = 2 * (Sent - m) + 1
      BY <1>2, <2>1, <2>7 DEF FlightEnds
    <3>2. InFlight(m)' /\ Len(down') + Parity' = 2 * (Sent' - m)
      BY <1>1, <1>2, <2>1, <2>2, <2>3, <2>7, <3>1, FrameSent
    <3>3. stream' = "open" /\ spc' = "code"
      BY <2>1
    <3> QED
      BY <3>2, <3>3 DEF FlightEnds
  <2> QED
    BY <1>2, <2>4, <2>6, <2>7, ServerStepInv
<1> QED
  BY <1>3, <1>4

(* All blocks are sent.                                                    *)
LEMMA FinishInv == ReqrespInv /\ R!Finish => ReqrespInv'
BY CloseInv DEF R!Finish, R!asked, R!client

(* A foreign peer may end with an error code, or send what is no block.    *)
LEMMA ForeignAnswerInv == ReqrespInv /\ R!ForeignAnswer => ReqrespInv'
<1> SUFFICES ASSUME ReqrespInv, R!ForeignAnswer PROVE ReqrespInv'
  OBVIOUS
<1>1. ReqrespTypes /\ Stages /\ ServerInv
  BY DEF ReqrespInv
<1>2. /\ foreign /\ spc = "code" /\ sendQueue # << >>
      /\ UNCHANGED <<foreign, kind, request, cpc, got, outcome>>
  BY DEF R!ForeignAnswer, R!asked, R!client
<1>3. Items' = Items /\ Len(Items) \in Nat /\ stream # "eof"
  BY <1>1, <1>2, SameRequest, ItemsIs DEF Stages
<1>4. Parity \in {0, 1} /\ Parity' = Parity /\ Len(down) \in Nat
  BY <1>1, <1>2 DEF Parity, ReqrespTypes
<1>5. Head(sendQueue) \in Roots \cup {R!Status}
  BY <1>1, <1>2 DEF ReqrespTypes
<1>6. ASSUME stream = "open", NEW m \in 0 .. Len(Items), InFlight(m), FlightEnds(m)
      PROVE  /\ Len(down) + Parity = 2 * (Sent - m) /\ Sent \in Int /\ m \in Nat
             /\ \A j \in 1 .. Len(down) + 2 : Len(down) + 1 + Parity # 2 * j
  <2>1. Len(down) + Parity = 2 * (Sent - m) /\ Sent \in Int /\ m \in Nat
    BY <1>1, <1>2, <1>3, <1>6 DEF FlightEnds, Sent, ReqrespTypes
  <2> QED
    BY <1>4, <2>1
<1>7. CASE down' = R!Written(R!Code(FALSE)) /\ R!Close /\ UNCHANGED sendQueue
  <2>1. spc' = "closed" /\ stream' = IF stream = "open" THEN "eof" ELSE stream
    BY <1>7 DEF R!Close
  <2>2. ServerInv'
    BY <2>1 DEF ServerInv
  <2>3. \A m : FlightEnds(m)'
    BY <1>2, <2>1 DEF FlightEnds
  <2>4. CASE stream = "open"
    <3> DEFINE tok == R!Code(FALSE)
    <3>1. down' = Append(down, tok) /\ tok \in Tokens /\ tok \in CodeOf
      BY <1>2, <1>7, <2>4 DEF R!Written, Tokens, CodeOf
    <3>2. down' \in Seq(Tokens)
      BY <1>1, <3>1, AppendProperties DEF ReqrespTypes
    <3>3. ReqrespTypes' /\ Stages'
      BY <1>1, <1>2, <1>7, <2>1, <2>4, <3>2 DEF ReqrespTypes, Stages
    <3> HIDE DEF tok
    <3>4. ASSUME NEW m \in 0 .. Len(Items), InFlight(m), FlightEnds(m)
          PROVE  InFlight(m)'
      <4>1. \A j \in 1 .. Len(down) + 2 :
              /\ Len(down) + 1 + Parity = 2 * j =>
                   m + j <= Len(Items) /\ tok \in FrameOf(Items[m + j])
              /\ Len(down) + 1 + Parity = 2 * j - 1 => tok \in CodeOf
        BY <1>6, <2>4, <3>1, <3>4
      <4>2. m \in Nat
        BY <1>3
      <4> QED
        BY <1>1, <1>2, <3>1, <3>4, <4>1, <4>2, TokenWritten
    <3> QED
      BY <1>2, <2>2, <2>3, <3>3, <3>4, ServerStepInv
  <2>5. CASE stream # "open"
    <3>1. UNCHANGED down
      BY <1>7, <2>5 DEF R!Written
    <3>2. ReqrespTypes' /\ Stages'
      BY <1>1, <1>2, <1>3, <1>7, <2>1, <2>5, <3>1 DEF ReqrespTypes, Stages
    <3>3. \A m : InFlight(m) => InFlight(m)'
      BY <1>2, <3>1, SameFlight
    <3> QED
      BY <1>2, <2>2, <2>3, <3>2, <3>3, ServerStepInv
  <2> QED
    BY <2>4, <2>5
<1>8. CASE /\ down' = R!Written(R!Code(TRUE)) \o
                 (IF stream = "open" THEN <<R!Frame(Head(sendQueue), FALSE)>> ELSE << >>)
           /\ sendQueue' = Tail(sendQueue) /\ UNCHANGED <<spc, stream>>
  <2>1. ServerInv' /\ sendQueue' \in Seq(Roots \cup {R!Status})
    BY <1>1, <1>2, <1>8, RestInv
  <2>2. CASE stream # "open"
    <3>1. down' = down
      BY <1>1, <1>8, <2>2, ConcatEmptySeq DEF R!Written, ReqrespTypes
    <3>2. ReqrespTypes' /\ Stages'
      BY <1>1, <1>2, <1>8, <2>1, <3>1 DEF ReqrespTypes, Stages, R!Status
    <3>3. \A m : InFlight(m) => InFlight(m)'
      BY <1>2, <3>1, SameFlight
    <3>4. \A m : FlightEnds(m)'
      BY <1>2, <1>3, <1>8, <2>2 DEF FlightEnds
    <3> QED
      BY <1>2, <2>1, <3>2, <3>3, <3>4, ServerStepInv
  <2>3. CASE stream = "open"
    <3> DEFINE c == R!Code(TRUE)
               x == R!Frame(Head(sendQueue), FALSE)
               mid == Append(down, c)
    <3>1. c \in Tokens /\ x \in Tokens /\ c \in CodeOf /\ x \in FrameOf(Head(sendQueue))
      BY <1>2, <1>5, TokenIs, Zenon
    <3>2. down' = mid \o <<x>>
      BY <1>8, <2>3 DEF R!Written
    <3> HIDE DEF c, x
    <3>3. /\ mid \in Seq(Tokens) /\ Len(mid) = Len(down) + 1
          /\ \A i \in 1 .. Len(down) : mid[i] = down[i]
          /\ mid[Len(down) + 1] = c
      BY <1>1, <3>1, AppendProperties DEF ReqrespTypes
    <3> HIDE DEF mid
    <3>4. down' = Append(mid, x)
      BY <3>1, <3>2, <3>3, AppendIsConcat
    <3>5. /\ down' \in Seq(Tokens) /\ Len(down') = Len(down) + 2
          /\ \A i \in 1 .. Len(down) : down'[i] = down[i]
          /\ down'[Len(down) + 1] = c /\ down'[Len(down) + 2] = x
      <4>1. /\ Append(mid, x) \in Seq(Tokens) /\ Len(Append(mid, x)) = Len(mid) + 1
            /\ \A i \in 1 .. Len(mid) : Append(mid, x)[i] = mid[i]
            /\ Append(mid, x)[Len(mid) + 1] = x
        BY <3>1, <3>3, AppendProperties
      <4> QED
        BY <1>4, <3>3, <3>4, <4>1
    <3>6. ReqrespTypes' /\ Stages'
      BY <1>1, <1>2, <1>8, <2>1, <2>3, <3>5 DEF ReqrespTypes, Stages, R!Status
    <3>7. ASSUME NEW m \in 0 .. Len(Items), InFlight(m), FlightEnds(m)
          PROVE  InFlight(m)' /\ FlightEnds(m)'
      <4>1. Len(down) + Parity = 2 * (Sent - m) /\ Sent \in Int /\ m \in Nat
        BY <1>6, <2>3, <3>7
      <4>2. /\ Head(sendQueue) = Items[Sent + 1] /\ Sent + 1 <= Len(Items)
            /\ Sent' = Sent + 1
        <5>1. /\ Len(sendQueue) \in Nat /\ Len(sendQueue) >= 1
              /\ Head(sendQueue) = sendQueue[1] /\ Len(sendQueue') = Len(sendQueue) - 1
          BY <1>1, <1>2, <1>8 DEF ReqrespTypes
        <5> QED
          BY <1>1, <1>2, <1>3, <5>1 DEF ServerInv, Sent
      <4>3. ASSUME NEW p \in 1 .. Len(down'), NEW j \in 1 .. Len(down') + 1
            PROVE  /\ p + Parity = 2 * j =>
                        m + j <= Len(Items) /\ down'[p] \in FrameOf(Items[m + j])
                   /\ p + Parity = 2 * j - 1 => down'[p] \in CodeOf
        <5>1. CASE p = Len(down) + 2
          <6>1. p + Parity # 2 * j - 1
            BY <1>4, <4>1, <5>1
          <6>2. p + Parity = 2 * j => m + j = Sent + 1
            BY <1>4, <4>1, <5>1
          <6> QED
            BY <3>1, <3>5, <4>2, <5>1, <6>1, <6>2
        <5>2. CASE p = Len(down) + 1
          <6>1. p + Parity # 2 * j
            BY <1>4, <4>1, <5>2
          <6> QED
            BY <3>1, <3>5, <5>2, <6>1
        <5>3. CASE p \in 1 .. Len(down)
          <6>1. p + Parity = 2 * j \/ p + Parity = 2 * j - 1 => j \in 1 .. Len(down) + 1
            BY <1>4, <3>5, <5>3
          <6> QED
            BY <3>5, <3>7, <5>3, <6>1 DEF InFlight
        <5> QED
          BY <1>4, <3>5, <5>1, <5>2, <5>3
      <4>4. CodeOf' = CodeOf /\ (\A y : FrameOf(y)' = FrameOf(y))
        BY <1>2, SameRequest
      <4>5. InFlight(m)'
        BY <1>3, <1>4, <4>3, <4>4 DEF InFlight
      <4>6. Len(down') + Parity' = 2 * (Sent' - m)
        BY <1>4, <3>5, <4>1, <4>2
      <4>7. stream' = "open" /\ spc' = "code"
        BY <1>2, <1>8, <2>3
      <4> QED
        BY <4>5, <4>6, <4>7 DEF FlightEnds
    <3> QED
      BY <1>2, <2>1, <3>6, <3>7, ServerStepInv
  <2> QED
    BY <2>2, <2>3
<1> QED
  BY <1>7, <1>8 DEF R!ForeignAnswer

(* A reset loses what is on its way.                                       *)
LEMMA ResetInv == ReqrespInv /\ R!Reset => ReqrespInv'
<1> SUFFICES ASSUME ReqrespInv, R!Reset PROVE ReqrespInv'
  OBVIOUS
<1>1. ReqrespTypes /\ Stages /\ ServerInv
  BY DEF ReqrespInv
<1>2. /\ stream' = "reset" /\ down' = << >> /\ cpc \in {"code", "frame"}
      /\ UNCHANGED <<foreign, kind, request, cpc, got, outcome, spc, sendQueue>>
  BY DEF R!Reset, R!asked, R!client, R!server
<1>3. Items' = Items
  BY <1>2, SameRequest
<1>4. ReqrespTypes' /\ Stages'
  BY <1>1, <1>2 DEF ReqrespTypes, Stages, R!Status
<1>5. ServerInv'
  BY <1>1, <1>2, <1>3 DEF ServerInv, Sent
<1>6. \A m : InFlight(m)' /\ FlightEnds(m)'
  BY <1>2 DEF InFlight, FlightEnds
<1> QED
  BY <1>2, <1>4, <1>5, <1>6, ServerStepInv

(* Every step of client, server and stream.                                *)
LEMMA ReqrespNext == ReqrespInv /\ [R!Next]_(R!vars) => ReqrespInv'
<1> SUFFICES ASSUME ReqrespInv, [R!Next]_(R!vars) PROVE ReqrespInv'
  OBVIOUS
<1>1. CASE R!SendRequestFails
  <2>1. /\ R!End("error") /\ cpc = "open"
        /\ UNCHANGED <<foreign, kind, request, got, spc, sendQueue, down, stream>>
    BY <1>1 DEF R!SendRequestFails, R!asked, R!server
  <2>2. down' \in Seq(Tokens) /\ (stream = "reset" => down' = << >>)
    BY <2>1 DEF ReqrespInv, ReqrespTypes, Stages
  <2> QED
    BY <2>1, <2>2, EndInv
<1>2. CASE UNCHANGED R!vars
  <2>1. /\ UNCHANGED <<foreign, kind, request, cpc, got, outcome, spc, sendQueue, down, stream>>
    BY <1>2 DEF R!vars
  <2>2. Items' = Items /\ TooLong' = TooLong
    BY <2>1, SameRequest
  <2>3. ReqrespTypes' /\ Stages' /\ ServerInv'
    BY <2>1, <2>2 DEF ReqrespInv, ReqrespTypes, Stages, ServerInv, Sent, R!Status
  <2>4. \A m : InFlight(m) => InFlight(m)'
    BY <2>1, SameFlight
  <2>5. \A m : FlightEnds(m) => FlightEnds(m)'
    BY <2>1, <2>2 DEF FlightEnds, Parity, Sent
  <2> QED
    BY <2>1, <2>3, <2>4, <2>5, ServerStepInv
<1> QED
  BY <1>1, <1>2, SendRequestInv, ReadResponseCodeInv, ReadFrameInv, ReadRequestInv,
     WriteCodeInv, WriteFrameInv, FinishInv, ForeignAnswerInv, ResetInv
     DEF R!Next, R!ClientStep, R!ServerStep

(* Client and server are in step at every point of an exchange.            *)
THEOREM ReqrespInvariance == R!Spec => []ReqrespInv
BY ReqrespInit, ReqrespNext, PTL DEF R!Spec

(* AnswerFaithful: an answer is read in step, in the order of the request, *)
(* and from a node of this program whole unless an error is reported, for  *)
(* any request, stored blocks and point of failure.                        *)
THEOREM AnswersAreFaithful == R!Spec => []AnswerFaithful
<1>1. ReqrespInv => AnswerFaithful
  <2> SUFFICES ASSUME ReqrespInv PROVE AnswerFaithful
    OBVIOUS
  <2>1. ReqrespTypes /\ Stages /\ Complete
    BY DEF ReqrespInv
  <2>2. PICK m \in 0 .. Len(Items) :
          GotTo(m) /\ (cpc \in {"code", "frame"} => InFlight(m) /\ FlightEnds(m))
    BY DEF ReqrespInv
  <2>3. Len(Items) \in Nat /\ m \in Nat
    BY <2>1, ItemsIs
  <2>4. R!InStep
    <3> SUFFICES ASSUME down # << >>, cpc \in {"code", "frame"} PROVE Head(down).type = cpc
      BY DEF R!InStep
    <3>1. CASE cpc = "code"
      <4>1. Head(down) \in CodeOf
        BY <2>2, <2>3, <3>1, FirstToken
      <4>2. R!Code(TRUE).type = "code" /\ R!Code(FALSE).type = "code"
        BY DEF R!Code
      <4> QED
        BY <3>1, <4>1, <4>2 DEF CodeOf
    <3>2. CASE cpc = "frame"
      <4>1. Head(down) \in FrameOf(Items[m + 1])
        BY <2>2, <2>3, <3>2, FirstToken
      <4>2. \A x : R!Frame(x, TRUE).type = "frame" /\ R!Frame(x, FALSE).type = "frame"
        BY DEF R!Frame
      <4> QED
        BY <3>2, <4>1, <4>2 DEF FrameOf
    <3> QED
      BY <3>1, <3>2
  <2>5. R!Available \in Seq(Roots) /\ got \in Seq(Roots)
    BY <2>1, AvailableIs DEF ReqrespTypes
  <2>6. /\ DOMAIN got = 1 .. Len(got) /\ Len(got) \in Nat
        /\ DOMAIN R!Available = 1 .. Len(R!Available) /\ Len(R!Available) \in Nat
    BY <2>5
  <2>7. R!AnswerInOrder
    <3>1. CASE kind = "blocks"
      <4>1. Items = R!Available
        BY <2>1, <3>1, ItemsIs
      <4>2. PICK at \in [1 .. Len(got) -> 1 .. m] :
              /\ \A i, j \in 1 .. Len(got) : i < j => at[i] < at[j]
              /\ \A i \in 1 .. Len(got) : got[i] = Items[at[i]]
        BY <2>2, <3>1 DEF GotTo
      <4>3. at \in [DOMAIN got -> DOMAIN R!Available]
        BY <2>2, <2>3, <2>6, <4>1
      <4> QED
        BY <2>6, <4>1, <4>2, <4>3 DEF R!AnswerInOrder
    <3>2. CASE kind = "status"
      <4>1. DOMAIN got = {}
        BY <2>2, <3>2 DEF GotTo
      <4> DEFINE at == [i \in DOMAIN got |-> i]
      <4>2. at \in [DOMAIN got -> DOMAIN R!Available]
        BY <4>1
      <4> HIDE DEF at
      <4> QED
        BY <4>1, <4>2 DEF R!AnswerInOrder
    <3> QED
      BY <2>1, <3>1, <3>2 DEF ReqrespTypes
  <2>8. R!AnswerComplete
    <3> SUFFICES ASSUME ~ foreign, kind = "blocks"
                 PROVE  /\ R!IsPrefix(got, R!Available)
                        /\ outcome = "ok" => got = R!Available \/ Len(request) > MaxRequestBlocks
      BY DEF R!AnswerComplete
    <3>1. Items = R!Available
      BY <2>1, ItemsIs
    <3>2. Len(got) = m /\ \A i \in 1 .. m : got[i] = R!Available[i]
      BY <2>2, <3>1 DEF GotTo
    <3>3. R!IsPrefix(got, R!Available)
      BY <2>2, <2>3, <2>5, <2>6, <3>1, <3>2 DEF R!IsPrefix
    <3>4. outcome = "ok" => got = R!Available \/ Len(request) > MaxRequestBlocks
      BY <2>1, <3>1 DEF Complete, TooLong
    <3> QED
      BY <3>3, <3>4
  <2> QED
    BY <2>4, <2>7, <2>8 DEF AnswerFaithful, R!AnswerFaithful
<1> QED
  BY <1>1, ReqrespInvariance, PTL
=============================================================================
