---------------------------- MODULE MCChainState ----------------------------
(* ChainState on a small instance: the bounds are in the .cfg files.       *)
EXTENDS ChainState

(* Hashes in no particular order.                                          *)
MCRootAt == 0 :> 3 @@ 1 :> 5 @@ 2 :> 1 @@ 3 :> 6 @@ 4 :> 2 @@ 5 :> 4
MCRootAtShort == [s \in 0 .. MaxSlot |-> MCRootAt[s]]

(* The checkpoints this branch can have in its history, and one of another *)
(* branch.                                                                 *)
BlockCheckpoints ==
  {Checkpoint(RootAt[s], s) : s \in 0 .. MaxSlot - 1} \union {Checkpoint(9, 2)}

(* The same and the empty slots.                                           *)
AllCheckpoints ==
  BlockCheckpoints \union {Checkpoint(ZeroHash, s) : s \in 1 .. MaxSlot - 1}
=============================================================================
