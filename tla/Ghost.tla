------------------------------- MODULE Ghost -------------------------------
(***************************************************************************)
(* LMD GHOST (chain/forkchoice/ghost.go).  blocks is the block tree: a     *)
(* function from the roots of the stored blocks to records with at least   *)
(* the fields slot and parent.  atts is a partial map from validators to   *)
(* attestations with at least the field head, a checkpoint.                *)
(***************************************************************************)
EXTENDS Slots, FiniteSets

(* The blocks a walk from r towards genesis visits while it is above the   *)
(* slot rootSlot.                                                          *)
CountedPath(blocks, rootSlot) ==
  LET path[r \in DOMAIN blocks] ==
        IF blocks[r].slot <= rootSlot THEN {}
        ELSE {r} \union (IF blocks[r].parent \in DOMAIN blocks
                         THEN path[blocks[r].parent] ELSE {})
  IN  path

(* The votes for a block and for its descendants.                          *)
VoteWeights(blocks, rootSlot, atts) ==
  LET path == CountedPath(blocks, rootSlot)
      counted == {v \in DOMAIN atts : atts[v].head.root \in DOMAIN blocks}
  IN  [r \in DOMAIN blocks |->
         Cardinality({v \in counted : r \in path[atts[v].head.root]})]

(* Where the search starts when the justified root is the zero hash.       *)
EarliestBlock(blocks) ==
  CHOOSE r \in DOMAIN blocks :
    \A q \in DOMAIN blocks : blocks[r].slot <= blocks[q].slot

hashGreater(a, b) == a > b

(* Most votes, then highest slot, then largest hash.                       *)
BetterChild(blocks, weights, c, d) ==
  \/ weights[c] > weights[d]
  \/ weights[c] = weights[d] /\ blocks[c].slot > blocks[d].slot
  \/ /\ weights[c] = weights[d] /\ blocks[c].slot = blocks[d].slot
     /\ hashGreater(c, d)

BestChild(blocks, weights, children) ==
  CHOOSE c \in children :
    \A d \in children \ {c} : BetterChild(blocks, weights, c, d)

GetForkChoiceHead(blocks, root, atts, minScore) ==
  LET start == IF root = ZeroHash THEN EarliestBlock(blocks) ELSE root
      weights == VoteWeights(blocks, blocks[start].slot, atts)
      children(r) == {c \in DOMAIN blocks :
                        blocks[c].parent = r /\ weights[c] >= minScore}
      descend[r \in DOMAIN blocks] ==
        IF children(r) = {} THEN r
        ELSE descend[BestChild(blocks, weights, children(r))]
  IN  IF start \notin DOMAIN blocks THEN start ELSE descend[start]
=============================================================================
