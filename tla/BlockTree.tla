------------------------------ MODULE BlockTree -----------------------------
(***************************************************************************)
(* What a fork-choice store promises: a tree of blocks that grows from     *)
(* genesis by one child of a block it has at a time, a justified and a     *)
(* finalized block in it that only move to later slots, and a head that    *)
(* descends from the justified block.  That head and justified block also  *)
(* descend from the finalized one is not promised: the store takes the     *)
(* newest checkpoint of each kind, and they may come from two branches.    *)
(***************************************************************************)
EXTENDS Naturals

CONSTANTS Genesis

VARIABLES
  parent,     \* the tree: a function from its blocks to their parents
  slot,       \* the slot of each block
  head,
  justified,
  finalized

vars == <<parent, slot, head, justified, finalized>>

Blocks == DOMAIN parent

(* The blocks from block b back to genesis.                                *)
Branch(tree, b) ==
  LET up[c \in DOMAIN tree] ==
        IF c = Genesis THEN {c} ELSE {c} \cup up[tree[c]]
  IN  up[b]

Init ==
  /\ parent = [b \in {Genesis} |-> Genesis]
  /\ slot = [b \in {Genesis} |-> 0]
  /\ head = Genesis /\ justified = Genesis /\ finalized = Genesis

(* A new block is later than its parent; none is removed or changed.       *)
Grow ==
  \/ UNCHANGED <<parent, slot>>
  \/ /\ \E b \in DOMAIN parent' :
          /\ DOMAIN parent' = Blocks \cup {b}
          /\ parent'[b] \in Blocks
          /\ slot'[b] > slot[parent'[b]]
     /\ \A b \in Blocks : parent'[b] = parent[b] /\ slot'[b] = slot[b]

(* A checkpoint stays or moves to a later block.                           *)
Later(old, new) == new = old \/ (new \in DOMAIN parent' /\ slot'[new] > slot'[old])

Choose ==
  /\ head' \in DOMAIN parent'
  /\ justified' \in Branch(parent', head')
  /\ Later(justified, justified') /\ Later(finalized, finalized')

Next == Grow /\ Choose

Spec == Init /\ [][Next]_vars
=============================================================================
