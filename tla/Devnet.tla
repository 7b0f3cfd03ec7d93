------------------------------- MODULE Devnet -------------------------------
(***************************************************************************)
(* Several nodes that take turns to propose, each behind the gate of the   *)
(* main loop (node/ticker.go): duties run while the clock's slot is at     *)
(* most HeadSlot + 2, otherwise the node first syncs with its peers.       *)
(*                                                                         *)
(* Only ages matter: age[n] is the slot minus the head slot of node n, cut *)
(* off at MaxAge, which is beyond the gate.  Blocks of running nodes reach *)
(* the running nodes that have the parent, and a sync succeeds: what loss  *)
(* and failed requests do is the subject of Sync.  Nodes may crash; they   *)
(* restart at genesis, since the store is in memory.                       *)
(***************************************************************************)
EXTENDS Integers, Sequences, FiniteSetsExt

CONSTANTS
  Nodes,
  Owner,      \* Owner[v + 1] is the node that runs validator v
  MaxAge,     \* bound: older heads are not told apart
  MaxMissed   \* bound: slots in a row whose proposer is down

N == Len(Owner)

DevnetAssumption ==
  /\ Owner \in Seq(Nodes) /\ N > 0
  /\ MaxAge \in Nat /\ MaxAge > 3 /\ MaxMissed \in Nat

VARIABLES
  turn,     \* slot % N
  age,      \* per node
  up,       \* the nodes that run
  acted,    \* the nodes whose main loop has handled this slot
  missed,   \* slots in a row whose proposer was down
  gap       \* have there been two such slots in a row?

vars == <<turn, age, up, acted, missed, gap>>

(* Slot 0, for which nobody proposes, is over.                             *)
Init ==
  /\ turn = 1 % N
  /\ age = [n \in Nodes |-> 1]
  /\ up = Nodes /\ acted = {} /\ missed = 0 /\ gap = FALSE

proposer == Owner[turn + 1]
Older(a) == Min({a + 1, MaxAge})

(* The age of n's head after it tried its peers: of those ahead of it, the *)
(* first whose blocks it can process.                                      *)
SyncedAges(n) ==
  LET ahead == {p \in up \ {n} : age[p] < age[n]}
  IN  IF ahead = {} THEN {age[n]} ELSE {age[p] : p \in ahead}

(* Mutants: one slot less, one slot more.                                  *)
GateOpenShort(a) == a <= 1
GateOpenWide(a) == a <= 3

(* slot <= HeadSlot + 2.                                                   *)
GateOpen(a) == a <= 2

Newest == Min({age[p] : p \in up})

(* The nodes whose head is the parent of a block on a head of age a.       *)
SameHead(a) == {m \in up : age[m] = a /\ a < MaxAge}

(* One iteration of the main loop in interval 0.                           *)
OnInterval(n) ==
  /\ n \in up \ acted
  /\ acted' = acted \cup {n}
  /\ \E a \in IF GateOpen(age[n]) THEN {age[n]} ELSE SyncedAges(n) :
       age' = IF GateOpen(a) /\ n = proposer
              THEN [m \in Nodes |-> IF m = n \/ m \in SameHead(a) THEN 0 ELSE age[m]]
              ELSE [age EXCEPT ![n] = a]
  /\ UNCHANGED <<turn, up, missed, gap>>

NextSlot ==
  /\ up \subseteq acted
  /\ proposer \in acted \/ missed < MaxMissed
  /\ missed' = IF proposer \in acted THEN 0 ELSE missed + 1
  /\ gap' = (gap \/ missed' = 2)
  /\ turn' = (turn + 1) % N
  /\ age' = [n \in Nodes |-> Older(age[n])]
  /\ acted' = {}
  /\ UNCHANGED up

(* The newest block does not get lost: another running node has it.        *)
Crash(n) ==
  /\ n \in up \cap acted
  /\ \E p \in up \ {n} : age[p] = Newest
  /\ up' = up \ {n}
  /\ age' = [age EXCEPT ![n] = MaxAge]
  /\ UNCHANGED <<turn, acted, missed, gap>>

(* NewNode and initialSync, which tries every peer connected by then, in a *)
(* later slot than the crash.                                              *)
Restart(n) ==
  /\ n \in Nodes \ up /\ n \notin acted
  /\ up' = up \cup {n}
  /\ \E a \in {age[n], Newest} : age' = [age EXCEPT ![n] = a]
  /\ UNCHANGED <<turn, acted, missed, gap>>

Next ==
  \/ NextSlot
  \/ \E n \in Nodes : OnInterval(n) \/ Crash(n) \/ Restart(n)

(* The clock and the main loops go on, and nodes that are down come back.  *)
Spec ==
  /\ Init /\ [][Next]_vars
  /\ WF_vars(NextSlot)
  /\ \A n \in Nodes : WF_vars(OnInterval(n)) /\ WF_vars(Restart(n))

-----------------------------------------------------------------------------
(* Properties.                                                             *)

(* Blocks keep coming, whatever nodes crash and restart, as long as no two *)
(* proposers in a row are down.                                            *)
BlocksKeepComing == []~ gap => []<>(\E n \in up : age[n] = 0)

(* Two such slots end the chain: from then on every node finds its head    *)
(* too old for duties (slot <= HeadSlot + 2), nobody has a newer one to    *)
(* sync from, and restarts do not help.                                    *)
GapEndsChain == gap => \A n \in Nodes : ~ GateOpen(age[n])
=============================================================================
