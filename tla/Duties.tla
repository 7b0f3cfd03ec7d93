------------------------------- MODULE Duties -------------------------------
(***************************************************************************)
(* The validator duties of one node (node/validator.go) as the main loop   *)
(* (node/ticker.go) drives them from the clock and its ticker              *)
(* (node/clock.go), with the signing windows of the XMSS keys              *)
(* (xmss/leansig).                                                         *)
(*                                                                         *)
(* Time is counted in instants, InstantsPerInterval to an interval, from   *)
(* genesis.  time.NewTicker fires once per interval counted from the start *)
(* of the node, so at some phase of every interval and first one interval  *)
(* after the start, into a channel of one place; a tick that finds the     *)
(* channel full is dropped.  The loop takes a tick, reads the slot, then   *)
(* the interval, then does one validator after another; the clock may move *)
(* between any two of these steps.  A punctual node ends every iteration   *)
(* in the interval of its tick; another one within MaxLate instants of it. *)
(*                                                                         *)
(* The store is what its callers see of it: view changes with everything   *)
(* that can change what a duty signs (ForkChoice has the store itself).    *)
(***************************************************************************)
EXTENDS Integers, SequencesExt

CONSTANTS
  NumValidators,         \* validators of the chain
  Indices,               \* this node's validators, in order
  HasKeys,               \* was a key directory given?
  PreparedEnd,           \* the first slot out of the keys' prepared window
  InstantsPerInterval,   \* resolution of the clock
  Phases,                \* the phases the first ticker may have
  MaxLate,               \* bound: how late an iteration may end
  MaxRestarts,           \* bound
  MaxSlot,               \* bound
  MaxLateSlot,           \* bound: the same, for a node that is not punctual
  MaxView                \* bound: changes of the store

IntervalsPerSlot == 4

(* The validators are distinct and in range: the node does not start unless*)
(* ValidatorRegistry.Validate has checked both.                            *)
ASSUME DutiesAssumption ==
  /\ NumValidators \in Nat \ {0} /\ Indices \in Seq(0 .. NumValidators - 1)
  /\ \A i, j \in DOMAIN Indices : Indices[i] = Indices[j] => i = j
  /\ InstantsPerInterval \in Nat \ {0} /\ Phases \subseteq 0 .. InstantsPerInterval - 1
  /\ {PreparedEnd, MaxLate, MaxRestarts, MaxSlot, MaxLateSlot, MaxView} \subseteq Nat
  /\ HasKeys \in BOOLEAN

VARIABLES
  now,         \* the clock
  punctual,    \* does every iteration end in the interval of its tick?
  phase,       \* when in an interval the ticker fires
  tick,        \* is there a tick in the channel?
  pc,          \* "idle", "slot", "duties" or "down"
  late,        \* instants since the tick that is pending or being handled
  slot,        \* what the loop has read
  interval,
  open,        \* is the head near enough for duties?
  todo,        \* the validators the current duty still has to do
  pending,     \* pendingAttestations
  view,        \* the store's contents, as far as duties depend on it
  headSlot,    \* the slot of the store's head
  signed,      \* every message signed so far
  handled,     \* the intervals an iteration has handled ...
  again,       \* ... one of them twice?
  restarts

vars == <<now, punctual, phase, tick, pc, late, slot, interval, open, todo, pending,
          view, headSlot, signed, handled, again, restarts>>
loop == <<pc, slot, interval, open, todo>>
history == <<signed, handled, again>>
node == <<punctual, phase, restarts>>

(* Clock.CurrentSlot and Clock.CurrentInterval.                            *)
CurrentSlot == now \div (InstantsPerInterval * IntervalsPerSlot)
CurrentInterval == (now \div InstantsPerInterval) % IntervalsPerSlot

IsProposer(idx, s) == idx = s % NumValidators
CanSign(s) == HasKeys /\ s < PreparedEnd

Message(idx, s, duty) == [validator |-> idx, slot |-> s, duty |-> duty, view |-> view]

-----------------------------------------------------------------------------
Init ==
  /\ now = - InstantsPerInterval
  /\ punctual \in BOOLEAN /\ phase \in Phases
  /\ tick = FALSE /\ pc = "idle" /\ late = 0
  /\ slot = 0 /\ interval = 0 /\ open = FALSE /\ todo = << >>
  /\ pending = << >>
  /\ view = 0 /\ headSlot = 0
  /\ signed = {} /\ handled = {} /\ again = FALSE
  /\ restarts = 0

(* Time passes.  A waiting tick or a running iteration gets later.         *)
Clock ==
  /\ now < ((IF punctual THEN MaxSlot ELSE MaxLateSlot) + 1)
             * IntervalsPerSlot * InstantsPerInterval
  /\ tick \/ pc \in {"slot", "duties"} =>
       IF punctual THEN (now + 1) % InstantsPerInterval # 0 ELSE late < MaxLate
  /\ now' = now + 1
  /\ LET fires == pc # "down" /\ (now + 1) % InstantsPerInterval = phase
     IN  /\ tick' = (tick \/ fires)
         /\ late' = IF tick \/ pc \in {"slot", "duties"} THEN late + 1 ELSE 0
  /\ UNCHANGED <<loop, pending, view, headSlot, history, node>>

(* The slots a block of which the store may have: those of other nodes'    *)
(* proposers, and those for which this node has signed a block.            *)
BlockSlots ==
  {s \in 0 .. (IF now < 0 THEN 0 ELSE CurrentSlot) :
     \/ s = 0 \/ s % NumValidators \notin ToSet(Indices)
     \/ \E msg \in signed : msg.duty = "block" /\ msg.slot = s}

(* Blocks and votes from the network, or the fork choice moving on its     *)
(* own: the head may also move to another branch.                          *)
StoreChanges ==
  /\ view < MaxView
  /\ view' = view + 1
  /\ headSlot' \in BlockSlots
  /\ UNCHANGED <<now, tick, late, loop, pending, history, node>>

(* The loop takes a tick; before genesis it ignores it.                    *)
TakeTick ==
  /\ pc = "idle" /\ tick
  /\ tick' = FALSE
  /\ IF now < 0 THEN UNCHANGED loop
     ELSE pc' = "slot" /\ slot' = CurrentSlot /\ interval' = 0 /\ UNCHANGED <<open, todo>>
  /\ UNCHANGED <<now, late, pending, view, headSlot, history, node>>

(* Mutant: what is left of the last slot is kept.                          *)
PendingKept == pending

(* TryAttest starts with v.pendingAttestations = nil.                      *)
PendingAtStart == IF open' /\ interval' = 1 THEN << >> ELSE pending

(* The interval is read by a call of its own.  Then the fork choice is     *)
(* advanced, and duties run only when the head is near the slot.           *)
ReadInterval ==
  /\ pc = "slot"
  /\ pc' = "duties"
  /\ interval' = CurrentInterval
  /\ open' = (slot <= headSlot + 2)
  /\ todo' = IF open' /\ CurrentInterval \in {0, 1} THEN Indices ELSE << >>
  /\ pending' = PendingAtStart
  /\ handled' = handled \union {<<slot, CurrentInterval>>}
  /\ again' = (again \/ <<slot, CurrentInterval>> \in handled)
  /\ UNCHANGED <<now, tick, late, slot, view, headSlot, signed, node>>

(* TryPropose for the next validator.  ProduceBlock fails when the head is *)
(* not before the slot; slot 0 is never proposed.                          *)
TryPropose ==
  LET idx == Head(todo)
  IN  /\ pc = "duties" /\ interval = 0 /\ todo # << >>
      /\ todo' = Tail(todo)
      /\ IF slot # 0 /\ IsProposer(idx, slot) /\ CanSign(slot) /\ headSlot < slot
         THEN signed' = signed \union {Message(idx, slot, "block")}
         ELSE UNCHANGED signed
      /\ UNCHANGED <<now, tick, late, pc, slot, interval, open, pending, view, headSlot,
                     handled, again, node>>

(* Mutant: the proposer votes a second time.                               *)
AttestsAlways(idx) == CanSign(slot)

(* The proposer's vote is the one in its block.                            *)
Attests(idx) == ~ IsProposer(idx, slot) /\ CanSign(slot)

(* Mutant: at the proposer the loop is left.                               *)
LeftAfterReturn(idx) == IF Attests(idx) THEN Tail(todo) ELSE << >>

(* A validator that does not attest is skipped.                            *)
LeftAfter(idx) == Tail(todo)

(* TryAttest for the next validator.  The vote is processed by the own     *)
(* store at once, which may change what the next validator votes for.      *)
TryAttest ==
  LET idx == Head(todo)
  IN  /\ pc = "duties" /\ interval = 1 /\ todo # << >>
      /\ todo' = LeftAfter(idx)
      /\ IF Attests(idx)
         THEN /\ signed' = signed \union {Message(idx, slot, "vote")}
              /\ pending' = Append(pending, Message(idx, slot, "vote"))
              /\ view' \in {view, view + 1} \intersect 0 .. MaxView
         ELSE UNCHANGED <<signed, pending, view>>
      /\ UNCHANGED <<now, tick, late, pc, slot, interval, open, headSlot,
                     handled, again, node>>

(* TryAggregate.                                                           *)
TryAggregate ==
  /\ pc = "duties" /\ open /\ interval = 2 /\ pending # << >>
  /\ pending' = << >>
  /\ UNCHANGED <<now, tick, late, loop, view, headSlot, signed, handled, again, node>>

(* The iteration is over; a tick that came meanwhile is taken next.        *)
EndIteration ==
  /\ pc = "duties" /\ todo = << >>
  /\ open /\ interval = 2 => pending = << >>
  /\ pc' = "idle"
  /\ late' = IF tick THEN (now - phase) % InstantsPerInterval ELSE 0
  /\ UNCHANGED <<now, tick, slot, interval, open, todo, pending, view, headSlot, history,
                 node>>

(* The process stops at any point; what it keeps is in memory.             *)
Crash ==
  /\ restarts < MaxRestarts /\ pc # "down"
  /\ restarts' = restarts + 1
  /\ pc' = "down" /\ tick' = FALSE /\ late' = 0
  /\ slot' = 0 /\ interval' = 0 /\ open' = FALSE /\ todo' = << >>
  /\ pending' = << >> /\ headSlot' = 0
  /\ UNCHANGED <<now, punctual, phase, view, history>>

(* A new process, at once or later, starts a new ticker.                   *)
Restart ==
  /\ pc = "down"
  /\ pc' = "idle"
  /\ phase' = now % InstantsPerInterval
  /\ UNCHANGED <<now, punctual, tick, late, slot, interval, open, todo, pending, view,
                 headSlot, history, restarts>>

Next ==
  \/ Clock \/ StoreChanges
  \/ TakeTick \/ ReadInterval \/ TryPropose \/ TryAttest
  \/ TryAggregate \/ EndIteration
  \/ Crash \/ Restart

Spec == Init /\ [][Next]_vars

-----------------------------------------------------------------------------
(* Properties.                                                             *)

(* An XMSS key signs at most one message per slot, whatever the store does *)
(* in between and across a restart: the signature scheme is a one-time     *)
(* scheme for every slot.                                                  *)
OneMessagePerSlot ==
  punctual =>
    \A a, b \in signed : a.validator = b.validator /\ a.slot = b.slot => a = b

(* The ticker "fires at the start of each interval": a node that handles   *)
(* every tick within less than an interval does no interval's duties twice.*)
IntervalDutiesOnce == MaxLate < InstantsPerInterval => ~ again

(* Also when iterations are late and intervals are handled twice or not at *)
(* all: the votes kept for the aggregate are of one slot, one per          *)
(* validator.                                                              *)
PendingOfOneSlot ==
  \A i, j \in DOMAIN pending :
    /\ pending[i].slot = pending[j].slot
    /\ pending[i].validator = pending[j].validator => i = j

(* The voting duty of a slot is over, not counting those that end early    *)
(* by a crash.                                                             *)
VotesDone == pc = "duties" /\ open /\ interval = 1 /\ todo = << >>

Signed(idx, s) == \E msg \in signed : msg.validator = idx /\ msg.slot = s

(* When the voting duty of a slot is over, every validator that has to     *)
(* vote has signed, wherever the proposer stands among the validators; and *)
(* once the slot is out of the prepared window, which nothing advances, no *)
(* validator signs any more.                                               *)
AttestersSign ==
  VotesDone =>
    \A i \in DOMAIN Indices :
      ~ IsProposer(Indices[i], slot) => (Signed(Indices[i], slot) <=> CanSign(slot))
=============================================================================
