---------------------------- MODULE DutiesProofs ----------------------------
(***************************************************************************)
(* Proofs about Duties: what a node signs, for every number of validators, *)
(* every resolution of the clock, every length of an iteration and any     *)
(* number of restarts.                                                     *)
(***************************************************************************)
EXTENDS Duties, SequenceTheorems, TLAPS

-----------------------------------------------------------------------------
(* Arithmetic of the clock.                                                *)

(* Quotient and remainder of the clock.                                    *)
LEMMA DivMod ==
  ASSUME NEW x \in Int, NEW P \in Nat \ {0}
  PROVE  /\ x \div P \in Int /\ x % P \in 0 .. P - 1
         /\ x = P * (x \div P) + (x % P)
OBVIOUS

(* The order of instants is the order of their intervals.                  *)
LEMMA QuotientOrder ==
  ASSUME NEW P \in Nat \ {0}, NEW a \in Int, NEW b \in Int,
         NEW u \in 0 .. P - 1, NEW v \in 0 .. P - 1, P * a + u <= P * b + v
  PROVE  a <= b
<1> SUFFICES ASSUME b < a PROVE FALSE
  OBVIOUS
<1>1. PICK e \in Nat : a = b + 1 + e
  <2>1. a - b - 1 \in Nat /\ a = b + 1 + (a - b - 1)
    OBVIOUS
  <2> QED
    BY <2>1
<1>2. P * (b + 1 + e) = P * b + P + P * e
  OBVIOUS
<1>3. P * e \in Nat /\ P * b \in Int
  OBVIOUS
<1>4. P * a = P * b + P + P * e
  BY <1>1, <1>2
<1> QED
  BY <1>3, <1>4

(* There is one quotient and one remainder.                                *)
LEMMA DivModUnique ==
  ASSUME NEW x \in Int, NEW P \in Nat \ {0}, NEW q \in Int,
         NEW r \in 0 .. P - 1, x = P * q + r
  PROVE  x \div P = q /\ x % P = r
<1>1. /\ x \div P \in Int /\ x % P \in 0 .. P - 1
      /\ x = P * (x \div P) + (x % P)
  BY DivMod
<1> DEFINE a == x \div P
           b == x % P
<1> HIDE DEF a, b
<1>2. a \in Int /\ b \in 0 .. P - 1 /\ P * a + b = P * q + r
  BY <1>1 DEF a, b
<1>3. P * a + b \in Int
  BY <1>2
<1>4. a <= q
  BY <1>2, <1>3, QuotientOrder
<1>5. q <= a
  BY <1>2, <1>3, QuotientOrder
<1>6. a = q
  BY <1>2, <1>4, <1>5
<1>7. P * a = P * q /\ P * q \in Int
  BY <1>6
<1>8. b = r
  BY <1>2, <1>7
<1> QED
  BY <1>6, <1>8 DEF a, b

(* One instant later: the same interval, or the first of the next one.     *)
LEMMA ClockStep ==
  ASSUME NEW x \in Int, NEW P \in Nat \ {0}
  PROVE  /\ (x + 1) % P # 0 => /\ (x + 1) \div P = x \div P
                               /\ (x + 1) % P = (x % P) + 1
         /\ (x + 1) % P = 0 => /\ (x + 1) \div P = (x \div P) + 1
                               /\ x % P = P - 1
<1> DEFINE q == x \div P
           r == x % P
<1>1. q \in Int /\ r \in 0 .. P - 1 /\ x = P * q + r
  BY DivMod
<1> HIDE DEF q, r
<1>2. CASE r = P - 1
  <2>1. x + 1 = P * (q + 1) + 0
    BY <1>1, <1>2
  <2>2. (x + 1) \div P = q + 1 /\ (x + 1) % P = 0
    <3>1. x + 1 \in Int /\ q + 1 \in Int /\ 0 \in 0 .. P - 1
      BY <1>1
    <3> QED
      BY <2>1, <3>1, DivModUnique
  <2> QED
    BY <1>2, <2>2 DEF q, r
<1>3. CASE r < P - 1
  <2>1. x + 1 = P * q + (r + 1)
    BY <1>1
  <2>2. (x + 1) \div P = q /\ (x + 1) % P = r + 1
    <3>1. x + 1 \in Int /\ q \in Int /\ r + 1 \in 0 .. P - 1
      BY <1>1, <1>3
    <3> QED
      BY <2>1, <3>1, DivModUnique
  <2>3. r + 1 # 0
    BY <1>1
  <2> QED
    BY <2>2, <2>3 DEF q, r
<1> QED
  BY <1>1, <1>2, <1>3

(* Genesis is the start of interval 0.                                     *)
LEMMA DivSign ==
  ASSUME NEW x \in Int, NEW P \in Nat \ {0}
  PROVE  x >= 0 <=> x \div P >= 0
<1> DEFINE q == x \div P
           r == x % P
<1>1. q \in Int /\ r \in 0 .. P - 1 /\ x = P * q + r
  BY DivMod
<1> HIDE DEF q, r
<1>2. ASSUME q >= 0 PROVE x >= 0
  <2>1. P * q \in Nat
    BY <1>1, <1>2
  <2> QED
    BY <1>1, <2>1
<1>3. ASSUME x >= 0 PROVE q >= 0
  <2>1. P * 0 + 0 <= P * q + r
    BY <1>1, <1>3
  <2> QED
    BY <1>1, <2>1, QuotientOrder
<1> QED
  BY <1>1, <1>2, <1>3 DEF q

(* CurrentSlot of an instant is the slot of its interval.                  *)
LEMMA SlotOfInterval ==
  ASSUME NEW x \in Int, NEW P \in Nat \ {0}
  PROVE  x \div (P * 4) = (x \div P) \div 4
<1> DEFINE q == x \div P
           r == x % P
           a == q \div 4
           b == q % 4
<1>1. q \in Int /\ r \in 0 .. P - 1 /\ x = P * q + r
  BY DivMod
<1>2. a \in Int /\ b \in 0 .. 3 /\ q = 4 * a + b
  <2> HIDE DEF q
  <2> QED
    BY <1>1, DivMod
<1> HIDE DEF q, r, a, b
<1>3. P * q = P * (4 * a) + P * b
  BY <1>2
<1>4. P * (4 * a) = (P * 4) * a
  BY <1>2
<1>5. P * b \in Nat /\ P * b <= P * 3
  <2>1. b = 0 \/ b = 1 \/ b = 2 \/ b = 3
    BY <1>2
  <2> QED
    BY <2>1
<1>6. x = (P * 4) * a + (P * b + r)
  BY <1>1, <1>2, <1>3, <1>4, <1>5
<1>7. P * 4 \in Nat \ {0} /\ P * b + r \in 0 .. P * 4 - 1
  BY <1>1, <1>5
<1> QED
  BY <1>2, <1>6, <1>7, DivModUnique DEF a, q

-----------------------------------------------------------------------------
(* The inductive invariant.                                                *)

MessageType ==
  [validator : 0 .. NumValidators - 1, slot : Nat, duty : {"block", "vote"},
   view : Nat]

DutyTypes ==
  /\ now \in Int
  /\ now >= - InstantsPerInterval
  /\ phase \in 0 .. InstantsPerInterval - 1
  /\ pc \in {"idle", "slot", "duties", "down"}
  /\ slot \in Nat /\ interval \in 0 .. 3 /\ view \in Nat
  /\ todo \in Seq(0 .. NumValidators - 1)
  /\ pending \in Seq(MessageType)
  /\ signed \subseteq MessageType
  /\ handled \subseteq Nat \X (0 .. 3)

(* The validators of this node the current duty is through with: todo is   *)
(* what is left of Indices.                                                *)
Done == 1 .. Len(Indices) - Len(todo)

TodoInv ==
  /\ Len(todo) <= Len(Indices)
  /\ \A i \in 1 .. Len(todo) : todo[i] = Indices[Len(Indices) - Len(todo) + i]
  /\ todo # << >> => pc = "duties" /\ open /\ interval \in {0, 1}

Voting == pc = "duties" /\ open /\ interval = 1

(* The votes kept for the aggregate are of the slot of the voting duty and *)
(* of validators it is through with; those have voted if they had to.      *)
VotesInv ==
  /\ PendingOfOneSlot
  /\ Voting =>
       /\ \A i \in DOMAIN pending :
            /\ pending[i].slot = slot
            /\ \E k \in Done : pending[i].validator = Indices[k]
       /\ \A k \in Done : ~ IsProposer(Indices[k], slot) /\ CanSign(slot) =>
            Signed(Indices[k], slot)

(* What is signed is within the window; the proposer of a slot signs only  *)
(* its block, the others only votes.                                       *)
SignedInv ==
  \A m \in signed :
    /\ CanSign(m.slot)
    /\ m.duty = "block" <=> IsProposer(m.validator, m.slot)

DutyInv == DutyTypes /\ TodoInv /\ VotesInv /\ SignedInv

(* An interval number as the loop reads it.                                *)
Pair(k) == <<k \div IntervalsPerSlot, k % IntervalsPerSlot>>
K == now \div InstantsPerInterval
R == now % InstantsPerInterval

(* The clock and the loop of a punctual node: the tick of an interval is   *)
(* taken within it, so that the slot and the interval the loop reads are   *)
(* those of the interval, which was not handled before.                    *)
TimeInv ==
  punctual =>
    /\ \A h \in handled : IntervalsPerSlot * h[1] + h[2] <= K
    /\ tick => pc \notin {"slot", "duties", "down"}
    /\ tick \/ pc \in {"slot", "duties"} => R >= phase
    /\ pc \in {"slot", "duties"} => now >= 0 /\ slot = K \div IntervalsPerSlot
    /\ pc = "duties" => interval = K % IntervalsPerSlot /\ Pair(K) \in handled
    /\ pc # "down" /\ (tick \/ pc = "slot" \/ R < phase) =>
         Pair(K) \notin handled

(* Every message was signed in the interval of its duty, and no validator  *)
(* signs twice for a slot.                                                 *)
DutyInterval(m) == IF m.duty = "block" THEN 0 ELSE 1

OnceInv ==
  punctual =>
    /\ \A m \in signed : <<m.slot, DutyInterval(m)>> \in handled
    /\ pc = "duties" => \A m \in signed :
         m.slot = slot /\ DutyInterval(m) = interval =>
           \E k \in Done : m.validator = Indices[k]

ClockInv == DutyInv /\ TimeInv /\ OnceInv /\ OneMessagePerSlot

-----------------------------------------------------------------------------
(* The duties, whatever the timing.                                        *)

(* The next validator of a duty, and what is left after it.                *)
LEMMA NextTodo ==
  ASSUME DutyTypes, TodoInv, todo # << >>
  PROVE  LET d == Len(Indices) - Len(todo)
             t == Tail(todo)
         IN  /\ t \in Seq(0 .. NumValidators - 1)
             /\ Len(t) = Len(todo) - 1 /\ Len(t) \in Nat
             /\ d + 1 \in DOMAIN Indices /\ d \in Nat
             /\ Head(todo) = Indices[d + 1]
             /\ Head(todo) \in 0 .. NumValidators - 1
             /\ \A i \in 1 .. Len(t) : t[i] = Indices[Len(Indices) - Len(t) + i]
             /\ Len(t) <= Len(Indices)
             /\ 1 .. Len(Indices) - Len(t) = Done \union {d + 1}
<1> DEFINE d == Len(Indices) - Len(todo)
           t == Tail(todo)
           n == Len(todo)
           m == Len(Indices)
<1>1. Indices \in Seq(0 .. NumValidators - 1) /\ m \in Nat /\ DOMAIN Indices = 1 .. m
  BY DutiesAssumption
<1>2. todo \in Seq(0 .. NumValidators - 1) /\ n \in Nat /\ n > 0 /\ n <= m
  BY DEF DutyTypes, TodoInv
<1>3. /\ t \in Seq(0 .. NumValidators - 1)
      /\ Len(t) = n - 1
      /\ \A i \in 1 .. n - 1 : t[i] = todo[i + 1]
      /\ Head(todo) = todo[1]
  BY <1>2
<1>4. \A i \in 1 .. n : todo[i] = Indices[m - n + i]
  BY DEF TodoInv
<1> HIDE DEF t, n, m
<1>5. n - 1 \in Nat /\ m - n \in Nat /\ m - n + 1 \in 1 .. m
  BY <1>1, <1>2
<1>6. Head(todo) = Indices[m - n + 1]
  BY <1>2, <1>3, <1>4
<1>7. \A i \in 1 .. n - 1 : t[i] = Indices[m - (n - 1) + i]
  <2> TAKE i \in 1 .. n - 1
  <2>1. i + 1 \in 1 .. n /\ m - n + (i + 1) = m - (n - 1) + i
    BY <1>1, <1>2
  <2> QED
    BY <1>3, <1>4, <2>1
<1>8. 1 .. m - (n - 1) = (1 .. m - n) \union {m - n + 1}
  BY <1>1, <1>2
<1>9. Head(todo) \in 0 .. NumValidators - 1
  <2>1. 1 \in 1 .. n
    BY <1>2
  <2>2. todo[1] \in 0 .. NumValidators - 1
    BY <1>2, <2>1, ElementOfSeq DEF n
  <2> QED
    BY <1>3, <2>2
<1>10. /\ t \in Seq(0 .. NumValidators - 1)
       /\ Len(t) = n - 1 /\ Len(t) \in Nat
       /\ m - n + 1 \in DOMAIN Indices /\ m - n \in Nat
       /\ \A i \in 1 .. Len(t) : t[i] = Indices[m - Len(t) + i]
       /\ Len(t) <= m
       /\ 1 .. m - Len(t) = (1 .. m - n) \union {m - n + 1}
  BY <1>1, <1>2, <1>3, <1>5, <1>7, <1>8
<1> QED
  BY <1>6, <1>9, <1>10, Zenon DEF t, n, m, Done

(* The node starts with nothing signed.                                    *)
LEMMA InitDuty == Init => DutyInv
<1> SUFFICES ASSUME Init PROVE DutyInv
  OBVIOUS
<1>1. /\ InstantsPerInterval \in Nat \ {0} /\ Indices \in Seq(0 .. NumValidators - 1)
  BY DutiesAssumption
<1>2. DutyTypes
  BY <1>1, DutiesAssumption DEF Init, DutyTypes
<1>3. TodoInv
  BY <1>1 DEF Init, TodoInv
<1>4. VotesInv /\ SignedInv
  BY DEF Init, VotesInv, SignedInv, PendingOfOneSlot, Voting
<1> QED
  BY <1>2, <1>3, <1>4 DEF DutyInv

(* Steps that leave the duties alone.                                      *)
LEMMA QuietDuty ==
  ASSUME DutyInv, UNCHANGED <<slot, interval, open, todo, pending, signed>>,
         pc' # pc => pc' = "idle" /\ todo = << >>, DutyTypes'
  PROVE  DutyInv'
<1>1. TodoInv'
  <2>1. todo # << >> => pc' = pc
    OBVIOUS
  <2> QED
    BY <2>1 DEF DutyInv, TodoInv
<1>2. Voting' => Voting
  BY DEF Voting
<1>3. VotesInv'
  BY <1>2 DEF DutyInv, VotesInv, PendingOfOneSlot, Done, Signed
<1>4. SignedInv'
  BY DEF DutyInv, SignedInv
<1> QED
  BY <1>1, <1>3, <1>4 DEF DutyInv

(* Time passes.                                                            *)
LEMMA ClockDuty ==
  ASSUME DutyInv, Clock
  PROVE  DutyInv'
<1>1. DutyTypes'
  BY DutiesAssumption DEF DutyInv, DutyTypes, Clock, loop, history, node
<1> QED
  BY <1>1, QuietDuty DEF Clock, loop, history, node

(* The store changes.                                                      *)
LEMMA StoreChangesDuty ==
  ASSUME DutyInv, StoreChanges
  PROVE  DutyInv'
<1>1. DutyTypes'
  BY DEF DutyInv, DutyTypes, StoreChanges, loop, history, node
<1> QED
  BY <1>1, QuietDuty DEF StoreChanges, loop, history, node

(* An iteration ends.                                                      *)
LEMMA EndIterationDuty ==
  ASSUME DutyInv, EndIteration
  PROVE  DutyInv'
<1>1. DutyTypes'
  BY DEF DutyInv, DutyTypes, EndIteration, history, node
<1> QED
  BY <1>1, QuietDuty DEF EndIteration, history, node

(* The node starts again.                                                  *)
LEMMA RestartDuty ==
  ASSUME DutyInv, Restart
  PROVE  DutyInv'
<1>1. now % InstantsPerInterval \in 0 .. InstantsPerInterval - 1
  BY DutiesAssumption, DivMod DEF DutyInv, DutyTypes
<1>2. DutyTypes'
  BY <1>1 DEF DutyInv, DutyTypes, Restart, history
<1>3. todo = << >>
  BY DEF DutyInv, TodoInv, Restart
<1> QED
  BY <1>2, <1>3, QuietDuty DEF Restart, history

(* What the loop reads.                                                    *)
LEMMA ClockReads ==
  ASSUME now \in Int
  PROVE  /\ K \in Int /\ R \in 0 .. InstantsPerInterval - 1
         /\ now >= 0 <=> K >= 0
         /\ CurrentSlot = K \div 4
         /\ CurrentInterval = K % 4
         /\ CurrentInterval \in 0 .. 3
         /\ now >= 0 => CurrentSlot \in Nat
<1>1. InstantsPerInterval \in Nat \ {0}
  BY DutiesAssumption
<1>2. K \in Int /\ R \in 0 .. InstantsPerInterval - 1
  BY <1>1, DivMod DEF K, R
<1>3. now >= 0 <=> K >= 0
  BY <1>1, DivSign DEF K
<1>4. CurrentSlot = K \div 4
  BY <1>1, SlotOfInterval DEF CurrentSlot, K, IntervalsPerSlot
<1>5. CurrentInterval = K % 4
  BY DEF CurrentInterval, K, IntervalsPerSlot
<1>6. K % 4 \in 0 .. 3 /\ (K >= 0 => K \div 4 \in Nat)
  BY <1>2
<1> QED
  BY <1>2, <1>3, <1>4, <1>5, <1>6

(* The loop takes a tick.                                                  *)
LEMMA TakeTickDuty ==
  ASSUME DutyInv, TakeTick
  PROVE  DutyInv'
<1>1. CASE now < 0
  <2>1. DutyTypes'
    BY <1>1 DEF DutyInv, DutyTypes, TakeTick, loop, history, node
  <2> QED
    BY <1>1, <2>1, QuietDuty DEF TakeTick, loop, history, node
<1>2. CASE ~ (now < 0)
  <2>1. /\ pc = "idle" /\ pc' = "slot" /\ slot' = CurrentSlot /\ interval' = 0
        /\ UNCHANGED <<open, todo, now, pending, view, signed, handled, phase>>
    BY <1>2 DEF TakeTick, history, node
  <2>2. now \in Int
    BY DEF DutyInv, DutyTypes
  <2>3. CurrentSlot \in Nat
    BY <1>2, <2>2, ClockReads
  <2>4. DutyTypes'
    BY <2>1, <2>3 DEF DutyInv, DutyTypes
  <2>5. TodoInv'
    BY <2>1 DEF DutyInv, TodoInv
  <2>6. VotesInv'
    BY <2>1 DEF DutyInv, VotesInv, PendingOfOneSlot, Voting
  <2>7. SignedInv'
    BY <2>1 DEF DutyInv, SignedInv
  <2> QED
    BY <2>4, <2>5, <2>6, <2>7 DEF DutyInv
<1> QED
  BY <1>1, <1>2

(* A duty starts, with no votes kept if it is the voting duty.             *)
LEMMA ReadIntervalDuty ==
  ASSUME DutyInv, ReadInterval
  PROVE  DutyInv'
<1>1. /\ pc = "slot" /\ pc' = "duties" /\ interval' = CurrentInterval
      /\ todo' = IF open' /\ CurrentInterval \in {0, 1} THEN Indices ELSE << >>
      /\ pending' = PendingAtStart
      /\ handled' = handled \union {<<slot, CurrentInterval>>}
      /\ UNCHANGED <<now, slot, view, signed, phase>>
  BY DEF ReadInterval, node
<1>2. Indices \in Seq(0 .. NumValidators - 1) /\ Len(Indices) \in Nat
  BY DutiesAssumption
<1>3. CurrentInterval \in 0 .. 3
  BY ClockReads DEF DutyInv, DutyTypes
<1>4. todo' \in Seq(0 .. NumValidators - 1) /\ (todo' = Indices \/ todo' = << >>)
  <2>1. todo' = Indices \/ todo' = << >>
    BY <1>1, Zenon
  <2>2. << >> \in Seq(0 .. NumValidators - 1)
    OBVIOUS
  <2> QED
    BY <1>2, <2>1, <2>2, Zenon
<1>5. pending' = pending \/ pending' = << >>
  BY <1>1 DEF PendingAtStart
<1>6. DutyTypes'
  <2>1. pending' \in Seq(MessageType)
    <3>1. << >> \in Seq(MessageType)
      OBVIOUS
    <3> QED
      BY <1>5, <3>1, Zenon DEF DutyInv, DutyTypes
  <2>2. handled' \subseteq Nat \X (0 .. 3)
    BY <1>1, <1>3 DEF DutyInv, DutyTypes
  <2> QED
    BY <1>1, <1>3, <1>4, <2>1, <2>2 DEF DutyInv, DutyTypes
<1>7. TodoInv'
  <2>1. Len(todo') <= Len(Indices)
    BY <1>2, <1>4
  <2>2. \A i \in 1 .. Len(todo') : todo'[i] = Indices[Len(Indices) - Len(todo') + i]
    BY <1>2, <1>4
  <2>3. todo' # << >> => open' /\ interval' \in {0, 1}
    BY <1>1
  <2> QED
    BY <1>1, <2>1, <2>2, <2>3 DEF TodoInv
<1>8. VotesInv'
  <2>1. PendingOfOneSlot'
    BY <1>5 DEF DutyInv, VotesInv, PendingOfOneSlot
  <2>2. CASE Voting'
    <3>1. pending' = << >> /\ todo' = Indices
      BY <1>1, <2>2 DEF Voting, PendingAtStart
    <3>2. Done' = {} /\ DOMAIN pending' = {}
      BY <1>2, <3>1 DEF Done
    <3> QED
      BY <2>1, <3>2 DEF VotesInv
  <2> QED
    BY <2>1, <2>2 DEF VotesInv
<1>9. SignedInv'
  BY <1>1 DEF DutyInv, SignedInv
<1> QED
  BY <1>6, <1>7, <1>8, <1>9 DEF DutyInv

(* A message is a message.                                                 *)
LEMMA MessageFields ==
  ASSUME NEW idx \in 0 .. NumValidators - 1, NEW s \in Nat,
         NEW duty \in {"block", "vote"}, view \in Nat
  PROVE  /\ Message(idx, s, duty) \in MessageType
         /\ Message(idx, s, duty).validator = idx
         /\ Message(idx, s, duty).slot = s
         /\ Message(idx, s, duty).duty = duty
BY DEF Message, MessageType

(* todo moves on by one validator.                                         *)
LEMMA TodoStep ==
  ASSUME DutyTypes, TodoInv, todo # << >>, todo' = Tail(todo),
         UNCHANGED <<pc, open, interval>>
  PROVE  /\ todo' \in Seq(0 .. NumValidators - 1)
         /\ TodoInv'
         /\ Done' = Done \union {Len(Indices) - Len(todo) + 1}
<1>1. /\ todo' \in Seq(0 .. NumValidators - 1)
      /\ \A i \in 1 .. Len(todo') : todo'[i] = Indices[Len(Indices) - Len(todo') + i]
      /\ Len(todo') <= Len(Indices)
      /\ 1 .. Len(Indices) - Len(todo') = Done \union {Len(Indices) - Len(todo) + 1}
  BY NextTodo, Zenon
<1>2. TodoInv'
  BY <1>1, Zenon DEF TodoInv
<1> QED
  BY <1>1, <1>2, Zenon DEF Done

(* A block, or none, by the next validator.                                *)
LEMMA TryProposeDuty ==
  ASSUME DutyInv, TryPropose
  PROVE  DutyInv'
<1> DEFINE idx == Head(todo)
           new == Message(idx, slot, "block")
<1>1. /\ pc = "duties" /\ interval = 0 /\ todo # << >>
      /\ todo' = Tail(todo)
      /\ UNCHANGED <<now, pc, slot, interval, open, pending, view, handled,
                     phase>>
      /\ signed' = signed \/ (/\ signed' = signed \union {new}
                              /\ IsProposer(idx, slot) /\ CanSign(slot))
  BY DEF TryPropose, node
<1>2. DutyTypes /\ TodoInv /\ VotesInv /\ SignedInv
  BY DEF DutyInv
<1>3. todo' \in Seq(0 .. NumValidators - 1) /\ TodoInv'
  BY <1>1, <1>2, TodoStep
<1>4. /\ new \in MessageType /\ new.validator = idx /\ new.slot = slot
      /\ new.duty = "block"
  <2>1. idx \in 0 .. NumValidators - 1
    BY <1>1, <1>2, NextTodo
  <2>2. slot \in Nat /\ view \in Nat
    BY <1>2 DEF DutyTypes
  <2> HIDE DEF idx
  <2> QED
    BY <2>1, <2>2, MessageFields
<1> HIDE DEF idx, new
<1>5. DutyTypes'
  <2>1. signed' \subseteq MessageType
    BY <1>1, <1>2, <1>4 DEF DutyTypes
  <2> QED
    BY <1>1, <1>2, <1>3, <2>1 DEF DutyTypes
<1>6. VotesInv'
  BY <1>1, <1>2 DEF VotesInv, PendingOfOneSlot, Voting
<1>7. SignedInv'
  BY <1>1, <1>2, <1>4 DEF SignedInv
<1> QED
  BY <1>3, <1>5, <1>6, <1>7 DEF DutyInv

(* A vote, or none, by the next validator.                                 *)
LEMMA TryAttestDuty ==
  ASSUME DutyInv, TryAttest
  PROVE  DutyInv'
<1> DEFINE idx == Head(todo)
           new == Message(idx, slot, "vote")
           d == Len(Indices) - Len(todo) + 1
<1>1. /\ pc = "duties" /\ interval = 1 /\ todo # << >>
      /\ todo' = Tail(todo)
      /\ UNCHANGED <<now, pc, slot, interval, open, handled, phase>>
  BY DEF TryAttest, LeftAfter, node
<1>2. \/ /\ ~ Attests(idx) /\ UNCHANGED <<signed, pending, view>>
      \/ /\ Attests(idx)
         /\ signed' = signed \union {new}
         /\ pending' = Append(pending, new)
         /\ view' \in 0 .. MaxView
  BY DEF TryAttest
<1>3. DutyTypes /\ TodoInv /\ VotesInv /\ SignedInv
  BY DEF DutyInv
<1>4. /\ todo' \in Seq(0 .. NumValidators - 1) /\ TodoInv'
      /\ Done' = Done \union {d}
  BY <1>1, <1>3, TodoStep, Zenon
<1>5. /\ d \in DOMAIN Indices /\ idx = Indices[d]
      /\ idx \in 0 .. NumValidators - 1
  BY <1>1, <1>3, NextTodo, Zenon
<1>6. /\ new \in MessageType /\ new.validator = idx /\ new.slot = slot
      /\ new.duty = "vote"
  <2>1. slot \in Nat /\ view \in Nat
    BY <1>3 DEF DutyTypes
  <2> HIDE DEF idx
  <2> QED
    BY <1>5, <2>1, MessageFields
<1>7. d \notin Done /\ Done \subseteq DOMAIN Indices
  <2>1. Len(Indices) \in Nat /\ DOMAIN Indices = 1 .. Len(Indices) /\ Len(todo) \in Nat
    BY <1>3, DutiesAssumption DEF DutyTypes
  <2> QED
    BY <2>1 DEF Done
<1>8. Voting /\ Voting'
  BY <1>1, <1>3 DEF Voting, TodoInv
<1>9. /\ PendingOfOneSlot
      /\ \A i \in DOMAIN pending :
           /\ pending[i].slot = slot
           /\ \E k \in Done : pending[i].validator = Indices[k]
      /\ \A k \in Done : ~ IsProposer(Indices[k], slot) /\ CanSign(slot) =>
           Signed(Indices[k], slot)
  BY <1>3, <1>8 DEF VotesInv
<1> HIDE DEF idx, new, d
<1>10. DutyTypes'
  <2>1. signed' \subseteq MessageType /\ view' \in Nat
    BY <1>2, <1>3, <1>6 DEF DutyTypes
  <2>2. pending' \in Seq(MessageType)
    <3>1. pending \in Seq(MessageType)
      BY <1>3 DEF DutyTypes
    <3>2. Append(pending, new) \in Seq(MessageType)
      BY <1>6, <3>1, AppendProperties
    <3> QED
      BY <1>2, <3>1, <3>2, Zenon
  <2> QED
    BY <1>1, <1>3, <1>4, <2>1, <2>2, Zenon DEF DutyTypes
<1>11. SignedInv'
  BY <1>2, <1>3, <1>6 DEF SignedInv, Attests
<1>12. \A m \in signed : m \in signed'
  BY <1>2
<1>13. (\A k \in Done : ~ IsProposer(Indices[k], slot) /\ CanSign(slot) =>
          Signed(Indices[k], slot))'
  <2> SUFFICES ASSUME NEW k \in Done \union {d},
                      ~ IsProposer(Indices[k], slot), CanSign(slot)
               PROVE  \E m \in signed' : m.validator = Indices[k] /\ m.slot = slot
    BY <1>1, <1>4 DEF Signed
  <2>1. CASE k \in Done
    BY <1>9, <1>12, <2>1 DEF Signed
  <2>2. CASE k = d
    <3>1. Attests(idx)
      BY <1>5, <2>2 DEF Attests
    <3>2. new \in signed'
      BY <1>2, <3>1
    <3> QED
      BY <1>5, <1>6, <2>2, <3>2
  <2> QED
    BY <2>1, <2>2
<1>14. /\ PendingOfOneSlot'
       /\ \A i \in DOMAIN pending' :
            /\ pending'[i].slot = slot'
            /\ \E k \in Done' : pending'[i].validator = Indices[k]
  <2>1. CASE pending' = pending
    BY <1>1, <1>4, <1>9, <2>1 DEF PendingOfOneSlot
  <2>2. CASE pending' = Append(pending, new)
    <3> DEFINE n == Len(pending)
    <3>1. /\ n \in Nat /\ DOMAIN pending = 1 .. n /\ DOMAIN pending' = 1 .. n + 1
          /\ \A i \in 1 .. n : pending'[i] = pending[i]
          /\ pending'[n + 1] = new
      BY <1>3, <1>6, <2>2 DEF DutyTypes
    <3> HIDE DEF n
    <3>2. \A i \in 1 .. n + 1 : i \in 1 .. n \/ i = n + 1
      BY <3>1
    <3>3. \A i \in 1 .. n + 1 : /\ pending'[i].slot = slot
                                /\ \E k \in Done \union {d} : pending'[i].validator = Indices[k]
      BY <1>5, <1>6, <1>9, <3>1, <3>2
    <3>4. \A i \in 1 .. n : pending'[i].validator # idx
      <4> TAKE i \in 1 .. n
      <4>1. PICK k \in Done : pending'[i].validator = Indices[k]
        BY <1>9, <3>1
      <4>2. Indices[k] # Indices[d]
        BY <1>5, <1>7, DutiesAssumption
      <4> QED
        BY <1>5, <4>1, <4>2
    <3>5. ASSUME NEW i \in 1 .. n + 1, NEW j \in 1 .. n + 1,
                 pending'[i].validator = pending'[j].validator
          PROVE  i = j
      <4>1. CASE i \in 1 .. n /\ j \in 1 .. n
        BY <1>9, <3>1, <3>5, <4>1 DEF PendingOfOneSlot
      <4>2. CASE i = n + 1 \/ j = n + 1
        <5>1. pending'[n + 1].validator = idx
          BY <1>6, <3>1
        <5> QED
          BY <3>2, <3>4, <3>5, <4>2, <5>1
      <4> QED
        BY <3>2, <4>1, <4>2
    <3> QED
      BY <1>1, <1>4, <3>1, <3>3, <3>5 DEF PendingOfOneSlot
  <2> QED
    BY <1>2, <2>1, <2>2
<1>15. VotesInv'
  BY <1>13, <1>14, Zenon DEF VotesInv
<1> QED
  BY <1>4, <1>10, <1>11, <1>15 DEF DutyInv

(* The kept votes are aggregated.                                          *)
LEMMA TryAggregateDuty ==
  ASSUME DutyInv, TryAggregate
  PROVE  DutyInv'
<1>1. /\ interval = 2 /\ pending' = << >>
      /\ UNCHANGED <<now, pc, slot, interval, open, todo, view, signed, handled,
                     phase>>
  BY DEF TryAggregate, loop, node
<1>2. pending' \in Seq(MessageType) /\ DOMAIN pending' = {}
  BY <1>1
<1>3. DutyTypes'
  BY <1>1, <1>2 DEF DutyInv, DutyTypes
<1>4. TodoInv'
  BY <1>1 DEF DutyInv, TodoInv
<1>5. VotesInv'
  BY <1>1, <1>2 DEF VotesInv, PendingOfOneSlot, Voting
<1>6. SignedInv'
  BY <1>1 DEF DutyInv, SignedInv
<1> QED
  BY <1>3, <1>4, <1>5, <1>6 DEF DutyInv

(* The process stops and forgets.                                          *)
LEMMA CrashDuty ==
  ASSUME DutyInv, Crash
  PROVE  DutyInv'
<1>1. /\ pc' = "down" /\ slot' = 0 /\ interval' = 0 /\ todo' = << >>
      /\ pending' = << >>
      /\ UNCHANGED <<now, phase, view, signed, handled>>
  BY DEF Crash, history
<1>2. /\ pending' \in Seq(MessageType) /\ DOMAIN pending' = {}
      /\ todo' \in Seq(0 .. NumValidators - 1) /\ Len(todo') = 0
  BY <1>1
<1>3. Len(Indices) \in Nat
  BY DutiesAssumption
<1>4. DutyTypes'
  BY <1>1, <1>2, <1>3 DEF DutyInv, DutyTypes
<1>5. TodoInv'
  BY <1>1, <1>2, <1>3 DEF TodoInv
<1>6. VotesInv'
  BY <1>1, <1>2 DEF VotesInv, PendingOfOneSlot, Voting
<1>7. SignedInv'
  BY <1>1 DEF DutyInv, SignedInv
<1> QED
  BY <1>4, <1>5, <1>6, <1>7 DEF DutyInv

(* Every step keeps the invariant.                                         *)
LEMMA NextDuty ==
  ASSUME DutyInv, [Next]_vars
  PROVE  DutyInv'
<1>1. CASE UNCHANGED vars
  <2>1. DutyTypes'
    BY <1>1 DEF vars, DutyInv, DutyTypes
  <2> QED
    BY <1>1, <2>1, QuietDuty DEF vars
<1> QED
  BY <1>1, ClockDuty, StoreChangesDuty, TakeTickDuty, ReadIntervalDuty,
     TryProposeDuty, TryAttestDuty, TryAggregateDuty, EndIterationDuty,
     CrashDuty, RestartDuty DEF Next

(* The invariant of the duties holds however late an iteration is.         *)
THEOREM DutyInvariance == Spec => []DutyInv
<1>1. Init => DutyInv
  BY InitDuty
<1>2. DutyInv /\ [Next]_vars => DutyInv'
  BY NextDuty
<1> QED
  BY <1>1, <1>2, PTL DEF Spec

(* The votes kept for the aggregate are of one slot, one per validator,    *)
(* also when iterations are late and intervals are handled twice.          *)
THEOREM PendingStaysOfOneSlot == Spec => []PendingOfOneSlot
<1>1. DutyInv => PendingOfOneSlot
  BY DEF DutyInv, VotesInv
<1> QED
  BY <1>1, DutyInvariance, PTL

(* When the voting duty of a slot is over, exactly the validators with a   *)
(* vote to cast and a key that can sign have signed.                       *)
THEOREM AttestersHaveSigned == Spec => []AttestersSign
<1>1. DutyInv => AttestersSign
  <2> SUFFICES ASSUME DutyInv, VotesDone, NEW i \in DOMAIN Indices,
                      ~ IsProposer(Indices[i], slot)
               PROVE  Signed(Indices[i], slot) <=> CanSign(slot)
    BY DEF AttestersSign
  <2>1. Voting /\ i \in Done
    <3>1. Indices \in Seq(0 .. NumValidators - 1)
      BY DutiesAssumption
    <3>2. Len(todo) = 0
      BY DEF VotesDone
    <3> QED
      BY <3>1, <3>2 DEF VotesDone, Voting, Done
  <2>2. CanSign(slot) => Signed(Indices[i], slot)
    BY <2>1 DEF DutyInv, VotesInv
  <2>3. Signed(Indices[i], slot) => CanSign(slot)
    BY DEF DutyInv, SignedInv, Signed
  <2> QED
    BY <2>2, <2>3
<1> QED
  BY <1>1, DutyInvariance, PTL

-----------------------------------------------------------------------------
(* The clock of a punctual node.                                           *)

(* A pair determines its interval.                                         *)
LEMMA PairNumber ==
  ASSUME NEW k \in Int
  PROVE  IntervalsPerSlot * Pair(k)[1] + Pair(k)[2] = k
BY DEF Pair, IntervalsPerSlot

(* An interval that has not begun has not been handled.                    *)
LEMMA FutureNotHandled ==
  ASSUME NEW k \in Int, NEW m \in Int, m < k, NEW H,
         \A h \in H : IntervalsPerSlot * h[1] + h[2] <= m
  PROVE  Pair(k) \notin H
<1>1. IntervalsPerSlot * Pair(k)[1] + Pair(k)[2] = k
  BY PairNumber
<1> QED
  BY <1>1

(* The clock and its quotients.                                            *)
LEMMA ClockMoves ==
  ASSUME DutyTypes, Clock
  PROVE  /\ K \in Int /\ K' \in Int /\ R \in Nat /\ R' \in Nat /\ phase \in Nat
         /\ phase <= InstantsPerInterval - 1
         /\ \/ R' # 0 /\ K' = K /\ R' = R + 1
            \/ R' = 0 /\ K' = K + 1 /\ R = InstantsPerInterval - 1
         /\ tick' = (tick \/ (pc # "down" /\ R' = phase))
         /\ punctual /\ (tick \/ pc \in {"slot", "duties"}) => R' # 0
         /\ UNCHANGED <<pc, slot, interval, open, todo, pending, view, signed,
                        handled, again, punctual, phase>>
<1>1. InstantsPerInterval \in Nat \ {0} /\ Phases \subseteq 0 .. InstantsPerInterval - 1
  BY DutiesAssumption
<1>2. /\ now \in Int /\ now + 1 \in Int /\ now' = now + 1
      /\ phase \in 0 .. InstantsPerInterval - 1
  BY DEF DutyTypes, Clock
<1>3. K \in Int /\ R \in 0 .. InstantsPerInterval - 1
  BY <1>1, <1>2, DivMod DEF K, R
<1>4. K' \in Int /\ R' \in 0 .. InstantsPerInterval - 1
  BY <1>1, <1>2, DivMod DEF K, R
<1>5. \/ R' # 0 /\ K' = K /\ R' = R + 1
      \/ R' = 0 /\ K' = K + 1 /\ R = InstantsPerInterval - 1
  BY <1>1, <1>2, ClockStep DEF K, R
<1>6. R' = (now + 1) % InstantsPerInterval
  BY <1>2 DEF R
<1>7. /\ tick' = (tick \/ (pc # "down" /\ R' = phase))
      /\ punctual /\ (tick \/ pc \in {"slot", "duties"}) => R' # 0
  BY <1>6, Zenon DEF Clock
<1>8. UNCHANGED <<pc, slot, interval, open, todo, pending, view, signed,
                  handled, again, punctual, phase>>
  BY DEF Clock, loop, history, node
<1>9. phase \in Nat /\ phase <= InstantsPerInterval - 1
  BY <1>1, <1>2
<1> QED
  BY <1>1, <1>3, <1>4, <1>5, <1>7, <1>8, <1>9

(* Time passes: within the interval, or into one nobody has handled.       *)
LEMMA ClockTime ==
  ASSUME ClockInv, Clock
  PROVE  TimeInv'
<1> SUFFICES ASSUME punctual PROVE TimeInv'
  <2>1. punctual' = punctual
    BY ClockMoves DEF ClockInv, DutyInv
  <2> QED
    BY <2>1 DEF TimeInv
<1> DEFINE busy == pc \in {"slot", "duties"}
<1>1. /\ K \in Int /\ K' \in Int /\ R \in Nat /\ R' \in Nat /\ phase \in Nat
      /\ phase <= InstantsPerInterval - 1
      /\ \/ R' # 0 /\ K' = K /\ R' = R + 1
         \/ R' = 0 /\ K' = K + 1 /\ R = InstantsPerInterval - 1
      /\ tick' <=> (tick \/ (pc # "down" /\ R' = phase))
      /\ tick \/ busy => R' # 0
      /\ UNCHANGED <<pc, slot, interval, open, todo, pending, view, signed,
                     handled, again, punctual, phase>>
  BY ClockMoves DEF ClockInv, DutyInv
<1>2. /\ pc \in {"idle", "slot", "duties", "down"} /\ now' = now + 1 /\ now \in Int
      /\ InstantsPerInterval \in Nat
  BY DutiesAssumption DEF ClockInv, DutyInv, DutyTypes, Clock
<1>3. /\ \A h \in handled : IntervalsPerSlot * h[1] + h[2] <= K
      /\ tick => pc \notin {"slot", "duties", "down"}
      /\ tick \/ busy => R >= phase
      /\ busy => now >= 0 /\ slot = K \div IntervalsPerSlot
      /\ pc = "duties" => interval = K % IntervalsPerSlot /\ Pair(K) \in handled
      /\ pc # "down" /\ (tick \/ pc = "slot" \/ R < phase) => Pair(K) \notin handled
  BY DEF ClockInv, TimeInv
<1>4. CASE R' # 0 /\ K' = K /\ R' = R + 1
  <2>1. Pair(K)' = Pair(K)
    BY <1>4 DEF Pair, IntervalsPerSlot
  <2>2. tick \/ busy => (tick' <=> tick)
    BY <1>1, <1>3, <1>4
  <2>3. tick' => pc \notin {"slot", "duties", "down"}
    BY <1>1, <1>2, <1>3, <2>2
  <2>4. tick' \/ busy => R' >= phase
    BY <1>1, <1>3, <1>4
  <2>5. pc # "down" /\ (tick' \/ pc = "slot" \/ R' < phase) => Pair(K) \notin handled
    BY <1>1, <1>2, <1>3, <1>4, <2>2
  <2>6. busy => now' >= 0
    BY <1>2, <1>3
  <2> HIDE DEF busy
  <2> QED
    BY <1>1, <1>3, <1>4, <2>1, <2>3, <2>4, <2>5, <2>6 DEF TimeInv, busy, IntervalsPerSlot
<1>5. CASE R' = 0 /\ K' = K + 1 /\ R = InstantsPerInterval - 1
  <2>1. ~ tick /\ ~ busy
    BY <1>1, <1>5
  <2>2. Pair(K') \notin handled
    BY <1>1, <1>3, <1>5, FutureNotHandled
  <2>3. \A h \in handled : IntervalsPerSlot * h[1] + h[2] <= K'
    <3> TAKE h \in handled
    <3>1. h[1] \in Nat /\ h[2] \in Nat
      BY DEF ClockInv, DutyInv, DutyTypes
    <3>2. IntervalsPerSlot * h[1] + h[2] \in Int
      BY <3>1 DEF IntervalsPerSlot
    <3> QED
      BY <1>1, <1>3, <1>5, <3>2
  <2>4. Pair(K)' = Pair(K')
    BY DEF Pair
  <2>5. tick' => pc # "down" /\ R' >= phase
    BY <1>1, <2>1
  <2> QED
    BY <1>1, <1>2, <1>3, <2>1, <2>2, <2>3, <2>4, <2>5 DEF TimeInv
<1> QED
  BY <1>1, <1>4, <1>5

(* Steps that neither the clock nor the loop's reading takes part in.      *)
LEMMA QuietTime ==
  ASSUME ClockInv, UNCHANGED <<now, tick, pc, slot, interval, handled, punctual, phase>>
  PROVE  TimeInv'
<1>1. K' = K /\ R' = R /\ Pair(K)' = Pair(K)
  BY DEF K, R, Pair
<1> QED
  BY <1>1 DEF ClockInv, TimeInv

(* The slot is read in the interval of the tick.                           *)
LEMMA TakeTickTime ==
  ASSUME ClockInv, TakeTick
  PROVE  TimeInv'
<1>1. /\ pc = "idle" /\ tick /\ tick' = FALSE
      /\ UNCHANGED <<now, handled, punctual, phase>>
      /\ IF now < 0 THEN UNCHANGED <<pc, slot, interval>>
         ELSE pc' = "slot" /\ slot' = CurrentSlot
  BY DEF TakeTick, loop, history, node
<1>2. K' = K /\ R' = R /\ Pair(K)' = Pair(K)
  BY <1>1 DEF K, R, Pair
<1>3. /\ now \in Int /\ K \in Int /\ R \in Nat /\ phase \in Nat
      /\ now >= 0 <=> K >= 0
      /\ CurrentSlot = K \div 4
  <2>1. now \in Int /\ phase \in Nat
    BY DutiesAssumption DEF ClockInv, DutyInv, DutyTypes
  <2> QED
    BY <2>1, DutiesAssumption, ClockReads
<1> SUFFICES ASSUME punctual PROVE TimeInv'
  BY <1>1 DEF TimeInv
<1>4. /\ \A h \in handled : IntervalsPerSlot * h[1] + h[2] <= K
      /\ R >= phase /\ Pair(K) \notin handled
  BY <1>1 DEF ClockInv, TimeInv
<1>5. CASE now < 0
  BY <1>1, <1>2, <1>3, <1>4, <1>5 DEF TimeInv
<1>6. CASE ~ (now < 0)
  <2>1. pc' = "slot" /\ slot' = K \div IntervalsPerSlot /\ now >= 0
    BY <1>1, <1>3, <1>6 DEF IntervalsPerSlot
  <2> QED
    BY <1>1, <1>2, <1>3, <1>4, <2>1 DEF TimeInv
<1> QED
  BY <1>5, <1>6

(* The interval the loop reads is the one its slot was read in.            *)
LEMMA ReadPair ==
  ASSUME ClockInv, ReadInterval, punctual
  PROVE  /\ <<slot, CurrentInterval>> = Pair(K)
         /\ Pair(K) \notin handled
<1>1. pc = "slot" /\ now \in Int
  BY DEF ReadInterval, ClockInv, DutyInv, DutyTypes
<1>2. slot = K \div IntervalsPerSlot /\ Pair(K) \notin handled
  BY <1>1 DEF ClockInv, TimeInv
<1>3. CurrentInterval = K % IntervalsPerSlot
  BY <1>1, ClockReads DEF IntervalsPerSlot
<1> QED
  BY <1>2, <1>3 DEF Pair

(* The interval read is handled now, and was not before.                   *)
LEMMA ReadIntervalTime ==
  ASSUME ClockInv, ReadInterval
  PROVE  TimeInv'
<1> SUFFICES ASSUME punctual PROVE TimeInv'
  BY DEF ReadInterval, node, TimeInv
<1>1. <<slot, CurrentInterval>> = Pair(K)
  BY ReadPair
<1>2. /\ pc = "slot" /\ pc' = "duties" /\ interval' = CurrentInterval
      /\ handled' = handled \union {Pair(K)}
      /\ UNCHANGED <<now, tick, slot, punctual, phase>>
  BY <1>1 DEF ReadInterval, node
<1>3. K' = K /\ R' = R /\ Pair(K)' = Pair(K)
  BY <1>2 DEF K, R, Pair
<1>4. /\ K \in Int /\ R \in Nat /\ phase \in Nat /\ CurrentInterval = K % IntervalsPerSlot
  <2>1. now \in Int /\ phase \in Nat
    BY DutiesAssumption DEF ClockInv, DutyInv, DutyTypes
  <2> QED
    BY <2>1, DutiesAssumption, ClockReads DEF IntervalsPerSlot
<1>5. /\ \A h \in handled : IntervalsPerSlot * h[1] + h[2] <= K
      /\ ~ tick /\ R >= phase /\ now >= 0 /\ slot = K \div IntervalsPerSlot
  BY <1>2 DEF ClockInv, TimeInv
<1>6. \A h \in handled' : IntervalsPerSlot * h[1] + h[2] <= K
  BY <1>2, <1>4, <1>5, PairNumber
<1> QED
  BY <1>2, <1>3, <1>4, <1>5, <1>6 DEF TimeInv

(* The interval of the iteration has been handled.                         *)
LEMMA EndIterationTime ==
  ASSUME ClockInv, EndIteration
  PROVE  TimeInv'
<1>1. /\ pc = "duties" /\ pc' = "idle"
      /\ UNCHANGED <<now, tick, slot, interval, handled, punctual, phase>>
  BY DEF EndIteration, history, node
<1>2. K' = K /\ R' = R /\ Pair(K)' = Pair(K)
  BY <1>1 DEF K, R, Pair
<1>3. R \in Nat /\ phase \in Nat
  <2>1. now \in Int /\ phase \in Nat
    BY DutiesAssumption DEF ClockInv, DutyInv, DutyTypes
  <2> QED
    BY <2>1, DutiesAssumption, ClockReads
<1> QED
  BY <1>1, <1>2, <1>3 DEF ClockInv, TimeInv

(* A crash takes the tick with it.                                         *)
LEMMA CrashTime ==
  ASSUME ClockInv, Crash
  PROVE  TimeInv'
<1>1. /\ pc' = "down" /\ tick' = FALSE
      /\ UNCHANGED <<now, punctual, phase, handled>>
  BY DEF Crash, history
<1>2. K' = K /\ R' = R
  BY <1>1 DEF K, R
<1> QED
  BY <1>1, <1>2 DEF ClockInv, TimeInv

(* A new ticker fires first a whole interval later: in the interval the    *)
(* node starts in, which may be the one it stopped in, there is no tick.   *)
LEMMA RestartTime ==
  ASSUME ClockInv, Restart
  PROVE  TimeInv'
<1>1. /\ pc = "down" /\ pc' = "idle" /\ phase' = R
      /\ UNCHANGED <<now, punctual, tick, slot, interval, handled>>
  BY DEF Restart, history, R
<1>2. K' = K /\ R' = R /\ R \in Nat
  <2>1. now \in Int
    BY DEF ClockInv, DutyInv, DutyTypes
  <2> QED
    BY <1>1, <2>1, ClockReads DEF K, R
<1>3. ~ (R' < phase')
  BY <1>1, <1>2
<1> QED
  BY <1>1, <1>2, <1>3 DEF ClockInv, TimeInv

-----------------------------------------------------------------------------
(* What a punctual node signs.                                             *)

(* Steps that sign nothing and start no duty.                              *)
LEMMA QuietOnce ==
  ASSUME ClockInv, UNCHANGED <<punctual, signed>>, handled \subseteq handled',
         pc' = "duties" => pc = "duties" /\ UNCHANGED <<slot, interval, todo>>
  PROVE  OnceInv' /\ OneMessagePerSlot'
<1>1. OneMessagePerSlot'
  BY DEF ClockInv, OneMessagePerSlot
<1>2. OnceInv'
  <2> SUFFICES ASSUME punctual PROVE OnceInv'
    BY DEF OnceInv
  <2>1. \A m \in signed : <<m.slot, DutyInterval(m)>> \in handled'
    BY DEF ClockInv, OnceInv
  <2>2. ASSUME pc' = "duties" PROVE Done' = Done
    BY <2>2 DEF Done
  <2> QED
    BY <2>1, <2>2 DEF ClockInv, OnceInv, DutyInterval
<1> QED
  BY <1>1, <1>2

(* The next validator is skipped.                                          *)
LEMMA QuietTodo ==
  ASSUME ClockInv, todo # << >>, todo' = Tail(todo),
         UNCHANGED <<punctual, pc, slot, interval, open, handled, signed>>
  PROVE  OnceInv' /\ OneMessagePerSlot'
<1>1. Done \subseteq Done'
  BY TodoStep, Zenon DEF ClockInv, DutyInv
<1>2. OneMessagePerSlot'
  BY DEF ClockInv, OneMessagePerSlot
<1>3. OnceInv'
  BY <1>1 DEF ClockInv, OnceInv, DutyInterval
<1> QED
  BY <1>2, <1>3

(* A duty starts in an interval that was not handled: nothing was signed   *)
(* in it.                                                                  *)
LEMMA ReadIntervalOnce ==
  ASSUME ClockInv, ReadInterval
  PROVE  OnceInv' /\ OneMessagePerSlot'
<1>1. /\ pc' = "duties" /\ interval' = CurrentInterval
      /\ handled' = handled \union {<<slot, CurrentInterval>>}
      /\ UNCHANGED <<punctual, signed, slot>>
  BY DEF ReadInterval, node
<1>2. OneMessagePerSlot'
  BY <1>1 DEF ClockInv, OneMessagePerSlot
<1>3. OnceInv'
  <2> SUFFICES ASSUME punctual PROVE OnceInv'
    BY <1>1 DEF OnceInv
  <2>1. <<slot, CurrentInterval>> \notin handled
    BY ReadPair
  <2>2. \A m \in signed : <<m.slot, DutyInterval(m)>> \in handled
    BY DEF ClockInv, OnceInv
  <2>3. \A m \in signed : ~ (m.slot = slot /\ DutyInterval(m) = CurrentInterval)
    BY <2>1, <2>2
  <2> QED
    BY <1>1, <2>2, <2>3 DEF OnceInv, DutyInterval
<1> QED
  BY <1>2, <1>3

(* The next validator signs.  It has not signed for the slot before: not   *)
(* in another duty, since the proposer only proposes and the others only   *)
(* vote; nor in this one, since the validators are distinct.               *)
LEMMA SignsOnce ==
  ASSUME ClockInv, todo # << >>, todo' = Tail(todo), NEW new,
         signed' = signed \/ signed' = signed \union {new},
         new.validator = Head(todo), new.slot = slot, DutyInterval(new) = interval,
         new.duty \in {"block", "vote"},
         new.duty = "block" <=> IsProposer(Head(todo), slot),
         UNCHANGED <<punctual, pc, slot, interval, open, handled>>
  PROVE  OnceInv' /\ OneMessagePerSlot'
<1> SUFFICES ASSUME punctual PROVE OnceInv' /\ OneMessagePerSlot'
  BY DEF OnceInv, OneMessagePerSlot
<1> DEFINE d == Len(Indices) - Len(todo) + 1
           idx == Head(todo)
<1>1. DutyTypes /\ TodoInv /\ SignedInv
  BY DEF ClockInv, DutyInv
<1>2. Done' = Done \union {d}
  BY <1>1, TodoStep, Zenon
<1>3. d \in DOMAIN Indices /\ idx = Indices[d]
  BY <1>1, NextTodo, Zenon
<1>4. d \notin Done /\ Done \subseteq DOMAIN Indices
  <2>1. Len(Indices) \in Nat /\ DOMAIN Indices = 1 .. Len(Indices) /\ Len(todo) \in Nat
    BY <1>1, DutiesAssumption DEF DutyTypes
  <2> QED
    BY <2>1 DEF Done
<1>5. pc = "duties"
  BY <1>1 DEF TodoInv
<1>6. <<slot, interval>> \in handled
  BY <1>5 DEF ClockInv, TimeInv, Pair
<1>7. /\ \A m \in signed : <<m.slot, DutyInterval(m)>> \in handled
      /\ \A m \in signed : m.slot = slot /\ DutyInterval(m) = interval =>
           \E k \in Done : m.validator = Indices[k]
  BY <1>5 DEF ClockInv, OnceInv
<1>8. \A a, b \in signed : a.validator = b.validator /\ a.slot = b.slot => a = b
  BY DEF ClockInv, OneMessagePerSlot
<1> HIDE DEF d, idx
<1>9. ASSUME NEW m \in signed, m.validator = idx, m.slot = slot
      PROVE  FALSE
  <2>1. m.duty \in {"block", "vote"} /\ (m.duty = "block" <=> IsProposer(idx, slot))
    BY <1>1, <1>9 DEF DutyTypes, MessageType, SignedInv
  <2>2. m.duty = new.duty
    BY <2>1 DEF idx
  <2>3. DutyInterval(m) = interval
    BY <2>2 DEF DutyInterval
  <2>4. PICK k \in Done : m.validator = Indices[k]
    BY <1>7, <1>9, <2>3
  <2>5. Indices[k] = Indices[d] => k = d
    BY <1>3, <1>4, DutiesAssumption
  <2> QED
    BY <1>3, <1>4, <1>9, <2>4, <2>5
<1>10. OneMessagePerSlot'
  <2>1. \A m \in signed' : m \in signed \/ m = new
    OBVIOUS
  <2>2. new.validator = idx
    BY DEF idx
  <2> QED
    BY <1>8, <1>9, <2>1, <2>2 DEF OneMessagePerSlot
<1>11. OnceInv'
  <2>1. \A m \in signed' : m \in signed \/ m = new
    OBVIOUS
  <2>2. \A m \in signed' : <<m.slot, DutyInterval(m)>> \in handled
    BY <1>6, <1>7, <2>1
  <2>3. \A m \in signed' : m.slot = slot /\ DutyInterval(m) = interval =>
          \E k \in Done' : m.validator = Indices[k]
    BY <1>2, <1>3, <1>7, <2>1 DEF idx
  <2> QED
    BY <2>2, <2>3 DEF OnceInv, DutyInterval
<1> QED
  BY <1>10, <1>11

(* The proposer's block is its only message for the slot.                  *)
LEMMA TryProposeOnce ==
  ASSUME ClockInv, TryPropose
  PROVE  OnceInv' /\ OneMessagePerSlot'
<1> DEFINE idx == Head(todo)
           new == Message(idx, slot, "block")
<1>1. /\ interval = 0 /\ todo # << >> /\ todo' = Tail(todo)
      /\ UNCHANGED <<punctual, pc, slot, interval, open, handled>>
  BY DEF TryPropose, node
<1>2. CASE UNCHANGED signed
  BY <1>1, <1>2, QuietTodo
<1>3. CASE signed' = signed \union {new} /\ IsProposer(idx, slot)
  <2>1. /\ new.validator = idx /\ new.slot = slot /\ new.duty = "block"
        /\ DutyInterval(new) = interval
    BY <1>1 DEF Message, DutyInterval
  <2> HIDE DEF new
  <2> QED
    BY <1>1, <1>3, <2>1, SignsOnce
<1> QED
  BY <1>2, <1>3 DEF TryPropose

(* Another validator's vote is its only message for the slot.              *)
LEMMA TryAttestOnce ==
  ASSUME ClockInv, TryAttest
  PROVE  OnceInv' /\ OneMessagePerSlot'
<1> DEFINE idx == Head(todo)
           new == Message(idx, slot, "vote")
<1>1. /\ interval = 1 /\ todo # << >> /\ todo' = Tail(todo)
      /\ UNCHANGED <<punctual, pc, slot, interval, open, handled>>
  BY DEF TryAttest, LeftAfter, node
<1>2. CASE UNCHANGED signed
  BY <1>1, <1>2, QuietTodo
<1>3. CASE signed' = signed \union {new} /\ ~ IsProposer(idx, slot)
  <2>1. /\ new.validator = idx /\ new.slot = slot /\ new.duty = "vote"
        /\ DutyInterval(new) = interval
    BY <1>1 DEF Message, DutyInterval
  <2> HIDE DEF new
  <2> QED
    BY <1>1, <1>3, <2>1, SignsOnce
<1> QED
  BY <1>2, <1>3 DEF TryAttest, Attests

(* The clock's part of every step.                                         *)
LEMMA NextTime ==
  ASSUME ClockInv, Next
  PROVE  TimeInv'
<1>1. CASE StoreChanges
  BY <1>1, QuietTime DEF StoreChanges, loop, history, node
<1>2. CASE TryPropose
  BY <1>2, QuietTime DEF TryPropose, node
<1>3. CASE TryAttest
  BY <1>3, QuietTime DEF TryAttest, node
<1>4. CASE TryAggregate
  BY <1>4, QuietTime DEF TryAggregate, loop, node
<1> QED
  BY <1>1, <1>2, <1>3, <1>4, ClockTime, TakeTickTime, ReadIntervalTime,
     EndIterationTime, CrashTime, RestartTime DEF Next

(* The signatures' part of every step.                                     *)
LEMMA NextOnce ==
  ASSUME ClockInv, Next
  PROVE  OnceInv' /\ OneMessagePerSlot'
<1>1. CASE Clock
  BY <1>1, QuietOnce DEF Clock, loop, history, node
<1>2. CASE StoreChanges
  BY <1>2, QuietOnce DEF StoreChanges, loop, history, node
<1>3. CASE TakeTick
  <2>1. pc = "idle" /\ (pc' = pc \/ pc' = "slot") /\ UNCHANGED <<punctual, signed, handled>>
    BY <1>3 DEF TakeTick, loop, history, node
  <2> QED
    BY <2>1, QuietOnce
<1>4. CASE TryAggregate
  BY <1>4, QuietOnce DEF TryAggregate, loop, node
<1>5. CASE EndIteration
  BY <1>5, QuietOnce DEF EndIteration, history, node
<1>6. CASE Crash
  BY <1>6, QuietOnce DEF Crash, history
<1>7. CASE Restart
  BY <1>7, QuietOnce DEF Restart, history
<1> QED
  BY <1>1, <1>2, <1>3, <1>4, <1>5, <1>6, <1>7, ReadIntervalOnce, TryProposeOnce,
     TryAttestOnce DEF Next

(* At the start nothing is signed and no interval has begun.               *)
LEMMA InitClock == Init => ClockInv
<1> SUFFICES ASSUME Init PROVE ClockInv
  OBVIOUS
<1>1. DutyInv
  BY InitDuty
<1>2. /\ now \in Int /\ ~ (now >= 0) /\ signed = {} /\ handled = {}
      /\ pc = "idle" /\ tick = FALSE
  BY DutiesAssumption DEF Init
<1>3. K \in Int /\ K < 0 /\ R \in Nat /\ phase \in Nat
  BY <1>1, <1>2, ClockReads DEF DutyInv, DutyTypes
<1>4. TimeInv
  BY <1>2, <1>3 DEF TimeInv
<1>5. OnceInv /\ OneMessagePerSlot
  BY <1>2 DEF OnceInv, OneMessagePerSlot
<1> QED
  BY <1>1, <1>4, <1>5 DEF ClockInv

(* Every step.                                                             *)
LEMMA NextClock ==
  ASSUME ClockInv, [Next]_vars
  PROVE  ClockInv'
<1>1. DutyInv'
  BY NextDuty DEF ClockInv
<1>2. CASE UNCHANGED vars
  <2>1. TimeInv'
    BY <1>2, QuietTime DEF vars
  <2>2. OnceInv' /\ OneMessagePerSlot'
    BY <1>2, QuietOnce DEF vars
  <2> QED
    BY <1>1, <2>1, <2>2 DEF ClockInv
<1>3. CASE Next
  BY <1>1, <1>3, NextTime, NextOnce DEF ClockInv
<1> QED
  BY <1>2, <1>3

(* The invariant of the clock.                                             *)
THEOREM ClockInvariance == Spec => []ClockInv
<1>1. Init => ClockInv
  BY InitClock
<1>2. ClockInv /\ [Next]_vars => ClockInv'
  BY NextClock
<1> QED
  BY <1>1, <1>2, PTL DEF Spec

(* OneMessagePerSlot: no key signs two messages for one slot, whatever the *)
(* store does between two duties and however often and how soon the node   *)
(* restarts, as long as iterations end in the interval of their tick.      *)
THEOREM KeysSignOncePerSlot == Spec => []OneMessagePerSlot
<1>1. ClockInv => OneMessagePerSlot
  BY DEF ClockInv
<1> QED
  BY <1>1, ClockInvariance, PTL
=============================================================================
