-------------------------- MODULE AlgorithmsProofs --------------------------
(***************************************************************************)
(* Two of the pure algorithms, for every input.  isqrt is exact although   *)
(* math.Sqrt is not, for every slot, and IsJustifiableAfter is the rule of *)
(* 3SF-mini; bitlists on bytes are lists of Booleans, of every length.     *)
(***************************************************************************)
EXTENDS BitsAndSlots, SequenceTheorems, WellFoundedInduction, TLAPS

(* Multiplication of naturals is monotone.                                 *)
LEMMA SquareMonotone ==
  ASSUME NEW a \in Nat, NEW b \in Nat, a <= b
  PROVE  a * a <= b * b
<1>1. PICK d \in Nat : b = a + d
  BY b - a \in Nat
<1>2. b * b = a * a + 2 * (a * d) + d * d
  BY <1>1
<1>3. a * d \in Nat /\ d * d \in Nat
  BY <1>1
<1> QED
  BY <1>2, <1>3

(* CorrectSqrt in isqrt (types/slot.go): an estimate that is off by at     *)
(* most one in either direction is corrected to the integer square root.   *)
LEMMA CorrectionExact ==
  ASSUME NEW n \in Nat, NEW r \in Nat, NEW y \in Nat,
         IsRoot(r, n), r - 1 <= y, y <= r + 1
  PROVE  CorrectSqrt(y, n) = r
<1>1. r * r <= n /\ ~ ((r + 1) * (r + 1) <= n)
  BY DEF IsRoot
<1>2. CASE y = r - 1
  <2>1. (y + 1) * (y + 1) = r * r
    BY <1>2
  <2> QED
    BY <1>1, <1>2, <2>1 DEF CorrectSqrt
<1>3. CASE y = r
  <2>1. ~ ((y + 1) * (y + 1) <= n) /\ ~ (y * y > n)
    BY <1>1, <1>3
  <2> QED
    BY <1>3, <2>1 DEF CorrectSqrt
<1>4. CASE y = r + 1
  <2>1. (r + 1) * (r + 1) <= (y + 1) * (y + 1)
    BY <1>4, SquareMonotone
  <2>2. ~ ((y + 1) * (y + 1) <= n)
    BY <1>1, <2>1
  <2>3. y * y > n
    BY <1>1, <1>4
  <2> QED
    BY <1>4, <2>2, <2>3 DEF CorrectSqrt
<1> QED
  BY <1>2, <1>3, <1>4

(* A set of naturals that is not empty has a smallest element.             *)
LEMMA SmallestOf ==
  ASSUME NEW T \in SUBSET Nat, T # {}
  PROVE  \E m \in T : \A y \in T : m <= y
<1>1. IsWellFoundedOn(OpToRel(<, Nat), Nat)
  BY NatLessThanWellFounded, Zenon
<1>2. PICK m \in T : \A y \in T : ~ (<<y, m>> \in OpToRel(<, Nat))
  BY <1>1, WFMin, Zenon
<1>3. \A y \in T : ~ (y < m)
  BY <1>2, Zenon DEF OpToRel
<1> QED
  BY <1>3

(* Every natural number has an integer square root: the smallest y with    *)
(* n < (y + 1) * (y + 1).                                                  *)
LEMMA RootExists ==
  ASSUME NEW n \in Nat
  PROVE  \E r \in 0 .. n : IsRoot(r, n)
<1> DEFINE T == {y \in Nat : n < (y + 1) * (y + 1)}
<1>1. n \in T
  <2>1. (n + 1) * (n + 1) = n * n + 2 * n + 1
    OBVIOUS
  <2>2. n * n \in Nat
    OBVIOUS
  <2> QED
    BY <2>1, <2>2
<1>2. PICK r \in T : \A y \in T : r <= y
  BY <1>1, SmallestOf
<1>3. r \in Nat /\ r <= n /\ n < (r + 1) * (r + 1)
  BY <1>1, <1>2
<1>4. r * r <= n
  <2>1. CASE r = 0
    BY <2>1
  <2>2. CASE r > 0
    <3>1. r - 1 \in Nat /\ r - 1 \notin T
      BY <1>2, <1>3, <2>2
    <3>2. ~ (n < ((r - 1) + 1) * ((r - 1) + 1))
      BY <3>1
    <3>3. (r - 1) + 1 = r
      BY <1>3
    <3>4. r * r \in Nat
      BY <1>3
    <3> QED
      BY <3>2, <3>3, <3>4
  <2> QED
    BY <1>3, <2>1, <2>2
<1> QED
  BY <1>3, <1>4 DEF IsRoot

(* It has only one.                                                        *)
LEMMA RootUnique ==
  ASSUME NEW n \in Nat, NEW r \in Nat, NEW s \in Nat, IsRoot(r, n), IsRoot(s, n)
  PROVE  r = s
<1>1. ASSUME NEW a \in Nat, NEW b \in Nat, IsRoot(a, n), IsRoot(b, n)
      PROVE  ~ (a < b)
  <2> SUFFICES ASSUME a < b PROVE FALSE
    OBVIOUS
  <2>1. (a + 1) * (a + 1) <= b * b
    BY SquareMonotone
  <2>2. b * b <= n /\ n < (a + 1) * (a + 1)
    BY <1>1 DEF IsRoot
  <2>3. (a + 1) * (a + 1) \in Nat /\ b * b \in Nat
    OBVIOUS
  <2> QED
    BY <2>1, <2>2, <2>3
<1> QED
  BY <1>1

(* isqrt is the integer square root of every distance.                     *)
LEMMA IsqrtIsRoot ==
  ASSUME NEW n \in Nat
  PROVE  isqrt(n) \in 0 .. n /\ IsRoot(isqrt(n), n)
<1>1. CASE n = 0
  BY <1>1 DEF isqrt, IsRoot
<1>2. CASE n # 0
  <2>1. PICK r \in 0 .. n : IsRoot(r, n)
    BY RootExists
  <2>2. FloatSqrt(n) \in 0 .. n /\ IsRoot(FloatSqrt(n), n)
    BY <2>1 DEF FloatSqrt, IsRoot
  <2> DEFINE f == FloatSqrt(n)
  <2> HIDE DEF f
  <2>3. f \in Nat /\ f \in 0 .. n /\ IsRoot(f, n)
    BY <2>2 DEF f
  <2>4. CorrectSqrt(f, n) = f
    BY <2>3, CorrectionExact
  <2>5. isqrt(n) = f
    BY <1>2, <2>4 DEF isqrt, f
  <2> QED
    BY <2>3, <2>5
<1> QED
  BY <1>1, <1>2

(* A square and a pronic number give back the number they come from.       *)
LEMMA SquareAndPronicRoots ==
  ASSUME NEW k \in Nat
  PROVE  IsRoot(k, k * k) /\ IsRoot(k, k * (k + 1))
<1>1. /\ k * (k + 1) = k * k + k
      /\ (k + 1) * (k + 1) = k * k + 2 * k + 1
      /\ k * k \in Nat
  OBVIOUS
<1> QED
  BY <1>1 DEF IsRoot

(* IsJustifiableAfter (types/slot.go) is the rule of 3SF-mini for every    *)
(* pair of slots.                                                          *)
THEOREM JustifiableRule ==
  ASSUME NEW s \in Nat, NEW f \in Nat
  PROVE  IsJustifiableAfter(s, f) <=>
           \E k \in 0 .. s : s - f \in (0 .. 5) \union {k * k, k * (k + 1)}
<1> DEFINE d == s - f
           r == isqrt(d)
<1>1. ASSUME IsJustifiableAfter(s, f)
      PROVE  \E k \in 0 .. s : d \in (0 .. 5) \union {k * k, k * (k + 1)}
  <2>1. d \in Nat /\ d <= s
    BY <1>1 DEF IsJustifiableAfter
  <2>2. r \in 0 .. d
    <3> HIDE DEF d
    <3> QED
      BY <2>1, IsqrtIsRoot
  <2>3. d <= 5 \/ r * r = d \/ r * (r + 1) = d
    BY <1>1 DEF IsJustifiableAfter
  <2> HIDE DEF d, r
  <2>4. r \in 0 .. s
    BY <2>1, <2>2
  <2> QED
    BY <2>1, <2>3, <2>4
<1>2. ASSUME NEW k \in 0 .. s, d \in (0 .. 5) \union {k * k, k * (k + 1)}
      PROVE  IsJustifiableAfter(s, f)
  <2>1. k \in Nat /\ k * k \in Nat /\ k * (k + 1) \in Nat
    OBVIOUS
  <2>2. d \in Nat
    BY <1>2, <2>1
  <2>3. s >= f
    BY <2>2
  <2>4. d <= 5 \/ r * r = d \/ r * (r + 1) = d
    <3>1. r \in Nat /\ IsRoot(r, d)
      <4> HIDE DEF d
      <4> QED
        BY <2>2, IsqrtIsRoot
    <3>2. CASE d \in 0 .. 5
      BY <3>2
    <3> HIDE DEF d, r
    <3>3. CASE d = k * k
      <4>1. IsRoot(k, d)
        BY <2>1, <3>3, SquareAndPronicRoots
      <4>2. r = k
        BY <2>1, <2>2, <3>1, <4>1, RootUnique
      <4> QED
        BY <3>3, <4>2
    <3>4. CASE d = k * (k + 1)
      <4>1. IsRoot(k, d)
        BY <2>1, <3>4, SquareAndPronicRoots
      <4>2. r = k
        BY <2>1, <2>2, <3>1, <4>1, RootUnique
      <4> QED
        BY <3>4, <4>2
    <3> QED
      BY <1>2, <3>2, <3>3, <3>4
  <2> QED
    BY <2>3, <2>4 DEF IsJustifiableAfter
<1> QED
  BY <1>1, <1>2

-----------------------------------------------------------------------------
(* The invariant: the distance is a natural number and x is an estimate of *)
(* its square root.                                                        *)
EstimateInv ==
  /\ slot \in Nat
  /\ finalizedSlot \in Nat
  /\ finalizedSlot <= slot
  /\ x \in Rounded(slot - finalizedSlot)

(* Every estimate math.Sqrt may deliver is corrected.                      *)
LEMMA EstimateCorrected ==
  EstimateInv => IsqrtExact
<1> SUFFICES ASSUME EstimateInv PROVE IsqrtExact
  OBVIOUS
<1> DEFINE n == slot - finalizedSlot
<1>1. n \in Nat
  BY DEF EstimateInv
<1>2. x \in Nat /\ \E r \in 0 .. n : IsRoot(r, n) /\ r - 1 <= x /\ x <= r + 1
  BY <1>1 DEF EstimateInv, Rounded
<1>3. PICK r \in 0 .. n : IsRoot(r, n) /\ r - 1 <= x /\ x <= r + 1
  BY <1>2
<1>4. r \in Nat
  BY <1>1
<1> HIDE DEF n
<1>5. CorrectSqrt(x, n) = r
  BY <1>1, <1>2, <1>3, <1>4, CorrectionExact
<1> QED
  BY <1>3, <1>4, <1>5 DEF IsqrtExact, n

(* The estimate stays one of the distance's root.                          *)
THEOREM EstimateInvariance == Spec => []EstimateInv
<1>1. Init => EstimateInv
  BY DEF Init, EstimateInv
<1>2. EstimateInv /\ [Next]_vars => EstimateInv'
  <2> SUFFICES ASSUME EstimateInv, [Next]_vars PROVE EstimateInv'
    OBVIOUS
  <2>1. CASE AdvanceSlot
    BY <2>1 DEF AdvanceSlot, EstimateInv
  <2>2. CASE Finalize
    BY <2>2 DEF Finalize, EstimateInv
  <2>3. CASE UNCHANGED vars
    BY <2>3 DEF vars, EstimateInv
  <2> QED
    BY <2>1, <2>2, <2>3 DEF Next
<1> QED
  BY <1>1, <1>2, PTL DEF Spec

(* isqrt returns the integer square root of every distance between a slot  *)
(* and the finalized slot, whichever way the float was rounded.            *)
THEOREM IsqrtAlwaysExact == Spec => []IsqrtExact
BY EstimateInvariance, EstimateCorrected, PTL

(* Whatever the slot and whatever is final, a slot is justifiable exactly  *)
(* at the distances of the rule, and never before the finalized slot.      *)
THEOREM JustifiableIsByDistance == Spec => []JustifiableByDistance
<1>1. EstimateInv => JustifiableByDistance
  <2> SUFFICES ASSUME EstimateInv,
                      NEW f \in {finalizedSlot, slot + 1, MaxSlot}
               PROVE  IsJustifiableAfter(slot, f) <=>
                        \E k \in 0 .. slot :
                          slot - f \in (0 .. 5) \union {k * k, k * (k + 1)}
    BY DEF JustifiableByDistance
  <2>1. slot \in Nat /\ f \in Nat
    BY SlotRoundingAssumption DEF EstimateInv
  <2> QED
    BY <2>1, JustifiableRule
<1> QED
  BY <1>1, EstimateInvariance, PTL

-----------------------------------------------------------------------------
(* Bitlists on bytes.                                                      *)

Bytes == Seq(SUBSET (0 .. 7))

(* s is a bitlist of n bits: its last byte holds the sentinel, bit n, and  *)
(* nothing above it.                                                       *)
Packed(s, n) ==
  /\ s \in Bytes /\ n \in Nat
  /\ Len(s) = n \div 8 + 1
  /\ B!GetBit(s, n)
  /\ \A i \in Nat : i > n => ~ B!GetBit(s, i)

(* A position is a byte and a bit in it.                                   *)
LEMMA BytePosition ==
  ASSUME NEW i \in Nat
  PROVE  i \div 8 \in Nat /\ i % 8 \in 0 .. 7 /\ i = 8 * (i \div 8) + (i % 8)
OBVIOUS

(* Two positions that differ are different bytes or different bits.        *)
LEMMA SamePosition ==
  ASSUME NEW i \in Nat, NEW j \in Nat, i \div 8 = j \div 8, i % 8 = j % 8
  PROVE  i = j
BY BytePosition

LEMMA PositionOf ==
  ASSUME NEW q \in Nat, NEW r \in 0 .. 7
  PROVE  (8 * q + r) \div 8 = q /\ (8 * q + r) % 8 = r
OBVIOUS

(* The bytes grow with the bits.                                           *)
LEMMA ByteMonotone ==
  ASSUME NEW i \in Nat, NEW j \in Nat, i <= j
  PROVE  i \div 8 <= j \div 8
BY BytePosition

(* BytesFor counts the bytes up to the one of the last bit.                *)
LEMMA BytesForIs ==
  ASSUME NEW n \in Nat
  PROVE  B!BytesFor(n + 1) = n \div 8 + 1 /\ B!BytesFor(n + 2) = (n + 1) \div 8 + 1
<1>1. (n + 1) + 7 = n + 8 /\ (n + 2) + 7 = (n + 1) + 8
  OBVIOUS
<1>2. \A m \in Nat : (m + 8) \div 8 = m \div 8 + 1
  OBVIOUS
<1> QED
  BY <1>1, <1>2 DEF B!BytesFor

(* A bit of a byte string is a Boolean.                                    *)
LEMMA GetBitIs ==
  ASSUME NEW s \in Bytes, NEW i \in Nat
  PROVE  /\ B!GetBit(s, i) \in BOOLEAN
         /\ B!GetBit(s, i) => i \div 8 + 1 \in 1 .. Len(s) /\ i < 8 * Len(s)
         /\ Len(s) \in Nat
<1>1. Len(s) \in Nat
  BY DEF Bytes
<1>2. B!GetBit(s, i) => i \div 8 < Len(s)
  BY Zenon DEF B!GetBit
<1>3. i \div 8 < Len(s) => i \div 8 + 1 \in 1 .. Len(s) /\ i < 8 * Len(s)
  BY <1>1, BytePosition
<1>4. B!GetBit(s, i) \in BOOLEAN
  BY Zenon DEF B!GetBit
<1> QED
  BY <1>1, <1>2, <1>3, <1>4, Zenon

(* WithBit changes the bit it is given and no other.                       *)
LEMMA WithBitGet ==
  ASSUME NEW s \in Bytes, NEW idx \in Nat, idx \div 8 < Len(s), NEW val \in BOOLEAN
  PROVE  /\ B!WithBit(s, idx, val) \in Bytes
         /\ Len(B!WithBit(s, idx, val)) = Len(s)
         /\ B!GetBit(B!WithBit(s, idx, val), idx) <=> val
         /\ \A i \in Nat \ {idx} : B!GetBit(B!WithBit(s, idx, val), i) <=> B!GetBit(s, i)
<1> DEFINE at == idx \div 8 + 1
           bit == idx % 8
           byte == IF val THEN s[at] \union {bit} ELSE s[at] \ {bit}
           t == B!WithBit(s, idx, val)
<1>1. at \in 1 .. Len(s) /\ bit \in 0 .. 7 /\ Len(s) \in Nat
  BY BytePosition DEF Bytes
<1>2. t = [s EXCEPT ![at] = byte]
  BY Zenon DEF B!WithBit
<1>3. byte \in SUBSET (0 .. 7)
  BY <1>1 DEF Bytes
<1>4. bit \in byte <=> val
  BY Zenon
<1>5. \A r : r # bit => (r \in byte <=> r \in s[at])
  BY Zenon
<1> HIDE DEF byte, t, at, bit
<1>6. /\ t \in Bytes /\ Len(t) = Len(s) /\ t[at] = byte
      /\ \A i \in 1 .. Len(s) : i # at => t[i] = s[i]
  BY <1>1, <1>2, <1>3, ExceptSeq DEF Bytes
<1>7. B!GetBit(t, idx) <=> val
  BY <1>4, <1>6, Zenon DEF B!GetBit, at, bit
<1>8. ASSUME NEW i \in Nat, i # idx
      PROVE  B!GetBit(t, i) <=> B!GetBit(s, i)
  <2>1. CASE i \div 8 < Len(s) /\ i \div 8 + 1 = at
    <3>1. i % 8 # bit
      BY <1>8, <2>1, BytePosition DEF at, bit
    <3> QED
      BY <1>5, <1>6, <2>1, <3>1, Zenon DEF B!GetBit
  <2>2. CASE i \div 8 < Len(s) /\ i \div 8 + 1 # at
    <3>1. i \div 8 + 1 \in 1 .. Len(s)
      BY <1>1, <2>2, BytePosition
    <3> QED
      BY <1>6, <2>2, <3>1, Zenon DEF B!GetBit
  <2>3. CASE ~ (i \div 8 < Len(s))
    BY <1>6, <2>3, Zenon DEF B!GetBit
  <2> QED
    BY <2>1, <2>2, <2>3, Zenon
<1> QED
  BY <1>6, <1>7, <1>8, Zenon DEF t

(* The sentinel's position is the length.                                  *)
LEMMA PackedLen ==
  ASSUME NEW s, NEW n, Packed(s, n)
  PROVE  B!BitlistLen(s) = n
<1>1. /\ s \in Bytes /\ n \in Nat /\ Len(s) = n \div 8 + 1 /\ Len(s) \in Nat
      /\ n \div 8 \in Nat /\ n % 8 \in 0 .. 7 /\ n = 8 * (n \div 8) + (n % 8)
  BY BytePosition DEF Packed, Bytes
<1> DEFINE last == s[Len(s)]
<1>2. last \subseteq 0 .. 7 /\ n % 8 \in last
  BY <1>1 DEF Packed, B!GetBit, Bytes
<1>3. ASSUME NEW r \in last PROVE n % 8 >= r
  <2> DEFINE i == 8 * (n \div 8) + r
  <2>1. r \in 0 .. 7 /\ i \in Nat /\ i \div 8 = n \div 8 /\ i % 8 = r
    <3> DEFINE q == n \div 8
    <3>1. r \in 0 .. 7 /\ q \in Nat
      BY <1>1, <1>2
    <3> HIDE DEF q
    <3>2. 8 * q + r \in Nat
      BY <3>1
    <3>3. (8 * q + r) \div 8 = q /\ (8 * q + r) % 8 = r
      BY <3>1, PositionOf, Zenon
    <3> QED
      BY <3>1, <3>2, <3>3, Zenon DEF q
  <2> HIDE DEF i
  <2>2. B!GetBit(s, i)
    <3>1. i \div 8 < Len(s) /\ i \div 8 + 1 = Len(s)
      BY <1>1, <2>1
    <3> QED
      BY <2>1, <3>1, Zenon DEF B!GetBit
  <2>3. ~ (i > n)
    BY <2>1, <2>2 DEF Packed
  <2> QED
    BY <1>1, <2>1, <2>3 DEF i
<1>4. B!Max(last) = n % 8
  BY <1>1, <1>2, <1>3 DEF B!Max
<1>5. B!BitlistLen(s) = (Len(s) - 1) * 8 + B!Max(last)
  <2>1. last # {}
    BY <1>2, Zenon
  <2>2. \A k \in Nat : k + 1 # 0
    OBVIOUS
  <2>3. Len(s) # 0
    BY <1>1, <2>2, Zenon
  <2> QED
    BY <2>1, <2>3, Zenon DEF B!BitlistLen
<1> QED
  BY <1>1, <1>4, <1>5

(* MakeBitlist has the sentinel only.                                      *)
LEMMA MakePacked ==
  ASSUME NEW n \in Nat
  PROVE  /\ Packed(B!MakeBitlist(n), n)
         /\ \A i \in Nat : B!GetBit(B!MakeBitlist(n), i) <=> i = n
<1>1. CASE n = 0
  <2> DEFINE s == <<{0}>>
  <2>1. B!MakeBitlist(n) = s
    BY <1>1, Zenon DEF B!MakeBitlist
  <2>2. s \in Bytes /\ Len(s) = 1 /\ s[1] = {0}
    BY DEF Bytes
  <2> HIDE DEF s
  <2>3. ASSUME NEW i \in Nat PROVE B!GetBit(s, i) <=> i = n
    <3>1. (i \div 8 < 1 /\ i % 8 \in {0}) <=> i = 0
      BY BytePosition
    <3>2. i \div 8 < 1 => i \div 8 + 1 = 1
      BY BytePosition
    <3> QED
      BY <1>1, <2>2, <3>1, <3>2, Zenon DEF B!GetBit
  <2>4. n \div 8 + 1 = 1
    BY <1>1
  <2>5. \A i \in Nat : i > n => ~ B!GetBit(s, i)
    BY <2>3
  <2> QED
    BY <2>1, <2>2, <2>3, <2>4, <2>5 DEF Packed
<1>2. CASE n # 0
  <2> DEFINE len == n \div 8 + 1
             zero == [i \in 1 .. len |-> {}]
             s == B!WithBit(zero, n, TRUE)
  <2>1. len \in Nat /\ n \div 8 < len
    BY BytePosition
  <2>2. B!MakeBitlist(n) = s
    BY <1>2, BytesForIs DEF B!MakeBitlist
  <2> HIDE DEF len
  <2>3. zero \in Bytes /\ Len(zero) = len /\ \A i \in 1 .. len : zero[i] = {}
    BY <2>1 DEF Bytes
  <2> HIDE DEF zero
  <2>4. \A i \in Nat : ~ B!GetBit(zero, i)
    <3> SUFFICES ASSUME NEW i \in Nat, B!GetBit(zero, i) PROVE FALSE
      OBVIOUS
    <3>1. i \div 8 + 1 \in 1 .. len /\ i % 8 \in zero[i \div 8 + 1]
      BY <2>3, GetBitIs DEF B!GetBit
    <3> QED
      BY <2>3, <3>1
  <2>5. /\ s \in Bytes /\ Len(s) = len /\ B!GetBit(s, n)
        /\ \A i \in Nat \ {n} : B!GetBit(s, i) <=> B!GetBit(zero, i)
    BY <2>1, <2>3, WithBitGet
  <2> HIDE DEF s
  <2>6. \A i \in Nat : B!GetBit(s, i) <=> i = n
    BY <2>4, <2>5, Zenon
  <2>7. \A i \in Nat : i > n => ~ B!GetBit(s, i)
    BY <2>6
  <2> QED
    BY <2>2, <2>5, <2>6, <2>7 DEF Packed, len
<1> QED
  BY <1>1, <1>2

(* AppendBit moves the sentinel up, puts the bit where it was and keeps    *)
(* the others.                                                             *)
LEMMA AppendPacked ==
  ASSUME NEW s, NEW n, Packed(s, n), NEW val \in BOOLEAN
  PROVE  /\ Packed(B!AppendBit(s, val), n + 1)
         /\ \A i \in Nat : i < n => (B!GetBit(B!AppendBit(s, val), i) <=> B!GetBit(s, i))
         /\ B!GetBit(B!AppendBit(s, val), n) <=> val
<1>1. /\ s \in Bytes /\ n \in Nat /\ Len(s) = n \div 8 + 1 /\ Len(s) \in Nat
      /\ B!BitlistLen(s) = n
      /\ \A i \in Nat : i > n => ~ B!GetBit(s, i)
  BY PackedLen DEF Packed, Bytes
<1> DEFINE len == (n + 1) \div 8 + 1
           resized == [i \in 1 .. len |-> IF i <= Len(s) THEN s[i] ELSE {}]
           cleared == IF n > 0 THEN B!WithBit(resized, n, FALSE) ELSE resized
           put == B!WithBit(cleared, n, val)
           t == B!WithBit(put, n + 1, TRUE)
<1>2. B!AppendBit(s, val) = t
  <2>1. B!BytesFor(n + 2) = len
    BY <1>1, BytesForIs
  <2> QED
    BY <1>1, <2>1 DEF B!AppendBit
<1>3. len \in Nat /\ Len(s) <= len /\ n \div 8 < len /\ (n + 1) \div 8 < len
  BY <1>1, ByteMonotone, BytePosition
<1>x. len = (n + 1) \div 8 + 1
  OBVIOUS
<1> HIDE DEF len
<1>4. /\ resized \in Bytes /\ Len(resized) = len
      /\ \A i \in 1 .. len : resized[i] = IF i <= Len(s) THEN s[i] ELSE {}
  <2>1. \A i \in 1 .. len : (IF i <= Len(s) THEN s[i] ELSE {}) \in SUBSET (0 .. 7)
    BY <1>1, <1>3 DEF Bytes
  <2> QED
    BY <1>3, <2>1 DEF Bytes
<1> HIDE DEF resized
<1>5. ASSUME NEW i \in Nat PROVE B!GetBit(resized, i) <=> B!GetBit(s, i)
  <2>1. i \div 8 \in Nat
    BY BytePosition
  <2>2. CASE i \div 8 < Len(s)
    <3>1. i \div 8 + 1 \in 1 .. len /\ i \div 8 + 1 <= Len(s) /\ i \div 8 < len
      BY <1>1, <1>3, <2>1, <2>2
    <3> QED
      BY <1>4, <2>2, <3>1, Zenon DEF B!GetBit
  <2>3. CASE ~ (i \div 8 < Len(s)) /\ i \div 8 < len
    <3>1. i \div 8 + 1 \in 1 .. len /\ ~ (i \div 8 + 1 <= Len(s))
      BY <1>1, <1>3, <2>1, <2>3
    <3>2. resized[i \div 8 + 1] = {}
      BY <1>4, <3>1
    <3> QED
      BY <2>3, <3>2, Zenon DEF B!GetBit
  <2>4. CASE ~ (i \div 8 < Len(s)) /\ ~ (i \div 8 < len)
    BY <1>4, <2>4, Zenon DEF B!GetBit
  <2> QED
    BY <2>2, <2>3, <2>4, Zenon
<1>6. /\ cleared \in Bytes /\ Len(cleared) = len
      /\ \A i \in Nat \ {n} : B!GetBit(cleared, i) <=> B!GetBit(resized, i)
  <2>1. CASE n > 0
    <3>1. cleared = B!WithBit(resized, n, FALSE)
      BY <2>1
    <3> HIDE DEF cleared
    <3> QED
      BY <1>1, <1>3, <1>4, <3>1, WithBitGet
  <2>2. CASE ~ (n > 0)
    <3>1. cleared = resized
      BY <2>2
    <3> HIDE DEF cleared
    <3> QED
      BY <1>4, <3>1
  <2> QED
    BY <2>1, <2>2
<1> HIDE DEF cleared
<1>7. /\ put \in Bytes /\ Len(put) = len /\ (B!GetBit(put, n) <=> val)
      /\ \A i \in Nat \ {n} : B!GetBit(put, i) <=> B!GetBit(cleared, i)
  BY <1>1, <1>3, <1>6, WithBitGet
<1> HIDE DEF put
<1>8. /\ t \in Bytes /\ Len(t) = len /\ B!GetBit(t, n + 1)
      /\ \A i \in Nat \ {n + 1} : B!GetBit(t, i) <=> B!GetBit(put, i)
  <2>1. n + 1 \in Nat /\ (n + 1) \div 8 < Len(put) /\ TRUE \in BOOLEAN
    BY <1>1, <1>3, <1>7
  <2> QED
    BY <1>7, <2>1, WithBitGet, Zenon
<1> HIDE DEF t
<1>9. ASSUME NEW i \in Nat, i # n, i # n + 1 PROVE B!GetBit(t, i) <=> B!GetBit(s, i)
  BY <1>5, <1>6, <1>7, <1>8, <1>9, Zenon
<1>10. B!GetBit(t, n) <=> val
  <2>1. n \in Nat \ {n + 1}
    BY <1>1
  <2> QED
    BY <1>7, <1>8, <2>1, Zenon
<1>11. ASSUME NEW i \in Nat, i < n PROVE B!GetBit(t, i) <=> B!GetBit(s, i)
  <2>1. i # n /\ i # n + 1
    BY <1>1, <1>11
  <2> QED
    BY <1>9, <2>1, Zenon
<1>12. ASSUME NEW i \in Nat, i > n + 1 PROVE ~ B!GetBit(t, i)
  <2>1. i # n /\ i # n + 1 /\ i > n
    BY <1>1, <1>12
  <2> QED
    BY <1>1, <1>9, <2>1, Zenon
<1>13. Packed(t, n + 1)
  <2>1. n + 1 \in Nat
    BY <1>1
  <2> QED
    BY <1>x, <1>8, <1>12, <2>1, Zenon DEF Packed
<1> QED
  BY <1>2, <1>10, <1>11, <1>13, Zenon

(* SetBit, at any position but the sentinel's, changes that bit and keeps  *)
(* the others; beyond the last byte it does nothing.                       *)
LEMMA SetGet ==
  ASSUME NEW s \in Bytes, NEW idx \in Nat, NEW val \in BOOLEAN
  PROVE  /\ B!SetBit(s, idx, val) \in Bytes
         /\ Len(B!SetBit(s, idx, val)) = Len(s)
         /\ idx \div 8 < Len(s) => (B!GetBit(B!SetBit(s, idx, val), idx) <=> val)
         /\ ~ (idx \div 8 < Len(s)) => B!SetBit(s, idx, val) = s
         /\ \A i \in Nat \ {idx} : B!GetBit(B!SetBit(s, idx, val), i) <=> B!GetBit(s, i)
<1>1. Len(s) \in Nat /\ idx \div 8 \in Nat
  BY BytePosition DEF Bytes
<1>2. CASE idx \div 8 < Len(s)
  <2>1. B!SetBit(s, idx, val) = B!WithBit(s, idx, val)
    BY <1>1, <1>2 DEF B!SetBit
  <2> DEFINE t == B!WithBit(s, idx, val)
  <2>2. /\ t \in Bytes /\ Len(t) = Len(s) /\ (B!GetBit(t, idx) <=> val)
        /\ \A i \in Nat \ {idx} : B!GetBit(t, i) <=> B!GetBit(s, i)
    BY <1>2, WithBitGet
  <2> HIDE DEF t
  <2>3. B!SetBit(s, idx, val) = t
    BY <2>1, Zenon DEF t
  <2> QED
    BY <1>2, <2>2, <2>3
<1>3. CASE ~ (idx \div 8 < Len(s))
  <2>1. B!SetBit(s, idx, val) = s
    BY <1>1, <1>3 DEF B!SetBit
  <2> QED
    BY <1>3, <2>1, Zenon
<1> QED
  BY <1>2, <1>3, Zenon

(* Below the sentinel the bitlist keeps its length.                        *)
LEMMA SetPacked ==
  ASSUME NEW s, NEW n, Packed(s, n), NEW idx \in Nat, idx < n, NEW val \in BOOLEAN
  PROVE  /\ Packed(B!SetBit(s, idx, val), n)
         /\ B!GetBit(B!SetBit(s, idx, val), idx) <=> val
         /\ \A i \in Nat \ {idx} : B!GetBit(B!SetBit(s, idx, val), i) <=> B!GetBit(s, i)
<1> DEFINE t == B!SetBit(s, idx, val)
<1>1. /\ s \in Bytes /\ n \in Nat /\ Len(s) = n \div 8 + 1 /\ B!GetBit(s, n)
      /\ \A i \in Nat : i > n => ~ B!GetBit(s, i)
  BY DEF Packed
<1>2. idx \div 8 < Len(s)
  BY <1>1, ByteMonotone, BytePosition
<1>3. /\ t \in Bytes /\ Len(t) = Len(s) /\ (B!GetBit(t, idx) <=> val)
      /\ \A i \in Nat \ {idx} : B!GetBit(t, i) <=> B!GetBit(s, i)
  BY <1>1, <1>2, SetGet, Zenon
<1> HIDE DEF t
<1>4. \A i \in Nat : i >= n => i # idx
  BY <1>1
<1>5. n >= n /\ \A i \in Nat : i > n => i >= n
  BY <1>1
<1>6. Packed(t, n)
  BY <1>1, <1>3, <1>4, <1>5, Zenon DEF Packed
<1> QED
  BY <1>3, <1>6, Zenon DEF t

(* The set of the positions whose bit is 1.                                *)
LEMMA BitsAre ==
  ASSUME NEW s \in Bytes
  PROVE  B!Bits(s) = {i \in Nat : B!GetBit(s, i)}
<1>1. B!Bits(s) = {i \in 0 .. 8 * Len(s) : B!GetBit(s, i)}
  BY DEF B!Bits
<1>2. \A i \in Nat : B!GetBit(s, i) => i \in 0 .. 8 * Len(s)
  <2> SUFFICES ASSUME NEW i \in Nat, B!GetBit(s, i) PROVE i \in 0 .. 8 * Len(s)
    OBVIOUS
  <2>1. i < 8 * Len(s) /\ Len(s) \in Nat
    BY GetBitIs, Zenon
  <2> QED
    BY <2>1
<1>3. 0 .. 8 * Len(s) \subseteq Nat
  OBVIOUS
<1> QED
  BY <1>1, <1>2, <1>3, Zenon

(* The set form has the same length.                                       *)
LEMMA SetLen ==
  ASSUME NEW s, NEW n, Packed(s, n)
  PROVE  B!SetForm!BitlistLen(B!Bits(s)) = n /\ B!Bits(s) # {}
<1> DEFINE T == B!Bits(s)
<1>1. T = {i \in Nat : B!GetBit(s, i)} /\ n \in Nat
  BY BitsAre DEF Packed
<1>2. n \in T /\ \A i \in T : n >= i /\ i \in Nat
  BY <1>1 DEF Packed
<1> HIDE DEF T
<1>3. B!SetForm!Max(T) = n
  BY <1>1, <1>2 DEF B!SetForm!Max
<1>4. T # {}
  BY <1>2, Zenon
<1>5. B!SetForm!BitlistLen(T) = n
  BY <1>3, <1>4, Zenon DEF B!SetForm!BitlistLen
<1> QED
  BY <1>4, <1>5, Zenon DEF T

(* AppendBit on the set is AppendBit on the bytes.                         *)
LEMMA SetAppend ==
  ASSUME NEW s, NEW n, Packed(s, n), NEW val \in BOOLEAN
  PROVE  B!SetForm!AppendBit(B!Bits(s), val) = B!Bits(B!AppendBit(s, val))
<1> DEFINE t == B!AppendBit(s, val)
           T == B!Bits(s)
<1>1. /\ s \in Bytes /\ n \in Nat /\ n + 1 \in Nat
      /\ \A i \in Nat : i > n => ~ B!GetBit(s, i)
  BY DEF Packed
<1>2. /\ Packed(t, n + 1) /\ (B!GetBit(t, n) <=> val)
      /\ \A i \in Nat : i < n => (B!GetBit(t, i) <=> B!GetBit(s, i))
  BY AppendPacked
<1> HIDE DEF t
<1>3. /\ t \in Bytes /\ B!GetBit(t, n + 1)
      /\ \A i \in Nat : i > n + 1 => ~ B!GetBit(t, i)
  BY <1>2 DEF Packed
<1>4. B!Bits(t) = {i \in Nat : B!GetBit(t, i)} /\ T = {i \in Nat : B!GetBit(s, i)}
  BY <1>1, <1>3, BitsAre
<1>5. B!SetForm!BitlistLen(T) = n
  BY SetLen
<1> HIDE DEF T
<1>6. B!SetForm!AppendBit(T, val) =
        (T \ {n}) \union (IF val THEN {n} ELSE {}) \union {n + 1}
  BY <1>5, Zenon DEF B!SetForm!AppendBit
<1>7. ASSUME NEW i \in Nat
      PROVE  i \in B!SetForm!AppendBit(T, val) <=> B!GetBit(t, i)
  <2>1. CASE i < n
    <3>1. i # n /\ i # n + 1
      BY <1>1, <2>1
    <3> QED
      BY <1>2, <1>4, <1>6, <2>1, <3>1
  <2>2. CASE i = n
    <3>1. n # n + 1
      BY <1>1
    <3> QED
      BY <1>2, <1>6, <2>2, <3>1, Zenon
  <2>3. CASE i = n + 1
    BY <1>3, <1>6, <2>3, Zenon
  <2>4. CASE i > n + 1
    <3>1. i # n /\ i # n + 1 /\ i > n
      BY <1>1, <2>4
    <3> QED
      BY <1>1, <1>3, <1>4, <1>6, <2>4, <3>1, Zenon
  <2> QED
    BY <1>1, <2>1, <2>2, <2>3, <2>4
<1>8. B!SetForm!AppendBit(T, val) \subseteq Nat
  BY <1>1, <1>4, <1>6, Zenon
<1>9. B!SetForm!AppendBit(T, val) = B!Bits(t)
  BY <1>4, <1>7, <1>8, Zenon
<1> QED
  BY <1>9, Zenon DEF t, T

(* So is SetBit, inside the last byte and beyond it.                       *)
LEMMA SetSet ==
  ASSUME NEW s, NEW n, Packed(s, n), NEW idx \in Nat, NEW val \in BOOLEAN
  PROVE  B!SetForm!SetBit(B!Bits(s), idx, val) = B!Bits(B!SetBit(s, idx, val))
<1> DEFINE t == B!SetBit(s, idx, val)
           T == B!Bits(s)
<1>1. s \in Bytes /\ n \in Nat /\ Len(s) = n \div 8 + 1
  BY DEF Packed
<1>2. /\ t \in Bytes
      /\ idx \div 8 < Len(s) => (B!GetBit(t, idx) <=> val)
      /\ ~ (idx \div 8 < Len(s)) => t = s
      /\ \A i \in Nat \ {idx} : B!GetBit(t, i) <=> B!GetBit(s, i)
  BY <1>1, SetGet
<1>3. B!Bits(t) = {i \in Nat : B!GetBit(t, i)} /\ T = {i \in Nat : B!GetBit(s, i)}
  BY <1>1, <1>2, BitsAre
<1>4. B!SetForm!BitlistLen(T) = n /\ T # {}
  BY SetLen
<1>5. idx \div 8 > n \div 8 <=> ~ (idx \div 8 < Len(s))
  BY <1>1, BytePosition
<1> HIDE DEF t, T
<1>6. CASE idx \div 8 < Len(s)
  <2>1. B!SetForm!SetBit(T, idx, val) = IF val THEN T \union {idx} ELSE T \ {idx}
    BY <1>4, <1>5, <1>6, Zenon DEF B!SetForm!SetBit
  <2>2. \A i \in Nat : i \in B!SetForm!SetBit(T, idx, val) <=> B!GetBit(t, i)
    BY <1>2, <1>3, <1>6, <2>1, Zenon
  <2>3. B!SetForm!SetBit(T, idx, val) \subseteq Nat
    BY <1>3, <2>1, Zenon
  <2>4. B!SetForm!SetBit(T, idx, val) = B!Bits(t)
    BY <1>3, <2>2, <2>3, Zenon
  <2> QED
    BY <2>4, Zenon DEF t, T
<1>7. CASE ~ (idx \div 8 < Len(s))
  <2>1. B!SetForm!SetBit(T, idx, val) = T
    BY <1>4, <1>5, <1>7, Zenon DEF B!SetForm!SetBit
  <2> QED
    BY <1>2, <1>7, <2>1, Zenon DEF t, T
<1> QED
  BY <1>6, <1>7, Zenon

(* So is MakeBitlist.                                                      *)
LEMMA SetMake ==
  ASSUME NEW n \in Nat
  PROVE  B!SetForm!MakeBitlist(n) = B!Bits(B!MakeBitlist(n))
<1>1. /\ B!MakeBitlist(n) \in Bytes
      /\ \A i \in Nat : B!GetBit(B!MakeBitlist(n), i) <=> i = n
  BY MakePacked, Zenon DEF Packed
<1>2. B!Bits(B!MakeBitlist(n)) = {i \in Nat : B!GetBit(B!MakeBitlist(n), i)}
  BY <1>1, BitsAre, Zenon
<1>3. B!SetForm!MakeBitlist(n) = {n}
  BY Zenon DEF B!SetForm!MakeBitlist
<1> QED
  BY <1>1, <1>2, <1>3, Zenon

-----------------------------------------------------------------------------
(* The inductive invariant.                                                *)
BitlistInv == Packed(bl, B!BitlistLen(bl))

(* It is what BytesMatchSets asks for.                                     *)
LEMMA PackedMatches == BitlistInv => BytesMatchSets
<1> SUFFICES ASSUME BitlistInv PROVE BytesMatchSets
  OBVIOUS
<1> DEFINE n == B!BitlistLen(bl)
<1>1. Packed(bl, n)
  BY DEF BitlistInv
<1> HIDE DEF n
<1>2. /\ bl \in Bytes /\ n \in Nat /\ Len(bl) = n \div 8 + 1 /\ Len(bl) \in Nat
      /\ B!GetBit(bl, n) /\ \A i \in Nat : i > n => ~ B!GetBit(bl, i)
  BY <1>1 DEF Packed, Bytes
<1>3. B!WellPacked
  <2>1. Len(bl) = B!BytesFor(n + 1)
    BY <1>2, BytesForIs
  <2>2. \A idx \in n + 1 .. 8 * Len(bl) : idx \in Nat /\ idx > n
    BY <1>2
  <2> QED
    BY <1>2, <2>1, <2>2, Zenon DEF B!WellPacked, n
<1>4. B!SetFormAgrees
  <2>1. B!SetForm!BitlistLen(B!Bits(bl)) = n
    BY <1>1, SetLen
  <2>2. \A val \in BOOLEAN :
          B!SetForm!AppendBit(B!Bits(bl), val) = B!Bits(B!AppendBit(bl, val))
    BY <1>1, SetAppend
  <2>3. \A val \in BOOLEAN : \A idx \in (0 .. n + 9) \ {n} :
          B!SetForm!SetBit(B!Bits(bl), idx, val) = B!Bits(B!SetBit(bl, idx, val))
    <3>1. \A idx \in (0 .. n + 9) \ {n} : idx \in Nat
      BY <1>2
    <3> QED
      BY <1>1, <3>1, SetSet, Zenon
  <2>4. B!SetForm!MakeBitlist(n) = B!Bits(B!MakeBitlist(n))
    BY <1>2, SetMake
  <2> QED
    BY <2>1, <2>2, <2>3, <2>4, Zenon DEF B!SetFormAgrees, n
<1> QED
  BY <1>3, <1>4, Zenon DEF BytesMatchSets, B!BytesMatchSets

(* A step keeps the packing: bits move up into a new byte, the old         *)
(* sentinel is gone.                                                       *)
LEMMA BitlistSteps ==
  ASSUME B!BitlistBytesAssumption
  PROVE  /\ B!Init => BitlistInv
         /\ BitlistInv /\ [B!Next]_bl => BitlistInv'
<1> USE DEF B!BitlistBytesAssumption
<1>1. ASSUME B!Init PROVE BitlistInv
  <2>1. PICK n \in 0 .. MaxBits : bl = B!MakeBitlist(n)
    BY <1>1, Zenon DEF B!Init
  <2>2. n \in Nat
    OBVIOUS
  <2>3. Packed(bl, n)
    BY <2>1, <2>2, MakePacked, Zenon
  <2> QED
    BY <2>3, PackedLen, Zenon DEF BitlistInv
<1>2. ASSUME BitlistInv, [B!Next]_bl PROVE BitlistInv'
  <2> DEFINE n == B!BitlistLen(bl)
  <2>1. Packed(bl, n)
    BY <1>2, Zenon DEF BitlistInv
  <2>2. ASSUME NEW m, Packed(bl', m) PROVE BitlistInv'
    <3>1. B!BitlistLen(bl') = m
      BY <2>2, PackedLen, Zenon
    <3> QED
      BY <2>2, <3>1, Zenon DEF BitlistInv
  <2>3. ASSUME NEW val \in BOOLEAN, B!AddBit(val) PROVE BitlistInv'
    <3>1. bl' = B!AppendBit(bl, val)
      BY <2>3, Zenon DEF B!AddBit
    <3>2. Packed(B!AppendBit(bl, val), n + 1)
      BY <2>1, AppendPacked, Zenon
    <3> QED
      BY <2>2, <3>1, <3>2, Zenon
  <2>4. ASSUME NEW val \in BOOLEAN, NEW idx \in 0 .. MaxBits - 1, B!ChangeBit(idx, val)
        PROVE  BitlistInv'
    <3>1. idx \in Nat
      OBVIOUS
    <3>2. idx < n /\ bl' = B!SetBit(bl, idx, val)
      BY <2>4, Zenon DEF B!ChangeBit
    <3>3. Packed(B!SetBit(bl, idx, val), n)
      BY <2>1, <3>1, <3>2, SetPacked, Zenon
    <3> QED
      BY <2>2, <3>2, <3>3, Zenon
  <2>5. CASE UNCHANGED bl
    BY <1>2, <2>5, Zenon DEF BitlistInv
  <2> QED
    BY <1>2, <2>3, <2>4, <2>5, Zenon DEF B!Next
<1> QED
  BY <1>1, <1>2, Zenon

(* However a bitlist is made, grown and changed, its last byte holds the   *)
(* sentinel and nothing above it.                                          *)
THEOREM BitlistInvariance ==
  ASSUME B!BitlistBytesAssumption
  PROVE  B!Spec => []BitlistInv
<1>1. /\ B!Init => BitlistInv
      /\ BitlistInv /\ [B!Next]_bl => BitlistInv'
  BY BitlistSteps
<1> QED
  BY <1>1, PTL DEF B!Spec

(* Of every length, the bytes are packed right and the set form the        *)
(* consensus model computes with gives the same results.                   *)
THEOREM BytesAlwaysMatchSets ==
  ASSUME B!BitlistBytesAssumption
  PROVE  B!Spec => []BytesMatchSets
<1>1. /\ B!Init => BitlistInv
      /\ BitlistInv /\ [B!Next]_bl => BitlistInv'
  BY BitlistSteps
<1>2. BitlistInv => BytesMatchSets
  BY PackedMatches
<1> QED
  BY <1>1, <1>2, PTL DEF B!Spec

-----------------------------------------------------------------------------
(* The refinement: the list of Booleans a bitlist stands for.              *)
ListOf(s, n) == [i \in 1 .. n |-> B!GetBit(s, i - 1)]

(* A sequence is a function on 1 .. n.                                     *)
LEMMA ListIs ==
  ASSUME NEW s \in Bytes, NEW n \in Nat
  PROVE  /\ ListOf(s, n) \in Seq(BOOLEAN) /\ Len(ListOf(s, n)) = n
         /\ \A i \in 1 .. n : ListOf(s, n)[i] = B!GetBit(s, i - 1)
<1>1. \A i \in 1 .. n : B!GetBit(s, i - 1) \in BOOLEAN
  BY Zenon DEF B!GetBit
<1>2. ListOf(s, n) \in [1 .. n -> BOOLEAN]
  BY <1>1, Zenon DEF ListOf
<1>3. \A i \in 1 .. n : ListOf(s, n)[i] = B!GetBit(s, i - 1)
  BY Zenon DEF ListOf
<1> HIDE DEF ListOf
<1>4. ListOf(s, n) \in Seq(BOOLEAN) /\ Len(ListOf(s, n)) = n
  BY <1>2
<1> QED
  BY <1>3, <1>4

(* Booleans that are equivalent are equal.                                 *)
LEMMA SameTruth ==
  ASSUME NEW p \in BOOLEAN, NEW q \in BOOLEAN, p <=> q
  PROVE  p = q
OBVIOUS

(* A new bitlist is all FALSE.                                             *)
LEMMA ListMake ==
  ASSUME NEW n \in Nat
  PROVE  ListOf(B!MakeBitlist(n), n) = [i \in 1 .. n |-> FALSE]
<1>1. ASSUME NEW i \in 1 .. n PROVE B!GetBit(B!MakeBitlist(n), i - 1) = FALSE
  <2>1. i - 1 \in Nat /\ i - 1 # n
    OBVIOUS
  <2>2. ~ B!GetBit(B!MakeBitlist(n), i - 1)
    BY <2>1, MakePacked, Zenon
  <2> QED
    BY <2>2
<1> QED
  BY <1>1, Zenon DEF ListOf

(* AppendBit appends.                                                      *)
LEMMA ListAppend ==
  ASSUME NEW s, NEW n, Packed(s, n), NEW val \in BOOLEAN
  PROVE  ListOf(B!AppendBit(s, val), n + 1) = Append(ListOf(s, n), val)
<1> DEFINE t == B!AppendBit(s, val)
<1>1. s \in Bytes /\ n \in Nat /\ n + 1 \in Nat
  BY DEF Packed
<1>2. /\ Packed(t, n + 1) /\ (B!GetBit(t, n) <=> val)
      /\ \A i \in Nat : i < n => (B!GetBit(t, i) <=> B!GetBit(s, i))
  BY AppendPacked
<1> HIDE DEF t
<1>3. t \in Bytes
  BY <1>2 DEF Packed
<1> DEFINE l == ListOf(s, n)
           k == ListOf(t, n + 1)
           m == Append(l, val)
<1>4. /\ l \in Seq(BOOLEAN) /\ Len(l) = n
      /\ \A i \in 1 .. n : l[i] = B!GetBit(s, i - 1)
  BY <1>1, ListIs
<1>5. /\ k \in Seq(BOOLEAN) /\ Len(k) = n + 1
      /\ \A i \in 1 .. n + 1 : k[i] = B!GetBit(t, i - 1)
  BY <1>1, <1>3, ListIs, Zenon
<1> HIDE DEF l, k
<1>6. /\ m \in Seq(BOOLEAN) /\ Len(m) = n + 1 /\ m[n + 1] = val
      /\ \A i \in 1 .. n : m[i] = l[i]
  BY <1>1, <1>4, AppendProperties
<1> HIDE DEF m
<1>7. ASSUME NEW i \in 1 .. n + 1 PROVE k[i] = m[i]
  <2>1. CASE i = n + 1
    <3>1. i - 1 = n
      BY <1>1, <2>1
    <3>2. k[i] = B!GetBit(t, n)
      BY <1>5, <3>1
    <3>3. B!GetBit(t, n) = val
      <4>1. B!GetBit(t, n) \in BOOLEAN
        BY <1>1, <1>3, GetBitIs, Zenon
      <4> QED
        BY <1>2, <4>1, Zenon
    <3> QED
      BY <1>6, <2>1, <3>2, <3>3, Zenon
  <2>2. CASE i # n + 1
    <3>1. i \in 1 .. n /\ i - 1 \in Nat /\ i - 1 < n
      BY <1>1, <2>2
    <3>2. k[i] = B!GetBit(t, i - 1) /\ m[i] = B!GetBit(s, i - 1)
      BY <1>4, <1>5, <1>6, <3>1, Zenon
    <3>3. B!GetBit(t, i - 1) \in BOOLEAN /\ B!GetBit(s, i - 1) \in BOOLEAN
      BY <1>1, <1>3, <3>1, GetBitIs, Zenon
    <3>4. B!GetBit(t, i - 1) <=> B!GetBit(s, i - 1)
      BY <1>2, <3>1, Zenon
    <3>5. B!GetBit(t, i - 1) = B!GetBit(s, i - 1)
      BY <3>3, <3>4, SameTruth, Zenon
    <3> QED
      BY <3>2, <3>5, Zenon
  <2> QED
    BY <2>1, <2>2, Zenon
<1>8. k = m
  <2>1. \A i \in 1 .. Len(k) : k[i] = m[i]
    BY <1>5, <1>7, Zenon
  <2> QED
    BY <1>5, <1>6, <2>1, SeqEqual, Zenon
<1> QED
  BY <1>8, Zenon DEF k, m, l, t

(* SetBit changes one element.                                             *)
LEMMA ListSet ==
  ASSUME NEW s, NEW n, Packed(s, n), NEW idx \in Nat, idx < n, NEW val \in BOOLEAN
  PROVE  ListOf(B!SetBit(s, idx, val), n) = [ListOf(s, n) EXCEPT ![idx + 1] = val]
<1> DEFINE t == B!SetBit(s, idx, val)
<1>1. s \in Bytes /\ n \in Nat /\ idx + 1 \in 1 .. n
  BY DEF Packed
<1>2. /\ Packed(t, n) /\ (B!GetBit(t, idx) <=> val)
      /\ \A i \in Nat \ {idx} : B!GetBit(t, i) <=> B!GetBit(s, i)
  BY SetPacked
<1> HIDE DEF t
<1>3. t \in Bytes
  BY <1>2 DEF Packed
<1> DEFINE l == ListOf(s, n)
           k == ListOf(t, n)
           m == [l EXCEPT ![idx + 1] = val]
<1>4. /\ l \in Seq(BOOLEAN) /\ Len(l) = n
      /\ \A i \in 1 .. n : l[i] = B!GetBit(s, i - 1)
  BY <1>1, ListIs
<1>5. /\ k \in Seq(BOOLEAN) /\ Len(k) = n
      /\ \A i \in 1 .. n : k[i] = B!GetBit(t, i - 1)
  BY <1>1, <1>3, ListIs
<1> HIDE DEF l, k
<1>6. /\ m \in Seq(BOOLEAN) /\ Len(m) = n
      /\ \A i \in 1 .. n : m[i] = IF i = idx + 1 THEN val ELSE l[i]
  BY <1>1, <1>4, ExceptSeq
<1> HIDE DEF m
<1>7. ASSUME NEW i \in 1 .. n PROVE k[i] = m[i]
  <2>1. i - 1 \in Nat /\ (i = idx + 1 <=> i - 1 = idx)
    BY <1>1
  <2>2. B!GetBit(t, i - 1) \in BOOLEAN /\ B!GetBit(s, i - 1) \in BOOLEAN
    BY <1>1, <1>3, <2>1, GetBitIs, Zenon
  <2>3. CASE i = idx + 1
    <3>1. B!GetBit(t, i - 1) = val
      BY <1>2, <2>1, <2>2, <2>3, Zenon
    <3> QED
      BY <1>5, <1>6, <2>3, <3>1, Zenon
  <2>4. CASE i # idx + 1
    <3>1. B!GetBit(t, i - 1) <=> B!GetBit(s, i - 1)
      BY <1>2, <2>1, <2>4, Zenon
    <3>2. B!GetBit(t, i - 1) = B!GetBit(s, i - 1)
      BY <2>2, <3>1, SameTruth, Zenon
    <3> QED
      BY <1>4, <1>5, <1>6, <2>4, <3>2, Zenon
  <2> QED
    BY <2>3, <2>4, Zenon
<1>8. k = m
  BY <1>5, <1>6, <1>7, SeqEqual, Zenon
<1> QED
  BY <1>8, Zenon DEF k, m, l, t

(* The list of Booleans the bitlist stands for starts and moves as a       *)
(* BitVector does.                                                         *)
THEOREM BytesImplementBitVector ==
  ASSUME B!BitlistBytesAssumption
  PROVE  B!Spec => ImplementsBitVector
<1> USE DEF B!BitlistBytesAssumption
<1> DEFINE n == B!BitlistLen(bl)
<1>1. /\ B!Init => BitlistInv
      /\ BitlistInv /\ [B!Next]_bl => BitlistInv'
  BY BitlistSteps
<1>2. B!Init => B!Vector!Init
  <2> SUFFICES ASSUME B!Init PROVE B!Vector!Init
    OBVIOUS
  <2>1. PICK m \in 0 .. MaxBits : bl = B!MakeBitlist(m)
    BY Zenon DEF B!Init
  <2>2. m \in Nat
    OBVIOUS
  <2>3. n = m
    BY <2>1, <2>2, MakePacked, PackedLen, Zenon
  <2>4. ListOf(bl, n) = [i \in 1 .. m |-> FALSE]
    BY <2>1, <2>2, <2>3, ListMake, Zenon
  <2> QED
    BY <2>4, Zenon DEF B!Vector!Init, ListOf
<1>3. BitlistInv /\ [B!Next]_bl =>
        [B!Vector!Next]_([i \in 1 .. B!BitlistLen(bl) |-> B!GetBit(bl, i - 1)])
  <2> SUFFICES ASSUME BitlistInv, [B!Next]_bl
               PROVE  [B!Vector!Next]_([i \in 1 .. B!BitlistLen(bl) |-> B!GetBit(bl, i - 1)])
    OBVIOUS
  <2> DEFINE l == ListOf(bl, n)
  <2>1. Packed(bl, n) /\ n \in Nat /\ bl \in Bytes
    BY Zenon DEF BitlistInv, Packed
  <2>2. Len(l) = n
    BY <2>1, ListIs
  <2>3. ASSUME NEW val \in BOOLEAN, B!AddBit(val) PROVE B!Vector!AddBit(val)
    <3>1. n < MaxBits /\ bl' = B!AppendBit(bl, val)
      BY <2>3, Zenon DEF B!AddBit
    <3>2. n' = n + 1
      <4>1. Packed(bl', n + 1)
        BY <2>1, <3>1, AppendPacked, Zenon
      <4> QED
        BY <4>1, PackedLen, Zenon
    <3>3. l' = Append(l, val)
      BY <2>1, <3>1, <3>2, ListAppend, Zenon
    <3> QED
      BY <2>2, <3>1, <3>3, Zenon DEF B!Vector!AddBit, ListOf
  <2>4. ASSUME NEW val \in BOOLEAN, NEW idx \in 0 .. MaxBits - 1, B!ChangeBit(idx, val)
        PROVE  B!Vector!ChangeBit(idx, val)
    <3>1. idx \in Nat
      OBVIOUS
    <3>2. idx < n /\ bl' = B!SetBit(bl, idx, val)
      BY <2>4, Zenon DEF B!ChangeBit
    <3>3. n' = n
      BY <2>1, <3>1, <3>2, SetPacked, PackedLen, Zenon
    <3>4. l' = [l EXCEPT ![idx + 1] = val]
      <4>1. l' = ListOf(B!SetBit(bl, idx, val), n)
        BY <3>2, <3>3, Zenon DEF ListOf
      <4> HIDE DEF n
      <4>2. ListOf(B!SetBit(bl, idx, val), n) = [ListOf(bl, n) EXCEPT ![idx + 1] = val]
        BY <2>1, <3>1, <3>2, ListSet
      <4> QED
        BY <4>1, <4>2, Zenon
    <3> QED
      BY <2>2, <3>2, <3>4, Zenon DEF B!Vector!ChangeBit, ListOf
  <2>5. CASE UNCHANGED bl
    BY <2>5, Zenon
  <2> QED
    BY <2>3, <2>4, <2>5, Zenon DEF B!Next, B!Vector!Next
<1> QED
  BY <1>1, <1>2, <1>3, PTL DEF B!Spec, ImplementsBitVector, B!ImplementsBitVector, B!Vector!Spec
=============================================================================
