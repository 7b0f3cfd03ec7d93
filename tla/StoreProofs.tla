---------------------------- MODULE StoreProofs ----------------------------
(***************************************************************************)
(* Facts about the operators that the fork-choice store is built from, for *)
(* every state, block tree, set of votes and number of validators: those   *)
(* of the state transition, which ChainStateProofs needs too, and those of *)
(* LMD GHOST, whose recursive definitions have the values they seem to     *)
(* have.                                                                   *)
(***************************************************************************)
EXTENDS StateTransition, Ghost, FiniteSetTheorems, SequenceTheorems,
        WellFoundedInduction, TLAPS

-----------------------------------------------------------------------------
(* Bitlists.                                                               *)

(* bl is a bitlist of n bits: the sentinel is at n and nothing above it.   *)
IsBitlist(bl, n) == n \in bl /\ bl \subseteq 0 .. n

(* BitlistLen finds the sentinel.                                          *)
LEMMA BitlistLenIs ==
  ASSUME NEW n \in Nat, NEW bl, IsBitlist(bl, n)
  PROVE  BitlistLen(bl) = n
<1>1. \A x \in bl : x \in Int /\ x <= n
  BY DEF IsBitlist
<1>2. \E x \in bl : \A y \in bl : x >= y
  BY <1>1 DEF IsBitlist
<1>3. PICK m \in bl : m = Max(bl) /\ \A y \in bl : m >= y
  BY <1>2 DEF Max
<1>4. m >= n /\ m <= n /\ m \in Int
  BY <1>1, <1>3 DEF IsBitlist
<1> QED
  BY <1>3, <1>4 DEF BitlistLen, IsBitlist

(* AppendZeros adds k zero bits and leaves the others alone.               *)
LEMMA AppendZerosShape ==
  ASSUME NEW n \in Nat, NEW bl, IsBitlist(bl, n), NEW k \in Nat
  PROVE  /\ IsBitlist(AppendZeros(bl, k), n + k)
         /\ \A i \in 0 .. n - 1 : i \in AppendZeros(bl, k) <=> i \in bl
         /\ \A i \in n .. n + k - 1 : i \notin AppendZeros(bl, k)
<1>1. BitlistLen(bl) = n
  BY BitlistLenIs
<1> QED
  BY <1>1 DEF AppendZeros, IsBitlist

(* What ProcessBlockHeader appends: a bit that is set only for the genesis *)
(* slot and k zero bits.                                                   *)
HeaderBitlist(bl, n, k) == AppendZeros(AppendBit(bl, n = 0), k)

(* It grows by k + 1 bits, and the bits already there stay.                *)
LEMMA HeaderBits ==
  ASSUME NEW n \in Nat, NEW bl, IsBitlist(bl, n), NEW k \in Nat
  PROVE  LET js == HeaderBitlist(bl, n, k)
         IN  /\ IsBitlist(js, n + 1 + k)
             /\ \A i \in 0 .. n - 1 : i \in js <=> i \in bl
             /\ n = 0 => n \in js
             /\ \A i \in n .. n + k : i \in js => n = 0 /\ i = 0
<1> DEFINE b == AppendBit(bl, n = 0)
           js == AppendZeros(b, k)
<1>1. BitlistLen(bl) = n
  BY BitlistLenIs
<1>2. b = (bl \ {n}) \union (IF n = 0 THEN {n} ELSE {}) \union {n + 1}
  BY <1>1 DEF AppendBit
<1> HIDE DEF b
<1>3. /\ IsBitlist(b, n + 1)
      /\ \A i \in 0 .. n - 1 : i \in b <=> i \in bl
      /\ n \in b <=> n = 0
  BY <1>2 DEF IsBitlist
<1>4. /\ IsBitlist(js, n + 1 + k)
      /\ \A i \in 0 .. n : i \in js <=> i \in b
      /\ \A i \in n + 1 .. n + k : i \notin js
  <2>1. n + 1 \in Nat
    OBVIOUS
  <2>2. /\ IsBitlist(AppendZeros(b, k), (n + 1) + k)
        /\ \A i \in 0 .. (n + 1) - 1 : i \in AppendZeros(b, k) <=> i \in b
        /\ \A i \in n + 1 .. (n + 1) + k - 1 : i \notin AppendZeros(b, k)
    BY <1>3, <2>1, AppendZerosShape
  <2> QED
    BY <2>2
<1> HIDE DEF js
<1>5. /\ \A i \in 0 .. n - 1 : i \in js <=> i \in bl
      /\ n = 0 => n \in js
      /\ \A i \in n .. n + k : i \in js => n = 0 /\ i = 0
  BY <1>3, <1>4
<1> QED
  BY <1>4, <1>5 DEF js, b, HeaderBitlist

(* SetBit within the list only adds the bit.                               *)
LEMMA SetBitShape ==
  ASSUME NEW n \in Nat, NEW bl, IsBitlist(bl, n), NEW i \in 0 .. n - 1
  PROVE  /\ IsBitlist(SetBit(bl, i, TRUE), n)
         /\ SetBit(bl, i, TRUE) = bl \union {i}
<1>1. BitlistLen(bl) = n
  BY BitlistLenIs
<1>2. ~ (i \div 8 > n \div 8)
  OBVIOUS
<1> QED
  BY <1>1, <1>2 DEF SetBit, IsBitlist

-----------------------------------------------------------------------------
(* The SSZ form of the pending votes.                                      *)

(* In a finite set of roots, for every i there is a root with i - 1        *)
(* smaller ones, and only one.                                             *)
LEMMA RankExists ==
  ASSUME NEW S \in SUBSET Nat, IsFiniteSet(S)
  PROVE  /\ Cardinality(S) \in Nat
         /\ \A i \in 1 .. Cardinality(S) :
              \E r \in S : Cardinality({q \in S : q < r}) = i - 1
         /\ \A r, t \in S : r # t =>
              Cardinality({q \in S : q < r}) # Cardinality({q \in S : q < t})
<1> DEFINE Below(r) == {q \in S : q < r}
           rank == [r \in S |-> Cardinality(Below(r))]
           n == Cardinality(S)
<1>1. n \in Nat
  BY FS_CardinalityType
<1>2. \A r \in S : IsFiniteSet(Below(r)) /\ Cardinality(Below(r)) \in Nat
  BY FS_Subset, FS_CardinalityType
<1>3. \A r \in S : Cardinality(Below(r)) < n
  <2> TAKE r \in S
  <2>1. Below(r) \in SUBSET S /\ Below(r) # S
    OBVIOUS
  <2>2. Cardinality(Below(r)) <= n /\ n # Cardinality(Below(r))
    BY <2>1, FS_Subset
  <2> QED
    BY <1>1, <1>2, <2>2
<1>4. \A r, t \in S : r < t => Cardinality(Below(r)) < Cardinality(Below(t))
  <2> TAKE r, t \in S
  <2> HAVE r < t
  <2>1. Below(r) \in SUBSET Below(t) /\ Below(r) # Below(t)
    <3>1. r \in Below(t) /\ r \notin Below(r)
      OBVIOUS
    <3>2. \A q \in S : q < r => q < t
      OBVIOUS
    <3> QED
      BY <3>1, <3>2
  <2>2. /\ Cardinality(Below(r)) <= Cardinality(Below(t))
        /\ Cardinality(Below(t)) # Cardinality(Below(r))
    BY <1>2, <2>1, FS_Subset
  <2> QED
    BY <1>2, <2>2
<1>5. \A r, t \in S : r # t => Cardinality(Below(r)) # Cardinality(Below(t))
  <2> TAKE r, t \in S
  <2> HAVE r # t
  <2>1. r < t \/ t < r
    OBVIOUS
  <2> QED
    BY <1>2, <1>4, <2>1
<1>6. rank \in Injection(S, 0 .. n - 1)
  <2>1. rank \in [S -> 0 .. n - 1]
    BY <1>1, <1>2, <1>3
  <2>2. \A r, t \in S : rank[r] = rank[t] => r = t
    BY <1>5
  <2> QED
    BY <2>1, <2>2 DEF Injection, IsInjective
<1>7. IsFiniteSet(0 .. n - 1) /\ Cardinality(0 .. n - 1) = n
  <2>1. /\ IsFiniteSet(0 .. n - 1)
        /\ Cardinality(0 .. n - 1) = IF 0 > n - 1 THEN 0 ELSE n - 1 - 0 + 1
    BY <1>1, FS_Interval
  <2> QED
    BY <1>1, <2>1
<1>8. rank \in Surjection(S, 0 .. n - 1)
  BY <1>6, <1>7, FS_Injection
<1>9. \A i \in 1 .. n : \E r \in S : Cardinality(Below(r)) = i - 1
  <2> TAKE i \in 1 .. n
  <2>1. i - 1 \in 0 .. n - 1
    BY <1>1
  <2>2. \E r \in S : rank[r] = i - 1
    BY <1>8, <2>1 DEF Surjection
  <2> QED
    BY <2>2
<1> QED
  BY <1>1, <1>5, <1>9

(* The sorted list holds exactly the roots of the map.                     *)
LEMMA SortedRootsShape ==
  ASSUME NEW j, DOMAIN j \in SUBSET Nat, IsFiniteSet(DOMAIN j)
  PROVE  LET roots == sortedJustificationRoots(j)
         IN  /\ roots \in Seq(Nat)
             /\ Len(roots) = Cardinality(DOMAIN j)
             /\ \A i \in 1 .. Len(roots) :
                  /\ roots[i] \in DOMAIN j
                  /\ Cardinality({q \in DOMAIN j : q < roots[i]}) = i - 1
<1> DEFINE S == DOMAIN j
           roots == sortedJustificationRoots(j)
           n == Cardinality(S)
<1>1. n \in Nat /\ \A i \in 1 .. n :
        \E r \in S : Cardinality({q \in S : q < r}) = i - 1
  BY RankExists
<1>2. roots = [i \in 1 .. n |->
                 CHOOSE r \in S : Cardinality({q \in S : q < r}) = i - 1]
  BY DEF sortedJustificationRoots
<1>3. \A i \in 1 .. n : /\ roots[i] \in S
                        /\ Cardinality({q \in S : q < roots[i]}) = i - 1
  <2> TAKE i \in 1 .. n
  <2>1. PICK r \in S : Cardinality({q \in S : q < r}) = i - 1
    BY <1>1
  <2> QED
    BY <1>2, <2>1
<1> HIDE DEF roots
<1>4. roots \in [1 .. n -> Nat]
  BY <1>2, <1>3
<1>5. roots \in Seq(Nat) /\ Len(roots) = n
  BY <1>1, <1>4
<1> QED
  BY <1>3, <1>5 DEF roots

(* The packed votes are bit positions.                                     *)
LEMMA FlatVotesShape ==
  ASSUME NEW j, DOMAIN j \in SUBSET Nat, IsFiniteSet(DOMAIN j),
         \A r \in DOMAIN j : j[r] \subseteq Validators
  PROVE  flattenVotes(sortedJustificationRoots(j), j) \subseteq Nat
<1> DEFINE roots == sortedJustificationRoots(j)
<1>1. /\ roots \in Seq(Nat)
      /\ \A i \in 1 .. Len(roots) : roots[i] \in DOMAIN j
  BY SortedRootsShape
<1> HIDE DEF roots
<1>2. NumValidators \in Nat
  BY NumValidatorsAssumption
<1>3. \A i \in 1 .. Len(roots) : \A v \in j[roots[i]] :
        (i - 1) * NumValidators + v \in Nat
  <2> TAKE i \in 1 .. Len(roots)
  <2> TAKE v \in j[roots[i]]
  <2>1. v \in Nat
    BY <1>1, <1>2 DEF Validators
  <2>2. i - 1 \in Nat
    BY <1>1
  <2>3. (i - 1) * NumValidators \in Nat
    BY <1>2, <2>2
  <2> QED
    BY <2>1, <2>3
<1>4. Len(roots) * NumValidators \in Nat /\ DOMAIN roots = 1 .. Len(roots)
  BY <1>1, <1>2
<1> QED
  BY <1>3, <1>4 DEF flattenVotes, roots

(* What a state deserializes to is a map from roots to sets of validators. *)
LEMMA DeserializeShape ==
  ASSUME NEW st \in StateType
  PROVE  LET j == Deserialize(st)
         IN  /\ DOMAIN j \in SUBSET Nat
             /\ IsFiniteSet(DOMAIN j)
             /\ \A r \in DOMAIN j : j[r] \subseteq Validators
<1>1. DOMAIN Deserialize(st) = Range(st.justRoots)
  BY DEF Deserialize
<1>2. st.justRoots \in Seq(Nat)
  BY DEF StateType
<1>3. Range(st.justRoots) \subseteq Nat
  BY <1>2 DEF Range
<1>4. IsFiniteSet(Range(st.justRoots))
  <2>1. st.justRoots \in Surjection(1 .. Len(st.justRoots), Range(st.justRoots))
    BY <1>2 DEF Surjection, Range
  <2>2. IsFiniteSet(1 .. Len(st.justRoots))
    BY <1>2, FS_Interval
  <2> QED
    BY <2>1, <2>2, FS_Surjection
<1>5. \A r \in Range(st.justRoots) : Deserialize(st)[r] \subseteq Validators
  BY DEF Deserialize
<1> QED
  BY <1>1, <1>3, <1>4, <1>5

(* The sorted list names every root of the map once.                       *)
LEMMA SortedRootsComplete ==
  ASSUME NEW j, DOMAIN j \in SUBSET Nat, IsFiniteSet(DOMAIN j)
  PROVE  LET roots == sortedJustificationRoots(j)
         IN  /\ \A r \in DOMAIN j : \E i \in 1 .. Len(roots) : roots[i] = r
             /\ \A i, k \in 1 .. Len(roots) : roots[i] = roots[k] => i = k
             /\ Range(roots) = DOMAIN j
             /\ DOMAIN roots = 1 .. Len(roots)
<1> DEFINE S == DOMAIN j
           roots == sortedJustificationRoots(j)
           n == Cardinality(S)
           Below(r) == {q \in S : q < r}
<1>1. /\ n \in Nat
      /\ \A r, t \in S : r # t => Cardinality(Below(r)) # Cardinality(Below(t))
  BY RankExists
<1>2. /\ roots \in Seq(Nat)
      /\ Len(roots) = n
      /\ \A i \in 1 .. n : /\ roots[i] \in S
                           /\ Cardinality(Below(roots[i])) = i - 1
  BY SortedRootsShape
<1> HIDE DEF roots
<1>3. \A i, k \in 1 .. n : roots[i] = roots[k] => i = k
  <2> TAKE i, k \in 1 .. n
  <2> HAVE roots[i] = roots[k]
  <2>1. Below(roots[i]) = Below(roots[k])
    OBVIOUS
  <2>2. i - 1 = k - 1
    BY <1>2, <2>1
  <2> QED
    BY <1>1, <2>2
<1>4. roots \in Injection(1 .. n, S)
  <2>1. DOMAIN roots = 1 .. n /\ roots = [i \in 1 .. n |-> roots[i]]
    BY <1>1, <1>2
  <2>2. roots \in [1 .. n -> S]
    BY <1>2, <2>1
  <2>3. IsInjective(roots)
    BY <1>3, <2>1 DEF IsInjective
  <2> QED
    BY <2>2, <2>3 DEF Injection
<1>5. IsFiniteSet(1 .. n) /\ Cardinality(1 .. n) = n
  <2>1. /\ IsFiniteSet(1 .. n)
        /\ Cardinality(1 .. n) = IF 1 > n THEN 0 ELSE n - 1 + 1
    BY <1>1, FS_Interval
  <2> QED
    BY <1>1, <2>1
<1>6. roots \in Surjection(1 .. n, S)
  BY <1>4, <1>5, FS_Injection
<1>7. \A r \in S : \E i \in 1 .. n : roots[i] = r
  BY <1>6 DEF Surjection
<1>8. DOMAIN roots = 1 .. n
  BY <1>1, <1>2
<1>9. Range(roots) = S
  BY <1>2, <1>7, <1>8 DEF Range
<1> QED
  BY <1>2, <1>3, <1>7, <1>8, <1>9 DEF roots

(* Two votes share a bit position only if they are the same vote: row and  *)
(* column of the vote matrix can be read back from the position.           *)
LEMMA VotePositions ==
  ASSUME NEW N \in Nat \ {0}, NEW a \in Nat, NEW b \in Nat,
         NEW u \in 0 .. N - 1, NEW v \in 0 .. N - 1,
         a * N + u = b * N + v
  PROVE  a = b /\ u = v
<1>1. ASSUME NEW c \in Nat, NEW d \in Nat, c < d,
             NEW x \in 0 .. N - 1, NEW y \in 0 .. N - 1
      PROVE  c * N + x < d * N + y
  <2>1. PICK e \in Nat : d = c + 1 + e
    <3>1. d - c - 1 \in Nat /\ d = c + 1 + (d - c - 1)
      BY <1>1
    <3> QED
      BY <3>1
  <2>2. e * N \in Nat /\ c * N \in Nat
    OBVIOUS
  <2>3. (c + 1 + e) * N = c * N + N + e * N
    OBVIOUS
  <2>4. d * N = c * N + N + e * N
    BY <2>1, <2>3
  <2> QED
    BY <2>2, <2>4
<1>2. ~ (a < b)
  <2> SUFFICES ASSUME a < b PROVE FALSE
    OBVIOUS
  <2>1. a * N + u < b * N + v
    BY <1>1
  <2>2. a * N + u \in Nat
    OBVIOUS
  <2> QED
    BY <2>1, <2>2
<1>3. ~ (b < a)
  <2> SUFFICES ASSUME b < a PROVE FALSE
    OBVIOUS
  <2>1. b * N + v < a * N + u
    BY <1>1
  <2>2. a * N + u \in Nat
    OBVIOUS
  <2> QED
    BY <2>1, <2>2
<1>4. a = b
  BY <1>2, <1>3
<1>5. a * N \in Nat
  OBVIOUS
<1> QED
  BY <1>4, <1>5

(* The i-th row of the packed votes holds the votes for the i-th root, and *)
(* the sentinel lies beyond the last row.                                  *)
LEMMA FlatVotesRow ==
  ASSUME NEW j, DOMAIN j \in SUBSET Nat, IsFiniteSet(DOMAIN j),
         \A r \in DOMAIN j : j[r] \subseteq Validators,
         NEW i \in 1 .. Len(sortedJustificationRoots(j)),
         NEW v \in Validators
  PROVE  LET roots == sortedJustificationRoots(j)
         IN  (i - 1) * NumValidators + v \in flattenVotes(roots, j)
               <=> v \in j[roots[i]]
<1> DEFINE roots == sortedJustificationRoots(j)
           N == NumValidators
           n == Len(roots)
<1>1. /\ roots \in Seq(Nat)
      /\ \A k \in 1 .. n : roots[k] \in DOMAIN j
  BY SortedRootsShape
<1>2. DOMAIN roots = 1 .. n /\ n \in Nat
  BY <1>1
<1>3. N \in Nat \ {0} /\ v \in 0 .. N - 1
  BY NumValidatorsAssumption DEF Validators
<1>4. i \in 1 .. n /\ i - 1 \in Nat
  BY <1>2
<1> HIDE DEF roots, n, N
<1>5. (i - 1) * N + v # n * N
  <2>1. 0 \in 0 .. N - 1 /\ n * N = n * N + 0
    BY <1>2, <1>3
  <2>2. (i - 1) * N + v = n * N + 0 => i - 1 = n
    BY <1>2, <1>3, <1>4, <2>1, VotePositions
  <2> QED
    BY <1>2, <1>4, <2>1, <2>2
<1>6. ASSUME NEW k \in 1 .. n, NEW u \in j[roots[k]],
             (i - 1) * N + v = (k - 1) * N + u
      PROVE  v \in j[roots[i]]
  <2>1. u \in 0 .. N - 1 /\ k - 1 \in Nat /\ k \in Nat
    BY <1>1, <1>2 DEF Validators, N
  <2>2. i - 1 = k - 1 /\ v = u
    BY <1>3, <1>4, <1>6, <2>1, VotePositions
  <2>3. i = k
    BY <1>2, <1>4, <2>1, <2>2
  <2> QED
    BY <2>2, <2>3
<1>7. (i - 1) * N + v \in flattenVotes(roots, j) <=> v \in j[roots[i]]
  <2>1. ASSUME (i - 1) * N + v \in flattenVotes(roots, j)
        PROVE  v \in j[roots[i]]
    <3>1. PICK k \in 1 .. n : \E u \in j[roots[k]] :
            (i - 1) * N + v = (k - 1) * N + u
      BY <1>2, <1>5, <2>1 DEF flattenVotes, n, N
    <3> QED
      BY <1>6, <3>1
  <2>2. ASSUME v \in j[roots[i]]
        PROVE  (i - 1) * N + v \in flattenVotes(roots, j)
    BY <1>2, <1>4, <2>2 DEF flattenVotes, N
  <2> QED
    BY <2>1, <2>2
<1> QED
  BY <1>7 DEF roots, N

(* Deserializing what was serialized gives the working map back.           *)
LEMMA RoundTrip ==
  ASSUME NEW j, DOMAIN j \in SUBSET Nat, IsFiniteSet(DOMAIN j),
         j \in [DOMAIN j -> SUBSET Validators], NEW st,
         st.justRoots = sortedJustificationRoots(j),
         st.justVotes = flattenVotes(st.justRoots, j)
  PROVE  Deserialize(st) = j
<1> DEFINE roots == sortedJustificationRoots(j)
           n == Len(roots)
           Row(i) == {v \in Validators :
                        GetBit(st.justVotes, (i - 1) * NumValidators + v)}
           d == Deserialize(st)
<1>1. \A r \in DOMAIN j : j[r] \subseteq Validators
  OBVIOUS
<1>2. /\ \A r \in DOMAIN j : \E i \in 1 .. n : roots[i] = r
      /\ \A i, k \in 1 .. n : roots[i] = roots[k] => i = k
      /\ Range(roots) = DOMAIN j
      /\ DOMAIN roots = 1 .. n
  BY SortedRootsComplete
<1>3. ASSUME NEW i \in 1 .. n PROVE Row(i) = j[roots[i]]
  <2>1. roots[i] \in DOMAIN j
    BY <1>2 DEF Range
  <2>2. \A v \in Validators :
          (i - 1) * NumValidators + v \in st.justVotes <=> v \in j[roots[i]]
    BY <1>1, FlatVotesRow
  <2> QED
    BY <1>1, <2>1, <2>2 DEF GetBit
<1>4. d = [r \in Range(st.justRoots) |->
             LET i == CHOOSE i \in DOMAIN st.justRoots : st.justRoots[i] = r
             IN  Row(i)]
  BY DEF Deserialize
<1> HIDE DEF roots, n, Row, d
<1>5. st.justRoots = roots
  BY DEF roots
<1>6. ASSUME NEW r \in DOMAIN j PROVE d[r] = j[r]
  <2> DEFINE i == CHOOSE i \in DOMAIN roots : roots[i] = r
  <2>1. i \in 1 .. n /\ roots[i] = r
    BY <1>2
  <2>2. d[r] = Row(i)
    BY <1>2, <1>4, <1>5
  <2> HIDE DEF i
  <2> QED
    BY <1>3, <2>1, <2>2
<1>7. DOMAIN d = DOMAIN j /\ d = [r \in DOMAIN d |-> d[r]]
  BY <1>2, <1>4, <1>5
<1> QED
  BY <1>6, <1>7 DEF d

-----------------------------------------------------------------------------
(* States and the working variables of ProcessAttestations.                *)

(* c is a block of the branch that st extends and its bit in js is set.    *)
OnBranch(st, js, c) == InHistory(st, c) /\ c.slot \in js

(* A state between two blocks, and during a block after its header.        *)
GoodState(st) ==
  /\ st.slot = st.header.slot
  /\ Len(st.hist) = st.header.slot
  /\ IsBitlist(st.justifiedSlots, st.header.slot)
  /\ st.header.slot = 0 => /\ st.latestFinalized.slot = 0
                           /\ st.latestJustified.slot = 0
  /\ st.header.slot > 0 =>
       /\ OnBranch(st, st.justifiedSlots, st.latestJustified)
       /\ OnBranch(st, st.justifiedSlots, st.latestFinalized)

(* The working variables of the loop against the state it started from.    *)
GoodWork(st, w) ==
  /\ IsBitlist(w.justifiedSlots, st.header.slot)
  /\ st.justifiedSlots \subseteq w.justifiedSlots
  /\ OnBranch(st, w.justifiedSlots, w.latestJustified)
  /\ OnBranch(st, w.justifiedSlots, w.latestFinalized)
  /\ w.latestFinalized.slot >= st.latestFinalized.slot
  /\ \A s \in w.justifiedSlots \ st.justifiedSlots :
       s > st.latestFinalized.slot

(* The types of the working variables.                                     *)
WorkType(w) ==
  /\ w.justifiedSlots \subseteq Nat
  /\ w.latestJustified \in CheckpointType
  /\ w.latestFinalized \in CheckpointType
  /\ DOMAIN w.justifications \subseteq Nat
  /\ IsFiniteSet(DOMAIN w.justifications)
  /\ \A r \in DOMAIN w.justifications :
       w.justifications[r] \subseteq Validators

(* What is known of an attestation before it is checked.                   *)
VoteType(att) == att.source \in CheckpointType /\ att.target \in CheckpointType

(* The finalized slot itself is always justifiable, and a justifiable slot *)
(* is never before it.                                                     *)
LEMMA FinalizedSlotJustifiable ==
  ASSUME NEW f \in Nat
  PROVE  /\ IsJustifiableAfter(f, f)
         /\ \A s \in Nat : IsJustifiableAfter(s, f) => s >= f
BY DEF IsJustifiableAfter

(* The padding loop is idle and only the target's bit is added.            *)
LEMMA JustifyTargetSlots ==
  ASSUME NEW st, NEW w, NEW att, NEW n \in Nat,
         IsBitlist(w.justifiedSlots, n), att.target.slot \in 0 .. n - 1
  PROVE  LET js == JustifyTarget(st, w, att).justifiedSlots
         IN  /\ js = w.justifiedSlots \union {att.target.slot}
             /\ IsBitlist(js, n)
<1>1. BitlistLen(w.justifiedSlots) = n
  BY BitlistLenIs
<1>2. ~ (n <= att.target.slot)
  OBVIOUS
<1>3. JustifyTarget(st, w, att).justifiedSlots
        = SetBit(w.justifiedSlots, att.target.slot, TRUE)
  BY <1>1, <1>2 DEF JustifyTarget, AppendZeros
<1>4. /\ IsBitlist(SetBit(w.justifiedSlots, att.target.slot, TRUE), n)
      /\ SetBit(w.justifiedSlots, att.target.slot, TRUE)
           = w.justifiedSlots \union {att.target.slot}
  BY SetBitShape
<1> QED
  BY <1>3, <1>4

(* A recorded vote keeps the types.                                        *)
LEMMA RecordVoteType ==
  ASSUME NEW att, VoteType(att), NEW w, WorkType(w),
         att.validator \in Validators
  PROVE  WorkType(RecordVote(w, att))
<1>1. att.validator \in Validators /\ att.target \in CheckpointType
  BY DEF VoteType
<1>2. att.target.root \in Nat
  BY <1>1 DEF CheckpointType
<1> DEFINE D == DOMAIN w.justifications \union {att.target.root}
           j == RecordVote(w, att).justifications
<1>3. /\ DOMAIN j = D
      /\ \A r \in D : j[r] = VotesFor(w.justifications, r)
           \union (IF r = att.target.root THEN {att.validator} ELSE {})
  BY DEF RecordVote
<1>4. IsFiniteSet(D)
  BY FS_AddElement DEF WorkType
<1>5. \A r \in D : j[r] \subseteq Validators
  BY <1>1, <1>3 DEF WorkType, VotesFor
<1> QED
  BY <1>2, <1>3, <1>4, <1>5 DEF WorkType, RecordVote

(* What the guards of the loop say about an attestation that counts.       *)
LEMMA CountingAttestation ==
  ASSUME NEW att, VoteType(att), NEW w, NEW st \in StateType, GoodState(st),
         GoodWork(st, w),
         AttestationCounts(st, w, att)
  PROVE  /\ att.source.slot \in Nat /\ att.target.slot \in Nat
         /\ att.source.slot < att.target.slot
         /\ att.target.slot \in 0 .. st.header.slot - 1
         /\ OnBranch(st, w.justifiedSlots, att.source)
         /\ InHistory(st, att.target)
         /\ att.target.slot \notin w.justifiedSlots
         /\ att.target.slot > st.latestFinalized.slot
<1>1. att.source.slot \in Nat /\ att.target.slot \in Nat
  BY DEF VoteType, CheckpointType
<1>2. st.header.slot \in Nat /\ st.latestFinalized.slot \in Nat
  BY DEF StateType, CheckpointType
<1>3. BitlistLen(w.justifiedSlots) = st.header.slot
  BY <1>2, BitlistLenIs DEF GoodWork
<1>4. att.target.slot < st.header.slot
  BY DEF AttestationCounts, InHistory, GoodState
<1>5. att.target.slot \notin w.justifiedSlots
  BY <1>3, <1>4 DEF AttestationCounts, SlotJustified, GetBit
<1>6. att.target.slot >= st.latestFinalized.slot
  BY <1>1, <1>2, FinalizedSlotJustifiable DEF AttestationCounts
<1>7. st.latestFinalized.slot \in w.justifiedSlots
  BY <1>1, <1>2, <1>4 DEF GoodState, GoodWork, OnBranch
<1>8. att.target.slot > st.latestFinalized.slot
  BY <1>1, <1>2, <1>5, <1>6, <1>7
<1>9. OnBranch(st, w.justifiedSlots, att.source)
  BY DEF AttestationCounts, OnBranch, SlotJustified, GetBit
<1> QED
  BY <1>1, <1>2, <1>4, <1>5, <1>8, <1>9 DEF AttestationCounts

(* A source before the finalized slot is never finalized: the finalized    *)
(* slot is a justifiable slot between it and the target.                   *)
LEMMA FinalizedSourceAhead ==
  ASSUME NEW src \in Nat, NEW tgt \in Nat, NEW f \in Nat, f < tgt,
         ~ HasJustifiableGap(src, tgt, f)
  PROVE  src >= f
<1>1. IsJustifiableAfter(f, f)
  BY FinalizedSlotJustifiable
<1>2. ~ (f \in src + 1 .. tgt - 1)
  BY <1>1 DEF HasJustifiableGap
<1> QED
  BY <1>2

(* One loop iteration keeps the types and the relation to the state.       *)
LEMMA ApplyAttestationInv ==
  ASSUME NEW att, VoteType(att), NEW w, NEW st \in StateType, GoodState(st),
         WorkType(w), GoodWork(st, w)
  PROVE  /\ WorkType(ApplyAttestation(st, w, att))
         /\ GoodWork(st, ApplyAttestation(st, w, att))
<1>1. ASSUME AttestationCounts(st, w, att)
      PROVE  WorkType(RecordVote(w, att)) /\ GoodWork(st, RecordVote(w, att))
  <2>1. WorkType(RecordVote(w, att))
    BY <1>1, RecordVoteType DEF AttestationCounts
  <2>2. /\ RecordVote(w, att).justifiedSlots = w.justifiedSlots
        /\ RecordVote(w, att).latestJustified = w.latestJustified
        /\ RecordVote(w, att).latestFinalized = w.latestFinalized
    BY DEF RecordVote
  <2> QED
    BY <2>1, <2>2 DEF GoodWork
<1>2. ASSUME AttestationCounts(st, w, att)
      PROVE  /\ WorkType(JustifyTarget(st, w, att))
             /\ GoodWork(st, JustifyTarget(st, w, att))
  <2> DEFINE n == JustifyTarget(st, w, att)
  <2>1. /\ att.source.slot \in Nat /\ att.target.slot \in Nat
        /\ att.source.slot < att.target.slot
        /\ att.target.slot \in 0 .. st.header.slot - 1
        /\ OnBranch(st, w.justifiedSlots, att.source)
        /\ InHistory(st, att.target)
        /\ att.target.slot > st.latestFinalized.slot
    BY <1>2, CountingAttestation
  <2>2. st.header.slot \in Nat /\ st.latestFinalized.slot \in Nat
    BY DEF StateType, CheckpointType
  <2>3. /\ n.justifiedSlots = w.justifiedSlots \union {att.target.slot}
        /\ IsBitlist(n.justifiedSlots, st.header.slot)
    BY <2>1, <2>2, JustifyTargetSlots DEF GoodWork
  <2>4. /\ n.latestJustified = att.target
        /\ n.latestFinalized = att.source \/ n.latestFinalized = w.latestFinalized
        /\ HasJustifiableGap(att.source.slot, att.target.slot,
                             st.latestFinalized.slot)
             => n.latestFinalized = w.latestFinalized
        /\ DOMAIN n.justifications = DOMAIN w.justifications \ {att.target.root}
        /\ \A r \in DOMAIN n.justifications :
             n.justifications[r] = w.justifications[r]
    BY DEF JustifyTarget, Restrict
  <2> HIDE DEF n
  <2>5. att.source \in CheckpointType /\ att.target \in CheckpointType
    BY DEF VoteType
  <2>6. WorkType(n)
    <3>1. IsFiniteSet(DOMAIN n.justifications)
      BY <2>4, FS_RemoveElement DEF WorkType
    <3> QED
      BY <2>1, <2>3, <2>4, <2>5, <3>1 DEF WorkType
  <2>7. /\ st.justifiedSlots \subseteq n.justifiedSlots
        /\ \A s \in n.justifiedSlots \ st.justifiedSlots :
             s > st.latestFinalized.slot
    BY <2>1, <2>3 DEF GoodWork
  <2>8. OnBranch(st, n.justifiedSlots, n.latestJustified)
    BY <2>1, <2>3, <2>4 DEF OnBranch
  <2>9. OnBranch(st, n.justifiedSlots, n.latestFinalized)
    BY <2>1, <2>3, <2>4 DEF OnBranch, GoodWork
  <2>10. n.latestFinalized.slot >= st.latestFinalized.slot
    <3>1. CASE HasJustifiableGap(att.source.slot, att.target.slot,
                                 st.latestFinalized.slot)
      BY <2>4, <3>1 DEF GoodWork
    <3>2. CASE ~ HasJustifiableGap(att.source.slot, att.target.slot,
                                   st.latestFinalized.slot)
      <4>1. att.source.slot >= st.latestFinalized.slot
        BY <2>1, <2>2, <3>2, FinalizedSourceAhead
      <4> QED
        BY <2>4, <4>1 DEF GoodWork
    <3> QED
      BY <3>1, <3>2
  <2> QED
    BY <2>3, <2>6, <2>7, <2>8, <2>9, <2>10 DEF GoodWork, n
<1> QED
  BY <1>1, <1>2 DEF ApplyAttestation

(* The history grows by the parent and by one ZeroHash per empty slot.     *)
Extended(h, p, k) == h \o <<p>> \o [i \in 1 .. k |-> ZeroHash]

(* Its type and its length.                                                *)
LEMMA HistoryGrows ==
  ASSUME NEW h \in Seq(Nat), NEW p \in Nat, NEW k \in Nat
  PROVE  /\ Extended(h, p, k) \in Seq(Nat)
         /\ Len(Extended(h, p, k)) = Len(h) + 1 + k
<1> DEFINE z == [i \in 1 .. k |-> ZeroHash]
<1>1. z \in Seq(Nat) /\ Len(z) = k
  BY DEF ZeroHash
<1> HIDE DEF z
<1>2. h \o <<p>> \in Seq(Nat) /\ Len(h \o <<p>>) = Len(h) + 1
  OBVIOUS
<1> DEFINE f == h \o <<p>>
<1> HIDE DEF f
<1>3. f \o z \in Seq(Nat) /\ Len(f \o z) = Len(f) + k
  BY <1>1, <1>2 DEF f
<1> QED
  BY <1>2, <1>3 DEF f, z, Extended

(* Entry by entry.                                                         *)
LEMMA HistoryAt ==
  ASSUME NEW h \in Seq(Nat), NEW p \in Nat, NEW k \in Nat,
         NEW i \in 1 .. Len(h) + 1 + k
  PROVE  Extended(h, p, k)[i] = IF i <= Len(h) THEN h[i]
                                ELSE IF i = Len(h) + 1 THEN p ELSE ZeroHash
<1> DEFINE z == [q \in 1 .. k |-> ZeroHash]
           f == h \o <<p>>
           n == Len(h)
<1>1. z \in Seq(Nat) /\ Len(z) = k
  BY DEF ZeroHash
<1>2. \A q \in 1 .. k : z[q] = ZeroHash
  OBVIOUS
<1>3. f \in Seq(Nat) /\ Len(f) = n + 1 /\ n \in Nat
  OBVIOUS
<1>4. i <= n => f[i] = h[i]
  OBVIOUS
<1>5. i = n + 1 => f[i] = p
  OBVIOUS
<1> HIDE DEF z, f
<1>6. i <= n + 1 => (f \o z)[i] = f[i]
  BY <1>1, <1>3
<1>7. i > n + 1 => (f \o z)[i] = z[i - (n + 1)]
  <2>1. i \in 1 .. Len(f) + Len(z)
    BY <1>1, <1>3
  <2>2. (f \o z)[i] = IF i <= Len(f) THEN f[i] ELSE z[i - Len(f)]
    BY <1>1, <1>3, <2>1, ConcatProperties
  <2> QED
    BY <1>3, <2>2
<1>8. i > n + 1 => i - (n + 1) \in 1 .. k
  BY <1>3
<1> DEFINE g == f \o z
<1> HIDE DEF g, n
<1>9. i \in Int /\ n \in Int
  BY <1>3
<1>10. /\ i <= n + 1 => g[i] = f[i]
       /\ i > n + 1 => g[i] = ZeroHash
  BY <1>2, <1>6, <1>7, <1>8 DEF g
<1>11. g[i] = IF i <= n THEN h[i] ELSE IF i = n + 1 THEN p ELSE ZeroHash
  BY <1>4, <1>5, <1>9, <1>10
<1> QED
  BY <1>11 DEF g, f, z, n, Extended

(* The same, for each of the three parts.                                  *)
LEMMA HistoryParts ==
  ASSUME NEW h \in Seq(Nat), NEW p \in Nat, NEW k \in Nat
  PROVE  /\ Len(Extended(h, p, k)) = Len(h) + 1 + k
         /\ \A i \in 1 .. Len(h) : Extended(h, p, k)[i] = h[i]
         /\ Extended(h, p, k)[Len(h) + 1] = p
         /\ \A i \in Len(h) + 2 .. Len(h) + 1 + k : Extended(h, p, k)[i] = ZeroHash
<1> DEFINE g == Extended(h, p, k)
           n == Len(h)
<1>1. n \in Nat
  OBVIOUS
<1>2. Len(g) = n + 1 + k
  BY <1>1, HistoryGrows
<1>3. ASSUME NEW i \in 1 .. n + 1 + k
      PROVE  g[i] = IF i <= n THEN h[i] ELSE IF i = n + 1 THEN p ELSE ZeroHash
  BY <1>1, HistoryAt
<1> HIDE DEF g, n
<1>4. \A i \in 1 .. n : g[i] = h[i]
  BY <1>1, <1>3
<1>5. g[n + 1] = p
  BY <1>1, <1>3
<1>6. \A i \in n + 2 .. n + 1 + k : g[i] = ZeroHash
  BY <1>1, <1>3
<1> QED
  BY <1>2, <1>4, <1>5, <1>6 DEF g, n

(* The first working variables of a block.                                 *)
LEMMA BeginGood ==
  ASSUME NEW st \in StateType, GoodState(st), st.header.slot > 0
  PROVE  /\ WorkType(BeginAttestations(st)) /\ GoodWork(st, BeginAttestations(st))
         /\ BeginAttestations(st).latestJustified = st.latestJustified
<1> DEFINE w == BeginAttestations(st)
<1>1. /\ w.justifications = Deserialize(st)
      /\ w.justifiedSlots = st.justifiedSlots
      /\ w.latestJustified = st.latestJustified
      /\ w.latestFinalized = st.latestFinalized
  BY DEF BeginAttestations
<1> HIDE DEF w
<1>2. /\ DOMAIN Deserialize(st) \in SUBSET Nat
      /\ IsFiniteSet(DOMAIN Deserialize(st))
      /\ \A r \in DOMAIN Deserialize(st) : Deserialize(st)[r] \subseteq Validators
  BY DeserializeShape
<1>3. WorkType(w)
  BY <1>1, <1>2 DEF WorkType, StateType
<1>4. st.latestFinalized.slot \in Nat
  BY DEF StateType, CheckpointType
<1>5. GoodWork(st, w)
  BY <1>1, <1>4 DEF GoodWork, GoodState
<1> QED
  BY <1>1, <1>3, <1>5 DEF w

-----------------------------------------------------------------------------
(* The header of a block.                                                  *)

(* The state after ProcessSlots and ProcessBlockHeader.                    *)
AfterHeader(st, block, root) ==
  ProcessBlockHeader(ProcessSlots(st, block.slot), block, root)

(* The history is extended by the parent, st.header.root.                  *)
EmptySlots(st, block) == block.slot - st.header.slot - 1

(* A block that passes the checks of ProcessSlots and of the parent root.  *)
NextBlock(st, block, root) ==
  /\ block.slot \in Nat /\ root \in Nat
  /\ CanProcessSlots(st, block.slot)
  /\ block.parent = st.header.root

(* ProcessSlots, field by field.                                           *)
LEMMA AdvancedFields ==
  ASSUME NEW st \in StateType, NEW slot \in Nat
  PROVE  LET advanced == ProcessSlots(st, slot)
         IN  /\ advanced \in StateType
             /\ advanced.slot = slot
             /\ advanced.header.slot = st.header.slot
             /\ advanced.header.root = st.header.root
             /\ advanced.header.filled = TRUE
             /\ advanced.hist = st.hist
             /\ advanced.justifiedSlots = st.justifiedSlots
             /\ advanced.latestJustified = st.latestJustified
             /\ advanced.latestFinalized = st.latestFinalized
             /\ advanced.justRoots = st.justRoots
             /\ advanced.justVotes = st.justVotes
<1> DEFINE advanced == ProcessSlots(st, slot)
           header == [st.header EXCEPT !.filled = TRUE]
<1>1. st.header \in [slot : Nat, root : Nat, filled : BOOLEAN]
  BY DEF StateType
<1>2. /\ header \in [slot : Nat, root : Nat, filled : BOOLEAN]
      /\ header.slot = st.header.slot
      /\ header.root = st.header.root
      /\ header.filled = TRUE
  BY <1>1
<1>3. advanced = [[st EXCEPT !.header = header] EXCEPT !.slot = slot]
  BY DEF ProcessSlots, ProcessSlot
<1> HIDE DEF header, advanced
<1>4. [st EXCEPT !.header = header] \in StateType
  BY <1>2 DEF StateType
<1>5. /\ advanced \in StateType
      /\ advanced.slot = slot
      /\ advanced.header = header
  BY <1>3, <1>4 DEF StateType
<1>6. /\ advanced.hist = st.hist
      /\ advanced.justifiedSlots = st.justifiedSlots
      /\ advanced.latestJustified = st.latestJustified
      /\ advanced.latestFinalized = st.latestFinalized
      /\ advanced.justRoots = st.justRoots
      /\ advanced.justVotes = st.justVotes
  BY <1>3 DEF StateType
<1> QED
  BY <1>2, <1>5, <1>6 DEF advanced

(* new is the state after the header, field by field.                      *)
IsAfterHeader(st, block, root, new) ==
  LET first == st.header.slot = 0
      k == EmptySlots(st, block)
      p == st.header.root
  IN  /\ k \in Nat
      /\ new \in StateType
      /\ new.slot = block.slot
      /\ new.header = [slot |-> block.slot, root |-> root, filled |-> FALSE]
      /\ new.hist = Extended(st.hist, p, k)
      /\ new.justifiedSlots = HeaderBitlist(st.justifiedSlots, st.header.slot, k)
      /\ new.latestJustified = IF first THEN Checkpoint(p, st.latestJustified.slot)
                               ELSE st.latestJustified
      /\ new.latestFinalized = IF first THEN Checkpoint(p, st.latestFinalized.slot)
                               ELSE st.latestFinalized
      /\ new.justRoots = st.justRoots
      /\ new.justVotes = st.justVotes

(* ProcessBlockHeader after ProcessSlots.                                  *)
LEMMA HeaderFields ==
  ASSUME NEW st \in StateType, GoodState(st), NEW block, NEW root,
         NextBlock(st, block, root)
  PROVE  IsAfterHeader(st, block, root, AfterHeader(st, block, root))
<1> DEFINE first == st.header.slot = 0
           k == EmptySlots(st, block)
           p == st.header.root
           slot == block.slot
           advanced == ProcessSlots(st, slot)
           js == HeaderBitlist(st.justifiedSlots, st.header.slot, k)
           h == Extended(st.hist, p, k)
           new == AfterHeader(st, block, root)
<1>2. /\ st.slot \in Nat /\ p \in Nat /\ st.header.slot \in Nat
      /\ st.hist \in Seq(Nat)
      /\ st.latestJustified.slot \in Nat
      /\ st.latestFinalized.slot \in Nat
      /\ slot \in Nat /\ root \in Nat
  BY DEF StateType, CheckpointType, NextBlock
<1>3. k \in Nat
  BY <1>2 DEF NextBlock, CanProcessSlots, GoodState, EmptySlots
<1>4. /\ advanced \in StateType
      /\ advanced.slot = slot
      /\ advanced.header.slot = st.header.slot
      /\ advanced.hist = st.hist
      /\ advanced.justifiedSlots = st.justifiedSlots
      /\ advanced.latestJustified = st.latestJustified
      /\ advanced.latestFinalized = st.latestFinalized
      /\ advanced.justRoots = st.justRoots
      /\ advanced.justVotes = st.justVotes
  <2> HIDE DEF slot
  <2> QED
    BY <1>2, AdvancedFields
<1>5. block.parent = p
  BY DEF NextBlock
<1>6. new = ProcessBlockHeader(advanced, block, root)
  BY DEF AfterHeader
<1> HIDE DEF advanced, new
<1>7. new = [advanced EXCEPT
           !.latestJustified = IF first THEN Checkpoint(p, @.slot) ELSE @,
           !.latestFinalized = IF first THEN Checkpoint(p, @.slot) ELSE @,
           !.hist = h,
           !.justifiedSlots = js,
           !.header = [slot |-> slot, root |-> root, filled |-> FALSE]]
  BY <1>4, <1>5, <1>6 DEF ProcessBlockHeader, HeaderBitlist, Extended, EmptySlots
<1>8. js \subseteq Nat
  <2> HIDE DEF k
  <2>1. IsBitlist(js, st.header.slot + 1 + k)
    BY <1>2, <1>3, HeaderBits DEF GoodState
  <2> QED
    BY <1>2, <1>3, <2>1 DEF IsBitlist
<1>9. h \in Seq(Nat)
  <2> HIDE DEF k, p
  <2> QED
    BY <1>2, <1>3, HistoryGrows
<1> HIDE DEF js, h, first
<1>11. new \in StateType
  BY <1>2, <1>4, <1>7, <1>8, <1>9 DEF StateType, CheckpointType, Checkpoint
<1>12. /\ new.slot = slot
       /\ new.header = [slot |-> slot, root |-> root, filled |-> FALSE]
       /\ new.hist = h
       /\ new.justifiedSlots = js
       /\ new.latestJustified =
            IF first THEN Checkpoint(p, st.latestJustified.slot)
            ELSE st.latestJustified
       /\ new.latestFinalized =
            IF first THEN Checkpoint(p, st.latestFinalized.slot)
            ELSE st.latestFinalized
       /\ new.justRoots = st.justRoots
       /\ new.justVotes = st.justVotes
  BY <1>4, <1>7 DEF StateType
<1> QED
  BY <1>3, <1>11, <1>12 DEF js, h, first, new, IsAfterHeader

(* The header keeps the state good: history and bitlist grow together and  *)
(* the checkpoints stay on the branch; at the first block they move to its *)
(* parent, genesis.                                                        *)
LEMMA HeaderGood ==
  ASSUME NEW st \in StateType, GoodState(st), NEW block, NEW root,
         NextBlock(st, block, root)
  PROVE  LET new == AfterHeader(st, block, root)
         IN  /\ GoodState(new) /\ new.header.slot > 0
             /\ Len(new.hist) = block.slot
             /\ new.latestFinalized.slot = st.latestFinalized.slot
             /\ \A s \in 0 .. st.header.slot - 1 :
                  s \in new.justifiedSlots <=> s \in st.justifiedSlots
<1> DEFINE n == st.header.slot
           k == EmptySlots(st, block)
           p == st.header.root
           slot == block.slot
           new == AfterHeader(st, block, root)
<1>2. /\ n \in Nat /\ p \in Nat /\ st.hist \in Seq(Nat) /\ slot \in Nat
      /\ st.latestJustified \in CheckpointType
      /\ st.latestFinalized \in CheckpointType
  BY DEF StateType, NextBlock
<1>3. /\ k \in Nat
      /\ new \in StateType
      /\ new.slot = slot
      /\ new.header = [slot |-> slot, root |-> root, filled |-> FALSE]
      /\ new.hist = Extended(st.hist, p, k)
      /\ new.justifiedSlots = HeaderBitlist(st.justifiedSlots, n, k)
      /\ new.latestJustified =
           IF n = 0 THEN Checkpoint(p, st.latestJustified.slot)
           ELSE st.latestJustified
      /\ new.latestFinalized =
           IF n = 0 THEN Checkpoint(p, st.latestFinalized.slot)
           ELSE st.latestFinalized
  <2>1. IsAfterHeader(st, block, root, new)
    BY HeaderFields
  <2> HIDE DEF new
  <2> QED
    BY <2>1 DEF IsAfterHeader
<1> HIDE DEF new
<1>h. new.header.slot = slot
  BY <1>3
<1>n. n + 1 + k = slot
  BY <1>2 DEF EmptySlots
<1>4. /\ Len(new.hist) = slot
      /\ \A i \in 1 .. n : new.hist[i] = st.hist[i]
      /\ new.hist[n + 1] = p
  <2>1. st.hist \in Seq(Nat) /\ p \in Nat /\ k \in Nat /\ Len(st.hist) = n
    BY <1>2, <1>3 DEF GoodState
  <2>2. new.hist = Extended(st.hist, p, k)
    BY <1>3
  <2> DEFINE h0 == st.hist
             g == Extended(h0, p, k)
  <2>4. /\ Len(g) = Len(h0) + 1 + k
        /\ \A i \in 1 .. Len(h0) : g[i] = h0[i]
        /\ g[Len(h0) + 1] = p
        /\ \A i \in Len(h0) + 2 .. Len(h0) + 1 + k : g[i] = ZeroHash
    <3> HIDE DEF h0, p, k
    <3>1. h0 \in Seq(Nat) /\ p \in Nat /\ k \in Nat
      BY <2>1 DEF h0
    <3> QED
      BY <3>1, HistoryParts
  <2> HIDE DEF g, p, k, n, slot
  <2> QED
    BY <1>n, <2>1, <2>2, <2>4 DEF g
<1>5. /\ IsBitlist(new.justifiedSlots, slot)
      /\ \A i \in 0 .. n - 1 : i \in new.justifiedSlots <=> i \in st.justifiedSlots
      /\ n = 0 => 0 \in new.justifiedSlots
  <2>1. IsBitlist(st.justifiedSlots, n)
    BY DEF GoodState
  <2> DEFINE js == HeaderBitlist(st.justifiedSlots, n, k)
  <2>2. /\ IsBitlist(js, n + 1 + k)
        /\ \A i \in 0 .. n - 1 : i \in js <=> i \in st.justifiedSlots
        /\ n = 0 => n \in js
    <3>1. n \in Nat /\ k \in Nat
      BY <1>2, <1>3
    <3> HIDE DEF n, k
    <3> QED
      BY <2>1, <3>1, HeaderBits
  <2>4. new.justifiedSlots = js
    BY <1>3
  <2> HIDE DEF js, k, n, slot
  <2> QED
    BY <1>n, <2>2, <2>4
<1>6. ASSUME NEW c \in CheckpointType, NEW d,
             d = IF n = 0 THEN Checkpoint(p, c.slot) ELSE c,
             n = 0 => c.slot = 0,
             n > 0 => OnBranch(st, st.justifiedSlots, c)
      PROVE  OnBranch(new, new.justifiedSlots, d)
  <2>3. n < slot
    BY <1>2, <1>3, <1>n
  <2>1. CASE n = 0
    <3>1. d.slot = 0 /\ d.root = p
      BY <1>6, <2>1 DEF Checkpoint
    <3>2. d.slot < Len(new.hist) /\ new.hist[d.slot + 1] = d.root
      BY <1>2, <1>4, <2>1, <2>3, <3>1
    <3>3. d.slot \in new.justifiedSlots
      BY <1>5, <2>1, <3>1
    <3> QED
      BY <3>2, <3>3 DEF OnBranch, InHistory
  <2>2. CASE n > 0
    <3>1. d = c /\ c.slot \in Nat
      BY <1>6, <2>2 DEF CheckpointType
    <3>2. c.slot < n /\ st.hist[c.slot + 1] = c.root /\ c.slot \in st.justifiedSlots
      BY <1>6, <2>2 DEF OnBranch, InHistory, GoodState
    <3>3. c.slot + 1 \in 1 .. n
      BY <1>2, <3>1, <3>2
    <3>4. c.slot < Len(new.hist) /\ new.hist[c.slot + 1] = c.root
      <4> HIDE DEF n, slot
      <4> QED
        BY <1>2, <1>4, <2>3, <3>1, <3>2, <3>3
    <3>5. c.slot \in new.justifiedSlots
      BY <1>2, <1>5, <3>1, <3>2
    <3> QED
      BY <3>1, <3>4, <3>5 DEF OnBranch, InHistory
  <2> QED
    BY <1>2, <2>1, <2>2
<1>7. /\ OnBranch(new, new.justifiedSlots, new.latestJustified)
      /\ OnBranch(new, new.justifiedSlots, new.latestFinalized)
  <2>1. /\ n = 0 => st.latestFinalized.slot = 0 /\ st.latestJustified.slot = 0
        /\ n > 0 => /\ OnBranch(st, st.justifiedSlots, st.latestJustified)
                    /\ OnBranch(st, st.justifiedSlots, st.latestFinalized)
    BY DEF GoodState
  <2> QED
    BY <1>2, <1>3, <1>6, <2>1
<1>9. new.latestFinalized.slot = st.latestFinalized.slot
  BY <1>3 DEF Checkpoint
<1>10. new.header.slot > 0
  BY <1>2, <1>3, <1>n, <1>h
<1>11. GoodState(new)
  BY <1>2, <1>3, <1>4, <1>5, <1>7, <1>h, <1>10 DEF GoodState
<1> QED
  BY <1>4, <1>5, <1>9, <1>10, <1>11 DEF new

-----------------------------------------------------------------------------
(* The end of a block.                                                     *)

(* EndAttestations, field by field.                                        *)
LEMMA EndFields ==
  ASSUME NEW st \in StateType, GoodState(st), st.header.slot > 0,
         NEW w, WorkType(w), GoodWork(st, w)
  PROVE  LET new == EndAttestations(st, w)
         IN  /\ new \in StateType /\ GoodState(new)
             /\ new.slot = st.slot
             /\ new.header = st.header
             /\ new.hist = st.hist
             /\ new.justifiedSlots = w.justifiedSlots
             /\ new.latestJustified = w.latestJustified
             /\ new.latestFinalized = w.latestFinalized
<1> DEFINE roots == sortedJustificationRoots(w.justifications)
           flat == flattenVotes(roots, w.justifications)
           new == EndAttestations(st, w)
<1>3. roots \in Seq(Nat) /\ flat \in SUBSET Nat
  BY SortedRootsShape, FlatVotesShape DEF WorkType
<1>4. new = [st EXCEPT
        !.justifiedSlots  = w.justifiedSlots,
        !.latestJustified = w.latestJustified,
        !.latestFinalized = w.latestFinalized,
        !.justRoots       = roots,
        !.justVotes       = flat]
  BY DEF EndAttestations
<1> HIDE DEF roots, flat, new
<1>5. new \in StateType
  BY <1>3, <1>4 DEF StateType, WorkType
<1>6. /\ new.slot = st.slot
      /\ new.header = st.header
      /\ new.hist = st.hist
      /\ new.justifiedSlots = w.justifiedSlots
      /\ new.latestJustified = w.latestJustified
      /\ new.latestFinalized = w.latestFinalized
  BY <1>4 DEF StateType
<1>9. GoodState(new)
  BY <1>6 DEF GoodState, GoodWork, OnBranch, InHistory
<1> QED
  BY <1>5, <1>6, <1>9 DEF new

-----------------------------------------------------------------------------
(* Folds.  The library's induction theorems take an operator, so what      *)
(* follows rests on the least element of a set of naturals instead.        *)

(* The least element of a set of naturals.                                 *)
LEMMA SmallestOf ==
  ASSUME NEW T \in SUBSET Nat, T # {}
  PROVE  \E m \in T : \A y \in T : m <= y
<1>1. IsWellFoundedOn(OpToRel(<, Nat), Nat)
  BY NatLessThanWellFounded, Zenon
<1>2. PICK m \in T : \A y \in T : ~ (<<y, m>> \in OpToRel(<, Nat))
  BY <1>1, WFMin, Zenon
<1>3. \A y \in T : ~ (y < m)
  BY <1>2, Zenon DEF OpToRel
<1> QED
  BY <1>3

(* The largest element of a bounded set of naturals.                       *)
LEMMA LargestOf ==
  ASSUME NEW n \in Nat, NEW s \in SUBSET (0 .. n), s # {}
  PROVE  \E x \in s : \A y \in s : x >= y
<1> DEFINE T == {x \in 0 .. n : n - x \in s}
<1>1. T \in SUBSET Nat
  OBVIOUS
<1>2. T # {}
  <2>1. PICK x \in s : TRUE
    OBVIOUS
  <2>2. n - x \in T
    BY <2>1
  <2> QED
    BY <2>2
<1> HIDE DEF T
<1>3. PICK m \in T : \A y \in T : m <= y
  BY <1>1, <1>2, SmallestOf
<1>4. m \in 0 .. n /\ n - m \in s
  BY <1>3 DEF T
<1>5. ASSUME NEW y \in s PROVE n - m >= y
  <2>1. n - y \in T /\ y \in 0 .. n
    BY DEF T
  <2>2. m <= n - y
    BY <1>3, <2>1
  <2> QED
    BY <1>4, <2>1, <2>2
<1> QED
  BY <1>4, <1>5

(* Max of a set of indices.                                                *)
LEMMA MaxOf ==
  ASSUME NEW n \in Nat, NEW s \in SUBSET (1 .. n), s # {}
  PROVE  /\ Max(s) \in s /\ Max(s) \in 1 .. n
         /\ \A y \in s : Max(s) >= y
         /\ s \ {Max(s)} \in SUBSET (1 .. n)
<1>1. s \in SUBSET (0 .. n)
  OBVIOUS
<1>2. \E x \in s : \A y \in s : x >= y
  BY <1>1, LargestOf
<1>3. Max(s) \in s /\ \A y \in s : Max(s) >= y
  BY <1>2 DEF Max
<1> QED
  BY <1>3

(* it[s] is the fold of the steps g[i], i \in s, in ascending order, from  *)
(* the value b; only what it does to members of X is said.                 *)
Folds(it, n, X, b, g) ==
  \A s \in SUBSET (1 .. n) :
    /\ s = {} => it[s] = b
    /\ s # {} /\ it[s \ {Max(s)}] \in X
         => it[s] = g[Max(s)][it[s \ {Max(s)}]]

(* Every fold over members of X exists,                                    *)
LEMMA FoldExists ==
  ASSUME NEW n \in Nat, NEW X, NEW b \in X, NEW g \in [1 .. n -> [X -> X]]
  PROVE  \E it \in [SUBSET (1 .. n) -> X] : Folds(it, n, X, b, g)
<1> DEFINE E(m) == \E it \in [SUBSET (1 .. m) -> X] : Folds(it, m, X, b, g)
           Bad == {m \in 0 .. n : ~ E(m)}
<1>1. E(0)
  <2> DEFINE it == [s \in SUBSET (1 .. 0) |-> b]
  <2>1. it \in [SUBSET (1 .. 0) -> X]
    OBVIOUS
  <2>2. \A s \in SUBSET (1 .. 0) : s = {}
    OBVIOUS
  <2>3. Folds(it, 0, X, b, g)
    BY <2>2 DEF Folds
  <2> QED
    BY <2>1, <2>3
<1>2. ASSUME NEW m \in 0 .. n - 1, E(m) PROVE E(m + 1)
  <2>1. PICK it \in [SUBSET (1 .. m) -> X] : Folds(it, m, X, b, g)
    BY <1>2
  <2> DEFINE new == [s \in SUBSET (1 .. m + 1) |->
                       IF m + 1 \in s THEN g[m + 1][it[s \ {m + 1}]] ELSE it[s]]
  <2>2. \A s \in SUBSET (1 .. m + 1) :
          /\ m + 1 \in s => s \ {m + 1} \in SUBSET (1 .. m)
          /\ m + 1 \notin s => s \in SUBSET (1 .. m)
    OBVIOUS
  <2>3. m + 1 \in 1 .. n /\ m + 1 \in Nat
    OBVIOUS
  <2>4. new \in [SUBSET (1 .. m + 1) -> X]
    BY <2>2, <2>3
  <2>5. \A s \in SUBSET (1 .. m) : new[s] = it[s]
    <3> TAKE s \in SUBSET (1 .. m)
    <3>1. m + 1 \notin s /\ s \in SUBSET (1 .. m + 1)
      OBVIOUS
    <3> QED
      BY <3>1
  <2>6. ASSUME NEW s \in SUBSET (1 .. m + 1)
        PROVE  /\ s = {} => new[s] = b
               /\ s # {} => new[s] = g[Max(s)][new[s \ {Max(s)}]]
    <3>1. CASE m + 1 \in s
      <4>1. Max(s) = m + 1
        <5>1. /\ Max(s) \in 1 .. m + 1
              /\ Max(s) >= m + 1
          BY <2>3, <3>1, MaxOf
        <5> QED
          BY <5>1
      <4>2. new[s] = g[m + 1][it[s \ {m + 1}]]
        BY <3>1
      <4>3. new[s \ {m + 1}] = it[s \ {m + 1}]
        BY <2>2, <2>5, <3>1
      <4> HIDE DEF new
      <4> QED
        BY <3>1, <4>1, <4>2, <4>3
    <3>2. CASE m + 1 \notin s
      <4>1. s \in SUBSET (1 .. m) /\ s \ {Max(s)} \in SUBSET (1 .. m)
        BY <2>2, <3>2
      <4>2. new[s] = it[s] /\ new[s \ {Max(s)}] = it[s \ {Max(s)}]
        BY <2>5, <4>1
      <4>3. it[s \ {Max(s)}] \in X
        BY <2>1, <4>1
      <4> HIDE DEF new
      <4> QED
        BY <2>1, <4>1, <4>2, <4>3 DEF Folds
    <3> QED
      BY <3>1, <3>2
  <2>7. Folds(new, m + 1, X, b, g)
    <3> HIDE DEF new
    <3> QED
      BY <2>6 DEF Folds
  <2> HIDE DEF new
  <2> QED
    BY <2>4, <2>7
<1>3. ASSUME Bad # {} PROVE FALSE
  <2>1. PICK m \in Bad : \A y \in Bad : m <= y
    <3>1. Bad \in SUBSET Nat
      OBVIOUS
    <3> HIDE DEF Bad
    <3> QED
      BY <1>3, <3>1, SmallestOf
  <2>2. m # 0
    BY <1>1, <2>1
  <2>3. m - 1 \in 0 .. n - 1 /\ m - 1 \notin Bad /\ m - 1 \in 0 .. n
    <3>1. m \in 0 .. n
      BY <2>1
    <3>2. m - 1 \in 0 .. n - 1
      BY <2>2, <3>1
    <3> HIDE DEF Bad
    <3> QED
      BY <2>1, <3>1, <3>2
  <2>4. E(m - 1)
    BY <2>3
  <2>5. E(m - 1 + 1)
    BY <1>2, <2>3, <2>4
  <2>6. m - 1 + 1 = m
    BY <2>1
  <2> QED
    BY <2>1, <2>5, <2>6
<1>4. n \in 0 .. n
  OBVIOUS
<1>5. E(n)
  BY <1>3, <1>4
<1> QED
  BY <1>5

(* and ends in X.                                                          *)
LEMMA FoldInside ==
  ASSUME NEW n \in Nat, NEW X, NEW b \in X, NEW g \in [1 .. n -> [X -> X]],
         NEW it, Folds(it, n, X, b, g)
  PROVE  \A s \in SUBSET (1 .. n) : it[s] \in X
<1> DEFINE Top(s) == IF s = {} THEN 0 ELSE Max(s)
           Bad == {m \in 0 .. n : \E s \in SUBSET (1 .. n) : Top(s) = m /\ it[s] \notin X}
<1>1. \A s \in SUBSET (1 .. n) : Top(s) \in 0 .. n
  BY MaxOf
<1>2. ASSUME Bad # {} PROVE FALSE
  <2>1. PICK m \in Bad : \A y \in Bad : m <= y
    <3>1. Bad \in SUBSET Nat
      OBVIOUS
    <3> HIDE DEF Bad
    <3> QED
      BY <1>2, <3>1, SmallestOf
  <2>2. PICK s \in SUBSET (1 .. n) : Top(s) = m /\ it[s] \notin X
    BY <2>1
  <2>3. s # {}
    BY <2>2 DEF Folds
  <2> DEFINE q == s \ {Max(s)}
  <2>4. /\ Max(s) \in 1 .. n /\ q \in SUBSET (1 .. n) /\ q \subseteq s
        /\ \A y \in s : Max(s) >= y
    BY <2>3, MaxOf
  <2>5. Top(q) < m
    <3>1. CASE q = {}
      BY <2>2, <2>3, <2>4, <3>1
    <3>2. CASE q # {}
      <4>1. Max(q) \in q /\ Max(q) \in 1 .. n
        BY <2>4, <3>2, MaxOf
      <4>2. Max(s) >= Max(q) /\ Max(q) # Max(s)
        BY <2>4, <4>1
      <4> QED
        BY <2>2, <2>3, <2>4, <3>2, <4>1, <4>2
    <3> QED
      BY <3>1, <3>2
  <2>6. it[q] \in X
    <3>1. Top(q) \in 0 .. n /\ m \in 0 .. n
      BY <1>1, <2>1, <2>4
    <3>2. Top(q) \notin Bad
      <4> HIDE DEF Bad, Top
      <4> QED
        BY <2>1, <2>5, <3>1
    <3> QED
      BY <2>4, <3>1, <3>2
  <2>7. it[s] = g[Max(s)][it[q]]
    BY <2>3, <2>6 DEF Folds
  <2>8. it[s] \in X
    <3>1. g[Max(s)] \in [X -> X]
      BY <2>4
    <3> QED
      BY <2>6, <2>7, <3>1
  <2> QED
    BY <2>2, <2>8
<1>3. ASSUME NEW s \in SUBSET (1 .. n) PROVE it[s] \in X
  <2>1. Top(s) \notin Bad
    BY <1>2
  <2>2. Top(s) \in 0 .. n
    BY <1>1
  <2> HIDE DEF Top
  <2> QED
    BY <2>1, <2>2
<1> QED
  BY <1>3

-----------------------------------------------------------------------------
(* A whole block.                                                          *)

(* The blocks of st's branch at the justified slots js are in Roots.       *)
Rooted(st, js, Roots) ==
  \A i \in 0 .. st.header.slot - 1 : i \in js => st.hist[i + 1] \in Roots

(* So are those that the checkpoints name.                                 *)
LEMMA RootedCheckpoint ==
  ASSUME NEW st \in StateType, Len(st.hist) = st.header.slot, NEW js, NEW Roots,
         Rooted(st, js, Roots), NEW c \in CheckpointType, OnBranch(st, js, c)
  PROVE  c.root \in Roots
<1>1. c.slot \in Nat /\ st.header.slot \in Nat
  BY DEF CheckpointType, StateType
<1>2. c.slot < st.header.slot /\ c.slot \in js /\ st.hist[c.slot + 1] = c.root
  BY DEF OnBranch, InHistory
<1>3. c.slot \in 0 .. st.header.slot - 1
  BY <1>1, <1>2
<1> QED
  BY <1>2, <1>3 DEF Rooted

(* The working variables a loop over attestations may have: well typed,    *)
(* good for st, and with the justified blocks in the set Roots.            *)
WorkRecords ==
  [justifications  : {j \in UNION {[D -> SUBSET Validators] : D \in SUBSET Nat} :
                        IsFiniteSet(DOMAIN j)},
   justifiedSlots  : SUBSET Nat,
   latestJustified : CheckpointType,
   latestFinalized : CheckpointType]

LoopWorks(st, Roots) ==
  {w \in WorkRecords : GoodWork(st, w) /\ Rooted(st, w.justifiedSlots, Roots)}

(* A well-typed record of working variables.                               *)
LEMMA WorkRecord ==
  ASSUME NEW j, NEW js, NEW lj, NEW lf,
         WorkType([justifications |-> j, justifiedSlots |-> js,
                   latestJustified |-> lj, latestFinalized |-> lf]),
         j = [r \in DOMAIN j |-> j[r]]
  PROVE  [justifications |-> j, justifiedSlots |-> js,
          latestJustified |-> lj, latestFinalized |-> lf] \in WorkRecords
<1> DEFINE D == DOMAIN j
<1>1. /\ js \subseteq Nat /\ lj \in CheckpointType /\ lf \in CheckpointType
      /\ D \subseteq Nat /\ IsFiniteSet(D) /\ \A r \in D : j[r] \subseteq Validators
  BY DEF WorkType
<1>2. j \in [D -> SUBSET Validators]
  BY <1>1
<1> QED
  BY <1>1, <1>2 DEF WorkRecords

(* One iteration of the loop.                                              *)
LEMMA ApplyInside ==
  ASSUME NEW st \in StateType, GoodState(st), NEW Roots,
         NEW w \in LoopWorks(st, Roots),
         NEW att, VoteType(att), att.target.root \in Roots
  PROVE  ApplyAttestation(st, w, att) \in LoopWorks(st, Roots)
<1> DEFINE new == ApplyAttestation(st, w, att)
<1>1. w \in WorkRecords /\ GoodWork(st, w) /\ Rooted(st, w.justifiedSlots, Roots)
  BY DEF LoopWorks
<1>2. WorkType(w)
  BY <1>1 DEF WorkRecords, WorkType
<1>3. WorkType(new) /\ GoodWork(st, new)
  BY <1>1, <1>2, ApplyAttestationInv
<1>4. \/ new = w \/ new = RecordVote(w, att)
      \/ AttestationCounts(st, w, att) /\ new = JustifyTarget(st, w, att)
  BY DEF ApplyAttestation
<1> SUFFICES new \in LoopWorks(st, Roots)
  OBVIOUS
<1> HIDE DEF new
<1>5. CASE new = w
  BY <1>5
<1>6. CASE new = RecordVote(w, att)
  <2> DEFINE j == [r \in DOMAIN w.justifications \union {att.target.root} |->
                     VotesFor(w.justifications, r)
                       \union (IF r = att.target.root THEN {att.validator} ELSE {})]
  <2>1. j = [r \in DOMAIN j |-> j[r]]
    OBVIOUS
  <2>2. new = [justifications |-> j, justifiedSlots |-> w.justifiedSlots,
               latestJustified |-> w.latestJustified,
               latestFinalized |-> w.latestFinalized]
    BY <1>6 DEF RecordVote
  <2> HIDE DEF j
  <2>3. new \in WorkRecords
    BY <1>3, <2>1, <2>2, WorkRecord
  <2> QED
    BY <1>1, <1>3, <2>2, <2>3 DEF LoopWorks
<1>7. CASE AttestationCounts(st, w, att) /\ new = JustifyTarget(st, w, att)
  <2>0. Rooted(st, new.justifiedSlots, Roots)
    <3>1. /\ att.target.slot \in 0 .. st.header.slot - 1
          /\ st.hist[att.target.slot + 1] = att.target.root
      BY <1>1, <1>7, CountingAttestation DEF InHistory
    <3>2. st.header.slot \in Nat /\ IsBitlist(w.justifiedSlots, st.header.slot)
      BY <1>1 DEF StateType, GoodWork
    <3>3. new.justifiedSlots = w.justifiedSlots \union {att.target.slot}
      BY <1>7, <3>1, <3>2, JustifyTargetSlots
    <3> QED
      BY <1>1, <3>1, <3>3 DEF Rooted
  <2> DEFINE j == Restrict(w.justifications,
                           DOMAIN w.justifications \ {att.target.root})
             js == JustifyTarget(st, w, att).justifiedSlots
             lf == JustifyTarget(st, w, att).latestFinalized
  <2>1. j = [r \in DOMAIN j |-> j[r]]
    BY DEF Restrict
  <2>2. new = [justifications |-> j, justifiedSlots |-> js,
               latestJustified |-> att.target, latestFinalized |-> lf]
    BY <1>7 DEF JustifyTarget
  <2> HIDE DEF j, js, lf
  <2>3. new \in WorkRecords
    BY <1>3, <2>1, <2>2, WorkRecord
  <2> QED
    BY <1>3, <2>0, <2>3 DEF LoopWorks
<1> QED
  BY <1>4, <1>5, <1>6, <1>7

(* The loop, from the first working variables of a block.                  *)
Loop(st, attestations) ==
  FoldLeft(LAMBDA w, att : ApplyAttestation(st, w, att),
           BeginAttestations(st), attestations)

(* The loop stays in LoopWorks, whatever the attestations.                 *)
LEMMA LoopInside ==
  ASSUME NEW st \in StateType, GoodState(st), st.header.slot > 0, NEW Roots,
         Rooted(st, st.justifiedSlots, Roots),
         NEW Atts, \A att \in Atts : VoteType(att) /\ att.target.root \in Roots,
         NEW q \in Seq(Atts)
  PROVE  Loop(st, q) \in LoopWorks(st, Roots)
<1> DEFINE X == LoopWorks(st, Roots)
           b == BeginAttestations(st)
           n == Len(q)
           g == [i \in 1 .. n |-> [x \in X |-> ApplyAttestation(st, x, q[i])]]
           P(it) == it = [s \in SUBSET (DOMAIN q) |->
                            IF s = {} THEN b
                            ELSE ApplyAttestation(st, it[s \ {Max(s)}], q[Max(s)])]
<1>0. b \in X
  <2>1. WorkType(b) /\ GoodWork(st, b) /\ b.justifiedSlots = st.justifiedSlots
    BY BeginGood DEF BeginAttestations
  <2>2. b = [justifications |-> Deserialize(st),
             justifiedSlots |-> st.justifiedSlots,
             latestJustified |-> st.latestJustified,
             latestFinalized |-> st.latestFinalized]
    BY DEF BeginAttestations
  <2>3. Deserialize(st) = [r \in DOMAIN Deserialize(st) |-> Deserialize(st)[r]]
    BY DEF Deserialize
  <2> HIDE DEF b
  <2>4. b \in WorkRecords
    BY <2>1, <2>2, <2>3, WorkRecord
  <2> QED
    BY <2>1, <2>4 DEF LoopWorks
<1>1. n \in Nat /\ DOMAIN q = 1 .. n /\ \A i \in 1 .. n : q[i] \in Atts
  OBVIOUS
<1>2. g \in [1 .. n -> [X -> X]]
  <2> HIDE DEF X, n
  <2>1. \A i \in 1 .. n, x \in X : ApplyAttestation(st, x, q[i]) \in X
    BY <1>1, ApplyInside DEF X
  <2> QED
    BY <2>1
<1> HIDE DEF X, b
<1>3. PICK it \in [SUBSET (1 .. n) -> X] : Folds(it, n, X, b, g)
  <2> HIDE DEF n, g
  <2> QED
    BY <1>0, <1>1, <1>2, FoldExists
<1>4. ASSUME NEW s \in SUBSET (1 .. n), NEW x \in X, s # {}
      PROVE  g[Max(s)][x] = ApplyAttestation(st, x, q[Max(s)])
  BY <1>1, <1>4, MaxOf
<1>5. P(it)
  <2>1. ASSUME NEW s \in SUBSET (1 .. n)
        PROVE  it[s] = IF s = {} THEN b
                       ELSE ApplyAttestation(st, it[s \ {Max(s)}], q[Max(s)])
    <3>1. it[s \ {Max(s)}] \in X
      BY <1>3
    <3> HIDE DEF g, n
    <3> QED
      BY <1>3, <1>4, <3>1 DEF Folds
  <2> HIDE DEF n
  <2> QED
    BY <1>1, <2>1
<1>6. Loop(st, q) = (CHOOSE f : P(f))[DOMAIN q]
  BY DEF Loop, FoldLeft, MapThenFoldSet, b
<1>7. PICK f : f = (CHOOSE h : P(h)) /\ P(f)
  BY <1>5
<1>8. Folds(f, n, X, b, g)
  <2>1. ASSUME NEW s \in SUBSET (1 .. n)
        PROVE  /\ s = {} => f[s] = b
               /\ s # {} => f[s] = ApplyAttestation(st, f[s \ {Max(s)}], q[Max(s)])
    BY <1>1, <1>7
  <2> HIDE DEF g, n, P
  <2> QED
    BY <1>4, <2>1 DEF Folds
<1>9. f[1 .. n] \in X
  <2> HIDE DEF g, n, P
  <2> QED
    BY <1>0, <1>1, <1>2, <1>8, FoldInside
<1> QED
  BY <1>1, <1>6, <1>7, <1>9 DEF X

(* The header of the next block appends the parent, and justifies it only  *)
(* if it is genesis.                                                       *)
LEMMA HeaderRooted ==
  ASSUME NEW st \in StateType, GoodState(st), NEW block, NEW root,
         NextBlock(st, block, root), NEW Roots, st.header.root \in Roots,
         Rooted(st, st.justifiedSlots, Roots),
         NEW mid, IsAfterHeader(st, block, root, mid)
  PROVE  Rooted(mid, mid.justifiedSlots, Roots)
<1> DEFINE n == st.header.slot
           p == st.header.root
           k == EmptySlots(st, block)
           h == st.hist
           js == st.justifiedSlots
<1>1. /\ n \in Nat /\ p \in Nat /\ h \in Seq(Nat) /\ k \in Nat
      /\ Len(h) = n /\ IsBitlist(js, n)
  BY DEF StateType, GoodState, IsAfterHeader
<1>2. /\ mid.hist = Extended(h, p, k) /\ mid.justifiedSlots = HeaderBitlist(js, n, k)
      /\ mid.header.slot = n + 1 + k
  <2>1. /\ mid.hist = Extended(h, p, k) /\ mid.justifiedSlots = HeaderBitlist(js, n, k)
        /\ mid.header.slot = block.slot
    BY DEF IsAfterHeader
  <2>2. block.slot = n + 1 + k
    BY <1>1 DEF EmptySlots, NextBlock
  <2> QED
    BY <2>1, <2>2
<1>3. \A i \in 0 .. n - 1 : i \in js => h[i + 1] \in Roots
  BY DEF Rooted
<1>4. p \in Roots
  OBVIOUS
<1> DEFINE g == Extended(h, p, k)
           bits == HeaderBitlist(js, n, k)
<1> HIDE DEF n, p, k, h, js
<1>5. /\ \A i \in 1 .. n : g[i] = h[i]
      /\ g[n + 1] = p
  <2>1. /\ h \in Seq(Nat) /\ p \in Nat /\ k \in Nat
        /\ Len(h) = n
    BY <1>1
  <2>2. /\ Len(g) = Len(h) + 1 + k
        /\ \A i \in 1 .. Len(h) : g[i] = h[i]
        /\ g[Len(h) + 1] = p
        /\ \A i \in Len(h) + 2 .. Len(h) + 1 + k : g[i] = ZeroHash
    <3>1. h \in Seq(Nat) /\ p \in Nat /\ k \in Nat
      BY <2>1
    <3> QED
      BY <3>1, HistoryParts
  <2> HIDE DEF g
  <2> QED
    BY <2>1, <2>2
<1>6. /\ \A i \in 0 .. n - 1 : i \in bits <=> i \in js
      /\ \A i \in n .. n + k : i \in bits => n = 0 /\ i = 0
  BY <1>1, HeaderBits
<1> HIDE DEF g, bits
<1>7. ASSUME NEW i \in 0 .. n + k, i \in bits PROVE g[i + 1] \in Roots
  <2>1. CASE i \in 0 .. n - 1
    <3>1. i + 1 \in 1 .. n /\ h[i + 1] \in Roots
      BY <1>1, <1>3, <1>6, <1>7, <2>1
    <3> QED
      BY <1>5, <3>1
  <2>2. CASE i \in n .. n + k
    BY <1>1, <1>4, <1>5, <1>6, <1>7, <2>2
  <2> QED
    BY <1>1, <2>1, <2>2
<1>8. \A i \in 0 .. mid.header.slot - 1 : i \in 0 .. n + k
  BY <1>1, <1>2
<1> QED
  BY <1>2, <1>7, <1>8 DEF Rooted, g, bits

(* new is the state after block, whose hash is root.                       *)
IsAfterBlock(st, block, root, Roots, new) ==
  /\ new \in StateType
  /\ GoodState(new)
  /\ new.header = [slot |-> block.slot, root |-> root, filled |-> FALSE]
  /\ block.slot > st.header.slot
  /\ new.hist = Extended(st.hist, st.header.root, EmptySlots(st, block))
  /\ Rooted(new, new.justifiedSlots, Roots)
  /\ {new.latestJustified.root, new.latestFinalized.root} \subseteq Roots

(* The state transition from a good state to a good state.                 *)
LEMMA TransitionGood ==
  ASSUME NEW st \in StateType, GoodState(st), NEW block, NEW root,
         NextBlock(st, block, root), NEW Roots, st.header.root \in Roots,
         Rooted(st, st.justifiedSlots, Roots),
         NEW Atts, \A att \in Atts : VoteType(att) /\ att.target.root \in Roots,
         block.body \in Seq(Atts)
  PROVE  IsAfterBlock(st, block, root, Roots, StateTransition(st, block, root))
<1> DEFINE mid == AfterHeader(st, block, root)
           w == Loop(mid, block.body)
           new == StateTransition(st, block, root)
<1>1. IsAfterHeader(st, block, root, mid)
  BY HeaderFields
<1>2. GoodState(mid) /\ mid.header.slot > 0
  BY HeaderGood
<1>3. new = EndAttestations(mid, w)
  BY DEF StateTransition, ProcessBlock, ProcessAttestations, Loop, AfterHeader
<1> SUFFICES IsAfterBlock(st, block, root, Roots, new)
  OBVIOUS
<1> HIDE DEF mid, new
<1>4. /\ mid \in StateType
      /\ mid.header = [slot |-> block.slot, root |-> root, filled |-> FALSE]
      /\ mid.hist = Extended(st.hist, st.header.root, EmptySlots(st, block))
      /\ EmptySlots(st, block) \in Nat
  BY <1>1 DEF IsAfterHeader
<1>5. Rooted(mid, mid.justifiedSlots, Roots)
  BY <1>1, HeaderRooted
<1>6. w \in LoopWorks(mid, Roots)
  <2> DEFINE q == block.body
  <2> HIDE DEF q
  <2>1. q \in Seq(Atts)
    BY DEF q
  <2>2. Loop(mid, q) \in LoopWorks(mid, Roots)
    BY <1>2, <1>4, <1>5, <2>1, LoopInside
  <2> QED
    BY <2>2 DEF q
<1> HIDE DEF w
<1>7. WorkType(w) /\ GoodWork(mid, w) /\ Rooted(mid, w.justifiedSlots, Roots)
  BY <1>6 DEF LoopWorks, WorkRecords, WorkType
<1>8. /\ new \in StateType /\ GoodState(new)
      /\ new.header = mid.header
      /\ new.hist = mid.hist
      /\ new.justifiedSlots = w.justifiedSlots
  BY <1>2, <1>3, <1>4, <1>7, EndFields
<1>9. block.slot > st.header.slot
  <2>1. st.header.slot \in Nat /\ block.slot \in Nat
    BY DEF StateType, NextBlock
  <2> QED
    BY <1>4, <2>1 DEF EmptySlots
<1>10. Rooted(new, new.justifiedSlots, Roots)
  BY <1>7, <1>8 DEF Rooted
<1>11. new.header.slot > 0 /\ Len(new.hist) = new.header.slot
  BY <1>2, <1>8 DEF GoodState
<1>12. /\ OnBranch(new, new.justifiedSlots, new.latestJustified)
       /\ OnBranch(new, new.justifiedSlots, new.latestFinalized)
       /\ new.latestJustified \in CheckpointType /\ new.latestFinalized \in CheckpointType
  BY <1>8, <1>11 DEF GoodState, StateType
<1>13. {new.latestJustified.root, new.latestFinalized.root} \subseteq Roots
  BY <1>8, <1>10, <1>11, <1>12, RootedCheckpoint
<1> QED
  BY <1>4, <1>8, <1>9, <1>10, <1>13 DEF IsAfterBlock

-----------------------------------------------------------------------------
(* Block trees.                                                            *)

(* A block tree: roots are not the zero hash, slots grow from parent to    *)
(* child, and there is a bound on both, so that the tree is finite.        *)
IsTree(blocks, n) ==
  /\ n \in Nat
  /\ DOMAIN blocks \subseteq 1 .. n
  /\ \A r \in DOMAIN blocks :
       /\ blocks[r].slot \in 0 .. n
       /\ blocks[r].parent \in DOMAIN blocks
            => blocks[blocks[r].parent].slot < blocks[r].slot

-----------------------------------------------------------------------------
(* Induction over a tree, with the set of the blocks that have the         *)
(* property in place of the property.                                      *)

(* From parents to children.                                               *)
LEMMA UpwardInduction ==
  ASSUME NEW blocks, NEW n, IsTree(blocks, n), NEW S,
         \A r \in DOMAIN blocks :
           (blocks[r].parent \in DOMAIN blocks => blocks[r].parent \in S) => r \in S
  PROVE  DOMAIN blocks \subseteq S
<1> DEFINE D == DOMAIN blocks
           Bad == {k \in 0 .. n : \E r \in D : r \notin S /\ blocks[r].slot = k}
<1>1. ASSUME Bad # {} PROVE FALSE
  <2>1. PICK k \in Bad : \A y \in Bad : k <= y
    <3>1. Bad \in SUBSET Nat
      BY DEF IsTree
    <3> HIDE DEF Bad
    <3> QED
      BY <1>1, <3>1, SmallestOf
  <2>2. PICK r \in D : r \notin S /\ blocks[r].slot = k
    BY <2>1
  <2>3. blocks[r].parent \in D /\ blocks[r].parent \notin S
    BY <2>2
  <2> DEFINE p == blocks[r].parent
  <2>4. blocks[p].slot < k /\ blocks[p].slot \in 0 .. n
    BY <2>2, <2>3 DEF IsTree
  <2>5. blocks[p].slot \in Bad
    BY <2>3, <2>4
  <2>6. k \in 0 .. n
    BY <2>1
  <2> HIDE DEF Bad
  <2> QED
    BY <2>1, <2>4, <2>5, <2>6
<1>2. ASSUME NEW r \in D, r \notin S PROVE FALSE
  <2>1. blocks[r].slot \in Bad
    BY <1>2 DEF IsTree
  <2> QED
    BY <1>1, <2>1
<1> QED
  BY <1>2

(* From children to parents, along a function next to a later block.       *)
LEMMA DownwardInduction ==
  ASSUME NEW blocks, NEW n, IsTree(blocks, n),
         NEW next \in [DOMAIN blocks -> DOMAIN blocks],
         \A r \in DOMAIN blocks :
           next[r] # r => blocks[next[r]].slot > blocks[r].slot,
         NEW S,
         \A r \in DOMAIN blocks : (next[r] # r => next[r] \in S) => r \in S
  PROVE  DOMAIN blocks \subseteq S
<1> DEFINE D == DOMAIN blocks
           Bad == {k \in 0 .. n : \E r \in D : r \notin S /\ blocks[r].slot = k}
<1>1. ASSUME Bad # {} PROVE FALSE
  <2>1. PICK k \in Bad : \A y \in Bad : k >= y
    <3>1. Bad \in SUBSET (0 .. n) /\ n \in Nat
      BY DEF IsTree
    <3> HIDE DEF Bad
    <3> QED
      BY <1>1, <3>1, LargestOf
  <2>2. PICK r \in D : r \notin S /\ blocks[r].slot = k
    BY <2>1
  <2>3. next[r] # r /\ next[r] \notin S /\ next[r] \in D
    BY <2>2
  <2>4. blocks[next[r]].slot > k /\ blocks[next[r]].slot \in 0 .. n
    BY <2>2, <2>3 DEF IsTree
  <2>5. blocks[next[r]].slot \in Bad
    BY <2>3, <2>4
  <2>6. k \in 0 .. n
    BY <2>1
  <2> HIDE DEF Bad
  <2> QED
    BY <2>1, <2>4, <2>5, <2>6
<1>2. ASSUME NEW r \in D, r \notin S PROVE FALSE
  <2>1. blocks[r].slot \in Bad
    BY <1>2 DEF IsTree
  <2> QED
    BY <1>1, <2>1
<1> QED
  BY <1>2

-----------------------------------------------------------------------------
(* The walk towards genesis.                                               *)

(* The equation that defines the path.                                     *)
IsPath(blocks, rootSlot, path) ==
  \A r \in DOMAIN blocks :
    path[r] = IF blocks[r].slot <= rootSlot THEN {}
              ELSE {r} \union (IF blocks[r].parent \in DOMAIN blocks
                               THEN path[blocks[r].parent] ELSE {})

(* S contains the parents above rootSlot of its members.                   *)
ParentClosed(blocks, rootSlot, S) ==
  \A x \in S :
    blocks[x].parent \in DOMAIN blocks /\ ~ (blocks[blocks[x].parent].slot <= rootSlot)
      => blocks[x].parent \in S

(* The path of r is the least such set that contains r.                    *)
LeastPath(blocks, rootSlot) ==
  [r \in DOMAIN blocks |->
     IF blocks[r].slot <= rootSlot THEN {}
     ELSE {q \in DOMAIN blocks :
             \A S \in SUBSET (DOMAIN blocks) :
               r \in S /\ ParentClosed(blocks, rootSlot, S) => q \in S}]

(* It satisfies the equation.                                              *)
LEMMA LeastPathIs ==
  ASSUME NEW blocks, NEW rootSlot
  PROVE  IsPath(blocks, rootSlot, LeastPath(blocks, rootSlot))
<1> DEFINE D == DOMAIN blocks
           f == LeastPath(blocks, rootSlot)
<1>1. ASSUME NEW r \in D, ~ (blocks[r].slot <= rootSlot)
      PROVE  f[r] = {r} \union (IF blocks[r].parent \in D
                                THEN f[blocks[r].parent] ELSE {})
  <2> DEFINE p == blocks[r].parent
             In(x) == {q \in D : \A S \in SUBSET D :
                         x \in S /\ ParentClosed(blocks, rootSlot, S) => q \in S}
  <2>1. f[r] = In(r)
    BY <1>1 DEF LeastPath
  <2>2. CASE p \in D /\ ~ (blocks[p].slot <= rootSlot)
    <3>1. f[p] = In(p)
      BY <2>2 DEF LeastPath
    <3>2. r \in In(r)
      OBVIOUS
    <3>3. In(p) \subseteq In(r)
      <4> SUFFICES ASSUME NEW q \in In(p), NEW S \in SUBSET D, r \in S,
                          ParentClosed(blocks, rootSlot, S)
                   PROVE  q \in S
        OBVIOUS
      <4>1. p \in S
        BY <2>2 DEF ParentClosed
      <4> QED
        BY <4>1
    <3>4. ASSUME NEW q \in In(r), q # r PROVE q \in In(p)
      <4> SUFFICES ASSUME NEW S \in SUBSET D, p \in S,
                          ParentClosed(blocks, rootSlot, S)
                   PROVE  q \in S
        OBVIOUS
      <4>1. ParentClosed(blocks, rootSlot, S \union {r})
        BY DEF ParentClosed
      <4>2. S \union {r} \in SUBSET D /\ r \in S \union {r}
        OBVIOUS
      <4>3. q \in S \union {r}
        BY <4>1, <4>2
      <4> QED
        BY <3>4, <4>3
    <3> HIDE DEF In, f
    <3> QED
      BY <2>1, <2>2, <3>1, <3>2, <3>3, <3>4
  <2>3. CASE ~ (p \in D /\ ~ (blocks[p].slot <= rootSlot))
    <3>1. In(r) = {r}
      <4>1. ParentClosed(blocks, rootSlot, {r})
        BY <2>3 DEF ParentClosed
      <4> QED
        BY <4>1
    <3>2. p \in D => f[p] = {}
      BY <2>3 DEF LeastPath
    <3> HIDE DEF In, f
    <3> QED
      BY <2>1, <3>1, <3>2
  <2> QED
    BY <2>2, <2>3
<1>2. \A r \in D : blocks[r].slot <= rootSlot => f[r] = {}
  BY DEF LeastPath
<1> HIDE DEF f
<1>3. IsPath(blocks, rootSlot, f)
  BY <1>1, <1>2 DEF IsPath
<1> QED
  BY <1>3 DEF f

(* CountedPath satisfies the equation and stays in the tree.               *)
LEMMA CountedPathIs ==
  ASSUME NEW blocks, NEW n, IsTree(blocks, n), NEW rootSlot
  PROVE  /\ IsPath(blocks, rootSlot, CountedPath(blocks, rootSlot))
         /\ \A r \in DOMAIN blocks :
              CountedPath(blocks, rootSlot)[r] \in SUBSET (DOMAIN blocks)
<1> DEFINE D == DOMAIN blocks
           P(path) == path = [r \in D |->
             IF blocks[r].slot <= rootSlot THEN {}
             ELSE {r} \union (IF blocks[r].parent \in D
                              THEN path[blocks[r].parent] ELSE {})]
           c == CountedPath(blocks, rootSlot)
<1>1. P(LeastPath(blocks, rootSlot))
  <2> DEFINE f == LeastPath(blocks, rootSlot)
  <2>1. IsPath(blocks, rootSlot, f)
    BY LeastPathIs
  <2>2. f = [r \in D |-> f[r]]
    BY DEF LeastPath
  <2> HIDE DEF f
  <2>3. P(f)
    BY <2>1, <2>2 DEF IsPath
  <2> QED
    BY <2>3 DEF f
<1>2. c = CHOOSE path : P(path)
  BY DEF CountedPath
<1>3. P(c)
  <2> HIDE DEF c, P
  <2> QED
    BY <1>1, <1>2
<1> HIDE DEF c
<1>4. IsPath(blocks, rootSlot, c)
  BY <1>3 DEF IsPath
<1> DEFINE S == {r \in D : c[r] \in SUBSET D}
<1>5. \A r \in D : (blocks[r].parent \in D => blocks[r].parent \in S) => r \in S
  BY <1>4 DEF IsPath
<1>6. D \subseteq S
  <2> HIDE DEF S
  <2> QED
    BY <1>5, UpwardInduction
<1> QED
  BY <1>4, <1>6 DEF c

(* The blocks from r to genesis.                                           *)
Anc(blocks, r) == CountedPath(blocks, -1)[r]

(* The ancestors of r are r and those of its parent.                       *)
LEMMA AncIs ==
  ASSUME NEW blocks, NEW n, IsTree(blocks, n), NEW r \in DOMAIN blocks
  PROVE  /\ Anc(blocks, r) \subseteq DOMAIN blocks
         /\ Anc(blocks, r) = {r} \union (IF blocks[r].parent \in DOMAIN blocks
                                         THEN Anc(blocks, blocks[r].parent) ELSE {})
<1>1. ~ (blocks[r].slot <= -1)
  BY DEF IsTree
<1> DEFINE c == CountedPath(blocks, -1)
<1>2. IsPath(blocks, -1, c) /\ c[r] \in SUBSET (DOMAIN blocks)
  BY CountedPathIs
<1> HIDE DEF c
<1>3. c[r] = {r} \union (IF blocks[r].parent \in DOMAIN blocks
                         THEN c[blocks[r].parent] ELSE {})
  BY <1>1, <1>2 DEF IsPath
<1> QED
  BY <1>2, <1>3 DEF Anc, c

(* Ancestors are not later than the block, and only the block itself is of *)
(* its own slot.                                                           *)
LEMMA AncOlder ==
  ASSUME NEW blocks, NEW n, IsTree(blocks, n), NEW r \in DOMAIN blocks,
         NEW q \in Anc(blocks, r)
  PROVE  q \in DOMAIN blocks /\ (q = r \/ blocks[q].slot < blocks[r].slot)
<1> DEFINE D == DOMAIN blocks
           S == {x \in D : \A y \in Anc(blocks, x) :
                             y \in D /\ (y = x \/ blocks[y].slot < blocks[x].slot)}
<1>1. ASSUME NEW x \in D, blocks[x].parent \in D => blocks[x].parent \in S
      PROVE  x \in S
  <2> SUFFICES ASSUME NEW y \in Anc(blocks, x)
               PROVE  y \in D /\ (y = x \/ blocks[y].slot < blocks[x].slot)
    OBVIOUS
  <2>1. y \in D
    BY AncIs
  <2>2. y = x \/ (blocks[x].parent \in D /\ y \in Anc(blocks, blocks[x].parent))
    BY AncIs
  <2>3. ASSUME blocks[x].parent \in D, y \in Anc(blocks, blocks[x].parent)
        PROVE  blocks[y].slot < blocks[x].slot
    <3> DEFINE p == blocks[x].parent
    <3>1. y = p \/ blocks[y].slot < blocks[p].slot
      BY <1>1, <2>3
    <3>2. /\ blocks[p].slot < blocks[x].slot
          /\ blocks[y].slot \in Int /\ blocks[p].slot \in Int /\ blocks[x].slot \in Int
      BY <2>1, <2>3 DEF IsTree
    <3> QED
      BY <3>1, <3>2
  <2> QED
    BY <2>1, <2>2, <2>3
<1>2. D \subseteq S
  <2> HIDE DEF S
  <2> QED
    BY <1>1, UpwardInduction
<1> QED
  BY <1>2

(* The ancestors of an ancestor are ancestors.                             *)
LEMMA AncTransitive ==
  ASSUME NEW blocks, NEW n, IsTree(blocks, n), NEW r \in DOMAIN blocks,
         NEW q \in Anc(blocks, r)
  PROVE  Anc(blocks, q) \subseteq Anc(blocks, r)
<1> DEFINE D == DOMAIN blocks
           S == {x \in D : \A y \in Anc(blocks, x) :
                             Anc(blocks, y) \subseteq Anc(blocks, x)}
<1>1. ASSUME NEW x \in D, blocks[x].parent \in D => blocks[x].parent \in S
      PROVE  x \in S
  <2> SUFFICES ASSUME NEW y \in Anc(blocks, x)
               PROVE  Anc(blocks, y) \subseteq Anc(blocks, x)
    OBVIOUS
  <2>1. y = x \/ (blocks[x].parent \in D /\ y \in Anc(blocks, blocks[x].parent))
    BY AncIs
  <2>2. ASSUME blocks[x].parent \in D
        PROVE  Anc(blocks, blocks[x].parent) \subseteq Anc(blocks, x)
    BY <2>2, AncIs
  <2> QED
    BY <1>1, <2>1, <2>2
<1>2. D \subseteq S
  <2> HIDE DEF S
  <2> QED
    BY <1>1, UpwardInduction
<1> QED
  BY <1>2

(* The path counted for a root slot is the part of the ancestors above it. *)
LEMMA PathIsAnc ==
  ASSUME NEW blocks, NEW n, IsTree(blocks, n), NEW rootSlot \in Nat,
         NEW r \in DOMAIN blocks
  PROVE  CountedPath(blocks, rootSlot)[r] =
           {q \in Anc(blocks, r) : blocks[q].slot > rootSlot}
<1> DEFINE D == DOMAIN blocks
           c == CountedPath(blocks, rootSlot)
           S == {x \in D : c[x] = {q \in Anc(blocks, x) : blocks[q].slot > rootSlot}}
<1>0. IsPath(blocks, rootSlot, c)
  BY CountedPathIs
<1> HIDE DEF c
<1>1. ASSUME NEW x \in D, blocks[x].parent \in D => blocks[x].parent \in S
      PROVE  x \in S
  <2>0. \A y \in D : blocks[y].slot \in Nat
    BY DEF IsTree
  <2>1. CASE blocks[x].slot <= rootSlot
    <3>1. c[x] = {}
      BY <1>0, <2>1 DEF IsPath
    <3>2. \A q \in Anc(blocks, x) : ~ (blocks[q].slot > rootSlot)
      BY <2>0, <2>1, AncOlder
    <3> QED
      BY <3>1, <3>2
  <2>2. CASE ~ (blocks[x].slot <= rootSlot)
    <3>1. c[x] = {x} \union (IF blocks[x].parent \in D THEN c[blocks[x].parent] ELSE {})
      BY <1>0, <2>2 DEF IsPath
    <3>2. Anc(blocks, x) = {x} \union (IF blocks[x].parent \in D
                                       THEN Anc(blocks, blocks[x].parent) ELSE {})
      BY AncIs
    <3>3. blocks[x].slot > rootSlot
      BY <2>0, <2>2
    <3>4. blocks[x].parent \in D =>
            c[blocks[x].parent] =
              {q \in Anc(blocks, blocks[x].parent) : blocks[q].slot > rootSlot}
      BY <1>1
    <3> QED
      BY <3>1, <3>2, <3>3, <3>4
  <2> QED
    BY <2>1, <2>2
<1>2. D \subseteq S
  <2> HIDE DEF S
  <2> QED
    BY <1>1, UpwardInduction
<1> QED
  BY <1>2 DEF c

(* more is blocks with more leaves: the blocks it adds are nobody's parent.*)
Grows(blocks, more) ==
  /\ DOMAIN blocks \subseteq DOMAIN more
  /\ \A r \in DOMAIN blocks :
       /\ more[r] = blocks[r]
       /\ blocks[r].parent \in DOMAIN more => blocks[r].parent \in DOMAIN blocks

(* Blocks that are added do not change the ancestors of the others.        *)
LEMMA AncKept ==
  ASSUME NEW blocks, NEW n, IsTree(blocks, n), NEW more, NEW m, IsTree(more, m),
         Grows(blocks, more), NEW r \in DOMAIN blocks
  PROVE  Anc(more, r) = Anc(blocks, r)
<1> DEFINE D == DOMAIN blocks
           S == {x \in D : Anc(more, x) = Anc(blocks, x)}
<1>1. ASSUME NEW x \in D, blocks[x].parent \in D => blocks[x].parent \in S
      PROVE  x \in S
  <2>1. x \in DOMAIN more /\ more[x] = blocks[x]
        /\ (blocks[x].parent \in DOMAIN more <=> blocks[x].parent \in D)
    BY DEF Grows
  <2>2. Anc(blocks, x) = {x} \union (IF blocks[x].parent \in D
                                     THEN Anc(blocks, blocks[x].parent) ELSE {})
    BY AncIs
  <2>3. Anc(more, x) = {x} \union (IF blocks[x].parent \in D
                                   THEN Anc(more, blocks[x].parent) ELSE {})
    BY <2>1, AncIs
  <2> QED
    BY <1>1, <2>2, <2>3
<1>2. D \subseteq S
  <2> HIDE DEF S
  <2> QED
    BY <1>1, UpwardInduction
<1> QED
  BY <1>2

-----------------------------------------------------------------------------
(* The walk to the head.                                                   *)

(* Weights are numbers of votes.                                           *)
LEMMA WeightsAre ==
  ASSUME NEW blocks, NEW rootSlot, NEW atts, IsFiniteSet(DOMAIN atts)
  PROVE  /\ Cardinality(DOMAIN atts) \in Nat
         /\ VoteWeights(blocks, rootSlot, atts)
              \in [DOMAIN blocks -> 0 .. Cardinality(DOMAIN atts)]
<1> DEFINE V == DOMAIN atts
           W(r) == {v \in {v \in V : atts[v].head.root \in DOMAIN blocks} :
                      r \in CountedPath(blocks, rootSlot)[atts[v].head.root]}
<1>1. Cardinality(V) \in Nat
  BY FS_CardinalityType
<1>2. ASSUME NEW r \in DOMAIN blocks
      PROVE  Cardinality(W(r)) \in 0 .. Cardinality(V)
  <2>1. W(r) \subseteq V
    OBVIOUS
  <2> HIDE DEF W
  <2>2. /\ IsFiniteSet(W(r)) /\ Cardinality(W(r)) <= Cardinality(V)
    BY <2>1, FS_Subset
  <2>3. Cardinality(W(r)) \in Nat
    BY <2>2, FS_CardinalityType
  <2> QED
    BY <1>1, <2>2, <2>3
<1>3. VoteWeights(blocks, rootSlot, atts) = [r \in DOMAIN blocks |-> Cardinality(W(r))]
  BY DEF VoteWeights
<1> HIDE DEF W, V
<1> QED
  BY <1>1, <1>2, <1>3 DEF V

(* There is a best child, and BestChild is it.                             *)
LEMMA BestChildIs ==
  ASSUME NEW blocks, NEW n, IsTree(blocks, n), NEW k \in Nat,
         NEW weights \in [DOMAIN blocks -> 0 .. k],
         NEW children \in SUBSET (DOMAIN blocks), children # {}
  PROVE  /\ BestChild(blocks, weights, children) \in children
         /\ \A d \in children \ {BestChild(blocks, weights, children)} :
              BetterChild(blocks, weights, BestChild(blocks, weights, children), d)
<1>0. /\ n \in Nat
      /\ \A c \in children : /\ weights[c] \in 0 .. k /\ blocks[c].slot \in 0 .. n
                             /\ c \in 0 .. n
  BY DEF IsTree
<1> DEFINE W == {x \in 0 .. k : \E c \in children : weights[c] = x}
<1>1. PICK w \in W : \A y \in W : w >= y
  <2>1. W \in SUBSET (0 .. k) /\ W # {}
    <3>1. PICK c \in children : TRUE
      OBVIOUS
    <3>2. weights[c] \in W
      BY <1>0, <3>1
    <3> QED
      BY <3>2
  <2> HIDE DEF W
  <2> QED
    BY <2>1, LargestOf
<1> DEFINE Heavy == {c \in children : weights[c] = w}
           T == {x \in 0 .. n : \E c \in Heavy : blocks[c].slot = x}
<1>2. PICK t \in T : \A y \in T : t >= y
  <2>1. T \in SUBSET (0 .. n) /\ T # {}
    <3>1. PICK c \in Heavy : TRUE
      BY <1>1
    <3>2. blocks[c].slot \in T
      BY <1>0, <3>1
    <3> QED
      BY <3>2
  <2> HIDE DEF T
  <2> QED
    BY <1>0, <2>1, LargestOf
<1> DEFINE Late == {c \in Heavy : blocks[c].slot = t}
<1>3. PICK c \in Late : \A y \in Late : c >= y
  <2>1. Late \in SUBSET (0 .. n) /\ Late # {}
    BY <1>0, <1>2
  <2> HIDE DEF Late
  <2> QED
    BY <1>0, <2>1, LargestOf
<1>4. c \in children /\ weights[c] = w /\ blocks[c].slot = t
  BY <1>3
<1>5. ASSUME NEW d \in children \ {c} PROVE BetterChild(blocks, weights, c, d)
  <2>1. /\ weights[d] \in 0 .. k /\ blocks[d].slot \in 0 .. n /\ d \in 0 .. n
        /\ c \in 0 .. n /\ w \in 0 .. k /\ t \in 0 .. n
    BY <1>0, <1>4
  <2>2. weights[d] \in W
    BY <2>1
  <2>3. w >= weights[d]
    <3> HIDE DEF W
    <3> QED
      BY <1>1, <2>2
  <2>4. CASE weights[d] # w
    BY <1>4, <2>1, <2>3, <2>4 DEF BetterChild
  <2>5. CASE weights[d] = w /\ blocks[d].slot # t
    <3>1. blocks[d].slot \in T
      BY <2>1, <2>5
    <3>2. t >= blocks[d].slot
      <4> HIDE DEF T
      <4> QED
        BY <1>2, <3>1
    <3> QED
      BY <1>4, <2>1, <2>5, <3>2 DEF BetterChild
  <2>6. CASE weights[d] = w /\ blocks[d].slot = t
    <3>1. c >= d /\ c # d
      BY <1>3, <2>6
    <3> QED
      BY <1>4, <2>1, <2>6, <3>1 DEF BetterChild, hashGreater
  <2> QED
    BY <2>4, <2>5, <2>6
<1>6. \E b \in children : \A d \in children \ {b} : BetterChild(blocks, weights, b, d)
  BY <1>4, <1>5
<1> QED
  BY <1>6 DEF BestChild

(* S contains the value of next at its members.                            *)
Closed(next, S) == \A x \in S : next[x] \in S

(* The fixed points that repeated application of next reaches from r.      *)
Leaves(next, r) ==
  {x \in DOMAIN next :
     next[x] = x /\ \A S \in SUBSET (DOMAIN next) : r \in S /\ Closed(next, S) => x \in S}

(* They are those that it reaches from next[r],                            *)
LEMMA LeavesNext ==
  ASSUME NEW D, NEW next \in [D -> D], NEW r \in D, next[r] # r
  PROVE  Leaves(next, r) = Leaves(next, next[r])
<1>0. DOMAIN next = D
  OBVIOUS
<1>1. ASSUME NEW x \in Leaves(next, r) PROVE x \in Leaves(next, next[r])
  <2> SUFFICES ASSUME NEW S \in SUBSET D, next[r] \in S, Closed(next, S)
               PROVE  x \in S
    BY <1>0 DEF Leaves
  <2>1. S \union {r} \in SUBSET D /\ Closed(next, S \union {r})
    BY DEF Closed
  <2>2. x \in S \union {r} /\ next[x] = x
    BY <1>0, <2>1 DEF Leaves
  <2> QED
    BY <2>2
<1>2. ASSUME NEW x \in Leaves(next, next[r]) PROVE x \in Leaves(next, r)
  <2> SUFFICES ASSUME NEW S \in SUBSET D, r \in S, Closed(next, S)
               PROVE  x \in S
    BY <1>0 DEF Leaves
  <2>1. next[r] \in S
    BY DEF Closed
  <2> QED
    BY <1>0, <2>1 DEF Leaves
<1> QED
  BY <1>1, <1>2

(* and a fixed point is the only one reached from itself.                  *)
LEMMA LeavesFixed ==
  ASSUME NEW D, NEW next \in [D -> D], NEW r \in D, next[r] = r
  PROVE  Leaves(next, r) = {r}
<1>1. {r} \in SUBSET (DOMAIN next) /\ Closed(next, {r})
  BY DEF Closed
<1>2. r \in Leaves(next, r)
  BY DEF Leaves
<1>3. ASSUME NEW x \in Leaves(next, r) PROVE x = r
  BY <1>1 DEF Leaves
<1> QED
  BY <1>2, <1>3

(* f descends along next until next stays where it is.                     *)
Descends(next, f) ==
  \A r \in DOMAIN next : f[r] = IF next[r] = r THEN r ELSE f[next[r]]

(* The recursive descent along next exists, and ends at a fixed point of   *)
(* every closed set it starts in.                                          *)
LEMMA DescentExists ==
  ASSUME NEW D, NEW next \in [D -> D]
  PROVE  LET f == [r \in D |-> CHOOSE x : x \in Leaves(next, r)]
         IN  Descends(next, f)
<1> DEFINE f == [r \in D |-> CHOOSE x : x \in Leaves(next, r)]
<1>1. ASSUME NEW r \in D PROVE f[r] = IF next[r] = r THEN r ELSE f[next[r]]
  <2>1. CASE next[r] = r
    <3>1. Leaves(next, r) = {r}
      BY <2>1, LeavesFixed
    <3>2. f[r] = CHOOSE x : x \in {r}
      BY <3>1
    <3> QED
      BY <2>1, <3>2
  <2>2. CASE next[r] # r
    <3>1. Leaves(next, r) = Leaves(next, next[r])
      BY <2>2, LeavesNext
    <3>2. next[r] \in D
      OBVIOUS
    <3> QED
      BY <2>2, <3>1, <3>2
  <2> QED
    BY <2>1, <2>2
<1> HIDE DEF f
<1>2. Descends(next, f)
  BY <1>1 DEF Descends
<1> QED
  BY <1>2 DEF f

(* Every function that satisfies the equation does so.                     *)
LEMMA DescentInside ==
  ASSUME NEW blocks, NEW n, IsTree(blocks, n),
         NEW next \in [DOMAIN blocks -> DOMAIN blocks],
         \A r \in DOMAIN blocks :
           next[r] # r => blocks[next[r]].slot > blocks[r].slot,
         NEW f, Descends(next, f), NEW S \in SUBSET (DOMAIN blocks), Closed(next, S),
         NEW r \in S
  PROVE  f[r] \in S /\ next[f[r]] = f[r]
<1> DEFINE T == {x \in DOMAIN blocks : x \in S => f[x] \in S /\ next[f[x]] = f[x]}
<1>1. ASSUME NEW x \in DOMAIN blocks, next[x] # x => next[x] \in T PROVE x \in T
  <2>1. f[x] = IF next[x] = x THEN x ELSE f[next[x]]
    BY DEF Descends
  <2>2. x \in S => next[x] \in S
    BY DEF Closed
  <2> QED
    BY <1>1, <2>1, <2>2
<1>2. DOMAIN blocks \subseteq T
  <2> HIDE DEF T
  <2> QED
    BY <1>1, DownwardInduction
<1> QED
  BY <1>2

-----------------------------------------------------------------------------
(* The head.                                                               *)

HeadStart(blocks, root) == IF root = ZeroHash THEN EarliestBlock(blocks) ELSE root

HeadWeights(blocks, root, atts) ==
  VoteWeights(blocks, blocks[HeadStart(blocks, root)].slot, atts)

HeadChildren(blocks, root, atts, minScore, r) ==
  {c \in DOMAIN blocks :
     blocks[c].parent = r /\ HeadWeights(blocks, root, atts)[c] >= minScore}

BestOf(blocks, root, atts, minScore, r) ==
  BestChild(blocks, HeadWeights(blocks, root, atts),
            HeadChildren(blocks, root, atts, minScore, r))

(* The walk to the head stays in a set of blocks that contains its start   *)
(* and with a block the best of its children.                              *)
LEMMA HeadInside ==
  ASSUME NEW blocks, NEW n, IsTree(blocks, n), NEW atts, IsFiniteSet(DOMAIN atts),
         NEW minScore, NEW root, HeadStart(blocks, root) \in DOMAIN blocks,
         NEW S \in SUBSET (DOMAIN blocks), HeadStart(blocks, root) \in S,
         \A r \in S : HeadChildren(blocks, root, atts, minScore, r) # {}
                        => BestOf(blocks, root, atts, minScore, r) \in S
  PROVE  GetForkChoiceHead(blocks, root, atts, minScore) \in S
<1> DEFINE D == DOMAIN blocks
           start == HeadStart(blocks, root)
           weights == HeadWeights(blocks, root, atts)
           ch(r) == HeadChildren(blocks, root, atts, minScore, r)
           best(r) == BestOf(blocks, root, atts, minScore, r)
           next == [r \in D |-> IF ch(r) = {} THEN r ELSE best(r)]
           P(d) == d = [r \in D |-> IF ch(r) = {} THEN r ELSE d[best(r)]]
<1>1. PICK k \in Nat : weights \in [D -> 0 .. k]
  BY WeightsAre DEF HeadWeights
<1>2. ASSUME NEW r \in D, ch(r) # {}
      PROVE  best(r) \in D /\ best(r) # r /\ blocks[best(r)].slot > blocks[r].slot
  <2>1. ch(r) \in SUBSET D
    BY DEF HeadChildren
  <2>2. best(r) \in ch(r)
    <3> DEFINE w == weights
               c == ch(r)
    <3> HIDE DEF w, c
    <3>1. BestChild(blocks, w, c) \in c
      BY <1>1, <1>2, <2>1, BestChildIs DEF w, c
    <3> QED
      BY <3>1 DEF BestOf, w, c
  <2>3. best(r) \in D /\ blocks[best(r)].parent = r
    BY <2>2 DEF HeadChildren
  <2> HIDE DEF best
  <2> QED
    BY <2>3 DEF IsTree
<1> HIDE DEF ch, best
<1>3. next \in [D -> D] /\ \A r \in D : next[r] # r => blocks[next[r]].slot > blocks[r].slot
  BY <1>2
<1>4. \A r \in D : next[r] = r <=> ch(r) = {}
  BY <1>2
<1>5. \E d : P(d)
  <2> DEFINE d == [r \in D |-> CHOOSE x : x \in Leaves(next, r)]
  <2>1. Descends(next, d)
    <3> HIDE DEF next
    <3> QED
      BY <1>3, DescentExists
  <2>2. d = [r \in D |-> d[r]]
    OBVIOUS
  <2>3. \A r \in D : d[r] = IF next[r] = r THEN r ELSE d[next[r]]
    <3> HIDE DEF d, next
    <3> QED
      BY <1>3, <2>1 DEF Descends
  <2>4. \A r \in D : d[r] = IF ch(r) = {} THEN r ELSE d[best(r)]
    <3> HIDE DEF d
    <3> QED
      BY <1>4, <2>3
  <2> HIDE DEF d
  <2>5. P(d)
    BY <2>2, <2>4
  <2> QED
    BY <2>5
<1>6. GetForkChoiceHead(blocks, root, atts, minScore) = (CHOOSE d : P(d))[start]
  BY DEF GetForkChoiceHead, HeadStart, HeadWeights, HeadChildren, BestOf, ch, best
<1>7. PICK f : f = (CHOOSE d : P(d)) /\ P(f)
  BY <1>5
<1>8. Descends(next, f)
  <2>1. \A r \in D : f[r] = IF ch(r) = {} THEN r ELSE f[best(r)]
    BY <1>7
  <2>2. \A r \in D : f[r] = IF next[r] = r THEN r ELSE f[next[r]]
    BY <1>4, <2>1
  <2> HIDE DEF next, P
  <2> QED
    BY <1>3, <2>2 DEF Descends
<1>9. Closed(next, S)
  BY DEF Closed, ch, best
<1>10. f[start] \in S
  <2> HIDE DEF next, P
  <2> QED
    BY <1>3, <1>8, <1>9, DescentInside
<1> QED
  BY <1>6, <1>7, <1>10

(* The best child is a child, and no child has more votes.                 *)
LEMMA BestOfIs ==
  ASSUME NEW blocks, NEW n, IsTree(blocks, n), NEW atts, IsFiniteSet(DOMAIN atts),
         NEW minScore, NEW root, NEW r,
         HeadChildren(blocks, root, atts, minScore, r) # {}
  PROVE  LET best == BestOf(blocks, root, atts, minScore, r)
             weights == HeadWeights(blocks, root, atts)
         IN  /\ best \in DOMAIN blocks
             /\ blocks[best].parent = r
             /\ weights[best] >= minScore
             /\ \A d \in HeadChildren(blocks, root, atts, minScore, r) :
                  weights[d] <= weights[best]
<1> DEFINE D == DOMAIN blocks
           weights == HeadWeights(blocks, root, atts)
           ch == HeadChildren(blocks, root, atts, minScore, r)
           best == BestOf(blocks, root, atts, minScore, r)
<1>1. PICK k \in Nat : weights \in [D -> 0 .. k]
  BY WeightsAre DEF HeadWeights
<1>2. ch \in SUBSET D
  BY DEF HeadChildren
<1>3. best \in ch /\ \A d \in ch \ {best} : BetterChild(blocks, weights, best, d)
  <2> HIDE DEF weights, ch
  <2>1. ch # {}
    BY DEF ch
  <2>2. best = BestChild(blocks, weights, ch)
    BY DEF BestOf, weights, ch
  <2> HIDE DEF best
  <2> QED
    BY <1>1, <1>2, <2>1, <2>2, BestChildIs
<1>4. best \in D /\ blocks[best].parent = r /\ weights[best] >= minScore
  BY <1>3 DEF HeadChildren
<1>5. ASSUME NEW d \in ch PROVE weights[d] <= weights[best]
  <2> HIDE DEF weights, ch, best
  <2>1. weights[d] \in 0 .. k /\ weights[best] \in 0 .. k
    BY <1>1, <1>2, <1>4
  <2>2. d = best \/ BetterChild(blocks, weights, best, d)
    BY <1>3
  <2> QED
    BY <2>1, <2>2 DEF BetterChild
<1> QED
  BY <1>4, <1>5

(* The search starts at a block of the tree, if the justified root is one  *)
(* or the zero hash.                                                       *)
LEMMA StartInside ==
  ASSUME NEW blocks, NEW n, IsTree(blocks, n), DOMAIN blocks # {},
         NEW root \in DOMAIN blocks \union {ZeroHash}
  PROVE  HeadStart(blocks, root) \in DOMAIN blocks
<1> DEFINE D == DOMAIN blocks
           T == {x \in Nat : \E r \in D : blocks[r].slot = x}
<1>1. T \in SUBSET Nat /\ T # {}
  BY DEF IsTree
<1>2. PICK m \in T : \A y \in T : m <= y
  <2> HIDE DEF T
  <2> QED
    BY <1>1, SmallestOf
<1>3. PICK r \in D : blocks[r].slot = m
  BY <1>2
<1>4. \A q \in D : blocks[r].slot <= blocks[q].slot
  <2>1. \A q \in D : blocks[q].slot \in T
    BY DEF IsTree
  <2> HIDE DEF T
  <2> QED
    BY <1>2, <1>3, <2>1
<1>5. EarliestBlock(blocks) \in D
  BY <1>4 DEF EarliestBlock
<1> QED
  BY <1>5 DEF HeadStart

-----------------------------------------------------------------------------
(* What the votes make of the head.                                        *)

(* Every vote is for a block of the tree.                                  *)
VotesStored(blocks, atts) ==
  /\ IsFiniteSet(DOMAIN atts)
  /\ \A v \in DOMAIN atts : atts[v].head.root \in DOMAIN blocks

Voters(blocks, rootSlot, atts, r) ==
  {v \in DOMAIN atts : /\ r \in Anc(blocks, atts[v].head.root)
                       /\ blocks[r].slot > rootSlot}

(* A weight counts the voters for a block and its descendants.             *)
LEMMA WeightIs ==
  ASSUME NEW blocks, NEW n, IsTree(blocks, n), NEW rootSlot \in Nat,
         NEW atts, VotesStored(blocks, atts), NEW r \in DOMAIN blocks
  PROVE  /\ VoteWeights(blocks, rootSlot, atts)[r] =
              Cardinality(Voters(blocks, rootSlot, atts, r))
         /\ IsFiniteSet(Voters(blocks, rootSlot, atts, r))
         /\ Cardinality(Voters(blocks, rootSlot, atts, r)) \in Nat
<1> DEFINE counted == {v \in DOMAIN atts : atts[v].head.root \in DOMAIN blocks}
           path == CountedPath(blocks, rootSlot)
           W == {v \in counted : r \in path[atts[v].head.root]}
<1>1. VoteWeights(blocks, rootSlot, atts)[r] = Cardinality(W)
  BY DEF VoteWeights
<1>2. \A v \in DOMAIN atts :
        path[atts[v].head.root] = {q \in Anc(blocks, atts[v].head.root) :
                                     blocks[q].slot > rootSlot}
  BY PathIsAnc DEF VotesStored
<1> HIDE DEF path
<1>3. W = Voters(blocks, rootSlot, atts, r)
  BY <1>2 DEF Voters, VotesStored
<1>4. Voters(blocks, rootSlot, atts, r) \in SUBSET (DOMAIN atts)
  BY DEF Voters
<1>5. IsFiniteSet(Voters(blocks, rootSlot, atts, r))
  BY <1>4, FS_Subset DEF VotesStored
<1> QED
  BY <1>1, <1>3, <1>5, FS_CardinalityType

(* h descends from the block of the checkpoint c, and on the way from c to *)
(* h no sibling has more votes than the block that was chosen.             *)
HeadGood(blocks, c, atts, h) ==
  /\ c.root \in Anc(blocks, h)
  /\ \A r \in {q \in Anc(blocks, h) : blocks[q].slot > c.slot} : \A q \in DOMAIN blocks :
       blocks[q].parent = blocks[r].parent
         => VoteWeights(blocks, c.slot, atts)[q] <= VoteWeights(blocks, c.slot, atts)[r]

(* Such a head is what GetForkChoiceHead returns,                          *)
LEMMA HeadIsGood ==
  ASSUME NEW blocks, NEW n, IsTree(blocks, n), NEW atts, IsFiniteSet(DOMAIN atts),
         NEW c, c.root \in DOMAIN blocks, blocks[c.root].slot = c.slot
  PROVE  HeadGood(blocks, c, atts, GetForkChoiceHead(blocks, c.root, atts, 0))
<1> DEFINE D == DOMAIN blocks
           start == c.root
           weights == VoteWeights(blocks, c.slot, atts)
           S == {h \in D : HeadGood(blocks, c, atts, h)}
           ch(r) == HeadChildren(blocks, start, atts, 0, r)
           best(r) == BestOf(blocks, start, atts, 0, r)
<1>1. HeadStart(blocks, start) = start
  BY DEF HeadStart, IsTree, ZeroHash
<1>2. HeadWeights(blocks, start, atts) = weights
  BY <1>1 DEF HeadWeights
<1>3. \A r \in D : weights[r] \in Nat /\ blocks[r].slot \in Nat
  BY WeightsAre DEF IsTree
<1>4. start \in S
  <2>1. start \in Anc(blocks, start)
    BY AncIs
  <2>2. \A r \in Anc(blocks, start) : ~ (blocks[r].slot > c.slot)
    <3> TAKE r \in Anc(blocks, start)
    <3>1. r \in D /\ (r = start \/ blocks[r].slot < blocks[start].slot)
      BY AncOlder
    <3> QED
      BY <1>3, <3>1
  <2> QED
    BY <2>1, <2>2 DEF HeadGood
<1>5. ASSUME NEW r \in S, ch(r) # {} PROVE best(r) \in S
  <2>1. /\ best(r) \in D /\ blocks[best(r)].parent = r
        /\ \A d \in ch(r) : weights[d] <= weights[best(r)]
    BY <1>2, <1>5, BestOfIs
  <2>2. \A d \in D : blocks[d].parent = r => d \in ch(r)
    BY <1>2, <1>3 DEF HeadChildren
  <2> HIDE DEF ch, best
  <2> DEFINE b == best(r)
  <2>3. Anc(blocks, b) = {b} \union Anc(blocks, r)
    BY <2>1, AncIs
  <2>4. HeadGood(blocks, c, atts, r)
    BY <1>5
  <2> HIDE DEF b, weights
  <2>5. ASSUME NEW x \in Anc(blocks, b), blocks[x].slot > c.slot, NEW q \in D,
               blocks[q].parent = blocks[x].parent
        PROVE  weights[q] <= weights[x]
    <3>1. CASE x = b
      BY <2>1, <2>2, <2>5, <3>1 DEF b
    <3>2. CASE x \in Anc(blocks, r)
      BY <2>4, <2>5, <3>2 DEF HeadGood, weights
    <3> QED
      BY <2>3, <3>1, <3>2
  <2>6. HeadGood(blocks, c, atts, b)
    BY <2>3, <2>4, <2>5 DEF HeadGood, weights
  <2> QED
    BY <2>1, <2>6 DEF b
<1>6. GetForkChoiceHead(blocks, start, atts, 0) \in S
  <2>1. S \in SUBSET D /\ HeadStart(blocks, start) \in S /\ HeadStart(blocks, start) \in D
    BY <1>1, <1>4
  <2> HIDE DEF S, start
  <2> QED
    BY <1>5, <2>1, HeadInside
<1> QED
  BY <1>6

(* and what it stays when other leaves are added.                          *)
LEMMA HeadStaysGood ==
  ASSUME NEW blocks, NEW n, IsTree(blocks, n), NEW more, NEW m, IsTree(more, m),
         Grows(blocks, more), NEW atts, VotesStored(blocks, atts),
         NEW c, c.slot \in Nat, NEW h \in DOMAIN blocks, HeadGood(blocks, c, atts, h)
  PROVE  HeadGood(more, c, atts, h)
<1> DEFINE D == DOMAIN blocks
<1>1. /\ D \subseteq DOMAIN more /\ \A r \in D : more[r] = blocks[r]
  BY DEF Grows
<1>2. \A r \in D : Anc(more, r) = Anc(blocks, r) /\ Anc(blocks, r) \subseteq D
  BY AncKept, AncIs
<1>3. VotesStored(more, atts)
  BY <1>1 DEF VotesStored
<1>4. \A v \in DOMAIN atts : Anc(more, atts[v].head.root) = Anc(blocks, atts[v].head.root)
                             /\ Anc(blocks, atts[v].head.root) \subseteq D
  BY <1>2 DEF VotesStored
<1>5. ASSUME NEW r \in D
      PROVE  VoteWeights(more, c.slot, atts)[r] = VoteWeights(blocks, c.slot, atts)[r]
  <2>1. Voters(more, c.slot, atts, r) = Voters(blocks, c.slot, atts, r)
    BY <1>1, <1>4 DEF Voters
  <2>2. VoteWeights(blocks, c.slot, atts)[r] = Cardinality(Voters(blocks, c.slot, atts, r))
    BY WeightIs
  <2>3. VoteWeights(more, c.slot, atts)[r] = Cardinality(Voters(more, c.slot, atts, r))
    BY <1>1, <1>3, WeightIs
  <2> QED
    BY <2>1, <2>2, <2>3
<1>6. ASSUME NEW q \in DOMAIN more \ D
      PROVE  VoteWeights(more, c.slot, atts)[q] = 0
  <2>1. Voters(more, c.slot, atts, q) = {}
    BY <1>4 DEF Voters
  <2>2. VoteWeights(more, c.slot, atts)[q] = Cardinality(Voters(more, c.slot, atts, q))
    BY <1>3, WeightIs
  <2> QED
    BY <2>1, <2>2, FS_EmptySet
<1>7. \A r \in D : VoteWeights(blocks, c.slot, atts)[r] \in Nat
  BY WeightIs
<1>8. ASSUME NEW r \in Anc(more, h), more[r].slot > c.slot, NEW q \in DOMAIN more,
             more[q].parent = more[r].parent
      PROVE  VoteWeights(more, c.slot, atts)[q] <= VoteWeights(more, c.slot, atts)[r]
  <2>1. r \in D /\ r \in Anc(blocks, h) /\ more[r] = blocks[r]
    BY <1>1, <1>2
  <2>2. CASE q \in D
    <3>1. VoteWeights(blocks, c.slot, atts)[q] <= VoteWeights(blocks, c.slot, atts)[r]
      BY <1>1, <1>8, <2>1, <2>2 DEF HeadGood
    <3> QED
      BY <1>5, <2>1, <2>2, <3>1
  <2>3. CASE q \notin D
    BY <1>5, <1>6, <1>7, <2>1, <2>3
  <2> QED
    BY <2>2, <2>3
<1> QED
  BY <1>2, <1>8 DEF HeadGood

(* With a least number of votes, the head is where the search started or a *)
(* block that has them.                                                    *)
LEMMA HeadBacked ==
  ASSUME NEW blocks, NEW n, IsTree(blocks, n), NEW atts, VotesStored(blocks, atts),
         NEW minScore \in Nat, NEW root \in DOMAIN blocks, NEW h,
         h = GetForkChoiceHead(blocks, root, atts, minScore), h # root
  PROVE  LET V == {v \in DOMAIN atts : h \in Anc(blocks, atts[v].head.root)}
         IN  Cardinality(V) \in Nat /\ Cardinality(V) >= minScore
<1> DEFINE D == DOMAIN blocks
           from == blocks[root].slot
           weights == VoteWeights(blocks, from, atts)
           S == {r \in D : r = root \/ weights[r] >= minScore}
           V == {v \in DOMAIN atts : h \in Anc(blocks, atts[v].head.root)}
<1>1. HeadStart(blocks, root) = root
  BY DEF HeadStart, IsTree, ZeroHash
<1>2. HeadWeights(blocks, root, atts) = weights
  BY <1>1 DEF HeadWeights
<1>3. IsFiniteSet(DOMAIN atts) /\ from \in Nat
  BY DEF VotesStored, IsTree
<1>4. ASSUME NEW r \in S, HeadChildren(blocks, root, atts, minScore, r) # {}
      PROVE  BestOf(blocks, root, atts, minScore, r) \in S
  BY <1>2, <1>3, <1>4, BestOfIs
<1>5. h \in S
  <2>1. S \in SUBSET D /\ HeadStart(blocks, root) \in S /\ HeadStart(blocks, root) \in D
    BY <1>1
  <2> HIDE DEF S
  <2> QED
    BY <1>3, <1>4, <2>1, HeadInside
<1>6. h \in D /\ weights[h] >= minScore
  BY <1>5
<1>7. /\ weights[h] = Cardinality(Voters(blocks, from, atts, h))
      /\ Cardinality(Voters(blocks, from, atts, h)) \in Nat
  BY <1>3, <1>6, WeightIs
<1>8. V \in SUBSET (DOMAIN atts) /\ Voters(blocks, from, atts, h) \in SUBSET V
  BY DEF Voters
<1> HIDE DEF V, weights
<1>9. IsFiniteSet(V) /\ Cardinality(V) \in Nat
  BY <1>3, <1>8, FS_Subset, FS_CardinalityType
<1>10. Cardinality(Voters(blocks, from, atts, h)) <= Cardinality(V)
  BY <1>8, <1>9, FS_Subset
<1>11. Cardinality(V) >= minScore
  BY <1>6, <1>7, <1>9, <1>10
<1> QED
  BY <1>9, <1>11 DEF V
=============================================================================
