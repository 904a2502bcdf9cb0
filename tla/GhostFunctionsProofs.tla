------------------------ MODULE GhostFunctionsProofs ------------------------
(***************************************************************************)
(* Lemmas about running sums, and what stake-weighted selection guarantees. *)
(*                                                                          *)
(* The library's induction theorems take the induction predicate as an      *)
(* operator parameter.  Here induction over the accounts is stated for a    *)
(* set of indices instead (IndexInduction), from the fact that a non-empty  *)
(* set of naturals has a least element.                                     *)
(***************************************************************************)
EXTENDS GhostFunctions, TLAPS, WellFoundedInduction, FiniteSetTheorems,
        SequenceTheorems

(* A non-empty set of natural numbers has a least element.                  *)
LEMMA LeastNatural ==
    ASSUME NEW T, T \subseteq Nat, T # {}
    PROVE  \E x \in T : \A y \in T : x <= y
<1>1. IsWellFoundedOn(OpToRel(<, Nat), Nat)
  BY NatLessThanWellFounded
<1>2. PICK x \in T : \A y \in T : ~(<<y, x>> \in OpToRel(<, Nat))
  BY <1>1, WFMin, Zenon
<1>3. \A y \in T : ~(y < x)
  BY <1>2 DEF OpToRel
<1> QED
  BY <1>3

(* A set of indices that contains 0 and the successor of each of its        *)
(* members contains every index a loop over the accounts passes.            *)
LEMMA IndexInduction ==
    ASSUME NEW S, 0 \in S, \A i \in 1..N : i - 1 \in S => i \in S
    PROVE  \A i \in 0..N : i \in S
<1> DEFINE Missing == {i \in 0..N : i \notin S}
<1>1. ASSUME Missing # {} PROVE FALSE
  <2>1. PICK k \in Missing : \A y \in Missing : k <= y
    <3>1. Missing \subseteq Nat
      BY NAssumption
    <3> QED
      BY <1>1, <3>1, LeastNatural
  <2>2. k \in 1..N
    BY NAssumption
  <2>3. k - 1 \in 0..N /\ k - 1 \notin Missing
    BY <2>1, <2>2, NAssumption
  <2> QED
    BY <2>2, <2>3
<1> QED
  BY <1>1

-----------------------------------------------------------------------------
(* c is the running sum of w up to index k.                                 *)
IsRunningSum(c, w, k) ==
    /\ c \in [0..k -> Nat]
    /\ c[0] = 0
    /\ \A i \in 1..k : c[i] = c[i - 1] + w[i]

(* Every weight function has a running sum.                                 *)
LEMMA RunningSumExists ==
    ASSUME NEW w \in [Accounts -> Nat]
    PROVE  \E c : IsRunningSum(c, w, N)
<1> DEFINE S == {k \in 0..N : \E c : IsRunningSum(c, w, k)}
<1>1. 0 \in S
  <2>1. IsRunningSum([i \in 0..0 |-> 0], w, 0)
    BY DEF IsRunningSum
  <2>2. 0 \in 0..N
    BY NAssumption
  <2> QED
    BY <2>1, <2>2
<1>2. ASSUME NEW k \in 1..N, k - 1 \in S PROVE k \in S
  <2>1. PICK c : IsRunningSum(c, w, k - 1)
    BY <1>2
  <2> DEFINE d == [i \in 0..k |-> IF i = k THEN c[k - 1] + w[k] ELSE c[i]]
  <2>2. /\ c \in [0..(k - 1) -> Nat]
        /\ c[0] = 0
        /\ \A i \in 1..(k - 1) : c[i] = c[i - 1] + w[i]
    BY <2>1 DEF IsRunningSum
  <2>3. w[k] \in Nat
    BY DEF Accounts
  <2>4. d \in [0..k -> Nat]
    BY <2>2, <2>3, NAssumption
  <2>5. d[0] = 0
    BY <2>2, NAssumption
  <2>6. \A i \in 1..k : d[i] = d[i - 1] + w[i]
    BY <2>2, <2>3, NAssumption
  <2>7. IsRunningSum(d, w, k)
    BY <2>4, <2>5, <2>6 DEF IsRunningSum
  <2> QED
    BY <2>7, NAssumption
<1>3. N \in S
  <2> HIDE DEF S
  <2>1. \A i \in 0..N : i \in S
    BY <1>1, <1>2, IndexInduction
  <2> QED
    BY <2>1, NAssumption
<1> QED
  BY <1>3

(* Cumulative(w) satisfies the recursion it is defined by.                  *)
LEMMA CumulativeRunningSum ==
    ASSUME NEW w \in [Accounts -> Nat]
    PROVE  IsRunningSum(Cumulative(w), w, N)
<1> DEFINE P(c) == c = [i \in 0..N |-> IF i = 0 THEN 0 ELSE c[i - 1] + w[i]]
           d == Cumulative(w)
<1>1. d = CHOOSE c : P(c)
  BY DEF Cumulative
<1>2. PICK c : IsRunningSum(c, w, N)
  BY RunningSumExists
<1>3. P(c)
  BY <1>2, NAssumption DEF IsRunningSum
<1>4. P(d)
  <2> HIDE DEF P, d
  <2> QED
    BY <1>1, <1>3, Zenon
<1> HIDE DEF d
<1>5. DOMAIN d = 0..N /\ d = [i \in 0..N |-> d[i]]
  BY <1>4
<1>6. d[0] = 0
  BY <1>4, NAssumption
<1>7. \A i \in 1..N : d[i] = d[i - 1] + w[i]
  BY <1>4, NAssumption
<1> DEFINE S == {i \in 0..N : d[i] \in Nat}
<1>8. 0 \in S
  BY <1>6, NAssumption
<1>9. \A i \in 1..N : i - 1 \in S => i \in S
  BY <1>7, NAssumption DEF Accounts
<1>10. \A i \in 0..N : i \in S
  <2> HIDE DEF S
  <2> QED
    BY <1>8, <1>9, IndexInduction
<1>11. d \in [0..N -> Nat]
  BY <1>5, <1>10
<1> QED
  BY <1>6, <1>7, <1>11 DEF IsRunningSum, d

(* The same facts, unfolded.                                                *)
LEMMA CumulativeFacts ==
    ASSUME NEW w \in [Accounts -> Nat]
    PROVE  /\ Cumulative(w) \in [0..N -> Nat]
           /\ Cumulative(w)[0] = 0
           /\ \A i \in 1..N : Cumulative(w)[i] = Cumulative(w)[i - 1] + w[i]
           /\ SumOf(w) \in Nat
<1>1. IsRunningSum(Cumulative(w), w, N)
  BY CumulativeRunningSum
<1>2. Cumulative(w) \in [0..N -> Nat] /\ N \in 0..N
  BY <1>1, NAssumption DEF IsRunningSum
<1> QED
  BY <1>1, <1>2 DEF IsRunningSum, SumOf

(* Changing the entry of one account changes the sum by as much.            *)
LEMMA SumUpdate ==
    ASSUME NEW w \in [Accounts -> Nat], NEW v \in [Accounts -> Nat],
           NEW k \in Accounts, \A a \in Accounts : a # k => v[a] = w[a]
    PROVE  SumOf(v) - SumOf(w) = v[k] - w[k]
<1> DEFINE cw == Cumulative(w)
           cv == Cumulative(v)
           S  == {i \in 0..N : cv[i] - cw[i] = IF i < k THEN 0 ELSE v[k] - w[k]}
<1>1. /\ cw \in [0..N -> Nat] /\ cw[0] = 0
      /\ \A i \in 1..N : cw[i] = cw[i - 1] + w[i]
  BY CumulativeFacts
<1>2. /\ cv \in [0..N -> Nat] /\ cv[0] = 0
      /\ \A i \in 1..N : cv[i] = cv[i - 1] + v[i]
  BY CumulativeFacts
<1>3. SumOf(w) = cw[N] /\ SumOf(v) = cv[N]
  BY DEF SumOf
<1> HIDE DEF cw, cv
<1>4. 0 \in S
  BY <1>1, <1>2, NAssumption DEF Accounts
<1>5. ASSUME NEW i \in 1..N, i - 1 \in S PROVE i \in S
  <2>1. /\ cw[i - 1] \in Nat /\ cv[i - 1] \in Nat
        /\ cw[i] = cw[i - 1] + w[i] /\ cv[i] = cv[i - 1] + v[i]
        /\ w[i] \in Nat /\ v[i] \in Nat /\ w[k] \in Nat /\ v[k] \in Nat
    BY <1>1, <1>2, NAssumption DEF Accounts
  <2>2. cv[i - 1] - cw[i - 1] = IF i - 1 < k THEN 0 ELSE v[k] - w[k]
    BY <1>5
  <2>3. CASE i = k
    <3>1. cv[i - 1] - cw[i - 1] = 0
      BY <2>2, <2>3
    <3>2. cv[i] - cw[i] = v[i] - w[i]
      BY <2>1, <3>1
    <3> QED
      BY <2>3, <3>2
  <2>4. CASE i # k
    <3>1. v[i] = w[i]
      BY <2>4 DEF Accounts
    <3>2. i - 1 < k <=> i < k
      BY <2>4, NAssumption DEF Accounts
    <3> QED
      BY <2>1, <2>2, <3>1, <3>2, NAssumption
  <2> QED
    BY <2>3, <2>4
<1>6. N \in S
  <2> HIDE DEF S
  <2>1. \A i \in 0..N : i \in S
    BY <1>4, <1>5, IndexInduction
  <2> QED
    BY <2>1, NAssumption
<1> QED
  BY <1>3, <1>6, NAssumption DEF Accounts

(* A pointwise smaller function has a smaller sum.                          *)
LEMMA SumMonotone ==
    ASSUME NEW w \in [Accounts -> Nat], NEW v \in [Accounts -> Nat],
           \A a \in Accounts : v[a] <= w[a]
    PROVE  SumOf(v) <= SumOf(w)
<1> DEFINE cw == Cumulative(w)
           cv == Cumulative(v)
           S  == {i \in 0..N : cv[i] <= cw[i]}
<1>1. /\ cw \in [0..N -> Nat] /\ cw[0] = 0
      /\ \A i \in 1..N : cw[i] = cw[i - 1] + w[i]
  BY CumulativeFacts
<1>2. /\ cv \in [0..N -> Nat] /\ cv[0] = 0
      /\ \A i \in 1..N : cv[i] = cv[i - 1] + v[i]
  BY CumulativeFacts
<1>3. SumOf(w) = cw[N] /\ SumOf(v) = cv[N]
  BY DEF SumOf
<1> HIDE DEF cw, cv
<1>4. 0 \in S
  BY <1>1, <1>2, NAssumption
<1>5. ASSUME NEW i \in 1..N, i - 1 \in S PROVE i \in S
  <2>1. /\ cw[i - 1] \in Nat /\ cv[i - 1] \in Nat
        /\ cw[i] = cw[i - 1] + w[i] /\ cv[i] = cv[i - 1] + v[i]
        /\ w[i] \in Nat /\ v[i] \in Nat /\ v[i] <= w[i]
    BY <1>1, <1>2, NAssumption DEF Accounts
  <2> QED
    BY <1>5, <2>1, NAssumption
<1>6. N \in S
  <2> HIDE DEF S
  <2>1. \A i \in 0..N : i \in S
    BY <1>4, <1>5, IndexInduction
  <2> QED
    BY <2>1, NAssumption
<1> QED
  BY <1>3, <1>6

(* The sum of the function that is 0 everywhere is 0.                       *)
LEMMA SumZero ==
    ASSUME NEW w \in [Accounts -> Nat], \A a \in Accounts : w[a] = 0
    PROVE  SumOf(w) = 0
<1> DEFINE cw == Cumulative(w)
           S  == {i \in 0..N : cw[i] = 0}
<1>1. /\ cw \in [0..N -> Nat] /\ cw[0] = 0
      /\ \A i \in 1..N : cw[i] = cw[i - 1] + w[i]
  BY CumulativeFacts
<1>2. SumOf(w) = cw[N]
  BY DEF SumOf
<1> HIDE DEF cw
<1>3. 0 \in S
  BY <1>1, NAssumption
<1>4. \A i \in 1..N : i - 1 \in S => i \in S
  BY <1>1, NAssumption DEF Accounts
<1>5. N \in S
  <2> HIDE DEF S
  <2>1. \A i \in 0..N : i \in S
    BY <1>3, <1>4, IndexInduction
  <2> QED
    BY <2>1, NAssumption
<1> QED
  BY <1>2, <1>5

(* No entry exceeds the sum.                                                *)
LEMMA EntryBelowSum ==
    ASSUME NEW w \in [Accounts -> Nat], NEW k \in Accounts
    PROVE  w[k] <= SumOf(w)
<1> DEFINE z == [a \in Accounts |-> 0]
           v == [a \in Accounts |-> IF a = k THEN w[k] ELSE 0]
<1>1. z \in [Accounts -> Nat] /\ v \in [Accounts -> Nat]
  OBVIOUS
<1>2. SumOf(z) = 0
  BY <1>1, SumZero
<1>3. SumOf(v) - SumOf(z) = v[k] - z[k]
  <2>1. \A a \in Accounts : a # k => v[a] = z[a]
    OBVIOUS
  <2> HIDE DEF v, z
  <2> QED
    BY <1>1, <2>1, SumUpdate
<1>4. SumOf(v) <= SumOf(w)
  <2>1. \A a \in Accounts : v[a] <= w[a]
    OBVIOUS
  <2> HIDE DEF v
  <2> QED
    BY <1>1, <2>1, SumMonotone
<1>5. SumOf(v) \in Nat /\ SumOf(w) \in Nat
  BY <1>1, CumulativeFacts
<1> QED
  BY <1>2, <1>3, <1>4, <1>5

-----------------------------------------------------------------------------
(* Selection is total and never lands on an account without weight:         *)
(* select_pos_validator returns an account whenever the (wrapped) total is  *)
(* not zero, even if adding up the u64 weights has overflowed, and the      *)
(* account it returns has a positive weight.                                *)
THEOREM SelectionHasWeight ==
    ASSUME NEW w \in [Accounts -> Nat], NEW random \in Nat,
           wrapping(SumOf(w)) # 0
    PROVE  /\ select_pos_validator(w, random) \in Accounts
           /\ w[select_pos_validator(w, random)] > 0
<1> DEFINE c     == Cumulative(w)
           total == wrapping(c[N])
           hits  == {i \in Accounts : random % total < wrapping(c[i])}
           pick  == CHOOSE i \in hits : \A j \in hits : i <= j
<1>1. /\ c \in [0..N -> Nat] /\ c[0] = 0
      /\ \A i \in 1..N : c[i] = c[i - 1] + w[i]
  BY CumulativeFacts
<1>2. total # 0
  BY DEF SumOf
<1> HIDE DEF c
<1>3. \A i \in 0..N : wrapping(c[i]) \in Nat
  BY <1>1, MaxU64Assumption DEF wrapping
<1>4. total \in Nat \ {0} /\ random % total \in Nat /\ random % total < total
  <2>1. total \in Nat \ {0}
    BY <1>2, <1>3, NAssumption
  <2> HIDE DEF total
  <2> QED
    BY <2>1
<1>5. hits \subseteq Nat /\ N \in hits
  BY <1>4, NAssumption DEF Accounts
<1>6. pick \in hits /\ \A j \in hits : pick <= j
  <2> HIDE DEF hits
  <2> QED
    BY <1>5, LeastNatural
<1>7. select_pos_validator(w, random) = pick
  BY <1>2, <1>5 DEF select_pos_validator, c
<1>8. pick \in Accounts /\ random % total < wrapping(c[pick])
  <2> HIDE DEF pick
  <2> QED BY <1>6
<1>9. ASSUME w[pick] = 0 PROVE FALSE
  <2> HIDE DEF pick
  <2>1. pick \in 1..N /\ c[pick] = c[pick - 1]
    BY <1>1, <1>8, <1>9, NAssumption DEF Accounts
  <2>2. CASE pick = 1
    <3>1. wrapping(c[pick]) = 0
      BY <1>1, <2>1, <2>2, MaxU64Assumption DEF wrapping
    <3> QED
      BY <1>4, <1>8, <3>1
  <2>3. CASE pick # 1
    <3>1. pick - 1 \in hits
      BY <1>8, <2>1, <2>3, NAssumption DEF Accounts
    <3> QED
      BY <1>6, <2>1, <3>1
  <2> QED
    BY <2>2, <2>3
<1>10. w[pick] \in Nat
  BY <1>8
<1> QED
  BY <1>7, <1>8, <1>9, <1>10

-----------------------------------------------------------------------------
(* Ranges: no arithmetic function leaves u64 or becomes negative.           *)

(* Dividing and multiplying again does not exceed the original.             *)
LEMMA QuotientBound ==
    ASSUME NEW x \in Nat, NEW y \in Nat \ {0}, NEW z \in Nat, x <= z \div y
    PROVE  x * y <= z
<1> DEFINE q == z \div y
<1>1. q \in Nat /\ q * y <= z
  OBVIOUS
<1>2. x * y <= q * y
  <2>1. x <= q /\ q \in Nat
    BY <1>1
  <2> HIDE DEF q
  <2>2. PICK d \in Nat : q = x + d
    <3>1. q - x \in Nat /\ q = x + (q - x)
      BY <2>1
    <3> QED BY <3>1
  <2>3. q * y = x * y + d * y /\ d * y \in Nat /\ x * y \in Nat
    BY <2>2
  <2> QED
    BY <2>3
<1>3. x * y \in Nat /\ q * y \in Nat
  BY <1>1
<1> QED
  BY <1>1, <1>2, <1>3

(* The entropy constants are positive (Zenon cannot print such literals).   *)
LEMMA EntropyConstants ==
    EntropyThreshold \in Nat \ {0} /\ EntropyScale \in Nat \ {0}
  BY SMT DEF EntropyThreshold, EntropyScale

(* A saturating product is a u64.                                           *)
LEMMA SaturatingMulRange ==
    ASSUME NEW x \in 0..MaxU64, NEW y \in Nat
    PROVE  saturating_mul(x, y) \in 0..MaxU64
<1>1. CASE y # 0 /\ x > MaxU64 \div y
  BY <1>1, MaxU64Assumption DEF saturating_mul
<1>2. CASE y = 0
  BY <1>2, MaxU64Assumption DEF saturating_mul
<1>3. CASE y # 0 /\ ~(x > MaxU64 \div y)
  <2>1. x <= MaxU64 \div y
    BY <1>3, MaxU64Assumption
  <2>2. x * y <= MaxU64
    BY <1>3, <2>1, MaxU64Assumption, QuotientBound
  <2>3. x * y \in Nat
    OBVIOUS
  <2> QED
    BY <1>3, <2>2, <2>3 DEF saturating_mul
<1> QED
  BY <1>1, <1>2, <1>3

(* A retarget by calculate_difficulty_adjustment stays a u64 and is at      *)
(* least 1, unless the target was not reached to begin with.                *)
LEMMA AdjustmentRange ==
    ASSUME NEW current \in 0..MaxU64, NEW actual \in Nat, NEW goal \in Nat,
           NEW entropy \in Nat
    PROVE  calculate_difficulty_adjustment(current, actual, goal, entropy)
               \in 1..MaxU64
<1> DEFINE paced == AtLeast(saturating_mul(current, actual) \div goal, 1)
<1>1. CASE actual = 0 \/ goal = 0
  BY <1>1, MaxU64Assumption DEF calculate_difficulty_adjustment, AtLeast
<1>2. CASE ~(actual = 0 \/ goal = 0)
  <2>1. paced \in 1..MaxU64
    <3>1. saturating_mul(current, actual) \in 0..MaxU64
      BY SaturatingMulRange
    <3>2. saturating_mul(current, actual) \div goal \in 0..MaxU64
      BY <1>2, <3>1, MaxU64Assumption
    <3> QED
      BY <3>2, MaxU64Assumption DEF AtLeast
  <2> HIDE DEF paced
  <2>2. steer_by_entropy(paced, entropy) \in 1..MaxU64
    <3>1. saturating_mul(paced, EntropyThreshold + entropy) \in 0..MaxU64
      <4>1. EntropyThreshold + entropy \in Nat /\ paced \in 0..MaxU64
        BY <2>1, EntropyConstants
      <4> QED
        BY <4>1, SaturatingMulRange
    <3> QED
      BY <2>1, <3>1, MaxU64Assumption, EntropyConstants
      DEF steer_by_entropy, AtLeast
  <2> QED
    BY <1>2, <2>2 DEF calculate_difficulty_adjustment, paced
<1> QED
  BY <1>1, <1>2

(* The bound on producer counts is positive.                                *)
LEMMA MaxCountNatural == MaxCount \in Nat \ {0}
  BY DEF MaxCount

(* The scaled logarithm of a producer count is a natural number.            *)
LEMMA Log2Natural ==
    ASSUME NEW x \in 0..MaxCount
    PROVE  integer_log2_scaled(x) \in Nat
<1>1. CASE x = 0
  BY <1>1 DEF integer_log2_scaled
<1>2. CASE x # 0
  <2> DEFINE high == CHOOSE b \in BitValues : b <= x /\ x < 2 * b
             below == {b \in BitValues : b < high}
  <2>1. \E b \in BitValues : b <= x /\ x < 2 * b
    BY <1>2 DEF BitValues, MaxCount
  <2>2. high \in BitValues /\ high <= x
    BY <2>1
  <2> HIDE DEF high
  <2>3. high \in Nat \ {0} /\ x - high \in Nat
    BY <2>2 DEF BitValues, MaxCount
  <2>4. Cardinality(below) \in Nat
    <3>1. below \subseteq 1..MaxCount
      BY DEF BitValues, MaxCount
    <3>2. IsFiniteSet(1..MaxCount)
      BY MaxCountNatural, FS_Interval
    <3> HIDE DEF below
    <3>3. IsFiniteSet(below)
      BY <3>1, <3>2, FS_Subset
    <3> QED
      BY <3>3, FS_CardinalityType
  <2>5. integer_log2_scaled(x)
          = Cardinality(below) * EntropyScale + ((x - high) * EntropyScale) \div high
    BY <1>2 DEF integer_log2_scaled, high
  <2> QED
    BY <2>3, <2>4, <2>5, EntropyConstants
<1> QED
  BY <1>1, <1>2

(* So is the entropy of any window of producers.                           *)
LEMMA EntropyNatural ==
    ASSUME NEW T, NEW producers \in Seq(T), Len(producers) <= MaxCount
    PROVE  calculate_entropy(producers) \in Nat
<1> DEFINE total   == Len(producers)
           term(c) == (c * saturating_sub(integer_log2_scaled(total),
                                          integer_log2_scaled(c))) \div total
           terms   == [a \in Accounts |-> term(Occurrences(producers, a))]
<1>1. CASE total = 0
  BY <1>1 DEF calculate_entropy
<1>2. CASE total # 0
  <2>1. total \in 1..MaxCount /\ DOMAIN producers = 1..total
    <3>1. total \in Nat /\ DOMAIN producers = 1..total
      BY LenProperties
    <3> QED
      BY <1>2, <3>1, MaxCountNatural
  <2>2. \A a : Occurrences(producers, a) \in 0..MaxCount
    <3> TAKE a
    <3> DEFINE hits == {i \in DOMAIN producers : producers[i] = a}
    <3>1. hits \subseteq 1..total /\ total \in Nat \ {0} /\ total <= MaxCount
      BY <2>1, MaxCountNatural
    <3>2. Occurrences(producers, a) = Cardinality(hits)
      BY DEF Occurrences
    <3> HIDE DEF hits, total
    <3>3. IsFiniteSet(1..total) /\ Cardinality(1..total) = total
      BY <3>1, FS_Interval
    <3>4. IsFiniteSet(hits) /\ Cardinality(hits) <= total
      BY <3>1, <3>3, FS_Subset
    <3>5. Cardinality(hits) \in Nat
      BY <3>4, FS_CardinalityType
    <3> QED
      BY <3>1, <3>2, <3>4, <3>5, MaxCountNatural
  <2>3. \A c \in 0..MaxCount : term(c) \in Nat
    <3> TAKE c \in 0..MaxCount
    <3>1. integer_log2_scaled(total) \in Nat /\ integer_log2_scaled(c) \in Nat
      BY <2>1, Log2Natural, MaxCountNatural
    <3>2. saturating_sub(integer_log2_scaled(total), integer_log2_scaled(c)) \in Nat
      BY <3>1 DEF saturating_sub
    <3> QED
      BY <2>1, <3>2, MaxCountNatural
  <2> HIDE DEF term
  <2>4. terms \in [Accounts -> Nat]
    BY <2>2, <2>3
  <2>5. SumOf(terms) \in Nat
    <3> HIDE DEF terms
    <3> QED BY <2>4, CumulativeFacts
  <2>6. calculate_entropy(producers) = AtMost(SumOf(terms), MaxU64)
    BY <1>2 DEF calculate_entropy, term
  <2> QED
    BY <2>5, <2>6, MaxU64Assumption DEF AtMost
<1> QED
  BY <1>1, <1>2

-----------------------------------------------------------------------------
(* The draw *)

(* Running sums of weights never fall.                                      *)
LEMMA CumulativeMonotone ==
    ASSUME NEW w \in [Accounts -> Nat], NEW i \in 0..N, NEW j \in 0..N, i <= j
    PROVE  Cumulative(w)[i] <= Cumulative(w)[j]
<1> DEFINE c == Cumulative(w)
           S == {k \in 0..N : i <= k => c[i] <= c[k]}
<1>1. /\ c \in [0..N -> Nat] /\ c[0] = 0
      /\ \A k \in 1..N : c[k] = c[k - 1] + w[k]
  BY CumulativeFacts
<1> HIDE DEF c
<1>2. 0 \in S
  BY <1>1, NAssumption
<1>3. ASSUME NEW k \in 1..N, k - 1 \in S PROVE k \in S
  <2>1. c[i] \in Nat /\ c[k - 1] \in Nat /\ w[k] \in Nat /\ c[k] = c[k - 1] + w[k]
    BY <1>1, NAssumption DEF Accounts
  <2>2. CASE i = k
    BY <2>1, <2>2, NAssumption
  <2>3. CASE i # k
    <3>1. i <= k => i <= k - 1
      BY <2>3, NAssumption
    <3> QED
      BY <1>3, <2>1, <3>1, NAssumption
  <2> QED
    BY <2>2, <2>3
<1>4. j \in S
  <2> HIDE DEF S
  <2>1. \A k \in 0..N : k \in S
    BY <1>2, <1>3, IndexInduction
  <2> QED
    BY <2>1
<1> QED
  BY <1>4 DEF c

(* Without overflow the random values that select account a are exactly     *)
(* those between the running sums before and after a.                       *)
LEMMA DrawInterval ==
    ASSUME NEW w \in [Accounts -> Nat], SumOf(w) <= MaxU64,
           NEW r \in 0..(SumOf(w) - 1), NEW a \in Accounts
    PROVE  select_pos_validator(w, r) = a
              <=> Cumulative(w)[a - 1] <= r /\ r < Cumulative(w)[a]
<1> DEFINE c     == Cumulative(w)
           total == wrapping(c[N])
           hits  == {i \in Accounts : r % total < wrapping(c[i])}
           pick  == CHOOSE i \in hits : \A j \in hits : i <= j
<1>1. c \in [0..N -> Nat] /\ c[0] = 0 /\ SumOf(w) = c[N]
  BY CumulativeFacts DEF SumOf
<1>2. \A i \in 0..N : \A j \in 0..N : i <= j => c[i] <= c[j]
  BY CumulativeMonotone
<1>3. select_pos_validator(w, r) = IF total = 0 \/ hits = {} THEN None ELSE pick
  BY DEF select_pos_validator
<1> HIDE DEF c
<1>4. \A i \in 0..N : c[i] \in Nat /\ wrapping(c[i]) = c[i]
  <2>1. \A i \in 0..N : c[i] \in Nat /\ c[i] <= c[N]
    BY <1>1, <1>2, NAssumption
  <2>2. c[N] <= MaxU64 /\ c[N] \in Nat
    BY <1>1, <2>1, NAssumption
  <2>3. \A i \in 0..N : c[i] <= MaxU64
    BY <2>1, <2>2, MaxU64Assumption
  <2> QED
    BY <2>1, <2>3 DEF wrapping
<1>5. total = c[N] /\ c[N] \in Nat /\ r \in Nat /\ r < c[N]
  BY <1>1, <1>4, NAssumption
<1>6. r % total = r /\ total # 0
  <2> HIDE DEF total
  <2> QED
    BY <1>5
<1>7. \A i \in Accounts : i \in hits <=> r < c[i]
  BY <1>4, <1>6, NAssumption DEF Accounts
<1>8. hits \subseteq Nat /\ N \in hits /\ hits \subseteq Accounts
  BY <1>5, <1>7, NAssumption DEF Accounts
<1> HIDE DEF hits, total
<1>9. pick \in hits /\ \A j \in hits : pick <= j
  BY <1>8, LeastNatural
<1>10. select_pos_validator(w, r) = pick
  BY <1>3, <1>6, <1>8
<1> HIDE DEF pick
<1>11. ASSUME pick = a PROVE c[a - 1] <= r /\ r < c[a]
  <2>1. r < c[a]
    BY <1>7, <1>8, <1>9, <1>11
  <2>2. CASE a = 1
    BY <1>1, <1>5, <2>1, <2>2
  <2>3. CASE a # 1
    <3>1. a - 1 \in Accounts /\ a - 1 \in 0..N
      BY <2>3, NAssumption DEF Accounts
    <3>2. a - 1 \notin hits
      BY <1>9, <1>11, NAssumption DEF Accounts
    <3> QED
      BY <1>4, <1>5, <1>7, <2>1, <3>1, <3>2
  <2> QED
    BY <2>2, <2>3
<1>12. ASSUME c[a - 1] <= r, r < c[a] PROVE pick = a
  <2>1. a \in hits /\ pick <= a /\ pick \in Accounts
    BY <1>7, <1>8, <1>9, <1>12
  <2>2. ASSUME pick < a PROVE FALSE
    <3>1. pick \in 0..N /\ a - 1 \in 0..N /\ pick <= a - 1
      BY <2>1, <2>2, NAssumption DEF Accounts
    <3>2. c[pick] <= c[a - 1] /\ c[pick] \in Nat /\ c[a - 1] \in Nat
      BY <1>2, <1>4, <3>1
    <3>3. r < c[pick]
      BY <1>7, <1>9, <2>1
    <3> QED
      BY <1>5, <1>12, <3>2, <3>3
  <2> QED
    BY <2>1, <2>2, NAssumption DEF Accounts
<1> QED
  BY <1>10, <1>11, <1>12 DEF c

(* The draw is fair: of the random values below the total, as many select   *)
(* an account as it has weight.                                             *)
THEOREM SelectionIsFair ==
    ASSUME NEW w \in [Accounts -> Nat], SumOf(w) <= MaxU64, NEW a \in Accounts
    PROVE  Cardinality({r \in 0..(SumOf(w) - 1) : select_pos_validator(w, r) = a})
              = w[a]
<1> DEFINE low  == Cumulative(w)[a - 1]
           high == Cumulative(w)[a]
           wins == {r \in 0..(SumOf(w) - 1) : select_pos_validator(w, r) = a}
<1>1. /\ low \in Nat /\ high \in Nat /\ high = low + w[a] /\ w[a] \in Nat
      /\ SumOf(w) \in Nat /\ high <= SumOf(w)
  <2>1. /\ Cumulative(w) \in [0..N -> Nat] /\ SumOf(w) \in Nat
        /\ \A i \in 1..N : Cumulative(w)[i] = Cumulative(w)[i - 1] + w[i]
    BY CumulativeFacts
  <2>2. a \in 0..N /\ a - 1 \in 0..N /\ N \in 0..N /\ a <= N /\ a \in 1..N
    BY NAssumption DEF Accounts
  <2>3. high <= SumOf(w)
    BY <2>2, CumulativeMonotone DEF SumOf
  <2> QED
    BY <2>1, <2>2, <2>3
<1>2. \A r \in 0..(SumOf(w) - 1) : r \in wins <=> low <= r /\ r < high
  BY DrawInterval
<1> HIDE DEF low, high
<1>3. wins = low..(high - 1)
  <2>1. ASSUME NEW r \in wins PROVE r \in low..(high - 1)
    <3>1. r \in 0..(SumOf(w) - 1)
      OBVIOUS
    <3> QED
      BY <1>1, <1>2, <3>1
  <2>2. ASSUME NEW r \in low..(high - 1) PROVE r \in wins
    BY <1>1, <1>2
  <2> HIDE DEF wins
  <2> QED
    BY <2>1, <2>2
<1>4. Cardinality(low..(high - 1)) = w[a]
  <2> DEFINE top == high - 1
  <2>1. low \in Int /\ top \in Int
    BY <1>1
  <2>2. Cardinality(low..top) = IF low > top THEN 0 ELSE top - low + 1
    <3> HIDE DEF top
    <3> QED
      BY <2>1, FS_Interval
  <2> QED
    BY <1>1, <2>2
<1> HIDE DEF wins
<1>5. Cardinality(wins) = w[a]
  BY <1>3, <1>4
<1> QED
  BY <1>5 DEF wins

-----------------------------------------------------------------------------
(* Rewards *)

(* The sum of two functions is the sum of their sums.                       *)
LEMMA SumAdd ==
    ASSUME NEW u \in [Accounts -> Nat], NEW v \in [Accounts -> Nat],
           NEW w \in [Accounts -> Nat], \A a \in Accounts : w[a] = u[a] + v[a]
    PROVE  SumOf(w) = SumOf(u) + SumOf(v)
<1> DEFINE cu == Cumulative(u)
           cv == Cumulative(v)
           cw == Cumulative(w)
           S  == {i \in 0..N : cw[i] = cu[i] + cv[i]}
<1>1. /\ cu \in [0..N -> Nat] /\ cu[0] = 0 /\ \A i \in 1..N : cu[i] = cu[i - 1] + u[i]
      /\ cv \in [0..N -> Nat] /\ cv[0] = 0 /\ \A i \in 1..N : cv[i] = cv[i - 1] + v[i]
      /\ cw \in [0..N -> Nat] /\ cw[0] = 0 /\ \A i \in 1..N : cw[i] = cw[i - 1] + w[i]
  BY CumulativeFacts
<1>2. SumOf(u) = cu[N] /\ SumOf(v) = cv[N] /\ SumOf(w) = cw[N]
  BY DEF SumOf
<1> HIDE DEF cu, cv, cw
<1>3. 0 \in S
  BY <1>1, NAssumption
<1>4. ASSUME NEW i \in 1..N, i - 1 \in S PROVE i \in S
  <2>1. /\ cu[i - 1] \in Nat /\ cv[i - 1] \in Nat /\ cw[i - 1] = cu[i - 1] + cv[i - 1]
        /\ u[i] \in Nat /\ v[i] \in Nat /\ w[i] = u[i] + v[i]
    BY <1>1, <1>4, NAssumption DEF Accounts
  <2>2. /\ cu[i] = cu[i - 1] + u[i] /\ cv[i] = cv[i - 1] + v[i]
        /\ cw[i] = cw[i - 1] + w[i] /\ i \in 0..N
    BY <1>1, NAssumption
  <2>3. cw[i] = cu[i] + cv[i]
    BY <2>1, <2>2
  <2> QED
    BY <2>2, <2>3
<1>5. N \in S
  <2> HIDE DEF S
  <2>1. \A i \in 0..N : i \in S
    BY <1>3, <1>4, IndexInduction
  <2> QED
    BY <2>1, NAssumption
<1> QED
  BY <1>2, <1>5

(* A factor that is not greater gives a product that is not greater.        *)
LEMMA FactorBound ==
    ASSUME NEW x \in Nat, NEW y \in Nat, NEW z \in Nat, y <= z
    PROVE  x * y <= x * z /\ x * y \in Nat /\ x * z \in Nat
<1>1. PICK d \in Nat : z = y + d
  <2>1. z - y \in Nat /\ z = y + (z - y)
    OBVIOUS
  <2> QED
    BY <2>1
<1>2. x * z = x * y + x * d /\ x * d \in Nat /\ x * y \in Nat
  BY <1>1
<1> QED
  BY <1>2

(* The rounded shares of the stakers' part add up to no more than the part. *)
LEMMA SharesWithinPart ==
    ASSUME NEW part \in Nat, NEW stakes \in [Accounts -> Nat]
    PROVE  LET share == [a \in Accounts |-> staker_reward(part, stakes, a)]
           IN  share \in [Accounts -> Nat] /\ SumOf(share) <= part
<1> DEFINE total == SumOf(stakes)
           share == [a \in Accounts |-> staker_reward(part, stakes, a)]
<1>1. total \in Nat
  BY CumulativeFacts
<1>2. CASE total = 0
  <2>1. share \in [Accounts -> Nat] /\ \A a \in Accounts : share[a] = 0
    BY <1>2 DEF staker_reward
  <2> HIDE DEF share
  <2>2. SumOf(share) = 0
    BY <2>1, SumZero
  <2> QED
    BY <2>1, <2>2 DEF share
<1>3. CASE total # 0
  <2>1. \A a \in Accounts : share[a] = (part * stakes[a]) \div total
    BY <1>3 DEF staker_reward
  <2> HIDE DEF total
  <2>2. ASSUME NEW a \in Accounts
        PROVE  share[a] \in Nat /\ share[a] * total <= part * stakes[a]
    <3> DEFINE product == part * stakes[a]
               q       == product \div total
    <3>1. product \in Nat /\ share[a] = q
      BY <2>1
    <3> HIDE DEF product
    <3>2. q \in Nat /\ q <= product \div total
      BY <1>1, <1>3, <3>1
    <3> HIDE DEF q
    <3>3. q * total <= product
      BY <1>1, <1>3, <3>1, <3>2, QuotientBound
    <3> HIDE DEF share
    <3> QED
      BY <3>1, <3>2, <3>3 DEF product
  <2>3. share \in [Accounts -> Nat]
    <3>1. share = [a \in Accounts |-> share[a]]
      OBVIOUS
    <3> HIDE DEF share
    <3> QED
      BY <2>2, <3>1
  <2> HIDE DEF share
  <2> DEFINE cs == Cumulative(stakes)
             cp == Cumulative(share)
             S  == {i \in 0..N : cp[i] * total <= part * cs[i]}
  <2>4. /\ cs \in [0..N -> Nat] /\ cs[0] = 0
        /\ \A i \in 1..N : cs[i] = cs[i - 1] + stakes[i]
    BY CumulativeFacts
  <2>5. /\ cp \in [0..N -> Nat] /\ cp[0] = 0
        /\ \A i \in 1..N : cp[i] = cp[i - 1] + share[i]
    BY <2>3, CumulativeFacts
  <2>6. cs[N] = total /\ SumOf(share) = cp[N]
    BY DEF SumOf, total
  <2> HIDE DEF cs, cp
  <2>7. 0 \in S
    BY <1>1, <2>4, <2>5, NAssumption
  <2>8. ASSUME NEW i \in 1..N, i - 1 \in S PROVE i \in S
    <3> DEFINE p == cp[i - 1]
               q == share[i]
               s == stakes[i]
               t == cs[i - 1]
    <3>1. p \in Nat /\ q \in Nat /\ s \in Nat /\ t \in Nat
      BY <2>2, <2>4, <2>5, NAssumption DEF Accounts
    <3>2. p * total <= part * t /\ q * total <= part * s
      BY <2>2, <2>8 DEF Accounts
    <3>3. cp[i] = p + q /\ cs[i] = t + s /\ i \in 0..N
      BY <2>4, <2>5, NAssumption
    <3> HIDE DEF p, q, s, t
    <3>4. /\ (p + q) * total = p * total + q * total
          /\ part * (t + s) = part * t + part * s
      BY <1>1, <3>1
    <3>5. /\ p * total \in Nat /\ q * total \in Nat
          /\ part * t \in Nat /\ part * s \in Nat
      BY <1>1, <3>1
    <3>6. (p + q) * total <= part * (t + s)
      BY <3>2, <3>4, <3>5
    <3> QED
      BY <3>3, <3>6
  <2>9. cp[N] * total <= part * total /\ cp[N] \in Nat
    <3> HIDE DEF S
    <3>1. \A i \in 0..N : i \in S
      BY <2>7, <2>8, IndexInduction
    <3>2. N \in S /\ N \in 0..N
      BY <3>1, NAssumption
    <3> QED
      BY <2>5, <2>6, <3>2 DEF S
  <2>10. cp[N] <= part
    <3> DEFINE sum == cp[N]
    <3>1. sum \in Nat /\ sum * total <= part * total
      BY <2>9
    <3> HIDE DEF sum
    <3>2. ASSUME part + 1 <= sum PROVE FALSE
      <4>1. total * (part + 1) <= total * sum
        BY <1>1, <3>1, <3>2, FactorBound
      <4>2. total * (part + 1) = part * total + total /\ total * sum = sum * total
        BY <1>1, <3>1
      <4>3. part * total \in Nat /\ sum * total \in Nat
        BY <1>1, <3>1
      <4> QED
        BY <1>1, <1>3, <3>1, <4>1, <4>2, <4>3
    <3> QED
      BY <3>1, <3>2 DEF sum
  <2> QED
    BY <2>3, <2>6, <2>10 DEF share
<1> QED
  BY <1>2, <1>3

-----------------------------------------------------------------------------
(* Retargeting *)

(* Scaling a target by a fraction of at most 1 does not raise it; where the *)
(* product saturates it is lowered further.                                 *)
LEMMA ScaledDown ==
    ASSUME NEW x \in 0..MaxU64, NEW y \in Nat, NEW z \in Nat \ {0}, y <= z
    PROVE  saturating_mul(x, y) \div z <= x /\ saturating_mul(x, y) \div z \in Nat
<1> DEFINE m == saturating_mul(x, y)
<1>1. m \in Nat /\ x \in Nat
  BY SaturatingMulRange, MaxU64Assumption
<1>2. m <= x * y
  <2>1. CASE y # 0 /\ x > MaxU64 \div y
    <3>1. m = MaxU64
      BY <2>1 DEF saturating_mul
    <3>2. x * y \in Nat
      BY <1>1
    <3>3. ASSUME x * y < MaxU64 PROVE FALSE
      <4> DEFINE q == MaxU64 \div y
      <4>1. q \in Nat /\ MaxU64 < y * q + y
        BY <2>1, MaxU64Assumption
      <4>2. q + 1 <= x
        BY <1>1, <2>1, <4>1
      <4> HIDE DEF q
      <4>3. y * (q + 1) <= y * x
        BY <1>1, <4>1, <4>2, FactorBound
      <4>4. y * (q + 1) = y * q + y /\ y * x = x * y /\ y * q \in Nat
        BY <1>1, <4>1
      <4> QED
        BY <3>2, <3>3, <4>1, <4>3, <4>4, MaxU64Assumption
    <3> QED
      BY <3>1, <3>2, <3>3, MaxU64Assumption
  <2>2. CASE ~(y # 0 /\ x > MaxU64 \div y)
    <3>1. m = x * y /\ x * y \in Nat
      BY <1>1, <2>2 DEF saturating_mul
    <3> QED
      BY <3>1
  <2> QED
    BY <2>1, <2>2
<1> HIDE DEF m
<1>3. x * y <= x * z /\ x * y \in Nat /\ x * z \in Nat
  BY <1>1, FactorBound
<1>4. m \div z \in Nat
  BY <1>1
<1>5. ASSUME x + 1 <= m \div z PROVE FALSE
  <2>1. (x + 1) * z <= m
    BY <1>1, <1>5, QuotientBound
  <2>2. (x + 1) * z = x * z + z
    BY <1>1
  <2> QED
    BY <1>1, <1>2, <1>3, <2>1, <2>2
<1> QED
  BY <1>1, <1>4, <1>5 DEF m

(* When blocks take exactly the time they should, a retarget only lowers    *)
(* the target, down to 1.                                                   *)
LEMMA AdjustmentLowers ==
    ASSUME NEW current \in 0..MaxU64, NEW time \in Nat \ {0}, NEW entropy \in Nat
    PROVE  calculate_difficulty_adjustment(current, time, time, entropy)
               <= AtLeast(current, 1)
<1> DEFINE paced == AtLeast(saturating_mul(current, time) \div time, 1)
           steered == steer_by_entropy(paced, entropy)
<1>1. calculate_difficulty_adjustment(current, time, time, entropy) = steered
  BY DEF calculate_difficulty_adjustment
<1>2. /\ saturating_mul(current, time) \div time <= current
      /\ saturating_mul(current, time) \div time \in Nat
  BY ScaledDown
<1>3. paced \in 1..MaxU64 /\ paced <= AtLeast(current, 1)
  BY <1>2, MaxU64Assumption DEF AtLeast
<1> HIDE DEF paced
<1>4. steered <= paced
  <2>1. CASE entropy < EntropyThreshold
    <3>1. /\ EntropyThreshold + entropy \in Nat
          /\ 2 * EntropyThreshold \in Nat \ {0}
          /\ EntropyThreshold + entropy <= 2 * EntropyThreshold
      BY <2>1, EntropyConstants
    <3>2. LET scaled == saturating_mul(paced, EntropyThreshold + entropy)
                           \div (2 * EntropyThreshold)
          IN  scaled <= paced /\ scaled \in Nat
      BY <1>3, <3>1, ScaledDown
    <3>3. steered = AtLeast(saturating_mul(paced, EntropyThreshold + entropy)
                               \div (2 * EntropyThreshold), 1)
      BY <2>1 DEF steer_by_entropy
    <3> QED
      BY <1>3, <3>2, <3>3, MaxU64Assumption DEF AtLeast
  <2>2. CASE ~(entropy < EntropyThreshold)
    BY <1>3, <2>2, MaxU64Assumption DEF steer_by_entropy
  <2> QED
    BY <2>1, <2>2
<1>5. steered \in Nat
  <2>1. steered \in 1..MaxU64
    BY <1>1, AdjustmentRange
  <2> QED
    BY <2>1, MaxU64Assumption
<1>6. AtLeast(current, 1) \in Nat
  BY MaxU64Assumption DEF AtLeast
<1> QED
  BY <1>1, <1>3, <1>4, <1>5, <1>6, MaxU64Assumption
=============================================================================
