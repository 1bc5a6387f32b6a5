------------------------- MODULE NumberRangeProofs -------------------------
(***************************************************************************)
(* Proofs about NumberRange, for every base, every limits and numbers of   *)
(* any length.  The comparison of digits is shown to be one of values; all *)
(* inductions are over the positions of a sequence, each by the set of the *)
(* positions for which a fact holds.                                       *)
(***************************************************************************)
EXTENDS NumberRange, SequenceLemmas

-----------------------------------------------------------------------------
(* The value of digits.                                                    *)

\* Digits are smaller than the base.
LEMMA DigitBound ==
    ASSUME NEW d \in Digit
    PROVE  d \in Nat /\ d < Base /\ Base \in Nat /\ Base > 1
<1> QED
  BY BaseAssumption DEF Digit

\* A digit at a position.
LEMMA DigitAt ==
    ASSUME NEW a \in Seq(Digit), NEW k \in 1..Len(a)
    PROVE  a[k] \in Digit /\ a[k] \in Nat /\ a[k] < Base
<1>1. a[k] \in Digit
  BY ElementOfSeq
<1> QED
  BY <1>1, DigitBound

\* The values of the beginnings of a number, each from the one before.
LEMMA PlaceValue ==
    ASSUME NEW a \in Seq(Digit)
    PROVE  /\ PlaceValues(a) \in [0..Len(a) -> Nat]
           /\ PlaceValues(a)[0] = 0
           /\ \A k \in 1..Len(a) : PlaceValues(a)[k] = PlaceValues(a)[k - 1] * Base + a[k]
<1> DEFINE Upto(f, n) == /\ f \in [0..n -> Nat]
                         /\ f[0] = 0
                         /\ \A k \in 1..n : f[k] = f[k - 1] * Base + a[k]
           S == {n \in Nat : \E f : Upto(f, n)}
<1>1. Len(a) \in Nat
  BY LenProperties
<1>2. 0 \in S
  <2>1. Upto([k \in 0..0 |-> 0], 0)
    OBVIOUS
  <2> QED
    BY <2>1
<1>3. ASSUME NEW n \in 1..Len(a), n - 1 \in S PROVE n \in S
  <2>1. PICK f : Upto(f, n - 1)
    BY <1>3
  <2>2. n \in Nat \ {0} /\ n - 1 \in Nat /\ n \in 0..n /\ n \notin 0..(n - 1)
    BY <1>1
  <2>3. a[n] \in Nat /\ Base \in Nat /\ f[n - 1] \in Nat
    BY <2>1, <2>2, DigitAt, BaseAssumption
  <2> DEFINE g == [k \in 0..n |-> IF k = n THEN f[n - 1] * Base + a[n] ELSE f[k]]
  <2>4. ASSUME NEW k \in 0..n PROVE g[k] \in Nat
    <3>1. CASE k = n
      BY <2>2, <2>3, <3>1
    <3>2. CASE k # n
      <4>1. k \in 0..(n - 1)
        BY <2>2, <3>2
      <4> QED
        BY <2>1, <3>2, <4>1
    <3> QED
      BY <3>1, <3>2
  <2>5. g[0] = 0
    BY <2>1, <2>2
  <2>6. ASSUME NEW k \in 1..n PROVE g[k] = g[k - 1] * Base + a[k]
    <3>1. k \in 0..n /\ k - 1 \in 0..n /\ k - 1 # n
      BY <2>2
    <3>2. g[k - 1] = f[k - 1]
      BY <3>1
    <3>3. CASE k = n
      BY <3>1, <3>2, <3>3
    <3>4. CASE k # n
      <4>1. k \in 1..(n - 1)
        BY <2>2, <3>4
      <4> QED
        BY <2>1, <3>1, <3>2, <3>4, <4>1
    <3> QED
      BY <3>3, <3>4
  <2>7. g \in [0..n -> Nat]
    BY <2>4
  <2> HIDE DEF g
  <2>8. Upto(g, n)
    BY <2>5, <2>6, <2>7
  <2> QED
    BY <2>2, <2>8
<1>4. Len(a) \in S
  <2> HIDE DEF S
  <2>1. 0..Len(a) \subseteq S
    BY <1>1, <1>2, <1>3, EveryPosition
  <2> QED
    BY <1>1, <2>1
<1>5. PICK f : Upto(f, Len(a))
  BY <1>4
<1>6. f = [k \in 0..Len(a) |-> IF k = 0 THEN 0 ELSE f[k - 1] * Base + a[k]]
  <2>1. ASSUME NEW k \in 0..Len(a)
        PROVE  f[k] = IF k = 0 THEN 0 ELSE f[k - 1] * Base + a[k]
    BY <1>1, <1>5
  <2> QED
    BY <1>5, <2>1
<1> DEFINE V == PlaceValues(a)
<1>7. V = [k \in 0..Len(a) |-> IF k = 0 THEN 0 ELSE V[k - 1] * Base + a[k]]
  BY <1>6, Zenon DEF PlaceValues
<1> HIDE DEF V
<1>8. V[0] = 0 /\ \A k \in 1..Len(a) : V[k] = V[k - 1] * Base + a[k]
  BY <1>1, <1>7
<1>9. ASSUME NEW k \in 0..Len(a) PROVE V[k] \in Nat
  <2> DEFINE T == {n \in Nat : n <= Len(a) => V[n] \in Nat}
  <2>1. 0 \in T
    BY <1>8
  <2>2. ASSUME NEW n \in 1..Len(a), n - 1 \in T PROVE n \in T
    <3>1. V[n - 1] \in Nat /\ a[n] \in Nat /\ Base \in Nat /\ n \in Nat
      BY <1>1, <2>2, DigitAt, BaseAssumption
    <3>2. V[n] = V[n - 1] * Base + a[n]
      BY <1>8
    <3> QED
      BY <3>1, <3>2
  <2> HIDE DEF T
  <2>3. 0..Len(a) \subseteq T
    BY <1>1, <2>1, <2>2, EveryPosition
  <2> QED
    BY <1>1, <2>3 DEF T
<1>10. V \in [0..Len(a) -> Nat]
  BY <1>7, <1>9
<1> QED
  BY <1>8, <1>10 DEF V

\* The value of digits is a natural number.
LEMMA ValueType ==
    ASSUME NEW a \in Seq(Digit)
    PROVE  Value(a) \in Nat
<1>1. Len(a) \in 0..Len(a)
  BY LenProperties
<1> QED
  BY <1>1, PlaceValue DEF Value

\* A number that is greater stays so when both get another digit.
LEMMA GreaterStays ==
    ASSUME NEW x \in Nat, NEW y \in Nat, x > y, NEW d \in Digit, NEW e \in Digit
    PROVE  x * Base + d > y * Base + e
<1>1. d \in Nat /\ e \in Nat /\ e < Base /\ Base \in Nat
  BY DigitBound
<1>2. x * Base >= (y + 1) * Base
  <2>1. PICK z \in Nat : x = (y + 1) + z
    <3>1. x - (y + 1) \in Nat /\ x = (y + 1) + (x - (y + 1))
      OBVIOUS
    <3> QED
      BY <3>1
  <2>2. x * Base = (y + 1) * Base + z * Base /\ z * Base \in Nat
    BY <1>1, <2>1
  <2>3. (y + 1) * Base \in Nat
    BY <1>1
  <2> QED
    BY <2>2, <2>3
<1>3. (y + 1) * Base = y * Base + Base
  BY <1>1
<1>4. x * Base \in Nat /\ y * Base \in Nat
  BY <1>1
<1> QED
  BY <1>1, <1>2, <1>3, <1>4

\* Numbers that begin alike have the same value so far.
LEMMA SameBeginning ==
    ASSUME NEW a \in Seq(Digit), NEW b \in Seq(Digit),
           NEW n \in Nat, n <= Len(a), n <= Len(b),
           \A k \in 1..n : a[k] = b[k]
    PROVE  PlaceValues(a)[n] = PlaceValues(b)[n]
<1> DEFINE S == {k \in Nat : PlaceValues(a)[k] = PlaceValues(b)[k]}
<1>1. Len(a) \in Nat /\ Len(b) \in Nat
  BY LenProperties
<1>2. 0 \in S
  BY PlaceValue
<1>3. ASSUME NEW k \in 1..n, k - 1 \in S PROVE k \in S
  <2>1. k \in 1..Len(a) /\ k \in 1..Len(b) /\ k \in Nat
    BY <1>1
  <2>2. /\ PlaceValues(a)[k] = PlaceValues(a)[k - 1] * Base + a[k]
        /\ PlaceValues(b)[k] = PlaceValues(b)[k - 1] * Base + b[k]
    BY <2>1, PlaceValue
  <2> QED
    BY <1>3, <2>1, <2>2
<1> HIDE DEF S
<1>4. n \in S
  <2>1. 0..n \subseteq S
    BY <1>2, <1>3, EveryPosition
  <2> QED
    BY <2>1
<1> QED
  BY <1>4 DEF S

\* The first digit that differs decides, whatever comes after it.
LEMMA FirstDifferenceDecides ==
    ASSUME NEW a \in Seq(Digit), NEW b \in Seq(Digit), Len(a) = Len(b),
           NEW i \in 1..Len(a), a[i] > b[i], \A j \in 1..(i - 1) : a[j] = b[j]
    PROVE  Value(a) > Value(b)
<1> DEFINE S == {k \in Nat : k >= i => PlaceValues(a)[k] > PlaceValues(b)[k]}
<1>1. Len(a) \in Nat
  BY LenProperties
<1>2. 0 \in S
  BY <1>1
<1>3. ASSUME NEW k \in 1..Len(a), k - 1 \in S PROVE k \in S
  <2>1. SUFFICES ASSUME k >= i PROVE PlaceValues(a)[k] > PlaceValues(b)[k]
    BY <1>1
  <2>2. k \in 1..Len(b) /\ k - 1 \in 0..Len(a) /\ k - 1 \in 0..Len(b) /\ k \in Nat
    BY <1>1
  <2>3. /\ PlaceValues(a)[k] = PlaceValues(a)[k - 1] * Base + a[k]
        /\ PlaceValues(b)[k] = PlaceValues(b)[k - 1] * Base + b[k]
        /\ PlaceValues(a)[k - 1] \in Nat /\ PlaceValues(b)[k - 1] \in Nat
        /\ a[k] \in Digit /\ b[k] \in Digit
    BY <2>2, PlaceValue, DigitAt
  <2>4. CASE k = i
    <3>1. PlaceValues(a)[k - 1] = PlaceValues(b)[k - 1]
      BY <1>1, <2>2, <2>4, SameBeginning
    <3>2. a[k] \in Nat /\ b[k] \in Nat /\ Base \in Nat
      BY <2>3, DigitBound
    <3>3. PlaceValues(a)[k - 1] * Base \in Nat
      BY <2>3, <3>2, SMTT(30)
    <3> QED
      BY <2>3, <2>4, <3>1, <3>2, <3>3
  <2>5. CASE k # i
    <3>1. k - 1 >= i
      BY <1>1, <2>1, <2>5
    <3>2. PlaceValues(a)[k - 1] > PlaceValues(b)[k - 1]
      BY <1>3, <3>1
    <3> QED
      BY <2>3, <3>2, GreaterStays
  <2> QED
    BY <2>4, <2>5
<1> HIDE DEF S
<1>4. Len(a) \in S
  <2>1. 0..Len(a) \subseteq S
    BY <1>1, <1>2, <1>3, EveryPosition
  <2> QED
    BY <1>1, <2>1
<1> QED
  BY <1>1, <1>4 DEF S, Value

\* GreaterThan compares the values of equally long numbers.
LEMMA GreaterThanIsGreater ==
    ASSUME NEW a \in Seq(Digit), NEW b \in Seq(Digit), Len(a) = Len(b)
    PROVE  GreaterThan(a, b) <=> Value(a) > Value(b)
<1>1. Len(a) \in Nat /\ DOMAIN a = 1..Len(a)
  BY LenProperties
<1>2. Value(a) \in Nat /\ Value(b) \in Nat
  BY ValueType
<1>3. ASSUME GreaterThan(a, b) PROVE Value(a) > Value(b)
  BY <1>1, <1>3, FirstDifferenceDecides DEF GreaterThan
<1>4. ASSUME ~GreaterThan(a, b) PROVE ~(Value(a) > Value(b))
  <2> DEFINE D == {k \in 1..Len(a) : a[k] # b[k]}
  <2>1. CASE D = {}
    <3>1. PlaceValues(a)[Len(a)] = PlaceValues(b)[Len(a)]
      BY <1>1, <2>1, SameBeginning
    <3> QED
      BY <1>2, <3>1 DEF Value
  <2>2. CASE D # {}
    <3>1. D \subseteq Nat
      OBVIOUS
    <3>2. PICK i \in D : \A j \in D : i <= j
      BY <2>2, <3>1, FirstPosition
    <3>3. i \in 1..Len(a) /\ a[i] # b[i]
      BY <3>2
    <3>4. ASSUME NEW j \in 1..(i - 1) PROVE a[j] = b[j]
      <4>1. j \in 1..Len(a) /\ ~(i <= j)
        BY <1>1, <3>3
      <4> QED
        BY <3>2, <4>1
    <3>5. ~(a[i] > b[i])
      BY <1>1, <1>4, <3>3, <3>4 DEF GreaterThan
    <3>6. b[i] > a[i]
      <4>1. a[i] \in Nat /\ b[i] \in Nat
        BY <3>3, DigitAt
      <4> QED
        BY <3>3, <3>5, <4>1
    <3>7. Value(b) > Value(a)
      BY <3>3, <3>4, <3>6, FirstDifferenceDecides
    <3> QED
      BY <1>2, <3>7
  <2> QED
    BY <2>1, <2>2
<1> QED
  BY <1>3, <1>4

\* So does BytesGreaterThanString.
LEMMA BytesGreaterIsGreater ==
    ASSUME NEW a \in Seq(Digit), NEW b \in Seq(Digit), Len(a) = Len(b)
    PROVE  BytesGreaterThanString(a, b) <=> GreaterThan(a, b)
<1> DEFINE D == {i \in DOMAIN a : a[i] # b[i]}
           first == CHOOSE i \in D : \A j \in D : i <= j
<1>1. Len(a) \in Nat /\ DOMAIN a = 1..Len(a)
  BY LenProperties
<1>2. BytesGreaterThanString(a, b) <=> D # {} /\ a[first] > b[first]
  BY DEF BytesGreaterThanString
<1>3. ASSUME D # {} PROVE first \in D /\ \A j \in D : first <= j
  <2>1. D \subseteq Nat
    BY <1>1
  <2>2. \E i \in D : \A j \in D : i <= j
    BY <1>3, <2>1, FirstPosition
  <2> QED
    BY <2>2
<1> HIDE DEF first
<1>4. ASSUME D # {}, a[first] > b[first] PROVE GreaterThan(a, b)
  <2>1. first \in 1..Len(a) /\ \A j \in D : first <= j
    BY <1>1, <1>3, <1>4
  <2>2. ASSUME NEW j \in 1..(first - 1) PROVE a[j] = b[j]
    <3>1. j \in 1..Len(a) /\ ~(first <= j)
      BY <1>1, <2>1
    <3> QED
      BY <1>1, <2>1, <3>1
  <2> QED
    BY <1>1, <1>4, <2>1, <2>2 DEF GreaterThan
<1>5. ASSUME GreaterThan(a, b) PROVE D # {} /\ a[first] > b[first]
  <2>1. PICK k \in 1..Len(a) : a[k] > b[k] /\ \A j \in 1..(k - 1) : a[j] = b[j]
    BY <1>1, <1>5 DEF GreaterThan
  <2>2. a[k] \in Nat /\ b[k] \in Nat
    BY DigitAt
  <2>3. k \in D
    BY <1>1, <2>1, <2>2
  <2>4. first \in 1..Len(a) /\ a[first] # b[first] /\ first <= k
    BY <1>1, <1>3, <2>3
  <2>5. ~(first < k)
    <3>1. ASSUME first < k PROVE FALSE
      <4>1. first \in 1..(k - 1)
        BY <1>1, <2>4, <3>1
      <4> QED
        BY <2>1, <2>4, <4>1
    <3> QED
      BY <3>1
  <2>6. first = k
    BY <1>1, <2>4, <2>5
  <2> QED
    BY <2>1, <2>3, <2>6
<1> QED
  BY <1>2, <1>4, <1>5

\* A longer number without leading zeros is greater.
LEMMA LongerIsGreater ==
    ASSUME NEW a \in Seq(Digit), NEW b \in Seq(Digit), Len(a) > Len(b), a[1] # 0
    PROVE  Value(a) > Value(b)
<1> DEFINE m == Len(a) - Len(b)
           S == {k \in Nat : k >= 1 => PlaceValues(a)[k] > 0}
           T == {k \in Nat : PlaceValues(a)[m + k] > PlaceValues(b)[k]}
<1>1. Len(a) \in Nat /\ Len(b) \in Nat /\ m \in 1..Len(a) /\ Base \in Nat /\ Base > 0
  BY LenProperties, BaseAssumption
<1>2. 0 \in S
  OBVIOUS
<1>3. ASSUME NEW k \in 1..Len(a), k - 1 \in S PROVE k \in S
  <2>1. /\ PlaceValues(a)[k] = PlaceValues(a)[k - 1] * Base + a[k]
        /\ PlaceValues(a)[k - 1] \in Nat /\ a[k] \in Nat /\ k \in Nat
    <3>1. k \in Nat /\ k - 1 \in 0..Len(a)
      BY <1>1
    <3> QED
      BY <3>1, PlaceValue, DigitAt
  <2>2. CASE k = 1
    <3>1. PlaceValues(a)[k - 1] = 0 /\ a[k] > 0
      BY <2>1, <2>2, PlaceValue
    <3>2. PlaceValues(a)[k - 1] * Base = 0
      BY <1>1, <3>1
    <3> QED
      BY <2>1, <3>1, <3>2
  <2>3. CASE k # 1
    <3>1. PlaceValues(a)[k - 1] > 0
      BY <1>3, <2>1, <2>3
    <3>2. PlaceValues(a)[k - 1] * Base \in Nat /\ PlaceValues(a)[k - 1] * Base > 0
      BY <1>1, <2>1, <3>1
    <3>3. PlaceValues(a)[k] > 0
      BY <2>1, <3>2
    <3> QED
      BY <2>1, <3>3
  <2> QED
    BY <2>2, <2>3
<1> HIDE DEF S, m
<1>4. m \in S
  <2>1. 0..Len(a) \subseteq S
    BY <1>1, <1>2, <1>3, EveryPosition
  <2> QED
    BY <1>1, <2>1
<1>5. 0 \in T
  <2>1. m + 0 = m
    BY <1>1
  <2> QED
    BY <1>1, <1>4, <2>1, PlaceValue DEF S
<1>6. ASSUME NEW k \in 1..Len(b), k - 1 \in T PROVE k \in T
  <2>1. m + k \in 1..Len(a) /\ m + (k - 1) = (m + k) - 1 /\ (m + k) - 1 \in 0..Len(a)
        /\ k \in Nat /\ k - 1 \in 0..Len(b)
    BY <1>1 DEF m
  <2>2. /\ PlaceValues(a)[m + k] = PlaceValues(a)[(m + k) - 1] * Base + a[m + k]
        /\ PlaceValues(b)[k] = PlaceValues(b)[k - 1] * Base + b[k]
        /\ PlaceValues(a)[(m + k) - 1] \in Nat /\ PlaceValues(b)[k - 1] \in Nat
        /\ a[m + k] \in Digit /\ b[k] \in Digit
    BY <2>1, PlaceValue, DigitAt
  <2>3. PlaceValues(a)[(m + k) - 1] > PlaceValues(b)[k - 1]
    BY <1>6, <2>1
  <2> QED
    BY <2>1, <2>2, <2>3, GreaterStays
<1> HIDE DEF T
<1>7. Len(b) \in T
  <2>1. 0..Len(b) \subseteq T
    BY <1>1, <1>5, <1>6, EveryPosition
  <2> QED
    BY <1>1, <2>1
<1>8. m + Len(b) = Len(a)
  BY <1>1 DEF m
<1> QED
  BY <1>7, <1>8 DEF T, Value

\* Leading zeros do not count, and what is left of a number has none.
LEMMA SignificantDigits ==
    ASSUME NEW a \in Seq(Digit)
    PROVE  /\ Significant(a) \in Seq(Digit)
           /\ Significant(a) # << >> => Significant(a)[1] # 0
           /\ Value(Significant(a)) = Value(a)
<1> DEFINE I == {i \in 1..Len(a) : a[i] # 0}
           S == {k \in Nat : PlaceValues(a)[k] = 0}
<1>1. Len(a) \in Nat /\ Base \in Nat /\ 0 \in Digit
  BY LenProperties, BaseAssumption DEF Digit
<1>2. Significant(a) = IF I = {} THEN << >> ELSE SubSeq(a, Min(I), Len(a))
  <2>1. SelectInSeq(a, LAMBDA d : d # 0) = IF I # {} THEN Min(I) ELSE 0
    BY DEF SelectInSeq
  <2>2. I # {} => Min(I) \in I
    <3>1. SUFFICES ASSUME I # {} PROVE Min(I) \in I
      OBVIOUS
    <3>2. I \subseteq Nat
      OBVIOUS
    <3>3. \E k \in I : \A j \in I : k <= j
      BY <3>1, <3>2, FirstPosition
    <3> QED
      BY <3>3 DEF Min
  <2>3. I # {} => Min(I) # 0
    BY <2>2
  <2> QED
    BY <2>1, <2>3 DEF Significant
\* Zeros at the beginning add nothing.
<1>3. ASSUME NEW z \in 0..Len(a), \A k \in 1..z : a[k] = 0
      PROVE  PlaceValues(a)[z] = 0
  <2>1. 0 \in S
    BY PlaceValue
  <2>2. ASSUME NEW k \in 1..z, k - 1 \in S PROVE k \in S
    <3>1. k \in 1..Len(a) /\ k \in Nat /\ z \in Nat
      BY <1>1
    <3>2. PlaceValues(a)[k] = PlaceValues(a)[k - 1] * Base + a[k] /\ a[k] = 0
          /\ PlaceValues(a)[k - 1] = 0
      BY <1>3, <2>2, <3>1, PlaceValue
    <3> QED
      BY <1>1, <3>1, <3>2
  <2> HIDE DEF S
  <2>3. 0..z \subseteq S
    <3>1. z \in Nat
      BY <1>1
    <3> QED
      BY <2>1, <2>2, <3>1, EveryPosition
  <2> QED
    BY <1>1, <2>3 DEF S
<1>4. CASE I = {}
  <2>1. PlaceValues(a)[Len(a)] = 0
    BY <1>1, <1>3, <1>4
  <2>2. Significant(a) = << >> /\ << >> \in Seq(Digit) /\ Len(<< >>) = 0
    BY <1>2, <1>4
  <2>3. PlaceValues(<< >>)[0] = 0
    BY <2>2, PlaceValue
  <2> QED
    BY <2>1, <2>2, <2>3 DEF Value
<1>5. CASE I # {}
  <2> DEFINE i == Min(I)
             s == SubSeq(a, i, Len(a))
  <2>1. i \in I /\ \A j \in I : i <= j
    <3>1. I \subseteq Nat
      OBVIOUS
    <3>2. \E k \in I : \A j \in I : k <= j
      BY <1>5, <3>1, FirstPosition
    <3> QED
      BY <3>2 DEF Min
  <2> HIDE DEF i
  <2>2. i \in 1..Len(a) /\ a[i] # 0 /\ i - 1 \in 0..Len(a)
    BY <1>1, <2>1
  <2>3. /\ s \in Seq(Digit)
        /\ Len(s) = Len(a) - i + 1
        /\ \A k \in 1..(Len(a) - i + 1) : s[k] = a[i + k - 1]
    <3>1. \A k \in i..Len(a) : a[k] \in Digit
      BY <1>1, <2>2, DigitAt
    <3> QED
      BY <1>1, <2>2, <3>1, SubSeqProperties
  <2> HIDE DEF s
  <2>4. s[1] # 0
    <3>1. 1 \in 1..(Len(a) - i + 1) /\ i + 1 - 1 = i
      BY <1>1, <2>2
    <3> QED
      BY <2>2, <2>3, <3>1
  <2>5. PlaceValues(a)[i - 1] = 0
    <3>1. ASSUME NEW k \in 1..(i - 1) PROVE a[k] = 0
      <4>1. k \in 1..Len(a) /\ ~(i <= k)
        BY <1>1, <2>2
      <4> QED
        BY <2>1, <4>1
    <3> QED
      BY <1>3, <2>2, <3>1
  <2> DEFINE T == {k \in Nat : PlaceValues(s)[k] = PlaceValues(a)[(i - 1) + k]}
  <2>6. 0 \in T
    <3>1. (i - 1) + 0 = i - 1
      BY <2>2
    <3> QED
      BY <2>3, <2>5, <3>1, PlaceValue
  <2>7. ASSUME NEW k \in 1..Len(s), k - 1 \in T PROVE k \in T
    <3>1. /\ (i - 1) + k \in 1..Len(a) /\ k \in 1..(Len(a) - i + 1) /\ k \in Nat
          /\ ((i - 1) + k) - 1 = (i - 1) + (k - 1) /\ i + k - 1 = (i - 1) + k
      BY <1>1, <2>2, <2>3
    <3>2. /\ PlaceValues(s)[k] = PlaceValues(s)[k - 1] * Base + s[k]
          /\ PlaceValues(a)[(i - 1) + k] = PlaceValues(a)[((i - 1) + k) - 1] * Base + a[(i - 1) + k]
      BY <2>3, <3>1, PlaceValue
    <3>3. s[k] = a[(i - 1) + k]
      BY <2>3, <3>1
    <3>4. PlaceValues(s)[k - 1] = PlaceValues(a)[(i - 1) + (k - 1)]
      BY <2>7
    <3> QED
      BY <3>1, <3>2, <3>3, <3>4
  <2> HIDE DEF T
  <2>8. Len(s) \in T
    <3>1. Len(s) \in Nat
      BY <2>3, LenProperties
    <3>2. 0..Len(s) \subseteq T
      BY <2>6, <2>7, <3>1, EveryPosition
    <3> QED
      BY <3>1, <3>2
  <2>9. (i - 1) + Len(s) = Len(a)
    BY <1>1, <2>2, <2>3
  <2>10. Value(s) = Value(a)
    BY <2>8, <2>9 DEF T, Value
  <2>11. Significant(a) = s
    BY <1>2, <1>5 DEF s, i
  <2> QED
    BY <2>3, <2>4, <2>10, <2>11
<1> QED
  BY <1>4, <1>5

\* Longer, or as long and greater digit by digit: the number is greater.
LEMMA ComparisonOfValues ==
    ASSUME NEW a \in Seq(Digit), NEW limit \in Seq(Digit), limit # << >>, limit[1] # 0
    PROVE  LET digits == Significant(a)
           IN  /\ digits \in Seq(Digit) /\ Len(digits) \in Nat /\ Len(limit) \in Nat \ {0}
               /\ digits = << >> <=> Len(digits) = 0
               /\ Len(digits) > Len(limit) => Value(a) > Value(limit)
               /\ Len(digits) < Len(limit) => ~(Value(a) > Value(limit))
               /\ Len(digits) = Len(limit) =>
                     /\ GreaterThan(digits, limit) <=> Value(a) > Value(limit)
                     /\ BytesGreaterThanString(digits, limit) <=> Value(a) > Value(limit)
<1> DEFINE digits == Significant(a)
<1>1. /\ digits \in Seq(Digit) /\ (digits # << >> => digits[1] # 0)
      /\ Value(digits) = Value(a)
  BY SignificantDigits
<1> HIDE DEF digits
<1>2. Len(digits) \in Nat /\ Len(limit) \in Nat \ {0} /\ (digits = << >> <=> Len(digits) = 0)
  BY <1>1, EmptySeq, LenProperties
<1>3. Value(digits) \in Nat /\ Value(limit) \in Nat
  BY <1>1, ValueType
<1>4. Len(digits) > Len(limit) => Value(digits) > Value(limit)
  BY <1>1, <1>2, LongerIsGreater
<1>5. Len(digits) < Len(limit) => ~(Value(digits) > Value(limit))
  <2>1. SUFFICES ASSUME Len(digits) < Len(limit) PROVE ~(Value(digits) > Value(limit))
    OBVIOUS
  <2>2. Len(limit) > Len(digits)
    BY <1>2, <2>1
  <2>3. Value(limit) > Value(digits)
    BY <1>1, <2>2, LongerIsGreater
  <2> QED
    BY <1>3, <2>3
<1>6. Len(digits) = Len(limit) =>
         /\ GreaterThan(digits, limit) <=> Value(digits) > Value(limit)
         /\ BytesGreaterThanString(digits, limit) <=> Value(digits) > Value(limit)
  BY <1>1, GreaterThanIsGreater, BytesGreaterIsGreater
<1> QED
  BY <1>1, <1>2, <1>4, <1>5, <1>6 DEF digits

-----------------------------------------------------------------------------
(* The numbers of a row.                                                   *)

NumType == num \in [neg : BOOLEAN, digits : Seq(Digit), float : BOOLEAN]

\* A number is a sequence of digits with a sign, as far as it has been read.
THEOREM TypeCorrect == NumberSpec => []NumType
<1>1. BeginNumber => NumType
  BY EmptySeq DEF BeginNumber, NumType
<1>2. ASSUME NumType, [ReadNumber]_num PROVE NumType'
  <2>1. ASSUME NEW d \in Digit, ReadDigit(d) PROVE NumType'
    <3>1. Append(num.digits, d) \in Seq(Digit)
      BY <1>2, AppendProperties DEF NumType
    <3> QED
      BY <1>2, <2>1, <3>1 DEF NumType, ReadDigit
  <2>2. CASE ReadPointOrExponent
    BY <1>2, <2>2 DEF NumType, ReadPointOrExponent
  <2>3. CASE UNCHANGED num
    BY <1>2, <2>3 DEF NumType
  <2> QED
    BY <1>2, <2>1, <2>2, <2>3 DEF ReadNumber
<1> QED
  BY <1>1, <1>2, PTL DEF NumberSpec

\* shouldStringify and its likes compare texts, after leading zeros, a sign and
\* a difference in length have been dealt with; they accept exactly the
\* integers whose value is beyond the limit.
THEOREM StringifiedExactlyOutside == NumberSpec => []StringifiedIffOutside
<1>1. ASSUME NumType PROVE StringifiedIffOutside
  <2> DEFINE digits == Significant(num.digits)
             signed == IF num.neg THEN MinInt64Abs ELSE MaxInt64
             unsigned == IF num.neg THEN MinInt64Abs ELSE MaxUint64
  <2>1. num.digits \in Seq(Digit) /\ num.neg \in BOOLEAN /\ num.float \in BOOLEAN
    BY <1>1 DEF NumType
  <2>2. /\ signed \in Seq(Digit) /\ signed # << >> /\ signed[1] # 0
        /\ unsigned \in Seq(Digit) /\ unsigned # << >> /\ unsigned[1] # 0
        /\ Len(MaxInt64) = Len(signed)
    BY LimitsAssumption
  <2>3. /\ Len(digits) \in Nat /\ Len(signed) \in Nat \ {0}
        /\ digits = << >> <=> Len(digits) = 0
        /\ Len(digits) > Len(signed) => Value(num.digits) > Value(signed)
        /\ Len(digits) < Len(signed) => ~(Value(num.digits) > Value(signed))
        /\ Len(digits) = Len(signed) =>
              /\ GreaterThan(digits, signed) <=> Value(num.digits) > Value(signed)
              /\ BytesGreaterThanString(digits, signed) <=> Value(num.digits) > Value(signed)
    BY <2>1, <2>2, ComparisonOfValues
  <2>4. /\ Len(unsigned) \in Nat \ {0}
        /\ Len(digits) > Len(unsigned) => Value(num.digits) > Value(unsigned)
        /\ Len(digits) < Len(unsigned) => ~(Value(num.digits) > Value(unsigned))
        /\ Len(digits) = Len(unsigned) =>
              (GreaterThan(digits, unsigned) <=> Value(num.digits) > Value(unsigned))
    BY <2>1, <2>2, ComparisonOfValues
  <2>5. /\ Outside(num, MaxInt64) <=> Value(num.digits) > Value(signed)
        /\ Outside(num, MaxUint64) <=> Value(num.digits) > Value(unsigned)
    BY <2>1 DEF Outside
  <2>6. CleanShouldStringify(num) <=>
           /\ ~num.float
           /\ \/ Len(digits) > Len(unsigned)
              \/ Len(digits) = Len(unsigned) /\ GreaterThan(digits, unsigned)
    BY DEF CleanShouldStringify
  <2>7. DedupShouldStringify(num) <=>
           /\ ~num.float
           /\ digits # << >>
           /\ Len(digits) >= Len(signed)
           /\ Len(digits) > Len(signed) \/ GreaterThan(digits, signed)
    BY <2>1, <2>2 DEF DedupShouldStringify
  <2>8. RemoveShouldStringify(num) <=>
           /\ ~num.float
           /\ digits # << >>
           /\ Len(digits) >= Len(signed)
           /\ Len(digits) = Len(signed) => BytesGreaterThanString(digits, signed)
    BY <2>2 DEF RemoveShouldStringify
  <2>9. StripShouldStringify(num) <=>
           /\ ~num.float
           /\ IF Len(digits) # Len(signed) THEN Len(digits) > Len(signed)
                                           ELSE GreaterThan(digits, signed)
    BY DEF StripShouldStringify
  <2> HIDE DEF digits, signed, unsigned
  <2>10. CleanShouldStringify(num) <=> ~num.float /\ Outside(num, MaxUint64)
    BY <2>3, <2>4, <2>5, <2>6
  <2>11. DedupShouldStringify(num) <=> ~num.float /\ Outside(num, MaxInt64)
    BY <2>3, <2>5, <2>7
  <2>12. RemoveShouldStringify(num) <=> ~num.float /\ Outside(num, MaxInt64)
    BY <2>3, <2>5, <2>8
  <2>13. StripShouldStringify(num) <=> ~num.float /\ Outside(num, MaxInt64)
    BY <2>3, <2>5, <2>9
  <2> QED
    BY <2>10, <2>11, <2>12, <2>13, Zenon DEF StringifiedIffOutside
<1> QED
  BY <1>1, TypeCorrect, PTL
=============================================================================
