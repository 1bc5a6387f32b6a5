-------------------------- MODULE DecompressProofs --------------------------
(***************************************************************************)
(* Proofs about Decompress, for rows of any number and size.               *)
(***************************************************************************)
EXTENDS Decompress, SequenceLemmas

-----------------------------------------------------------------------------
(* Lengths.                                                                *)

\* Division with remainder.
LEMMA Division ==
    ASSUME NEW n \in Nat, NEW b \in Nat, b > 1
    PROVE  /\ n % b \in 0..(b - 1)
           /\ n \div b \in Nat
           /\ (n \div b) * b + (n % b) = n
           /\ n >= b => n \div b < n
<1> DEFINE q == n \div b
           r == n % b
<1>1. q \in Int /\ r \in 0..(b - 1)
  OBVIOUS
<1>2. n = b * q + r
  OBVIOUS
<1> HIDE DEF q, r
<1>3. q * b = b * q
  BY <1>1
<1>4. q >= 0
  <2>1. SUFFICES ASSUME q <= -1 PROVE FALSE
    BY <1>1
  <2>2. b * q <= -b
    BY <1>1, <2>1
  <2> QED
    BY <1>1, <1>2, <2>2
<1>5. ASSUME n >= b PROVE q < n
  <2>1. SUFFICES ASSUME q >= n PROVE FALSE
    BY <1>1
  <2>2. b * q >= 2 * q
    BY <1>1, <1>4
  <2> QED
    BY <1>1, <1>2, <1>4, <1>5, <2>1, <2>2
<1> QED
  BY <1>1, <1>2, <1>3, <1>4, <1>5 DEF q, r

\* The limits are numbers.
LEMMA Limits ==
    /\ MaxOutput \in Nat
    /\ MaxInt \in Nat /\ MaxInt > 0
    /\ LengthBase \in Nat /\ LengthBase > 1
<1> QED
  BY LimitsOfSizes

\* The units of a length, each from those of the higher digits.
LEMMA PutUvarintUnits ==
    /\ PutUvarint \in [Nat -> Seq(LengthUnits)]
    /\ \A n \in Nat :
          PutUvarint[n] =
             IF n < LengthBase THEN <<[kind |-> "length", digit |-> n, more |-> FALSE]>>
             ELSE <<[kind |-> "length", digit |-> n % LengthBase, more |-> TRUE]>>
                     \o PutUvarint[n \div LengthBase]
<1> DEFINE one(n) == <<[kind |-> "length", digit |-> n, more |-> FALSE]>>
           low(n) == <<[kind |-> "length", digit |-> n % LengthBase, more |-> TRUE]>>
           V == Seq(LengthUnits)
           stop == 0..(LengthBase - 1)
           val == [n \in Nat |-> one(n)]
           comb == [p \in Nat \X V |-> low(p[1]) \o p[2]]
           next == [n \in Nat |-> n \div LengthBase]
<1>1. ASSUME NEW n \in Nat
      PROVE  /\ n \in stop <=> n < LengthBase
             /\ n \in stop => val[n] \in V
             /\ n \notin stop => next[n] \in Nat /\ next[n] < n
             /\ low(n) \in V
             /\ \A v \in V : comb[<<n, v>>] = low(n) \o v /\ comb[<<n, v>>] \in V
  <2>1. n \in stop <=> n < LengthBase
    BY Limits
  <2>2. n \in stop => val[n] \in V
    <3>1. SUFFICES ASSUME n \in stop PROVE one(n) \in V
      OBVIOUS
    <3>2. [kind |-> "length", digit |-> n, more |-> FALSE] \in LengthUnits
      BY <3>1 DEF LengthUnits
    <3> QED
      BY <3>2
  <2>3. n \notin stop => next[n] \in Nat /\ next[n] < n
    BY <2>1, Limits, Division
  <2>4. low(n) \in V
    <3>1. n % LengthBase \in 0..(LengthBase - 1)
      BY Limits, Division
    <3>2. [kind |-> "length", digit |-> n % LengthBase, more |-> TRUE] \in LengthUnits
      BY <3>1 DEF LengthUnits
    <3> QED
      BY <3>2
  <2>5. ASSUME NEW v \in V PROVE comb[<<n, v>>] = low(n) \o v /\ comb[<<n, v>>] \in V
    <3>1. comb[<<n, v>>] = low(n) \o v
      OBVIOUS
    <3> HIDE DEF comb, low
    <3>2. low(n) \o v \in V
      BY <2>4, ConcatProperties
    <3> QED
      BY <3>1, <3>2
  <2> HIDE DEF stop, val, comb, next, low
  <2> QED
    BY <2>1, <2>2, <2>3, <2>4, <2>5
<1>2. PICK f : Solves(f, Nat, V, stop, val, comb, next)
  <2> HIDE DEF stop, val, comb, next, V
  <2>1. LeadsDown(Nat, V, stop, val, comb, next)
    BY <1>1 DEF LeadsDown
  <2> QED
    BY <2>1, RecursionToSmaller
<1> DEFINE Body(g) == [n \in Nat |-> IF n < LengthBase THEN one(n)
                                    ELSE low(n) \o g[n \div LengthBase]]
<1>3. ASSUME NEW g \in [Nat -> V], NEW n \in Nat
      PROVE  (IF n \in stop THEN val[n] ELSE comb[<<n, g[next[n]]>>]) = Body(g)[n]
  <2>1. CASE n \in stop
    BY <1>1, <2>1
  <2>2. CASE n \notin stop
    <3>1. next[n] \in Nat /\ next[n] = n \div LengthBase
      BY <1>1, <2>2
    <3>2. g[next[n]] \in V
      BY <3>1
    <3>3. comb[<<n, g[next[n]]>>] = low(n) \o g[n \div LengthBase]
      <4> HIDE DEF low, V, comb, next
      <4> QED
        BY <1>1, <3>1, <3>2
    <3>4. Body(g)[n] = low(n) \o g[n \div LengthBase]
      <4> HIDE DEF low, one
      <4> QED
        BY <1>1, <2>2
    <3> QED
      BY <2>2, <3>3, <3>4
  <2> QED
    BY <2>1, <2>2
<1>4. f = Body(f)
  <2> DEFINE e == Body(f)
  <2>1. \A n \in Nat : f[n] = e[n]
    <3> HIDE DEF stop, val, comb, next, e
    <3> QED
      BY <1>2, <1>3 DEF e, Solves
  <2>2. e = [n \in Nat |-> e[n]]
    OBVIOUS
  <2> HIDE DEF e
  <2>3. f = e
    BY <1>2, <2>1, <2>2 DEF Solves
  <2> QED
    BY <2>3 DEF e
<1>5. PutUvarint = Body(PutUvarint)
  <2>1. PutUvarint = CHOOSE g : g = Body(g)
    BY DEF PutUvarint
  <2>2. \E g : g = Body(g)
    BY <1>4
  <2> HIDE DEF Body
  <2> QED
    BY <2>1, <2>2
<1>6. ASSUME NEW n \in Nat PROVE PutUvarint[n] \in V
  <2> DEFINE T == {m \in Nat : \A k \in 0..m : PutUvarint[k] \in V}
  <2>1. ASSUME NEW m \in Nat, m > 0 => m - 1 \in T PROVE m \in T
    <3>1. ASSUME NEW k \in Nat, k < m PROVE PutUvarint[k] \in V
      <4>1. k \in 0..(m - 1) /\ m > 0
        BY <3>1
      <4> QED
        BY <2>1, <4>1
    <3>2. PutUvarint[m] \in V
      <4>1. CASE m < LengthBase
        <5>1. PutUvarint[m] = one(m)
          <6> HIDE DEF one, low
          <6> QED
            BY <1>5, <4>1
        <5>2. one(m) \in V
          BY <1>1, <4>1
        <5> QED
          BY <5>1, <5>2
      <4>2. CASE ~(m < LengthBase)
        <5>1. PutUvarint[m] = low(m) \o PutUvarint[m \div LengthBase]
          <6> HIDE DEF one, low
          <6> QED
            BY <1>5, <4>2
        <5>2. m \div LengthBase \in Nat /\ m \div LengthBase < m
          BY <4>2, Limits, Division
        <5>3. PutUvarint[m \div LengthBase] \in V
          BY <3>1, <5>2
        <5> HIDE DEF low
        <5> QED
          BY <1>1, <5>1, <5>3, ConcatProperties
      <4> QED
        BY <4>1, <4>2
    <3> HIDE DEF V
    <3>3. ASSUME NEW k \in 0..m PROVE PutUvarint[k] \in V
      <4>1. k < m \/ k = m
        OBVIOUS
      <4> QED
        BY <3>1, <3>2, <4>1
    <3> QED
      BY <3>3
  <2> HIDE DEF T
  <2>2. n \in T
    <3>1. 0 \in T
      BY <2>1
    <3>2. \A k \in 1..n : k - 1 \in T => k \in T
      BY <2>1
    <3>3. 0..n \subseteq T
      BY <3>1, <3>2, EveryPosition
    <3> QED
      BY <3>3
  <2> QED
    BY <2>2 DEF T
<1>7. PutUvarint \in [Nat -> V]
  <2> HIDE DEF one, low
  <2> QED
    BY <1>5, <1>6
<1>8. \A n \in Nat : PutUvarint[n] = Body(PutUvarint)[n]
  <2> HIDE DEF Body
  <2> QED
    BY <1>5
<1> QED
  BY <1>7, <1>8

\* The values of the last units of a length, each from those after it.
LEMMA UvarintValues ==
    ASSUME NEW units \in Seq(LengthUnits)
    PROVE  \E f \in [0..Len(units) -> Nat] :
              /\ f[0] = 0
              /\ \A k \in 1..Len(units) :
                    f[k] = f[k - 1] * LengthBase + units[Len(units) - k + 1].digit
              /\ Uvarint(units) = f[Len(units)]
<1> DEFINE N == Len(units)
           D == 0..N
           digit(k) == units[N - k + 1].digit
           val == [k \in D |-> 0]
           comb == [p \in D \X Nat |-> p[2] * LengthBase + digit(p[1])]
           next == [k \in D |-> k - 1]
           Body(g) == [k \in D |-> IF k = 0 THEN 0 ELSE g[k - 1] * LengthBase + digit(k)]
<1>1. N \in Nat
  BY LenProperties
<1>2. ASSUME NEW k \in 1..N PROVE digit(k) \in Nat
  <2>1. N - k + 1 \in 1..Len(units)
    BY <1>1
  <2>2. units[N - k + 1] \in LengthUnits
    BY <2>1, ElementOfSeq
  <2> QED
    BY <2>2, Limits DEF LengthUnits
<1>3. ASSUME NEW k \in D, k # 0, NEW v \in Nat
      PROVE  comb[<<k, v>>] = v * LengthBase + digit(k) /\ comb[<<k, v>>] \in Nat
  <2>1. k \in 1..N
    BY <1>1, <1>3
  <2>2. comb[<<k, v>>] = v * LengthBase + digit(k)
    OBVIOUS
  <2>3. digit(k) \in Nat
    BY <1>2, <2>1
  <2> HIDE DEF comb, digit
  <2>4. v * LengthBase \in Nat
    BY Limits
  <2> QED
    BY <2>2, <2>3, <2>4
<1>4. PICK f : Solves(f, D, Nat, {0}, val, comb, next)
  <2>1. \A k \in D : k \in {0} => val[k] \in Nat
    OBVIOUS
  <2>2. \A k \in D : k \notin {0} => next[k] \in D /\ next[k] < k
    BY <1>1
  <2>3. \A k \in D : k \notin {0} => \A v \in Nat : comb[<<k, v>>] \in Nat
    BY <1>3
  <2>4. D \in SUBSET Nat
    BY <1>1
  <2> HIDE DEF D, val, comb, next
  <2>5. LeadsDown(D, Nat, {0}, val, comb, next)
    BY <2>1, <2>2, <2>3, <2>4 DEF LeadsDown
  <2> QED
    BY <2>5, RecursionToSmaller
<1>5. f = Body(f)
  <2> DEFINE e == Body(f)
  <2>1. ASSUME NEW k \in D PROVE f[k] = e[k]
    <3>1. CASE k = 0
      BY <1>4, <3>1 DEF Solves
    <3>2. CASE k # 0
      <4>1. next[k] = k - 1 /\ k - 1 \in D /\ f[k - 1] \in Nat
        BY <1>1, <1>4, <3>2 DEF Solves
      <4>2. f[k] = comb[<<k, f[k - 1]>>]
        <5> HIDE DEF comb, D, next, val
        <5> QED
          BY <1>4, <3>2, <4>1 DEF Solves
      <4>3. f[k] = f[k - 1] * LengthBase + digit(k)
        <5> HIDE DEF comb, D, digit
        <5> QED
          BY <1>3, <3>2, <4>1, <4>2
      <4> QED
        BY <3>2, <4>3
    <3> QED
      BY <3>1, <3>2
  <2>2. e = [k \in D |-> e[k]] /\ f = [k \in D |-> f[k]]
    BY <1>4 DEF Solves
  <2> HIDE DEF e, D
  <2>3. f = e
    BY <2>1, <2>2
  <2> QED
    BY <2>3 DEF e
<1> DEFINE F == CHOOSE g : g = Body(g)
<1>6. F = Body(F)
  <2> HIDE DEF Body
  <2> QED
    BY <1>5
<1>7. Uvarint(units) = F[N]
  BY DEF Uvarint
<1> HIDE DEF F
<1>8. \A k \in D : F[k] = IF k = 0 THEN 0 ELSE F[k - 1] * LengthBase + digit(k)
  <2>1. \A k \in D : F[k] = Body(F)[k]
    <3> HIDE DEF Body
    <3> QED
      BY <1>6
  <2> QED
    BY <2>1
<1>9. \A k \in D : F[k] \in Nat
  <2> DEFINE T == {k \in D : F[k] \in Nat}
  <2>1. 0 \in T
    BY <1>1, <1>8
  <2>2. ASSUME NEW k \in 1..N, k - 1 \in T PROVE k \in T
    <3>1. k \in D /\ k # 0
      BY <1>1
    <3>2. F[k] = F[k - 1] * LengthBase + digit(k)
      <4> HIDE DEF D, digit
      <4> QED
        BY <1>8, <3>1
    <3>3. digit(k) \in Nat /\ F[k - 1] \in Nat
      BY <1>2, <2>2
    <3> HIDE DEF digit
    <3>4. F[k - 1] * LengthBase \in Nat
      BY <3>3, Limits
    <3> QED
      BY <3>1, <3>2, <3>3, <3>4
  <2> HIDE DEF T
  <2>3. 0..N \subseteq T
    BY <1>1, <2>1, <2>2, EveryPosition
  <2> QED
    BY <2>3 DEF T
<1>10. F \in [D -> Nat]
  <2>1. F = [k \in D |-> F[k]]
    BY <1>6
  <2> HIDE DEF D
  <2> QED
    BY <1>9, <2>1
<1>11. F[0] = 0 /\ \A k \in 1..N : F[k] = F[k - 1] * LengthBase + digit(k)
  <2>1. 0 \in D /\ \A k \in 1..N : k \in D /\ k # 0
    BY <1>1
  <2> HIDE DEF D, digit
  <2> QED
    BY <1>8, <2>1
<1> QED
  BY <1>7, <1>10, <1>11

\* No units stand for 0.
LEMMA UvarintNone == Uvarint(<< >>) = 0
<1>1. << >> \in Seq(LengthUnits) /\ Len(<< >>) = 0
  BY EmptySeq
<1> QED
  BY <1>1, UvarintValues

\* A unit before others is the lowest digit.
LEMMA UvarintNext ==
    ASSUME NEW u \in LengthUnits, NEW q \in Seq(LengthUnits)
    PROVE  Uvarint(<<u>> \o q) = Uvarint(q) * LengthBase + u.digit
<1> DEFINE p == <<u>> \o q
           N == Len(q)
<1>1. N \in Nat /\ <<u>> \in Seq(LengthUnits) /\ Len(<<u>>) = 1
  BY LenProperties
<1>2. /\ p \in Seq(LengthUnits) /\ Len(p) = N + 1
      /\ p[1] = u /\ \A i \in 2..(N + 1) : p[i] = q[i - 1]
  <2>1. /\ p \in Seq(LengthUnits) /\ Len(p) = 1 + N
        /\ \A i \in 1..(1 + N) : p[i] = IF i <= 1 THEN <<u>>[i] ELSE q[i - 1]
    BY <1>1, ConcatProperties
  <2> HIDE DEF p
  <2>2. p[1] = u
    BY <1>1, <2>1
  <2>3. \A i \in 2..(N + 1) : p[i] = q[i - 1]
    BY <1>1, <2>1
  <2> QED
    BY <1>1, <2>1, <2>2, <2>3
<1> HIDE DEF p
<1>3. PICK f \in [0..(N + 1) -> Nat] :
          /\ f[0] = 0
          /\ \A k \in 1..(N + 1) : f[k] = f[k - 1] * LengthBase + p[(N + 1) - k + 1].digit
          /\ Uvarint(p) = f[N + 1]
  <2>1. \E f \in [0..Len(p) -> Nat] :
              /\ f[0] = 0
              /\ \A k \in 1..Len(p) :
                    f[k] = f[k - 1] * LengthBase + p[Len(p) - k + 1].digit
              /\ Uvarint(p) = f[Len(p)]
    BY <1>2, UvarintValues
  <2> QED
    BY <1>2, <2>1
<1>4. PICK g \in [0..N -> Nat] :
          /\ g[0] = 0
          /\ \A k \in 1..N : g[k] = g[k - 1] * LengthBase + q[N - k + 1].digit
          /\ Uvarint(q) = g[N]
  BY UvarintValues
<1> DEFINE T == {k \in 0..N : f[k] = g[k]}
<1>5. 0 \in T
  BY <1>1, <1>3, <1>4
<1>6. ASSUME NEW k \in 1..N, k - 1 \in T PROVE k \in T
  <2> DEFINE i == (N + 1) - k + 1
  <2>1. k \in 1..(N + 1) /\ k \in 0..N /\ i \in 2..(N + 1) /\ i - 1 = N - k + 1
    BY <1>1
  <2> HIDE DEF i
  <2>2. p[i].digit = q[N - k + 1].digit
    BY <1>2, <2>1
  <2>3. f[k] = f[k - 1] * LengthBase + p[i].digit
    BY <1>3, <2>1 DEF i
  <2>4. f[k - 1] = g[k - 1]
    BY <1>6
  <2>5. f[k] = g[k]
    BY <1>4, <2>2, <2>3, <2>4
  <2> QED
    BY <2>1, <2>5
<1> HIDE DEF T
<1>7. f[N] = g[N]
  <2>1. 0..N \subseteq T
    BY <1>1, <1>5, <1>6, EveryPosition
  <2> QED
    BY <1>1, <2>1 DEF T
<1>8. f[N + 1] = f[N] * LengthBase + u.digit
  <2>1. N + 1 \in 1..(N + 1) /\ (N + 1) - 1 = N /\ (N + 1) - (N + 1) + 1 = 1
    BY <1>1
  <2>2. f[N + 1] = f[(N + 1) - 1] * LengthBase + p[(N + 1) - (N + 1) + 1].digit
    BY <1>3, <2>1
  <2> QED
    BY <1>2, <2>1, <2>2
<1> QED
  BY <1>3, <1>4, <1>7, <1>8 DEF p

\* A length is written in units of which only the last ends it, and which give
\* the length again.
LEMMA LengthReadsBack ==
    ASSUME NEW n \in Nat
    PROVE  /\ PutUvarint[n] \in Seq(LengthUnits)
           /\ Len(PutUvarint[n]) \in Nat \ {0}
           /\ \A i \in 1..Len(PutUvarint[n]) : /\ PutUvarint[n][i].kind = "length"
                                               /\ PutUvarint[n][i].more <=> i < Len(PutUvarint[n])
           /\ Uvarint(PutUvarint[n]) = n
<1> DEFINE Fine(p, m) == /\ p \in Seq(LengthUnits)
                         /\ Len(p) \in Nat \ {0}
                         /\ \A i \in 1..Len(p) : p[i].kind = "length" /\ (p[i].more <=> i < Len(p))
                         /\ Uvarint(p) = m
           T == {m \in Nat : \A k \in 0..m : Fine(PutUvarint[k], k)}
<1>1. ASSUME NEW m \in Nat, m < LengthBase PROVE Fine(PutUvarint[m], m)
  <2> DEFINE u == [kind |-> "length", digit |-> m, more |-> FALSE]
  <2>1. PutUvarint[m] = <<u>>
    BY <1>1, PutUvarintUnits
  <2>2. u \in LengthUnits /\ u.kind = "length" /\ u.more = FALSE /\ u.digit = m
    BY <1>1, Limits DEF LengthUnits
  <2> HIDE DEF u
  <2>3. <<u>> \in Seq(LengthUnits) /\ Len(<<u>>) = 1 /\ <<u>>[1] = u
    BY <2>2
  <2>4. Uvarint(<<u>>) = m
    <3>1. << >> \in Seq(LengthUnits) /\ <<u>> \o << >> = <<u>>
      BY <2>3, ConcatEmptySeq, EmptySeq
    <3>2. Uvarint(<<u>> \o << >>) = Uvarint(<< >>) * LengthBase + u.digit
      BY <2>2, <3>1, UvarintNext
    <3> QED
      BY <2>2, <3>1, <3>2, UvarintNone, Limits
  <2>5. Fine(<<u>>, m)
    BY <2>2, <2>3, <2>4
  <2> HIDE DEF Fine
  <2> QED
    BY <2>1, <2>5
<1>2. ASSUME NEW m \in Nat, ~(m < LengthBase), Fine(PutUvarint[m \div LengthBase], m \div LengthBase)
      PROVE  Fine(PutUvarint[m], m)
  <2> DEFINE u == [kind |-> "length", digit |-> m % LengthBase, more |-> TRUE]
             q == PutUvarint[m \div LengthBase]
             p == <<u>> \o q
  <2>1. PutUvarint[m] = p
    BY <1>2, PutUvarintUnits
  <2>2. u \in LengthUnits /\ u.kind = "length" /\ u.more = TRUE /\ u.digit = m % LengthBase
    <3>1. m % LengthBase \in 0..(LengthBase - 1)
      BY Limits, Division
    <3> QED
      BY <3>1 DEF LengthUnits
  <2>3. Fine(q, m \div LengthBase)
    BY <1>2
  <2> HIDE DEF u, q
  <2>4. <<u>> \in Seq(LengthUnits) /\ Len(<<u>>) = 1 /\ <<u>>[1] = u /\ Len(q) \in Nat \ {0}
    BY <2>2, <2>3
  <2>5. /\ p \in Seq(LengthUnits) /\ Len(p) = 1 + Len(q)
        /\ \A i \in 1..(1 + Len(q)) : p[i] = IF i <= 1 THEN <<u>>[i] ELSE q[i - 1]
    BY <2>3, <2>4, ConcatProperties
  <2>6. Uvarint(p) = m
    <3>1. Uvarint(p) = (m \div LengthBase) * LengthBase + (m % LengthBase)
      BY <2>2, <2>3, UvarintNext
    <3> QED
      BY <3>1, Limits, Division
  <2> HIDE DEF p
  <2>7. ASSUME NEW i \in 1..Len(p) PROVE p[i].kind = "length" /\ (p[i].more <=> i < Len(p))
    <3>1. i \in 1..(1 + Len(q))
      BY <2>5
    <3>2. CASE i = 1
      <4>1. p[i] = u /\ i < Len(p)
        BY <2>4, <2>5, <3>1, <3>2
      <4> QED
        BY <2>2, <4>1
    <3>3. CASE i # 1
      <4>1. p[i] = q[i - 1] /\ i - 1 \in 1..Len(q) /\ (i - 1 < Len(q) <=> i < Len(p))
        BY <2>4, <2>5, <3>1, <3>3
      <4> QED
        BY <2>3, <4>1
    <3> QED
      BY <3>2, <3>3
  <2>8. Fine(p, m)
    <3>1. Len(p) \in Nat \ {0}
      BY <2>4, <2>5
    <3> QED
      BY <2>5, <2>6, <2>7, <3>1
  <2> HIDE DEF Fine
  <2> QED
    BY <2>1, <2>8
<1> HIDE DEF Fine
<1>3. ASSUME NEW m \in Nat, m > 0 => m - 1 \in T PROVE m \in T
  <2>1. ASSUME NEW k \in Nat, k < m PROVE Fine(PutUvarint[k], k)
    <3>1. k \in 0..(m - 1) /\ m > 0
      BY <2>1
    <3> QED
      BY <1>3, <3>1
  <2>2. Fine(PutUvarint[m], m)
    <3>1. CASE m < LengthBase
      BY <1>1, <3>1
    <3>2. CASE ~(m < LengthBase)
      <4>1. m \div LengthBase \in Nat /\ m \div LengthBase < m
        BY <3>2, Limits, Division
      <4> QED
        BY <1>2, <2>1, <3>2, <4>1
    <3> QED
      BY <3>1, <3>2
  <2>3. ASSUME NEW k \in 0..m PROVE Fine(PutUvarint[k], k)
    <3>1. k < m \/ k = m
      OBVIOUS
    <3> QED
      BY <2>1, <2>2, <3>1
  <2> QED
    BY <2>3
<1> HIDE DEF T
<1>4. n \in T
  <2>1. 0 \in T
    BY <1>3
  <2>2. \A k \in 1..n : k - 1 \in T => k \in T
    BY <1>3
  <2>3. 0..n \subseteq T
    BY <2>1, <2>2, EveryPosition
  <2> QED
    BY <2>3
<1>5. Fine(PutUvarint[n], n)
  BY <1>4 DEF T
<1> QED
  BY <1>5 DEF Fine

-----------------------------------------------------------------------------
(* Strings.                                                                *)

EndsLength(u) == u.kind = "length" /\ ~u.more

\* Where the first unit is that ends a length.
LEMMA EndOfLength ==
    ASSUME NEW units \in Seq(Units), NEW n \in 1..Len(units), EndsLength(units[n]),
           \A i \in 1..(n - 1) : ~EndsLength(units[i])
    PROVE  SelectInSeq(units, LAMBDA u : u.kind = "length" /\ ~u.more) = n
<1> DEFINE I == {i \in 1..Len(units) : EndsLength(units[i])}
<1>1. SelectInSeq(units, LAMBDA u : u.kind = "length" /\ ~u.more) = IF I # {} THEN Min(I) ELSE 0
  BY DEF SelectInSeq, EndsLength
<1>2. Len(units) \in Nat /\ n \in I
  BY LenProperties
<1>3. \A i \in I : i \in Nat /\ n <= i
  <2>1. SUFFICES ASSUME NEW i \in I PROVE i \in Nat /\ n <= i
    OBVIOUS
  <2>2. i \in 1..Len(units) /\ EndsLength(units[i])
    OBVIOUS
  <2>3. i \notin 1..(n - 1)
    BY <2>2
  <2> QED
    BY <1>2, <2>2, <2>3
<1> HIDE DEF I
<1>4. Min(I) = n
  <2>1. Min(I) \in I /\ \A y \in I : Min(I) <= y
    BY <1>2, <1>3 DEF Min
  <2>2. Min(I) <= n
    BY <1>2, <2>1
  <2>3. Min(I) \in Nat /\ n <= Min(I)
    BY <1>3, <2>1
  <2> HIDE DEF EndsLength
  <2> QED
    BY <2>2, <2>3
<1>5. I # {}
  BY <1>2
<1> QED
  BY <1>1, <1>4, <1>5

LEMMA NoEndOfLength ==
    ASSUME NEW units \in Seq(Units), \A i \in 1..Len(units) : ~EndsLength(units[i])
    PROVE  SelectInSeq(units, LAMBDA u : u.kind = "length" /\ ~u.more) = 0
<1> DEFINE I == {i \in 1..Len(units) : EndsLength(units[i])}
<1>1. SelectInSeq(units, LAMBDA u : u.kind = "length" /\ ~u.more) = IF I # {} THEN Min(I) ELSE 0
  BY DEF SelectInSeq, EndsLength
<1>2. I = {}
  OBVIOUS
<1> QED
  BY <1>1, <1>2

\* A length as a sequence of units.
LEMMA LengthAsUnits ==
    ASSUME NEW n \in Nat
    PROVE  /\ PutUvarint[n] \in Seq(Units)
           /\ Len(PutUvarint[n]) \in Nat \ {0}
           /\ EndsLength(PutUvarint[n][Len(PutUvarint[n])])
           /\ \A i \in 1..(Len(PutUvarint[n]) - 1) : ~EndsLength(PutUvarint[n][i])
           /\ Uvarint(PutUvarint[n]) = n
<1> DEFINE p == PutUvarint[n]
<1>1. /\ p \in Seq(LengthUnits) /\ Len(p) \in Nat \ {0} /\ Uvarint(p) = n
      /\ \A i \in 1..Len(p) : p[i].kind = "length" /\ (p[i].more <=> i < Len(p))
  BY LengthReadsBack
<1> HIDE DEF p
<1>2. p \in Seq(Units)
  BY <1>1, SeqMonotonic DEF Units
<1>3. EndsLength(p[Len(p)])
  <2>1. Len(p) \in 1..Len(p) /\ ~(Len(p) < Len(p))
    BY <1>1
  <2> QED
    BY <1>1, <2>1 DEF EndsLength
<1>4. ASSUME NEW i \in 1..(Len(p) - 1) PROVE ~EndsLength(p[i])
  <2>1. i \in 1..Len(p) /\ i < Len(p)
    BY <1>1
  <2> QED
    BY <1>1, <2>1 DEF EndsLength
<1> QED
  BY <1>1, <1>2, <1>3, <1>4 DEF p

\* What is written as a string is units.
LEMMA PutStringType ==
    ASSUME NEW s \in Seq(Units)
    PROVE  /\ PutString(s) \in Seq(Units)
           /\ Len(s) \in Nat
           /\ Len(PutString(s)) = Len(PutUvarint[Len(s)]) + Len(s)
<1>1. Len(s) \in Nat
  BY LenProperties
<1>2. PutUvarint[Len(s)] \in Seq(Units)
  BY <1>1, LengthAsUnits
<1> QED
  BY <1>1, <1>2, ConcatProperties DEF PutString

\* What readString does once it has the length.
LEMMA ReadAfterLength ==
    ASSUME NEW n \in Nat, NEW q \in Seq(Units)
    PROVE  /\ n > MaxInt => ReadString(PutUvarint[n] \o q).err = "limit"
           /\ n <= MaxInt /\ n > Len(q) => ReadString(PutUvarint[n] \o q).err = "ErrUnexpectedEOF"
           /\ n <= MaxInt /\ n <= Len(q) =>
                 ReadString(PutUvarint[n] \o q) =
                    [err |-> "none", value |-> SubSeq(q, 1, n), rest |-> SubSeq(q, n + 1, Len(q))]
<1> DEFINE p == PutUvarint[n]
           units == p \o q
           last == SelectInSeq(units, LAMBDA u : u.kind = "length" /\ ~u.more)
<1>1. /\ p \in Seq(Units) /\ Len(p) \in Nat \ {0} /\ EndsLength(p[Len(p)]) /\ Uvarint(p) = n
      /\ \A i \in 1..(Len(p) - 1) : ~EndsLength(p[i])
  BY LengthAsUnits
<1> HIDE DEF p
<1>2. /\ units \in Seq(Units) /\ Len(q) \in Nat /\ Len(units) = Len(p) + Len(q)
      /\ \A i \in 1..Len(p) : units[i] = p[i]
      /\ SubSeq(units, 1, Len(p)) = p
      /\ SubSeq(units, Len(p) + 1, Len(p) + Len(q)) = q
  BY <1>1, ConcatParts
<1> HIDE DEF units
<1>3. last = Len(p)
  <2>1. Len(p) \in 1..Len(units) /\ Len(p) \in 1..Len(p)
    BY <1>1, <1>2
  <2>2. EndsLength(units[Len(p)])
    BY <1>1, <1>2, <2>1
  <2>3. ASSUME NEW i \in 1..(Len(p) - 1) PROVE ~EndsLength(units[i])
    <3>1. i \in 1..Len(p)
      BY <1>1
    <3> QED
      BY <1>1, <1>2, <3>1
  <2> QED
    BY <1>2, <2>1, <2>2, <2>3, EndOfLength
<1>4. Uvarint(SubSeq(units, 1, last)) = n /\ SubSeq(units, last + 1, Len(units)) = q
  BY <1>1, <1>2, <1>3
<1>5. units # << >> /\ last # 0
  <2>1. Len(units) # 0
    BY <1>1, <1>2
  <2> QED
    BY <1>1, <1>3, <2>1, EmptySeq
<1> HIDE DEF last
<1>6. ReadString(units) =
         IF n > MaxInt THEN [err |-> "limit", value |-> << >>, rest |-> q]
         ELSE IF n > Len(q) THEN [err |-> CutShort(Len(q)), value |-> << >>, rest |-> q]
         ELSE [err |-> "none", value |-> SubSeq(q, 1, n), rest |-> SubSeq(q, n + 1, Len(q))]
  BY <1>4, <1>5, Zenon DEF ReadString, last
<1>7. CutShort(Len(q)) = "ErrUnexpectedEOF"
  BY DEF CutShort
<1>8. Len(q) \in Nat /\ MaxInt \in Nat
  BY <1>2, Limits
<1>9. /\ n > MaxInt => ReadString(units).err = "limit"
      /\ n <= MaxInt /\ n > Len(q) => ReadString(units).err = "ErrUnexpectedEOF"
      /\ n <= MaxInt /\ n <= Len(q) =>
            ReadString(units) = [err |-> "none", value |-> SubSeq(q, 1, n),
                                 rest |-> SubSeq(q, n + 1, Len(q))]
  <2>1. CASE n > MaxInt
    <3>1. ReadString(units).err = "limit"
      BY <1>6, <2>1
    <3> QED
      BY <1>8, <2>1, <3>1
  <2>2. CASE ~(n > MaxInt) /\ n > Len(q)
    <3>1. ReadString(units).err = "ErrUnexpectedEOF"
      BY <1>6, <1>7, <2>2
    <3> QED
      BY <1>8, <2>2, <3>1
  <2>3. CASE ~(n > MaxInt) /\ ~(n > Len(q))
    <3>1. ReadString(units) = [err |-> "none", value |-> SubSeq(q, 1, n),
                               rest |-> SubSeq(q, n + 1, Len(q))]
      BY <1>6, <2>3, Zenon
    <3> QED
      BY <1>8, <2>3, <3>1
  <2> QED
    BY <2>1, <2>2, <2>3
<1> QED
  BY <1>9 DEF units, p

\* readString gives the string that was written, and leaves the rest.
LEMMA StringReadsBack ==
    ASSUME NEW s \in Seq(Units), Len(s) <= MaxInt, NEW rest \in Seq(Units)
    PROVE  ReadString(PutString(s) \o rest) = [err |-> "none", value |-> s, rest |-> rest]
<1> DEFINE n == Len(s)
           p == PutUvarint[n]
           q == s \o rest
<1>1. /\ q \in Seq(Units) /\ n \in Nat /\ Len(rest) \in Nat /\ Len(q) = n + Len(rest)
      /\ SubSeq(q, 1, n) = s
      /\ SubSeq(q, n + 1, n + Len(rest)) = rest
  BY ConcatParts
<1>2. PutString(s) \o rest = p \o q
  <2>1. p \in Seq(Units)
    BY <1>1, LengthAsUnits
  <2> HIDE DEF p
  <2>2. (p \o s) \o rest = p \o (s \o rest)
    BY <2>1, ConcatAssociative
  <2> QED
    BY <2>2 DEF PutString, p
<1> HIDE DEF q
<1>3. n <= MaxInt /\ n <= Len(q)
  BY <1>1
<1>4. ReadString(p \o q) = [err |-> "none", value |-> SubSeq(q, 1, n),
                            rest |-> SubSeq(q, n + 1, Len(q))]
  <2> HIDE DEF n
  <2> QED
    BY <1>1, <1>3, ReadAfterLength
<1> QED
  BY <1>1, <1>2, <1>4

\* readString reports io.EOF if there is nothing.
LEMMA NothingToRead == ReadString(<< >>).err = "EOF"
<1> QED
  BY DEF ReadString

\* It reports another error if a string is cut short.
LEMMA CutStringIsRefused ==
    ASSUME NEW s \in Seq(Units), Len(s) <= MaxInt, NEW m \in 1..(Len(PutString(s)) - 1)
    PROVE  ReadString(SubSeq(PutString(s), 1, m)).err = "ErrUnexpectedEOF"
<1> DEFINE n == Len(s)
           p == PutUvarint[n]
           units == SubSeq(PutString(s), 1, m)
<1>1. /\ n \in Nat /\ PutString(s) \in Seq(Units) /\ Len(PutString(s)) = Len(p) + n
      /\ PutString(s) = p \o s
  BY PutStringType DEF PutString
<1>2. /\ p \in Seq(Units) /\ Len(p) \in Nat \ {0} /\ EndsLength(p[Len(p)])
      /\ \A i \in 1..(Len(p) - 1) : ~EndsLength(p[i])
  BY <1>1, LengthAsUnits
<1>3. m \in 0..(Len(p) + n) /\ m \in 0..Len(PutString(s)) /\ m < Len(p) + n /\ m >= 1 /\ m \in Nat
  BY <1>1, <1>2
<1>4. units = IF m <= Len(p) THEN SubSeq(p, 1, m) ELSE p \o SubSeq(s, 1, m - Len(p))
  <2> HIDE DEF p
  <2> QED
    BY <1>1, <1>2, <1>3, BeginningOfConcat
<1>5. units \in Seq(Units) /\ Len(units) = m
  BY <1>1, <1>3, BeginningOf
<1> HIDE DEF units, p
<1>6. CASE m < Len(p)
  <2> DEFINE last == SelectInSeq(units, LAMBDA u : u.kind = "length" /\ ~u.more)
  <2>1. ASSUME NEW i \in 1..Len(units) PROVE ~EndsLength(units[i])
    <3>1. m \in 0..Len(p) /\ i \in 1..m /\ i \in 1..(Len(p) - 1) /\ units = SubSeq(p, 1, m)
      BY <1>2, <1>3, <1>4, <1>5, <1>6
    <3>2. units[i] = p[i]
      <4>1. \A k \in 1..m : p[k] \in Units
        <5>1. 1..m \subseteq 1..Len(p)
          BY <3>1, <1>2
        <5> QED
          BY <1>2, <5>1, ElementOfSeq
      <4>2. 1 \in Int /\ m \in Int /\ i \in 1..(m - 1 + 1) /\ 1 + i - 1 = i
        BY <1>3, <3>1
      <4>3. SubSeq(p, 1, m)[i] = p[1 + i - 1]
        BY <4>1, <4>2, SubSeqProperties
      <4> QED
        BY <3>1, <4>2, <4>3
    <3> QED
      BY <1>2, <3>1, <3>2
  <2>2. last = 0
    BY <1>5, <2>1, NoEndOfLength
  <2>3. units # << >>
    BY <1>3, <1>5, EmptySeq
  <2> HIDE DEF last
  <2>4. ReadString(units) = [err |-> "ErrUnexpectedEOF", value |-> << >>,
                             rest |-> SubSeq(units, last + 1, Len(units))]
    BY <2>2, <2>3, Zenon DEF ReadString, last
  <2>5. ReadString(units).err = "ErrUnexpectedEOF"
    BY <2>4
  <2> QED
    BY <2>5 DEF units
<1>7. CASE ~(m < Len(p))
  <2> DEFINE d == m - Len(p)
             q == SubSeq(s, 1, d)
  <2>1. d \in 0..Len(s) /\ d < n /\ n <= MaxInt
    BY <1>1, <1>2, <1>3, <1>7
  <2>2. q \in Seq(Units) /\ Len(q) = d
    <3> HIDE DEF d
    <3> QED
      BY <2>1, BeginningOf
  <2>3. units = p \o q
    <3>1. CASE m <= Len(p)
      <4>1. m = Len(p) /\ d = 0
        BY <1>2, <1>3, <1>7, <3>1
      <4>2. units = p
        BY <1>2, <1>4, <4>1, SubSeqFull
      <4>3. q = << >>
        BY <2>2, <4>1, EmptySeq
      <4> QED
        BY <1>2, <4>2, <4>3, ConcatEmptySeq
    <3>2. CASE ~(m <= Len(p))
      BY <1>4, <3>2
    <3> QED
      BY <3>1, <3>2
  <2> HIDE DEF d, q, n
  <2>4. n > Len(q)
    BY <1>1, <1>2, <1>3, <2>1, <2>2 DEF n
  <2>5. ReadString(PutUvarint[n] \o q).err = "ErrUnexpectedEOF"
    BY <1>1, <2>1, <2>2, <2>4, ReadAfterLength
  <2> QED
    BY <2>3, <2>5 DEF p, units
<1> QED
  BY <1>6, <1>7

\* And a length that is none.
LEMMA LengthOverLimit == ReadString(PutUvarint[MaxInt + 1]).err = "limit"
<1>1. MaxInt + 1 \in Nat /\ MaxInt + 1 > MaxInt
  BY Limits
<1>2. << >> \in Seq(Units)
  BY EmptySeq
<1>3. PutUvarint[MaxInt + 1] \o << >> = PutUvarint[MaxInt + 1]
  BY <1>1, LengthAsUnits, ConcatEmptySeq
<1>4. ReadString(PutUvarint[MaxInt + 1] \o << >>).err = "limit"
  BY <1>1, <1>2, ReadAfterLength
<1> QED
  BY <1>3, <1>4

-----------------------------------------------------------------------------
(* Rows.                                                                   *)

Skipped(sizes, k) == Skippable(SubSeq(sizes, 1, k))
SizeUnit(n) == [kind |-> "size", size |-> n]
Kinds == Magics \union {"skippable", "pad", "end", "bad"}

\* Units of all sorts.
LEMMA UnitTypes ==
    /\ \A kind \in Kinds : Unit(kind) \in Units /\ Unit(kind).kind = kind
    /\ \A n \in Nat : SizeUnit(n) \in Units /\ SizeUnit(n).kind = "size" /\ SizeUnit(n).size = n
    /\ Bytes \subseteq Units /\ \A b \in Bytes : b.kind = "byte"
    /\ \A name \in CodecNames : [kind |-> "name", name |-> name] \in Units
<1>1. \A kind \in Kinds : Unit(kind) \in Units /\ Unit(kind).kind = kind
  BY DEF Unit, Units, Kinds
<1>2. \A n \in Nat : SizeUnit(n) \in Units /\ SizeUnit(n).kind = "size" /\ SizeUnit(n).size = n
  BY DEF SizeUnit, Units
<1>3. Bytes \subseteq Units /\ \A b \in Bytes : b.kind = "byte"
  <2>1. Bytes \subseteq Units
    BY DEF Units
  <2>2. \A b \in Bytes : b.kind = "byte"
    BY DEF Bytes
  <2> QED
    BY <2>1, <2>2
<1>4. \A name \in CodecNames : [kind |-> "name", name |-> name] \in Units
  BY DEF Units
<1> QED
  BY <1>1, <1>2, <1>3, <1>4

\* A skippable frame begins with its magic number and its size.
LEMMA SkippableFrameUnits ==
    ASSUME NEW size \in Nat
    PROVE  /\ SkippableFrame(size) \in Seq(Units)
           /\ Len(SkippableFrame(size)) = size + 2
           /\ SkippableFrame(size)[1] = Unit("skippable")
           /\ SkippableFrame(size)[2] = SizeUnit(size)
           /\ \A i \in 3..(size + 2) : SkippableFrame(size)[i] = Unit("pad")
<1> DEFINE head == <<Unit("skippable"), SizeUnit(size)>>
           pads == [i \in 1..size |-> Unit("pad")]
<1>1. /\ head \in Seq(Units) /\ Len(head) = 2
      /\ head[1] = Unit("skippable") /\ head[2] = SizeUnit(size)
  <2>1. Unit("skippable") \in Units /\ SizeUnit(size) \in Units
    BY UnitTypes DEF Kinds
  <2> QED
    BY <2>1
<1>2. pads \in Seq(Units) /\ Len(pads) = size /\ \A i \in 1..size : pads[i] = Unit("pad")
  <2>1. Unit("pad") \in Units
    BY UnitTypes DEF Kinds
  <2> QED
    BY <2>1
<1>3. SkippableFrame(size) = head \o pads
  BY DEF SkippableFrame, SizeUnit
<1> HIDE DEF head, pads
<1>4. /\ head \o pads \in Seq(Units) /\ Len(head \o pads) = Len(head) + Len(pads)
      /\ \A i \in 1..(Len(head) + Len(pads)) :
            (head \o pads)[i] = IF i <= Len(head) THEN head[i] ELSE pads[i - Len(head)]
  BY <1>1, <1>2, ConcatProperties
<1> DEFINE f == head \o pads
<1> HIDE DEF f
<1>5. /\ f \in Seq(Units) /\ Len(f) = 2 + size
      /\ \A i \in 1..(2 + size) : f[i] = IF i <= 2 THEN head[i] ELSE pads[i - 2]
  BY <1>1, <1>2, <1>4 DEF f
<1>6. f[1] = head[1] /\ f[2] = head[2]
  BY <1>5
<1>7. ASSUME NEW i \in 3..(size + 2) PROVE f[i] = Unit("pad")
  <2>1. i \in 1..(2 + size) /\ ~(i <= 2) /\ i - 2 \in 1..size
    OBVIOUS
  <2> QED
    BY <1>2, <1>5, <2>1
<1> QED
  BY <1>1, <1>3, <1>5, <1>6, <1>7 DEF f

\* Skippable frames, one after the other.
LEMMA SkippableUnits ==
    ASSUME NEW sizes \in Seq(Nat), NEW k \in 0..Len(sizes)
    PROVE  /\ Skippable(sizes) \in Seq(Units)
           /\ Skipped(sizes, k) \in Seq(Units)
           /\ Len(Skipped(sizes, k)) \in 0..Len(Skippable(sizes))
           /\ Skipped(sizes, k) = SubSeq(Skippable(sizes), 1, Len(Skipped(sizes, k)))
           /\ k = 0 => Len(Skipped(sizes, k)) = 0
           /\ k = Len(sizes) => Skipped(sizes, k) = Skippable(sizes)
           /\ k < Len(sizes) =>
                 LET n == Len(Skipped(sizes, k))
                 IN  /\ sizes[k + 1] \in Nat
                     /\ Len(Skipped(sizes, k + 1)) = n + sizes[k + 1] + 2
                     /\ n + sizes[k + 1] + 2 <= Len(Skippable(sizes))
                     /\ Skippable(sizes)[n + 1] = Unit("skippable")
                     /\ Skippable(sizes)[n + 2] = SizeUnit(sizes[k + 1])
<1> DEFINE seqs == [i \in DOMAIN sizes |-> SkippableFrame(sizes[i])]
           W == FlattenSeq(seqs)
           P(j) == FlattenSeq(SubSeq(seqs, 1, j))
<1>1. Len(sizes) \in Nat /\ DOMAIN sizes = 1..Len(sizes) /\ \A i \in 1..Len(sizes) : sizes[i] \in Nat
  BY LenProperties, ElementOfSeq
<1>2. /\ seqs \in Seq(Seq(Units)) /\ Len(seqs) = Len(sizes)
      /\ \A i \in 1..Len(sizes) : seqs[i] = SkippableFrame(sizes[i])
  <2>1. \A i \in 1..Len(sizes) : SkippableFrame(sizes[i]) \in Seq(Units)
    BY <1>1, SkippableFrameUnits
  <2> QED
    BY <1>1, <2>1
<1>3. ASSUME NEW j \in 0..Len(sizes) PROVE Skipped(sizes, j) = P(j)
  <2> DEFINE u == SubSeq(sizes, 1, j)
  <2>1. u \in Seq(Nat) /\ Len(u) = j
    BY BeginningOf
  <2>2. \A i \in 1..j : u[i] = sizes[i]
    BY <1>1
  <2>3. DOMAIN u = 1..j
    BY <2>1
  <2> HIDE DEF u
  <2>4. [i \in DOMAIN u |-> SkippableFrame(u[i])] = [i \in 1..j |-> SkippableFrame(sizes[i])]
    BY <2>2, <2>3
  <2>5. SubSeq(seqs, 1, j) = [i \in 1..j |-> SkippableFrame(sizes[i])]
    <3>1. \A i \in 1..j : i \in 1..Len(sizes)
      BY <1>1
    <3> DEFINE v == SubSeq(seqs, 1, j)
    <3>2. v \in Seq(Seq(Units)) /\ Len(v) = j
      <4> HIDE DEF seqs
      <4>1. j \in 0..Len(seqs)
        BY <1>2
      <4> QED
        BY <1>2, <4>1, BeginningOf
    <3>3. \A i \in 1..j : v[i] = seqs[i]
      <4> HIDE DEF seqs
      <4> QED
        BY <1>1, <1>2
    <3> HIDE DEF v, seqs
    <3>4. v = [i \in 1..j |-> v[i]]
      BY <3>2
    <3>5. \A i \in 1..j : v[i] = SkippableFrame(sizes[i])
      BY <1>2, <3>1, <3>3
    <3> QED
      BY <3>4, <3>5 DEF v
  <2> QED
    BY <2>4, <2>5 DEF Skipped, Skippable, u
<1>4. Skippable(sizes) = W
  BY DEF Skippable
<1> HIDE DEF seqs
<1>5. W \in Seq(Units)
  BY <1>2, FlattenType
<1>6. k \in 0..Len(seqs)
  BY <1>2
<1>7. SubSeq(seqs, 1, k) \in Seq(Seq(Units)) /\ Len(SubSeq(seqs, 1, k)) = k
  BY <1>2, <1>6, BeginningOf
<1>8. P(k) \in Seq(Units)
  BY <1>7, FlattenType
<1>9. Len(P(k)) \in 0..Len(W) /\ P(k) = SubSeq(W, 1, Len(P(k)))
  <2>1. PICK rest \in Seq(Units) : W = P(k) \o rest
    BY <1>2, <1>6, FlattenBeginning
  <2> DEFINE a == P(k)
  <2> HIDE DEF a, W
  <2>2. a \in Seq(Units) /\ W = a \o rest
    BY <1>8, <2>1 DEF a
  <2>3. Len(a) \in Nat /\ Len(rest) \in Nat /\ Len(W) = Len(a) + Len(rest)
        /\ SubSeq(W, 1, Len(a)) = a
    BY <2>2, ConcatParts
  <2> QED
    BY <2>3 DEF a
<1>10. k = 0 => Len(P(k)) = 0
  <2>1. ASSUME k = 0 PROVE Len(P(k)) = 0
    <3>1. SubSeq(seqs, 1, k) = << >>
      BY <1>7, <2>1, EmptySeq
    <3> QED
      BY <3>1, FlattenNone, EmptySeq
  <2> QED
    BY <2>1
<1>11. k = Len(sizes) => P(k) = W
  BY <1>2, SubSeqFull
<1>12. ASSUME k < Len(sizes)
       PROVE  /\ sizes[k + 1] \in Nat
              /\ Len(P(k + 1)) = Len(P(k)) + sizes[k + 1] + 2
              /\ Len(P(k)) + sizes[k + 1] + 2 <= Len(W)
              /\ W[Len(P(k)) + 1] = Unit("skippable")
              /\ W[Len(P(k)) + 2] = SizeUnit(sizes[k + 1])
  <2> DEFINE e == seqs[k + 1]
             a == P(k)
             b == P(k + 1)
  <2>1. k + 1 \in 1..Len(sizes) /\ k < Len(seqs)
    BY <1>1, <1>2, <1>12
  <2>2. sizes[k + 1] \in Nat /\ e = SkippableFrame(sizes[k + 1])
    BY <1>1, <1>2, <2>1
  <2>3. /\ a \in Seq(Units) /\ e \in Seq(Units) /\ b = a \o e
        /\ Len(a) + Len(e) <= Len(W)
        /\ \A i \in 1..Len(e) : W[Len(a) + i] = e[i]
    BY <1>2, <1>6, <2>1, FlattenNext
  <2> HIDE DEF a, b, e, W, P
  <2>4. Len(e) = sizes[k + 1] + 2 /\ e[1] = Unit("skippable") /\ e[2] = SizeUnit(sizes[k + 1])
    BY <2>2, SkippableFrameUnits
  <2>5. Len(b) = Len(a) + Len(e) /\ Len(a) \in Nat
    BY <2>3, ConcatParts
  <2>6. 1 \in 1..Len(e) /\ 2 \in 1..Len(e)
    BY <2>2, <2>4, SMTT(30)
  <2>7. W[Len(a) + 1] = e[1] /\ W[Len(a) + 2] = e[2]
    BY <2>3, <2>6
  <2>8. Len(b) = Len(a) + sizes[k + 1] + 2 /\ Len(a) + sizes[k + 1] + 2 <= Len(W)
    <3> DEFINE z == sizes[k + 1]
               l == Len(a)
               more == Len(e)
               all == Len(W)
               next == Len(b)
    <3>1. /\ z \in Nat /\ l \in Nat /\ more = z + 2 /\ next = l + more /\ l + more <= all
      BY <2>2, <2>3, <2>4, <2>5
    <3> HIDE DEF z, l, more, all, next
    <3>2. next = l + z + 2 /\ l + z + 2 <= all
      BY <3>1
    <3> QED
      BY <3>2 DEF z, l, all, next
  <2> QED
    BY <2>2, <2>4, <2>7, <2>8 DEF a, b
<1>13. Skipped(sizes, k) = P(k) /\ (k < Len(sizes) => Skipped(sizes, k + 1) = P(k + 1))
  <2>1. k < Len(sizes) => k + 1 \in 0..Len(sizes)
    BY <1>1
  <2> QED
    BY <1>3, <2>1
<1> HIDE DEF W, P
<1> QED
  BY <1>4, <1>5, <1>8, <1>9, <1>10, <1>11, <1>12, <1>13

\* A frame is its magic number, its content and its end.
LEMMA FrameUnits ==
    ASSUME NEW magic \in Magics, NEW content \in Seq(Bytes)
    PROVE  LET f == Frame(magic, content)
               m == Len(content)
           IN  /\ f \in Seq(Units) /\ m \in Nat /\ Len(f) = m + 2
               /\ f[1] = Unit(magic)
               /\ \A j \in 1..m : f[1 + j] = content[j]
               /\ f[m + 2] = Unit("end")
<1> DEFINE m == Len(content)
           h == <<Unit(magic)>>
           e == <<Unit("end")>>
           a == h \o content
           f == a \o e
<1>1. m \in Nat /\ content \in Seq(Units)
  <2>1. content \in Seq(Units)
    BY UnitTypes, SeqMonotonic
  <2> QED
    BY <2>1, LenProperties
<1>2. /\ h \in Seq(Units) /\ Len(h) = 1 /\ h[1] = Unit(magic)
      /\ e \in Seq(Units) /\ Len(e) = 1 /\ e[1] = Unit("end")
  <2>1. Unit(magic) \in Units /\ Unit("end") \in Units
    BY UnitTypes DEF Kinds
  <2> QED
    BY <2>1
<1> HIDE DEF h, e
<1>3. /\ a \in Seq(Units) /\ Len(a) = 1 + m
      /\ \A i \in 1..(1 + m) : a[i] = IF i <= 1 THEN h[i] ELSE content[i - 1]
  <2>1. h \in Seq(Units) /\ content \in Seq(Units) /\ Len(h) = 1
    BY <1>1, <1>2
  <2>2. /\ a \in Seq(Units) /\ Len(a) = Len(h) + m
        /\ \A i \in 1..(Len(h) + m) : a[i] = IF i <= Len(h) THEN h[i] ELSE content[i - Len(h)]
    BY <2>1, ConcatProperties
  <2> QED
    BY <2>1, <2>2
<1> HIDE DEF a
<1>4. /\ f \in Seq(Units) /\ Len(f) = Len(a) + 1
      /\ \A i \in 1..(Len(a) + 1) : f[i] = IF i <= Len(a) THEN a[i] ELSE e[i - Len(a)]
  <2>1. a \in Seq(Units) /\ e \in Seq(Units)
    BY <1>2, <1>3
  <2>2. /\ f \in Seq(Units) /\ Len(f) = Len(a) + Len(e)
        /\ \A i \in 1..(Len(a) + Len(e)) : f[i] = IF i <= Len(a) THEN a[i] ELSE e[i - Len(a)]
    BY <2>1, ConcatProperties
  <2> QED
    BY <1>2, <2>2
<1> HIDE DEF f
<1>5. Len(f) = m + 2
  BY <1>1, <1>3, <1>4
<1>6. f[1] = Unit(magic)
  <2>1. 1 \in 1..(Len(a) + 1) /\ 1 <= Len(a) /\ 1 \in 1..(1 + m)
    BY <1>1, <1>3
  <2> QED
    BY <1>2, <1>3, <1>4, <2>1
<1>7. ASSUME NEW j \in 1..m PROVE f[1 + j] = content[j]
  <2> DEFINE i == 1 + j
  <2>1. i \in 1..(Len(a) + 1) /\ i <= Len(a) /\ i \in 1..(1 + m) /\ ~(i <= 1) /\ i - 1 = j
    BY <1>1, <1>3
  <2> HIDE DEF i
  <2>2. f[i] = content[j]
    BY <1>3, <1>4, <2>1
  <2> QED
    BY <2>2 DEF i
<1>8. f[m + 2] = Unit("end")
  <2> DEFINE i == m + 2
  <2>1. i \in 1..(Len(a) + 1) /\ ~(i <= Len(a)) /\ i - Len(a) = 1
    BY <1>1, <1>3
  <2> HIDE DEF i
  <2>2. f[i] = Unit("end")
    BY <1>2, <1>4, <2>1
  <2> QED
    BY <2>2 DEF i
<1>9. Frame(magic, content) = f
  BY DEF Frame, f, a, h, e
<1> QED
  BY <1>1, <1>4, <1>5, <1>6, <1>7, <1>8, <1>9

Intact(row) == ~row.damaged /\ row.lost = 0
Start(row) == Len(Skippable(row.skips))

\* A row as a whole.
LEMMA WholeDataUnits ==
    ASSUME NEW row \in Rows
    PROVE  LET W == WholeData(row)
               c == Start(row)
               m == Len(row.content)
           IN  /\ c \in Nat /\ m \in Nat
               /\ W \in Seq(Units) /\ Len(W) = c + m + 2
               /\ \A i \in 1..c : W[i] = Skippable(row.skips)[i]
               /\ SubSeq(W, 1, c) = Skippable(row.skips)
               /\ W[c + 1] = Unit(row.magic)
               /\ \A j \in 1..m : W[c + 1 + j] = row.content[j]
               /\ W[c + m + 2] = Unit("end")
               /\ SubSeq(W, c + 1, c + m + 2) = Frame(row.magic, row.content)
<1> DEFINE s == Skippable(row.skips)
           f == Frame(row.magic, row.content)
           c == Len(s)
           m == Len(row.content)
           W == s \o f
<1>1. row.skips \in Seq(Nat) /\ row.magic \in Magics /\ row.content \in Seq(Bytes)
  BY DEF Rows
<1>2. s \in Seq(Units)
  <2>1. 0 \in 0..Len(row.skips)
    BY <1>1, LenProperties
  <2> QED
    BY <1>1, <2>1, SkippableUnits
<1>3. /\ f \in Seq(Units) /\ m \in Nat /\ Len(f) = m + 2 /\ f[1] = Unit(row.magic)
      /\ \A j \in 1..m : f[1 + j] = row.content[j]
      /\ f[m + 2] = Unit("end")
  BY <1>1, FrameUnits
<1> HIDE DEF s, f
<1>4. /\ W \in Seq(Units) /\ c \in Nat /\ Len(W) = c + Len(f)
      /\ \A i \in 1..c : W[i] = s[i]
      /\ \A i \in 1..Len(f) : W[c + i] = f[i]
      /\ SubSeq(W, 1, c) = s /\ SubSeq(W, c + 1, c + Len(f)) = f
  <2>1. f \in Seq(Units)
    BY <1>3
  <2> QED
    BY <1>2, <2>1, ConcatParts
<1> HIDE DEF W, c, m
<1>5. Len(W) = c + m + 2 /\ SubSeq(W, c + 1, c + m + 2) = f
  <2>1. c + Len(f) = c + m + 2
    BY <1>3, <1>4
  <2> QED
    BY <1>4, <2>1
<1>6. W[c + 1] = Unit(row.magic)
  <2>1. 1 \in 1..Len(f)
    BY <1>3
  <2> QED
    BY <1>3, <1>4, <2>1
<1>7. ASSUME NEW j \in 1..m PROVE W[c + 1 + j] = row.content[j]
  <2>1. 1 + j \in 1..Len(f) /\ c + (1 + j) = c + 1 + j
    BY <1>3, <1>4
  <2>2. W[c + (1 + j)] = f[1 + j]
    BY <1>4, <2>1
  <2> QED
    BY <1>3, <2>1, <2>2
<1>8. W[c + m + 2] = Unit("end")
  <2>1. m + 2 \in 1..Len(f) /\ c + (m + 2) = c + m + 2
    BY <1>3, <1>4
  <2>2. W[c + (m + 2)] = f[m + 2]
    BY <1>4, <2>1
  <2> QED
    BY <1>3, <2>1, <2>2
<1> QED
  BY <1>3, <1>4, <1>5, <1>6, <1>7, <1>8 DEF W, c, m, s, f, WholeData, Start

\* What arrives of a row: all of it, all but the end, or a beginning.
LEMMA RowDataUnits ==
    ASSUME NEW row \in Rows, row.lost <= Len(WholeData(row))
    PROVE  /\ RowData(row) \in Seq(Units)
           /\ Len(RowData(row)) \in 0..Len(WholeData(row))
           /\ Intact(row) => RowData(row) = WholeData(row)
           /\ row.damaged => /\ Len(RowData(row)) = Len(WholeData(row))
                             /\ RowData(row)[Len(WholeData(row))] = Unit("bad")
           /\ ~row.damaged /\ ~Intact(row) => Len(RowData(row)) < Len(WholeData(row))
           /\ ~row.damaged => RowData(row) = SubSeq(WholeData(row), 1, Len(RowData(row)))
           /\ \A i \in 1..Len(RowData(row)) :
                 i < Len(WholeData(row)) => RowData(row)[i] = WholeData(row)[i]
<1> DEFINE W == WholeData(row)
           D == RowData(row)
           n == Len(W) - row.lost
<1>1. /\ W \in Seq(Units) /\ Len(W) \in Nat \ {0}
      /\ row.lost \in Nat /\ row.damaged \in BOOLEAN
  <2>1. /\ W \in Seq(Units) /\ Len(W) = Start(row) + Len(row.content) + 2
        /\ Start(row) \in Nat /\ Len(row.content) \in Nat
    BY WholeDataUnits
  <2>2. row.lost \in Nat /\ row.damaged \in BOOLEAN
    BY DEF Rows
  <2> QED
    BY <2>1, <2>2
<1>2. D = IF row.damaged THEN [W EXCEPT ![Len(W)] = Unit("bad")] ELSE SubSeq(W, 1, n)
  BY DEF RowData
<1>3. row.lost <= Len(W)
  OBVIOUS
<1> HIDE DEF W, D
<1>4. CASE row.damaged
  <2>1. Unit("bad") \in Units /\ Len(W) \in 1..Len(W)
    BY <1>1, UnitTypes DEF Kinds
  <2>2. D = [W EXCEPT ![Len(W)] = Unit("bad")]
    BY <1>2, <1>4
  <2>3. /\ D \in Seq(Units) /\ Len(D) = Len(W)
        /\ \A j \in 1..Len(W) : D[j] = IF j = Len(W) THEN Unit("bad") ELSE W[j]
    BY <1>1, <2>1, <2>2, ExceptSeq
  <2>4. D[Len(W)] = Unit("bad")
    BY <2>1, <2>3
  <2>5. \A i \in 1..Len(D) : i < Len(W) => D[i] = W[i]
    BY <1>1, <2>3
  <2>6. Len(D) \in 0..Len(W)
    BY <1>1, <2>3
  <2> QED
    BY <1>4, <2>3, <2>4, <2>5, <2>6 DEF W, D, Intact
<1>5. CASE ~row.damaged
  <2>1. D = SubSeq(W, 1, n) /\ n \in 0..Len(W)
    BY <1>1, <1>2, <1>3, <1>5
  <2>2. D \in Seq(Units) /\ Len(D) = n
    BY <1>1, <2>1, BeginningOf
  <2>3. \A i \in 1..n : D[i] = W[i]
    <3>1. \A i \in 1..n : W[i] \in Units
      <4>1. 1..n \subseteq 1..Len(W)
        BY <1>1, <2>1
      <4> QED
        BY <1>1, <4>1, ElementOfSeq
    <3>2. 1 \in Int /\ n \in Int /\ n - 1 + 1 = n
      BY <2>1
    <3> HIDE DEF n
    <3>3. \A i \in 1..(n - 1 + 1) : SubSeq(W, 1, n)[i] = W[1 + i - 1]
      BY <3>1, <3>2, SubSeqProperties
    <3> QED
      BY <2>1, <3>2, <3>3
  <2>4. Intact(row) => D = W
    <3>1. ASSUME Intact(row) PROVE n = Len(W)
      BY <1>1, <3>1 DEF Intact
    <3> QED
      BY <1>1, <2>1, <3>1, SubSeqFull
  <2>5. ~Intact(row) => n < Len(W)
    BY <1>1, <1>3, <1>5 DEF Intact
  <2> HIDE DEF n
  <2> QED
    BY <1>5, <2>1, <2>2, <2>3, <2>4, <2>5 DEF W, D
<1> QED
  BY <1>1, <1>4, <1>5

-----------------------------------------------------------------------------
(* What follows the skippable frames.                                      *)

AfterStep(after, left) ==
    LET from == Len(data) - left + 1
    IN  IF Kind(data, from) = "skippable" /\ Kind(data, from + 1) = "size"
        THEN IF data[from + 1].size + 2 > left THEN [cut |-> TRUE]
             ELSE after[left - (data[from + 1].size + 2)]
        ELSE [cut |-> FALSE, rest |-> SubSeq(data, from, Len(data))]

\* AfterSkippable is given step by step.
LEMMA AfterSkippableSteps ==
    ASSUME data \in Seq(Units)
    PROVE  \E after : /\ AfterSkippable = after[Len(data)]
                      /\ \A left \in 0..Len(data) : after[left] = AfterStep(after, left)
<1> DEFINE N == Len(data)
           from(left) == N - left + 1
           skips(left) == Kind(data, from(left)) = "skippable" /\ Kind(data, from(left) + 1) = "size"
           size(left) == data[from(left) + 1].size + 2
           rest(left) == [cut |-> FALSE, rest |-> SubSeq(data, from(left), N)]
           D == 0..N
           stop == {left \in D : ~skips(left) \/ size(left) > left}
           val == [left \in D |-> IF ~skips(left) THEN rest(left) ELSE [cut |-> TRUE]]
           V == {val[left] : left \in D}
           comb == [p \in D \X V |-> p[2]]
           next == [left \in D |-> left - size(left)]
           Body(g) == [left \in D |-> AfterStep(g, left)]
<1>1. N \in Nat
  BY LenProperties
<1>2. ASSUME NEW left \in D, skips(left)
      PROVE  size(left) \in Nat \ {0, 1}
  <2>1. from(left) + 1 \in Int /\ from(left) + 1 >= 1
    BY <1>1
  <2> DEFINE i == from(left) + 1
  <2>2. Kind(data, i) = "size" /\ i \in Int /\ i >= 1
    BY <1>2, <2>1
  <2> HIDE DEF i
  <2>3. i <= N /\ data[i].kind = "size"
    BY <2>2 DEF Kind
  <2>4. data[i] \in Units
    <3>1. i \in 1..Len(data)
      BY <1>1, <2>2, <2>3
    <3> QED
      BY <3>1, ElementOfSeq
  <2>5. data[i].size \in Nat
    <3> DEFINE u == data[i]
    <3> HIDE DEF u
    <3>1. u \in Units /\ u.kind = "size"
      BY <2>3, <2>4 DEF u
    <3>2. u \in [kind : {"size"}, size : Nat]
      BY <3>1 DEF Units, Bytes, LengthUnits, Magics
    <3>3. u.size \in Nat
      BY <3>2
    <3> QED
      BY <3>3 DEF u
  <2> QED
    BY <2>5 DEF i
<1>3. ASSUME NEW left \in D, left \notin stop
      PROVE  next[left] \in D /\ next[left] < left /\ next[left] = left - size(left)
  <2>1. skips(left) /\ ~(size(left) > left)
    BY <1>3
  <2>2. size(left) \in Nat \ {0, 1}
    BY <1>2, <2>1
  <2>3. next[left] = left - size(left)
    OBVIOUS
  <2> HIDE DEF size, next
  <2> QED
    BY <1>1, <2>1, <2>2, <2>3
<1>4. PICK f : Solves(f, D, V, stop, val, comb, next)
  <2>1. \A left \in D : left \in stop => val[left] \in V
    <3> HIDE DEF val
    <3> QED
      OBVIOUS
  <2>2. \A left \in D : left \notin stop => next[left] \in D /\ next[left] < left
    <3> HIDE DEF D, stop, next, size
    <3> QED
      BY <1>3
  <2>3. \A left \in D : left \notin stop => \A v \in V : comb[<<left, v>>] \in V
    <3> HIDE DEF V, D, stop
    <3> QED
      OBVIOUS
  <2>4. D \in SUBSET Nat
    BY <1>1
  <2> HIDE DEF D, V, stop, val, comb, next
  <2>5. LeadsDown(D, V, stop, val, comb, next)
    BY <2>1, <2>2, <2>3, <2>4 DEF LeadsDown
  <2> QED
    BY <2>5, RecursionToSmaller
<1>5. f = Body(f)
  <2>1. ASSUME NEW left \in D PROVE f[left] = AfterStep(f, left)
    <3>1. AfterStep(f, left) = IF ~skips(left) THEN rest(left)
                               ELSE IF size(left) > left THEN [cut |-> TRUE]
                               ELSE f[left - size(left)]
      BY DEF AfterStep
    <3>2. CASE left \in stop
      <4>1. f[left] = val[left]
        <5> HIDE DEF D, stop, val, comb, next
        <5> QED
          BY <1>4, <3>2 DEF Solves
      <4>2. val[left] = IF ~skips(left) THEN rest(left) ELSE [cut |-> TRUE]
        OBVIOUS
      <4>3. ~skips(left) \/ size(left) > left
        BY <3>2
      <4> HIDE DEF skips, size, rest, val
      <4> QED
        BY <3>1, <4>1, <4>2, <4>3
    <3>3. CASE left \notin stop
      <4>1. skips(left) /\ ~(size(left) > left)
        BY <3>3
      <4>2. next[left] \in D /\ next[left] = left - size(left)
        BY <1>3, <3>3
      <4>3. f[left] = comb[<<left, f[next[left]]>>] /\ f[next[left]] \in V
        <5> HIDE DEF D, stop, val, comb, next, V, size
        <5> QED
          BY <1>4, <3>3, <4>2 DEF Solves
      <4>4. f[left] = f[next[left]]
        <5> HIDE DEF D, V, next
        <5> QED
          BY <4>3
      <4> HIDE DEF skips, size, rest, next
      <4> QED
        BY <3>1, <4>1, <4>2, <4>4
    <3> QED
      BY <3>2, <3>3
  <2>2. f = [left \in D |-> f[left]]
    BY <1>4 DEF Solves
  <2> HIDE DEF D
  <2> QED
    BY <2>1, <2>2
<1> DEFINE F == CHOOSE g : g = Body(g)
<1>6. F = Body(F)
  <2> HIDE DEF Body
  <2> QED
    BY <1>5
<1>7. AfterSkippable = F[N]
  BY DEF AfterSkippable, AfterStep
<1> HIDE DEF F
<1>8. ASSUME NEW left \in D PROVE F[left] = AfterStep(F, left)
  <2>1. F[left] = Body(F)[left]
    <3> HIDE DEF Body
    <3> QED
      BY <1>6
  <2> HIDE DEF D
  <2> QED
    BY <2>1
<1> QED
  BY <1>7, <1>8

Behind(row, k) == Len(Skipped(row.skips, k))

\* Where the next skippable frame begins in what arrives of a row.
LEMMA NextSkippable ==
    ASSUME NEW row \in Rows, Fits(row), NEW k \in 0..Len(row.skips)
    PROVE  /\ Behind(row, k) \in 0..Start(row) /\ Start(row) \in Nat
           /\ Skipped(row.skips, k) = SubSeq(WholeData(row), 1, Behind(row, k))
           /\ k = 0 => Behind(row, k) = 0
           /\ k = Len(row.skips) => Behind(row, k) = Start(row)
           /\ k < Len(row.skips) =>
                 /\ row.skips[k + 1] \in Nat /\ k + 1 \in 0..Len(row.skips)
                 /\ Behind(row, k + 1) = Behind(row, k) + row.skips[k + 1] + 2
                 /\ Behind(row, k) + 1 <= Len(RowData(row)) =>
                       RowData(row)[Behind(row, k) + 1] = Unit("skippable")
                 /\ Behind(row, k) + 2 <= Len(RowData(row)) =>
                       RowData(row)[Behind(row, k) + 2] = SizeUnit(row.skips[k + 1])
<1> DEFINE s == Skippable(row.skips)
           n == Behind(row, k)
           W == WholeData(row)
           D == RowData(row)
           c == Start(row)
<1>1. row.skips \in Seq(Nat) /\ Len(row.skips) \in Nat
  <2>1. row.skips \in Seq(Nat)
    BY DEF Rows
  <2> QED
    BY <2>1, LenProperties
<1>2. /\ n \in 0..c
      /\ Skipped(row.skips, k) = SubSeq(s, 1, n)
      /\ k = 0 => n = 0
      /\ k = Len(row.skips) => n = c
      /\ k < Len(row.skips) =>
            /\ row.skips[k + 1] \in Nat
            /\ Behind(row, k + 1) = n + row.skips[k + 1] + 2
            /\ n + row.skips[k + 1] + 2 <= c
            /\ s[n + 1] = Unit("skippable")
            /\ s[n + 2] = SizeUnit(row.skips[k + 1])
  BY <1>1, SkippableUnits DEF Behind, Start
<1>3. /\ c \in Nat /\ W \in Seq(Units) /\ c < Len(W)
      /\ \A i \in 1..c : W[i] = s[i]
      /\ SubSeq(W, 1, c) = s /\ s \in Seq(Units)
  <2>1. /\ c \in Nat /\ Len(row.content) \in Nat
        /\ W \in Seq(Units) /\ Len(W) = c + Len(row.content) + 2
        /\ \A i \in 1..c : W[i] = s[i]
        /\ SubSeq(W, 1, c) = s
    BY WholeDataUnits
  <2>2. s \in Seq(Units)
    BY <1>1, SkippableUnits
  <2> QED
    BY <2>1, <2>2
<1>4. /\ Len(D) \in 0..Len(W) /\ \A i \in 1..Len(D) : i < Len(W) => D[i] = W[i]
  BY RowDataUnits DEF Fits
<1>5. Len(s) = c
  BY DEF Start
<1> HIDE DEF s, n, W, D, c
<1>6. SubSeq(s, 1, n) = SubSeq(W, 1, n)
  <2>1. n \in 0..Len(s) /\ n \in 0..Len(W) /\ Len(W) \in Nat
    BY <1>2, <1>3, <1>4, <1>5, LenProperties
  <2>2. Len(SubSeq(s, 1, n)) = n /\ SubSeq(s, 1, n) \in Seq(Units)
    BY <1>3, <2>1, BeginningOf
  <2>3. Len(SubSeq(W, 1, n)) = n /\ SubSeq(W, 1, n) \in Seq(Units)
    BY <1>3, <2>1, BeginningOf
  <2>4. ASSUME NEW i \in 1..n PROVE SubSeq(s, 1, n)[i] = SubSeq(W, 1, n)[i]
    <3>1. i \in 1..c
      BY <1>2, <1>3
    <3>2. SubSeq(s, 1, n)[i] = s[i] /\ SubSeq(W, 1, n)[i] = W[i]
      BY <1>2, <2>1
    <3> QED
      BY <1>3, <3>1, <3>2
  <2> DEFINE u == SubSeq(s, 1, n)
             v == SubSeq(W, 1, n)
  <2> HIDE DEF u, v
  <2>5. u \in Seq(Units) /\ v \in Seq(Units) /\ Len(u) = Len(v) /\ \A i \in 1..Len(u) : u[i] = v[i]
    BY <2>2, <2>3, <2>4 DEF u, v
  <2>6. u = v
    BY <2>5, SeqEqual
  <2> QED
    BY <2>6 DEF u, v
<1>7. ASSUME k < Len(row.skips)
      PROVE  /\ n + 1 <= Len(D) => D[n + 1] = Unit("skippable")
             /\ n + 2 <= Len(D) => D[n + 2] = SizeUnit(row.skips[k + 1])
  <2>1. n + 1 \in 1..c /\ n + 2 \in 1..c /\ n + 1 < Len(W) /\ n + 2 < Len(W)
    <3> DEFINE z == row.skips[k + 1]
               w == Len(W)
    <3>1. z \in Nat /\ n + z + 2 <= c /\ n \in 0..c
      BY <1>2, <1>7
    <3>2. w \in Nat /\ c < w /\ c \in Nat
      BY <1>3, LenProperties
    <3> HIDE DEF z, w
    <3>3. n + 1 \in 1..c /\ n + 2 \in 1..c /\ n + 1 < w /\ n + 2 < w
      BY <3>1, <3>2
    <3> QED
      BY <3>3 DEF w
  <2>2. n + 1 <= Len(D) => D[n + 1] = W[n + 1]
    <3>1. ASSUME n + 1 <= Len(D) PROVE n + 1 \in 1..Len(D)
      BY <1>2, <1>4, <3>1
    <3> QED
      BY <1>4, <2>1, <3>1
  <2>3. n + 2 <= Len(D) => D[n + 2] = W[n + 2]
    <3>1. ASSUME n + 2 <= Len(D) PROVE n + 2 \in 1..Len(D)
      BY <1>2, <1>4, <3>1
    <3> QED
      BY <1>4, <2>1, <3>1
  <2>4. W[n + 1] = s[n + 1] /\ W[n + 2] = s[n + 2]
    BY <1>3, <2>1
  <2> QED
    BY <1>2, <1>7, <2>2, <2>3, <2>4
<1>8. k < Len(row.skips) => k + 1 \in 0..Len(row.skips)
  BY <1>1
<1> QED
  BY <1>2, <1>3, <1>6, <1>7, <1>8 DEF n, W, D, c

Steps(after) ==
    /\ AfterSkippable = after[Len(data)]
    /\ \A left \in 0..Len(data) : after[left] = AfterStep(after, left)

\* The skippable frames that have arrived are passed.
LEMMA SkippablePassed ==
    ASSUME NEW row \in Rows, Fits(row), data = RowData(row), NEW after, Steps(after),
           NEW k \in 0..Len(row.skips), Behind(row, k) <= Len(data)
    PROVE  AfterSkippable = after[Len(data) - Behind(row, k)]
<1> DEFINE N == Len(data)
           b(j) == Behind(row, j)
           K == Len(row.skips)
           T == {j \in Nat : j <= K /\ b(j) <= N => AfterSkippable = after[N - b(j)]}
<1>1. N \in Nat /\ data \in Seq(Units)
  <2>1. data \in Seq(Units)
    BY RowDataUnits DEF Fits
  <2> QED
    BY <2>1, LenProperties
<1>2. K \in Nat
  <2>1. row.skips \in Seq(Nat)
    BY DEF Rows
  <2> QED
    BY <2>1, LenProperties
<1>3. 0 \in T
  <2>1. 0 \in 0..K
    BY <1>2
  <2>2. b(0) = 0
    BY <2>1, NextSkippable
  <2> HIDE DEF b
  <2> QED
    BY <1>1, <2>2 DEF Steps
<1>4. ASSUME NEW j \in 1..K, j - 1 \in T PROVE j \in T
  <2>1. SUFFICES ASSUME b(j) <= N PROVE AfterSkippable = after[N - b(j)]
    <3> HIDE DEF b
    <3> QED
      BY <2>1
  <2> DEFINE i == j - 1
             m == b(i)
             size == row.skips[j]
  <2>2. i \in 0..K /\ i < K /\ i + 1 = j /\ i <= K
    BY <1>2
  <2>3. /\ m \in 0..Start(row) /\ Start(row) \in Nat /\ size \in Nat /\ b(j) = m + size + 2
        /\ m + 1 <= N => data[m + 1] = Unit("skippable")
        /\ m + 2 <= N => data[m + 2] = SizeUnit(size)
    <3> HIDE DEF i
    <3> QED
      BY <2>2, NextSkippable
  <2> HIDE DEF b, i, m, size
  <2>4. m + size + 2 <= N /\ m <= N /\ m \in Nat
    BY <1>1, <2>1, <2>3
  <2>5. AfterSkippable = after[N - m]
    <3>1. b(i) = m /\ i \in T
      BY <1>4 DEF m, i
    <3> QED
      BY <2>2, <2>4, <3>1
  <2>6. after[N - m] = AfterStep(after, N - m)
    <3>1. N - m \in 0..N
      BY <1>1, <2>4
    <3> QED
      BY <3>1 DEF Steps
  <2>7. N - (N - m) + 1 = m + 1 /\ (m + 1) + 1 = m + 2
    BY <1>1, <2>4
  <2>8. Kind(data, m + 1) = "skippable" /\ Kind(data, m + 2) = "size" /\ data[m + 2].size = size
    <3>1. m + 1 <= N /\ m + 2 <= N
      BY <1>1, <2>3, <2>4
    <3>2. data[m + 1].kind = "skippable"
      BY <2>3, <3>1 DEF Unit
    <3>3. data[m + 2].kind = "size" /\ data[m + 2].size = size
      BY <2>3, <3>1, UnitTypes
    <3> QED
      BY <3>1, <3>2, <3>3 DEF Kind
  <2>9. AfterStep(after, N - m) = after[(N - m) - (size + 2)]
    <3>1. ~(size + 2 > N - m)
      BY <1>1, <2>3, <2>4
    <3> DEFINE left == N - m
    <3> HIDE DEF left, N
    <3>2. Len(data) - left + 1 = m + 1
      BY <2>7 DEF left, N
    <3>3. AfterStep(after, left) = after[left - (size + 2)]
      BY <2>7, <2>8, <3>1, <3>2 DEF AfterStep, left
    <3> QED
      BY <3>3 DEF left
  <2>10. (N - m) - (size + 2) = N - b(j)
    BY <1>1, <2>3
  <2> QED
    BY <2>5, <2>6, <2>9, <2>10
<1> HIDE DEF T
<1>5. 0..K \subseteq T
  BY <1>2, <1>3, <1>4, EveryPosition
<1> QED
  BY <1>5 DEF T

\* What arrives of a row that reaches its frame.
Reached(row) == Len(RowData(row)) > Start(row)
FrameOf(row) == SubSeq(RowData(row), Start(row) + 1, Len(RowData(row)))

\* The units of that part of the frame.
LEMMA FrameOfUnits ==
    ASSUME NEW row \in Rows, Fits(row), Reached(row)
    PROVE  /\ FrameOf(row) \in Seq(Units)
           /\ FrameOf(row) # << >>
           /\ Kind(FrameOf(row), 1) = row.magic
           /\ Delivered(FrameOf(row)).end = "EOF" <=> Intact(row)
           /\ Delivered(FrameOf(row)).end \in {"EOF", "error"}
           /\ Intact(row) => Delivered(FrameOf(row)).content = row.content
<1> DEFINE W == WholeData(row)
           D == RowData(row)
           c == Start(row)
           m == Len(row.content)
           F == FrameOf(row)
           N == Len(D)
<1>1. /\ c \in Nat /\ m \in Nat /\ W \in Seq(Units) /\ Len(W) = c + m + 2
      /\ W[c + 1] = Unit(row.magic)
      /\ \A j \in 1..m : W[c + 1 + j] = row.content[j]
      /\ W[c + m + 2] = Unit("end")
      /\ SubSeq(W, c + 1, c + m + 2) = Frame(row.magic, row.content)
  BY WholeDataUnits
<1>2. /\ D \in Seq(Units) /\ N \in 0..Len(W)
      /\ Intact(row) => D = W
      /\ row.damaged => N = Len(W) /\ D[Len(W)] = Unit("bad")
      /\ ~row.damaged /\ ~Intact(row) => N < Len(W)
      /\ \A i \in 1..N : i < Len(W) => D[i] = W[i]
  BY RowDataUnits DEF Fits
<1>3. N > c
  BY DEF Reached
<1>4. row.magic \in Magics /\ row.content \in Seq(Bytes)
  BY DEF Rows
<1>5. F = SubSeq(D, c + 1, N)
  BY DEF FrameOf
<1> HIDE DEF W, D, c, m, F
<1>6. c + 1 \in 1..N /\ N \in Nat /\ N \in 1..N /\ N <= c + m + 2
  BY <1>1, <1>2, <1>3
<1>7. F \in Seq(Units) /\ Len(F) = N - c /\ \A j \in 1..(N - c) : F[j] = D[c + j]
  <2>1. c + 1 \in Int /\ N \in Int /\ N - (c + 1) + 1 = N - c /\ c + 1 <= N
    BY <1>1, <1>6
  <2>2. \A i \in (c + 1)..N : D[i] \in Units
    <3>1. (c + 1)..N \subseteq 1..Len(D)
      BY <1>1, <1>6
    <3> QED
      BY <1>2, <3>1, ElementOfSeq
  <2> DEFINE a == c + 1
  <2>3. \A j \in 1..(N - c) : a + j - 1 = c + j
    BY <1>1
  <2> HIDE DEF a
  <2>4. /\ SubSeq(D, a, N) \in Seq(Units)
        /\ Len(SubSeq(D, a, N)) = IF a <= N THEN N - a + 1 ELSE 0
        /\ \A j \in 1..(N - a + 1) : SubSeq(D, a, N)[j] = D[a + j - 1]
    BY <2>1, <2>2, SubSeqProperties DEF a
  <2>5. N - a + 1 = N - c /\ a <= N
    BY <2>1 DEF a
  <2> QED
    BY <1>5, <2>3, <2>4, <2>5 DEF a
<1>8. 1 \in 1..(N - c) /\ N - c \in 1..(N - c) /\ N - c \in Nat /\ c + (N - c) = N
  BY <1>1, <1>6
<1>9. F # << >>
  BY <1>7, <1>8, EmptySeq
<1>10. Kind(F, 1) = row.magic
  <2>1. c + 1 < Len(W)
    BY <1>1
  <2>2. F[1] = Unit(row.magic)
    BY <1>1, <1>2, <1>6, <1>7, <1>8, <2>1
  <2>3. F[1].kind = row.magic
    BY <1>4, <2>2 DEF Unit
  <2> QED
    BY <1>7, <1>8, <2>3 DEF Kind
<1>11. Last(F) = D[N]
  BY <1>7, <1>8 DEF Last
<1>12. CASE Intact(row)
  <2>1. D = W /\ N = c + m + 2
    BY <1>1, <1>2, <1>12
  <2>2. Last(F).kind = "end"
    <3>1. Last(F) = Unit("end")
      BY <1>1, <1>11, <2>1
    <3> QED
      BY <3>1 DEF Unit
  <2>3. Delivered(F) = [content |-> SubSeq(F, 2, Len(F) - 1), end |-> "EOF"]
    BY <2>2 DEF Delivered
  <2>4. SubSeq(F, 2, Len(F) - 1) = row.content
    <3> DEFINE e == SubSeq(F, 2, m + 1)
               k == m + 1
    <3>1. Len(F) = m + 2 /\ Len(F) - 1 = m + 1
      BY <1>1, <1>7, <2>1
    <3>2. 2 \in Int /\ k \in Int /\ k - 2 + 1 = m /\ \A j \in 1..m : 2 + j - 1 = 1 + j
      BY <1>1
    <3>3. \A i \in 2..k : F[i] \in Units
      <4>1. 2..k \subseteq 1..Len(F)
        BY <1>1, <3>1
      <4> QED
        BY <1>7, <4>1, ElementOfSeq
    <3> HIDE DEF k
    <3>4. /\ SubSeq(F, 2, k) \in Seq(Units)
          /\ Len(SubSeq(F, 2, k)) = IF 2 <= k THEN k - 2 + 1 ELSE 0
          /\ \A j \in 1..(k - 2 + 1) : SubSeq(F, 2, k)[j] = F[2 + j - 1]
      BY <3>2, <3>3, SubSeqProperties
    <3>5. e \in Seq(Units) /\ Len(e) = m /\ \A j \in 1..m : e[j] = F[1 + j]
      <4>1. (IF 2 <= k THEN k - 2 + 1 ELSE 0) = m
        BY <1>1, <3>2
      <4> QED
        BY <3>2, <3>4, <4>1 DEF k
    <3> HIDE DEF e
    <3>6. ASSUME NEW j \in 1..m PROVE e[j] = row.content[j]
      <4>1. 1 + j \in 1..(N - c) /\ c + (1 + j) = c + 1 + j
        BY <1>1, <2>1
      <4>2. F[1 + j] = W[c + 1 + j]
        BY <1>7, <2>1, <4>1
      <4> QED
        BY <1>1, <3>5, <4>2
    <3>7. row.content \in Seq(Units)
      BY <1>4, UnitTypes, SeqMonotonic
    <3>8. e = row.content
      BY <3>5, <3>6, <3>7, SeqEqual DEF m
    <3> QED
      BY <3>1, <3>8 DEF e
  <2>5. Delivered(F).end = "EOF" /\ Delivered(F).content = row.content
    BY <2>3, <2>4
  <2> QED
    BY <1>7, <1>9, <1>10, <1>12, <2>5 DEF F
<1>13. CASE ~Intact(row)
  <2>1. Last(F).kind # "end"
    <3>1. CASE row.damaged
      <4>1. Last(F) = Unit("bad")
        BY <1>2, <1>11, <3>1
      <4> QED
        BY <4>1 DEF Unit
    <3>2. CASE ~row.damaged
      <4>1. N < Len(W) /\ D[N] = W[N]
        BY <1>2, <1>6, <1>13, <3>2
      <4>2. CASE N = c + 1
        <5>1. Last(F) = Unit(row.magic)
          BY <1>1, <1>11, <4>1, <4>2
        <5>2. row.magic # "end"
          BY <1>4 DEF Magics
        <5> QED
          BY <5>1, <5>2 DEF Unit
      <4>3. CASE N # c + 1
        <5> DEFINE j == N - c - 1
        <5>1. j \in 1..m /\ c + 1 + j = N
          BY <1>1, <1>3, <1>6, <4>1, <4>3
        <5> HIDE DEF j
        <5>2. Last(F) = row.content[j]
          BY <1>1, <1>11, <4>1, <5>1
        <5>3. row.content[j] \in Bytes
          BY <1>4, <5>1, ElementOfSeq DEF m
        <5>4. Last(F).kind = "byte"
          BY <5>2, <5>3, UnitTypes
        <5> QED
          BY <5>4
      <4> QED
        BY <4>2, <4>3
    <3> QED
      BY <3>1, <3>2
  <2>2. Delivered(F).end = "error"
    BY <2>1 DEF Delivered
  <2> QED
    BY <1>7, <1>9, <1>10, <1>13, <2>2 DEF F
<1> QED
  BY <1>12, <1>13

\* An intact row is reached, and so is a row that begins with its frame.
LEMMA IntactIsReached ==
    ASSUME NEW row \in Rows, Fits(row)
    PROVE  /\ Intact(row) => Reached(row)
           /\ row.damaged => Reached(row)
           /\ Len(RowData(row)) \in Nat /\ RowData(row) \in Seq(Units)
<1>1. /\ Start(row) \in Nat /\ Len(row.content) \in Nat
      /\ Len(WholeData(row)) = Start(row) + Len(row.content) + 2
  BY WholeDataUnits
<1>2. /\ RowData(row) \in Seq(Units)
      /\ Len(RowData(row)) \in 0..Len(WholeData(row))
      /\ Intact(row) => RowData(row) = WholeData(row)
      /\ row.damaged => Len(RowData(row)) = Len(WholeData(row))
  BY RowDataUnits DEF Fits
<1> QED
  BY <1>1, <1>2 DEF Reached

\* What arrives of a row begins with a skippable frame, if it has any.
LEMMA BeginningOfRow ==
    ASSUME NEW row \in Rows, Fits(row), RowData(row) # << >>
    PROVE  /\ row.skips = << >> => /\ Reached(row) /\ FrameOf(row) = RowData(row)
                                   /\ Kind(RowData(row), 1) = row.magic
           /\ row.skips # << >> => Kind(RowData(row), 1) = "skippable"
<1> DEFINE D == RowData(row)
           K == Len(row.skips)
<1>1. D \in Seq(Units) /\ Len(D) \in Nat /\ Len(D) # 0
  <2>1. D \in Seq(Units) /\ Len(D) \in Nat
    BY IntactIsReached
  <2> QED
    BY <2>1, EmptySeq
<1>2. K \in Nat /\ (K = 0 <=> row.skips = << >>) /\ 0 \in 0..K
  <2>1. row.skips \in Seq(Nat)
    BY DEF Rows
  <2> QED
    BY <2>1, LenProperties, EmptySeq
<1>3. /\ Behind(row, 0) = 0
      /\ 0 = K => Behind(row, 0) = Start(row)
      /\ 0 < K /\ 1 <= Len(D) => D[1] = Unit("skippable")
  <2>1. /\ Behind(row, 0) = 0
        /\ 0 = K => Behind(row, 0) = Start(row)
        /\ 0 < K => /\ Behind(row, 0) + 1 <= Len(D) =>
                          D[Behind(row, 0) + 1] = Unit("skippable")
    BY <1>2, NextSkippable
  <2> HIDE DEF K, D
  <2> QED
    BY <1>1, <2>1
<1>4. ASSUME row.skips = << >>
      PROVE  Reached(row) /\ FrameOf(row) = D /\ Kind(D, 1) = row.magic
  <2>1. Start(row) = 0
    BY <1>2, <1>3, <1>4
  <2>2. Reached(row)
    BY <1>1, <2>1 DEF Reached
  <2>3. FrameOf(row) = D
    <3>1. FrameOf(row) = SubSeq(D, 1, Len(D))
      BY <2>1 DEF FrameOf
    <3> QED
      BY <1>1, <3>1, SubSeqFull
  <2>4. Kind(FrameOf(row), 1) = row.magic
    BY <2>2, FrameOfUnits
  <2> QED
    BY <2>2, <2>3, <2>4
<1>5. ASSUME row.skips # << >> PROVE Kind(D, 1) = "skippable"
  <2>1. 0 < K /\ 1 <= Len(D)
    BY <1>1, <1>2, <1>5
  <2>2. D[1].kind = "skippable"
    BY <1>3, <2>1 DEF Unit
  <2> HIDE DEF D
  <2> QED
    BY <2>1, <2>2 DEF Kind
<1> QED
  BY <1>4, <1>5

\* Nothing of a row follows whole skippable frames.
NothingLeft(row) == \E k \in 0..Len(row.skips) : RowData(row) = Skipped(row.skips, k)

\* What is found after the skippable frames: the frame, or nothing, or one of
\* them again, cut short.
LEMMA AfterSkippableOfRow ==
    ASSUME NEW row \in Rows, Fits(row), data = RowData(row)
    PROVE  /\ Reached(row) => AfterSkippable = [cut |-> FALSE, rest |-> FrameOf(row)]
           /\ NothingLeft(row) => /\ AfterSkippable = [cut |-> FALSE, rest |-> << >>]
                                  /\ ~Reached(row)
           /\ ~Reached(row) /\ ~NothingLeft(row) =>
                 /\ Kind(data, 1) = "skippable"
                 /\ AfterSkippable.cut \/ Kind(AfterSkippable.rest, 1) = "skippable"
                 /\ ~AfterSkippable.cut => AfterSkippable.rest # << >>
<1> DEFINE N == Len(data)
           K == Len(row.skips)
           c == Start(row)
           b(j) == Behind(row, j)
<1>1. N \in Nat /\ data \in Seq(Units)
  BY IntactIsReached
<1>2. K \in Nat /\ row.skips \in Seq(Nat)
  <2>1. row.skips \in Seq(Nat)
    BY DEF Rows
  <2> QED
    BY <2>1, LenProperties
<1>3. PICK after : Steps(after)
  BY <1>1, AfterSkippableSteps DEF Steps
<1>4. c \in Nat /\ b(0) = 0 /\ b(K) = c
  <2>1. 0 \in 0..K /\ K \in 0..K
    BY <1>2
  <2> QED
    BY <2>1, NextSkippable
<1>5. ASSUME NEW k \in 0..K, b(k) <= N
      PROVE  /\ AfterSkippable = AfterStep(after, N - b(k))
             /\ N - (N - b(k)) + 1 = b(k) + 1
             /\ b(k) \in Nat
  <2>1. b(k) \in 0..c
    BY NextSkippable
  <2>2. AfterSkippable = after[N - b(k)]
    BY <1>3, <1>5, SkippablePassed
  <2>3. N - b(k) \in 0..N
    <3> HIDE DEF b, N
    <3> QED
      BY <1>1, <1>4, <1>5, <2>1
  <2>4. after[N - b(k)] = AfterStep(after, N - b(k))
    BY <1>3, <2>3 DEF Steps
  <2> HIDE DEF b
  <2> QED
    BY <1>1, <1>4, <2>1, <2>2, <2>4
<1>6. ASSUME NEW k \in 0..K, b(k) <= N,
             ~(Kind(data, b(k) + 1) = "skippable" /\ Kind(data, (b(k) + 1) + 1) = "size")
      PROVE  AfterSkippable = [cut |-> FALSE, rest |-> SubSeq(data, b(k) + 1, N)]
  <2> DEFINE left == N - b(k)
  <2>1. AfterSkippable = AfterStep(after, left) /\ N - left + 1 = b(k) + 1
    BY <1>5, <1>6
  <2> HIDE DEF left, b
  <2> QED
    BY <1>6, <2>1 DEF AfterStep
<1>7. ASSUME Reached(row)
      PROVE  AfterSkippable = [cut |-> FALSE, rest |-> FrameOf(row)]
  <2>1. K \in 0..K /\ b(K) <= N
    <3>1. c < N
      BY <1>7 DEF Reached
    <3> HIDE DEF b, N, K
    <3> QED
      BY <1>1, <1>2, <1>4, <3>1
  <2>2. Kind(data, c + 1) # "skippable"
    <3>1. /\ Len(row.content) \in Nat /\ Len(WholeData(row)) = c + Len(row.content) + 2
          /\ WholeData(row)[c + 1] = Unit(row.magic)
      BY WholeDataUnits
    <3>2. \A i \in 1..N : i < Len(WholeData(row)) => data[i] = WholeData(row)[i]
      BY RowDataUnits DEF Fits
    <3>3. c + 1 \in 1..N /\ c + 1 < Len(WholeData(row))
      <4>1. c < N
        BY <1>7 DEF Reached
      <4> HIDE DEF c, N
      <4> QED
        BY <1>1, <1>4, <3>1, <4>1
    <3>4. data[c + 1] = Unit(row.magic)
      BY <3>1, <3>2, <3>3
    <3>5. row.magic \in Magics
      BY DEF Rows
    <3>6. Kind(data, c + 1) = row.magic
      BY <3>3, <3>4 DEF Kind, Unit
    <3> QED
      BY <3>5, <3>6 DEF Magics
  <2>3. AfterSkippable = [cut |-> FALSE, rest |-> SubSeq(data, c + 1, N)]
    <3> HIDE DEF b, N, c
    <3> QED
      BY <1>4, <1>6, <2>1, <2>2
  <2> QED
    BY <2>3 DEF FrameOf
<1>8. ASSUME NothingLeft(row)
      PROVE  AfterSkippable = [cut |-> FALSE, rest |-> << >>] /\ ~Reached(row)
  <2>1. PICK k \in 0..K : data = Skipped(row.skips, k)
    BY <1>8 DEF NothingLeft
  <2>2. b(k) = N /\ N \in 0..c
    BY <2>1, NextSkippable DEF Behind
  <2>3. ~Reached(row)
    BY <2>2, <1>4 DEF Reached
  <2>4. Kind(data, N + 1) = "none"
    <3>1. ~(N + 1 <= N)
      BY <1>1
    <3> QED
      BY <3>1 DEF Kind
  <2>5. b(k) <= N
    BY <1>1, <2>2
  <2>6. AfterSkippable = [cut |-> FALSE, rest |-> SubSeq(data, N + 1, N)]
    <3> HIDE DEF b, N
    <3> QED
      BY <1>6, <2>2, <2>4, <2>5
  <2>7. SubSeq(data, N + 1, N) = << >>
    BY <1>1
  <2> QED
    BY <2>3, <2>6, <2>7
<1>9. ASSUME ~Reached(row), ~NothingLeft(row)
      PROVE  /\ Kind(data, 1) = "skippable"
             /\ AfterSkippable.cut \/ Kind(AfterSkippable.rest, 1) = "skippable"
             /\ ~AfterSkippable.cut => AfterSkippable.rest # << >>
  <2>1. ~row.damaged /\ N <= c
    <3>1. ~row.damaged
      BY <1>9, IntactIsReached
    <3>2. ~(N > c)
      BY <1>9 DEF Reached
    <3> HIDE DEF N, c
    <3> QED
      BY <1>1, <1>4, <3>1, <3>2
  <2>2. data = SubSeq(WholeData(row), 1, N)
    BY <2>1, RowDataUnits DEF Fits
  <2>3. ASSUME NEW k \in 0..K PROVE b(k) # N /\ b(k) \in Nat
    <3>1. Skipped(row.skips, k) = SubSeq(WholeData(row), 1, b(k)) /\ b(k) \in 0..c
      BY NextSkippable
    <3>2. data # Skipped(row.skips, k)
      BY <1>9 DEF NothingLeft
    <3> HIDE DEF b, N, c
    <3> QED
      BY <1>4, <2>2, <3>1, <3>2
  <2> DEFINE S == {k \in 0..K : b(k) > N}
  <2>4. K \in S
    <3>1. b(K) # N /\ K \in 0..K
      BY <1>2, <2>3
    <3> HIDE DEF b, N, c, K
    <3> QED
      BY <1>1, <1>4, <2>1, <3>1
  <2>5. PICK first \in S : \A j \in S : first <= j
    <3>1. S \subseteq Nat /\ S # {}
      BY <1>2, <2>4
    <3> HIDE DEF S
    <3> QED
      BY <3>1, FirstPosition
  <2>6. first \in 0..K /\ b(first) > N /\ first # 0
    <3>1. first \in 0..K /\ b(first) > N
      BY <2>5
    <3> HIDE DEF b, N, K
    <3> QED
      BY <1>1, <1>4, <3>1
  <2> DEFINE k == first - 1
             n == b(k)
             size == row.skips[k + 1]
  <2>7. k \in 0..K /\ k < K /\ k + 1 = first
    BY <1>2, <2>6
  <2>8. n \in Nat /\ n < N
    <3>1. ~(n > N)
      <4>1. k \notin S
        <5> HIDE DEF S, K
        <5> QED
          BY <1>2, <2>5, <2>6, <2>7
      <4> QED
        BY <2>7, <4>1
    <3>2. n # N /\ n \in Nat
      BY <2>3, <2>7
    <3> HIDE DEF n, N
    <3> QED
      BY <1>1, <3>1, <3>2
  <2>9. /\ size \in Nat /\ b(first) = n + size + 2
        /\ n + 1 <= N => data[n + 1] = Unit("skippable")
        /\ n + 2 <= N => data[n + 2] = SizeUnit(size)
    <3> HIDE DEF k
    <3> QED
      BY <2>7, NextSkippable
  <2>10. AfterSkippable = AfterStep(after, N - n) /\ N - (N - n) + 1 = n + 1
    <3>1. n <= N
      BY <1>1, <2>8
    <3> HIDE DEF k
    <3> QED
      BY <1>5, <2>7, <3>1
  <2>11. n + 1 \in 1..N /\ size + 2 > N - n /\ (n + 1) + 1 = n + 2 /\ N - n \in Int
    <3> HIDE DEF n, b, N, size
    <3> QED
      BY <1>1, <2>6, <2>8, <2>9
  <2>12. data[n + 1].kind = "skippable" /\ Kind(data, n + 1) = "skippable"
    <3> HIDE DEF n
    <3> QED
      BY <2>9, <2>11 DEF Kind, Unit
  <2>13. Kind(data, 1) = "skippable"
    <3>1. data # << >>
      BY <2>8, <1>1, EmptySeq
    <3>2. row.skips # << >>
      BY <1>2, <2>7, EmptySeq
    <3> QED
      BY <3>1, <3>2, BeginningOfRow
  <2>14. CASE n + 2 <= N
    <3>1. data[n + 2].size = size /\ Kind(data, n + 2) = "size"
      <4> HIDE DEF n, size
      <4> QED
        BY <2>9, <2>14, UnitTypes DEF Kind
    <3>2. AfterSkippable = [cut |-> TRUE]
      <4> DEFINE left == N - n
      <4> HIDE DEF left, n, size
      <4>1. AfterSkippable = AfterStep(after, left) /\ N - left + 1 = n + 1 /\ size + 2 > left
        BY <2>10, <2>11 DEF left
      <4> QED
        BY <2>11, <2>12, <3>1, <4>1 DEF AfterStep
    <3> QED
      BY <2>13, <3>2
  <2>15. CASE ~(n + 2 <= N)
    <3>1. Kind(data, n + 2) = "none"
      BY <2>15 DEF Kind
    <3>2. AfterSkippable = [cut |-> FALSE, rest |-> SubSeq(data, n + 1, N)]
      <4> HIDE DEF k
      <4>1. n <= N
        BY <1>1, <2>8
      <4> QED
        BY <1>6, <2>7, <2>11, <3>1, <4>1
    <3> DEFINE r == SubSeq(data, n + 1, N)
    <3>3. r \in Seq(Units) /\ Len(r) = 1 /\ r[1] = data[n + 1]
      <4> DEFINE a == n + 1
      <4> HIDE DEF n
      <4>1. a \in 1..N /\ a = N
        BY <1>1, <2>8, <2>11, <2>15
      <4>2. data[a] \in Units
        BY <1>1, <4>1, ElementOfSeq
      <4> QED
        BY <1>1, <4>1, <4>2
    <3> HIDE DEF r
    <3>4. Kind(r, 1) = "skippable" /\ r # << >>
      <4> HIDE DEF n
      <4>1. r[1].kind = "skippable"
        BY <2>12, <3>3
      <4>2. 1 <= Len(r)
        BY <3>3
      <4>3. r # << >>
        <5>1. Len(r) = 1
          BY <3>3
        <5> QED
          BY <5>1
      <4> QED
        BY <4>1, <4>2, <4>3 DEF Kind
    <3>5. AfterSkippable = [cut |-> FALSE, rest |-> r]
      BY <3>2 DEF r
    <3>6. AfterSkippable.cut = FALSE /\ AfterSkippable.rest = r
      BY <3>5
    <3> QED
      BY <2>13, <3>4, <3>6
  <2> QED
    BY <2>14, <2>15
<1> QED
  BY <1>7, <1>8, <1>9

-----------------------------------------------------------------------------
(* What becomes of a row.                                                  *)

\* The row that has been read.
Current(row) == row \in Rows /\ Fits(row) /\ data = RowData(row) /\ codec = Codec(row)

\* What the decoder of a codec finds.
UnitsFor(magic) == IF magic = "gzip" \/ AfterSkippable.cut THEN data ELSE AfterSkippable.rest
Right(row, magic) == Intact(row) /\ row.magic = magic /\ (magic = "gzip" => row.skips = << >>)

LEMMA ReadersByUnits ==
    ASSUME NEW magic \in {"gzip", "zstd", "lz4"}, NEW reader \in Readers(magic)
    PROVE  /\ Kind(UnitsFor(magic), 1) = magic => reader = Delivered(UnitsFor(magic))
           /\ Kind(UnitsFor(magic), 1) # magic =>
                 reader = NothingBut("error")
                    \/ (reader = NothingBut("EOF") /\ UnitsFor(magic) = << >> /\ magic # "gzip")
<1> DEFINE u == UnitsFor(magic)
<1>1. Readers(magic) = CASE Kind(u, 1) = magic -> {Delivered(u)}
                         [] u = << >> /\ magic # "gzip" -> {NothingBut("EOF"), NothingBut("error")}
                         [] OTHER -> {NothingBut("error")}
  BY DEF Readers, UnitsFor
<1> DEFINE d == Delivered(u)
           none(e) == NothingBut(e)
           k == Kind(u, 1)
<1> HIDE DEF u, d, none, k
<1>2. Readers(magic) = CASE k = magic -> {d}
                         [] u = << >> /\ magic # "gzip" -> {none("EOF"), none("error")}
                         [] OTHER -> {none("error")}
  BY <1>1 DEF d, none, k
<1>3. CASE k = magic
  <2>1. u # << >>
    <3>1. u = << >> => k = "none"
      BY DEF k, Kind
    <3> QED
      BY <1>3, <3>1
  <2>2. Readers(magic) = {d}
    BY <1>2, <1>3, <2>1
  <2> QED
    BY <1>3, <2>2 DEF u, d, k
<1>4. CASE k # magic
  <2>1. CASE u = << >> /\ magic # "gzip"
    <3>1. Readers(magic) = {none("EOF"), none("error")}
      BY <1>2, <1>4, <2>1
    <3> QED
      BY <1>4, <2>1, <3>1 DEF u, k, none
  <2>2. CASE ~(u = << >> /\ magic # "gzip")
    <3>1. Readers(magic) = {none("error")}
      BY <1>2, <1>4, <2>2
    <3> QED
      BY <1>4, <3>1 DEF u, k, none
  <2> QED
    BY <2>1, <2>2
<1> QED
  BY <1>3, <1>4

\* The decoders give the whole content of their own frames, or nothing of what
\* has none, and otherwise fail.
LEMMA ReadersOfRow ==
    ASSUME NEW row, Current(row), NEW magic \in {"gzip", "zstd", "lz4"},
           NEW reader \in Readers(magic)
    PROVE  /\ reader.end \in {"EOF", "error"}
           /\ reader.end = "EOF" =>
                 \/ Right(row, magic) /\ Reached(row) /\ reader.content = row.content
                 \/ NothingLeft(row) /\ magic # "gzip" /\ reader.content = << >>
           /\ Right(row, magic) =>
                 /\ reader.end = "EOF" /\ reader.content = row.content
                 /\ magic = "gzip" => Kind(data, 1) = "gzip"
<1> DEFINE u == UnitsFor(magic)
<1>1. row \in Rows /\ Fits(row) /\ data = RowData(row)
  BY DEF Current
<1>2. /\ Kind(u, 1) = magic => reader = Delivered(u)
      /\ Kind(u, 1) # magic =>
            reader = NothingBut("error")
               \/ (reader = NothingBut("EOF") /\ u = << >> /\ magic # "gzip")
  BY ReadersByUnits
<1>3. \A e : NothingBut(e).end = e /\ NothingBut(e).content = << >>
  BY DEF NothingBut
<1>4. Right(row, magic) => Reached(row) /\ data # << >>
  <2>1. Right(row, magic) => Reached(row)
    BY <1>1, IntactIsReached DEF Right
  <2>2. Reached(row) => data # << >>
    <3>1. Start(row) \in Nat
      BY <1>1, WholeDataUnits
    <3> QED
      BY <1>1, <3>1 DEF Reached
  <2> QED
    BY <2>1, <2>2
<1>5. Reached(row) => /\ FrameOf(row) # << >>
                      /\ Kind(FrameOf(row), 1) = row.magic
                      /\ Delivered(FrameOf(row)).end = "EOF" <=> Intact(row)
                      /\ Delivered(FrameOf(row)).end \in {"EOF", "error"}
                      /\ Intact(row) => Delivered(FrameOf(row)).content = row.content
  BY <1>1, FrameOfUnits
<1>6. CASE magic = "gzip"
  <2>1. u = data
    BY <1>6 DEF UnitsFor
  <2>2. CASE Kind(data, 1) = "gzip"
    <3>1. data # << >>
      BY <2>2 DEF Kind
    <3>2. row.skips = << >>
      BY <1>1, <2>2, <3>1, BeginningOfRow
    <3>3. Reached(row) /\ FrameOf(row) = data /\ row.magic = "gzip"
      BY <1>1, <2>2, <3>1, <3>2, BeginningOfRow
    <3>4. reader = Delivered(FrameOf(row))
      BY <1>2, <1>6, <2>1, <2>2, <3>3
    <3> QED
      BY <1>5, <1>6, <2>2, <3>2, <3>3, <3>4 DEF Right
  <2>3. CASE Kind(data, 1) # "gzip"
    <3>1. reader = NothingBut("error")
      BY <1>2, <1>6, <2>1, <2>3
    <3>2. ~Right(row, magic)
      <4>1. SUFFICES ASSUME Right(row, magic) PROVE FALSE
        OBVIOUS
      <4>2. data # << >> /\ row.skips = << >> /\ row.magic = "gzip"
        BY <1>4, <1>6, <4>1 DEF Right
      <4> QED
        BY <1>1, <2>3, <4>2, BeginningOfRow
    <3> QED
      BY <1>3, <3>1, <3>2
  <2> QED
    BY <2>2, <2>3
<1>7. CASE magic # "gzip"
  <2>1. CASE Reached(row)
    <3>1. AfterSkippable = [cut |-> FALSE, rest |-> FrameOf(row)]
      BY <1>1, <2>1, AfterSkippableOfRow
    <3>2. u = FrameOf(row)
      BY <1>7, <3>1 DEF UnitsFor
    <3>3. CASE row.magic = magic
      <4>1. reader = Delivered(FrameOf(row))
        BY <1>2, <1>5, <2>1, <3>2, <3>3
      <4> QED
        BY <1>5, <1>7, <2>1, <3>3, <4>1 DEF Right
    <3>4. CASE row.magic # magic
      <4>1. reader = NothingBut("error")
        BY <1>2, <1>5, <2>1, <3>2, <3>4
      <4> QED
        BY <1>3, <3>4, <4>1 DEF Right
    <3> QED
      BY <3>3, <3>4
  <2>2. CASE NothingLeft(row)
    <3>1. AfterSkippable = [cut |-> FALSE, rest |-> << >>] /\ ~Reached(row)
      BY <1>1, <2>2, AfterSkippableOfRow
    <3>2. u = << >>
      BY <1>7, <3>1 DEF UnitsFor
    <3>3. Kind(u, 1) = "none" /\ "none" # magic
      BY <3>2 DEF Kind
    <3> QED
      BY <1>2, <1>3, <1>4, <1>7, <2>2, <3>1, <3>3
  <2>3. CASE ~Reached(row) /\ ~NothingLeft(row)
    <3>1. /\ Kind(data, 1) = "skippable"
          /\ AfterSkippable.cut \/ Kind(AfterSkippable.rest, 1) = "skippable"
          /\ ~AfterSkippable.cut => AfterSkippable.rest # << >>
      BY <1>1, <2>3, AfterSkippableOfRow
    <3>2. data # << >>
      BY <3>1 DEF Kind
    <3>3. Kind(u, 1) = "skippable" /\ u # << >>
      BY <1>7, <3>1, <3>2 DEF UnitsFor
    <3>4. reader = NothingBut("error")
      BY <1>2, <3>3
    <3> QED
      BY <1>3, <1>4, <2>3, <3>4
  <2> QED
    BY <2>1, <2>2, <2>3
<1> QED
  BY <1>6, <1>7

\* What is read is all of what the decoder gives, if it ends within the limit.
LEMMA WithinLimit ==
    ASSUME NEW reader, reader.end \in {"EOF", "error"},
           NEW S, reader.end = "EOF" => reader.content \in Seq(S)
    PROVE  /\ ReadLimited(reader).ok <=> reader.end = "EOF" /\ Len(reader.content) <= MaxOutput
           /\ ReadLimited(reader).ok => ReadLimited(reader).output = reader.content
<1> DEFINE copied == AtMost(reader.content, MaxOutput + 1)
           err == IF Len(copied) = MaxOutput + 1 THEN "none" ELSE reader.end
<1>1. /\ ReadLimited(reader).ok = (Len(copied) <= MaxOutput /\ err # "error")
      /\ ReadLimited(reader).output = copied
  BY DEF ReadLimited
<1>2. MaxOutput \in Nat
  BY Limits
<1>3. CASE reader.end = "error"
  <2>1. ~(Len(copied) <= MaxOutput /\ err # "error")
    <3> HIDE DEF copied
    <3> QED
      BY <1>2, <1>3
  <2> QED
    BY <1>1, <1>3, <2>1
<1>4. CASE reader.end = "EOF"
  <2>1. reader.content \in Seq(S) /\ Len(reader.content) \in Nat
    <3>1. reader.content \in Seq(S)
      BY <1>4
    <3> QED
      BY <3>1, LenProperties
  <2>2. err # "error"
    BY <1>4
  <2>3. CASE Len(reader.content) <= MaxOutput
    <3>1. copied = reader.content
      BY <1>2, <2>1, <2>3 DEF AtMost
    <3> QED
      BY <1>1, <1>4, <2>2, <2>3, <3>1
  <2>4. CASE ~(Len(reader.content) <= MaxOutput)
    <3>1. Len(copied) = MaxOutput + 1
      <4>1. CASE Len(reader.content) <= MaxOutput + 1
        BY <1>2, <2>1, <2>4, <4>1 DEF AtMost
      <4>2. CASE ~(Len(reader.content) <= MaxOutput + 1)
        <5>1. copied = SubSeq(reader.content, 1, MaxOutput + 1)
          BY <4>2 DEF AtMost
        <5>2. MaxOutput + 1 \in 0..Len(reader.content)
          BY <1>2, <2>1, <4>2
        <5> QED
          BY <2>1, <5>1, <5>2, BeginningOf
      <4> QED
        BY <4>1, <4>2
    <3>2. ~(Len(copied) <= MaxOutput)
      <4> HIDE DEF copied
      <4> QED
        BY <1>2, <3>1
    <3> HIDE DEF copied, err
    <3> QED
      BY <1>1, <2>4, <3>2
  <2> QED
    BY <2>3, <2>4
<1> QED
  BY <1>3, <1>4

\* The codec of a row: the one it names, or else the one of its data.
LEMMA CodecOfRow ==
    ASSUME NEW row, Current(row)
    PROVE  /\ row.codec # "" => Chosen = ToUpper(row.codec) /\ ToUpper(row.codec) # ""
           /\ row.codec = "" => Chosen = DetectCodec /\ ToUpper(row.codec) = ""
<1>1. codec = Codec(row)
  BY DEF Current
<1>2. ASSUME row.codec # "" PROVE Chosen = ToUpper(row.codec) /\ ToUpper(row.codec) # ""
  <2> DEFINE u == [kind |-> "name", name |-> row.codec]
  <2>1. codec = <<u>> /\ u.name = row.codec
    BY <1>1, <1>2 DEF Codec
  <2> HIDE DEF u
  <2>2. codec # << >> /\ codec[1] = u
    BY <2>1
  <2>3. Chosen = ToUpper(row.codec)
    BY <2>1, <2>2 DEF Chosen
  <2>4. ToUpper(row.codec) # ""
    BY <1>2 DEF ToUpper
  <2> QED
    BY <2>3, <2>4
<1>3. ASSUME row.codec = "" PROVE Chosen = DetectCodec /\ ToUpper(row.codec) = ""
  <2>1. Chosen = DetectCodec
    BY <1>1, <1>3 DEF Codec, Chosen
  <2>2. ToUpper(row.codec) = ""
    BY <1>3 DEF ToUpper
  <2> QED
    BY <2>1, <2>2
<1> QED
  BY <1>2, <1>3

\* The codec is detected by the frame, if there is one.
LEMMA CodecDetected ==
    ASSUME NEW row, Current(row)
    PROVE  /\ Reached(row) =>
                 DetectCodec = CASE row.magic = "gzip" -> "GZIP" [] row.magic = "zstd" -> "ZSTD"
                                 [] row.magic = "lz4" -> "LZ4" [] OTHER -> Unsupported
           /\ ~Reached(row) => DetectCodec = Unsupported
<1> DEFINE a == AfterSkippable
           magic == Kind(a.rest, 1)
<1>1. row \in Rows /\ Fits(row) /\ data = RowData(row)
  BY DEF Current
<1>2. DetectCodec = IF a.cut THEN Unsupported
                    ELSE CASE magic = "gzip" -> "GZIP" [] magic = "zstd" -> "ZSTD"
                           [] magic = "lz4" -> "LZ4" [] OTHER -> Unsupported
  BY DEF DetectCodec
<1> HIDE DEF a
<1>3. CASE Reached(row)
  <2>1. a = [cut |-> FALSE, rest |-> FrameOf(row)]
    BY <1>1, <1>3, AfterSkippableOfRow DEF a
  <2>2. ~a.cut /\ magic = row.magic
    BY <1>1, <1>3, <2>1, FrameOfUnits
  <2> HIDE DEF magic
  <2> QED
    BY <1>2, <1>3, <2>2
<1>4. CASE ~Reached(row)
  <2>1. a.cut \/ magic = "skippable" \/ magic = "none"
    <3>1. CASE NothingLeft(row)
      <4>1. a = [cut |-> FALSE, rest |-> << >>]
        BY <1>1, <3>1, AfterSkippableOfRow DEF a
      <4> QED
        BY <4>1 DEF Kind
    <3>2. CASE ~NothingLeft(row)
      BY <1>1, <1>4, <3>2, AfterSkippableOfRow DEF a
    <3> QED
      BY <3>1, <3>2
  <2> HIDE DEF magic
  <2> QED
    BY <1>2, <1>4, <2>1
<1> QED
  BY <1>3, <1>4

\* Without a frame is what is to be read with a codec and has nothing left.
LEMMA NoFrameLeft ==
    ASSUME NEW row, Current(row)
    PROVE  /\ NoFrame(row) <=> NothingLeft(row) /\ ToUpper(row.codec) \in {"ZSTD", "LZ4"}
           /\ NothingLeft(row) => ~Reached(row)
<1>1. NoFrame(row) <=> NothingLeft(row) /\ ToUpper(row.codec) \in {"ZSTD", "LZ4"}
  BY DEF NoFrame, NothingLeft, Skipped
<1>2. NothingLeft(row) => ~Reached(row)
  BY AfterSkippableOfRow DEF Current
<1> QED
  BY <1>1, <1>2

\* The codec chosen is the right one exactly if the frame is its own.
LEMMA CodecIsRight ==
    ASSUME NEW row, Current(row)
    PROVE  /\ Chosen = "GZIP" => /\ Right(row, "gzip") => RightCodec(row)
                                 /\ RightCodec(row) /\ Intact(row) => Right(row, "gzip")
           /\ Chosen = "ZSTD" => /\ Right(row, "zstd") => RightCodec(row)
                                 /\ RightCodec(row) /\ Intact(row) => Right(row, "zstd")
                                 /\ NothingLeft(row) => NoFrame(row)
           /\ Chosen = "LZ4" => /\ Right(row, "lz4") => RightCodec(row)
                                /\ RightCodec(row) /\ Intact(row) => Right(row, "lz4")
                                /\ NothingLeft(row) => NoFrame(row)
           /\ Chosen = "LZ4BLOCK" => (RightCodec(row) <=> row.magic = "block" /\ row.skips = << >>)
           /\ Chosen \notin {"GZIP", "ZSTD", "LZ4", "LZ4BLOCK"} => ~(RightCodec(row) /\ Intact(row))
<1>1. Intact(row) => Reached(row)
  BY IntactIsReached DEF Current
<1>2. row.magic \in Magics
  BY DEF Current, Rows
<1> DEFINE named == ToUpper(row.codec)
<1>3. RightCodec(row) <=> \/ row.magic = "gzip" /\ named \in {"", "GZIP"} /\ row.skips = << >>
                          \/ row.magic = "zstd" /\ named \in {"", "ZSTD"}
                          \/ row.magic = "lz4" /\ named \in {"", "LZ4"}
                          \/ row.magic = "block" /\ named = "LZ4BLOCK" /\ row.skips = << >>
  BY DEF RightCodec
<1>4. NothingLeft(row) /\ named \in {"ZSTD", "LZ4"} => NoFrame(row)
  BY NoFrameLeft
<1>5. NothingLeft(row) => ~Reached(row)
  BY NoFrameLeft
<1>6. CASE row.codec # ""
  <2>1. Chosen = named /\ named # ""
    BY <1>6, CodecOfRow
  <2> HIDE DEF named
  <2> QED
    BY <1>2, <1>3, <1>4, <2>1 DEF Right
<1>7. CASE row.codec = ""
  <2>1. Chosen = DetectCodec /\ named = ""
    BY <1>7, CodecOfRow
  <2> HIDE DEF named
  <2>2. CASE Reached(row)
    <3>1. Chosen = CASE row.magic = "gzip" -> "GZIP" [] row.magic = "zstd" -> "ZSTD"
                     [] row.magic = "lz4" -> "LZ4" [] OTHER -> "unsupported"
      BY <2>1, <2>2, CodecDetected DEF Unsupported
    <3>2. Chosen # "LZ4BLOCK"
      BY <3>1
    <3>3. /\ Chosen = "GZIP" <=> row.magic = "gzip"
          /\ Chosen = "ZSTD" <=> row.magic = "zstd"
          /\ Chosen = "LZ4" <=> row.magic = "lz4"
      BY <3>1
    <3> QED
      BY <1>3, <1>5, <2>1, <2>2, <3>2, <3>3 DEF Right
  <2>3. CASE ~Reached(row)
    <3>1. Chosen = "unsupported"
      BY <2>1, <2>3, CodecDetected DEF Unsupported
    <3> QED
      BY <1>1, <2>3, <3>1
  <2> QED
    BY <2>2, <2>3
<1> QED
  BY <1>6, <1>7

Content(row) == IF NoFrame(row) THEN << >> ELSE row.content
Answerable(row) == Sound(row) \/ NoFrame(row)

\* What the streaming decoders make of a row.
LEMMA StreamOutcome ==
    ASSUME NEW row, Current(row), NEW magic \in {"gzip", "zstd", "lz4"},
           Chosen \in {"GZIP", "ZSTD", "LZ4"}, magic = MagicOf[Chosen],
           NEW reader \in Readers(magic)
    PROVE  /\ ReadLimited(reader).ok =>
                 Answerable(row) /\ ReadLimited(reader).output = Content(row)
           /\ Sound(row) =>
                 ReadLimited(reader).ok /\ (Chosen = "GZIP" => Kind(data, 1) = "gzip")
<1>1. /\ Chosen = "GZIP" <=> magic = "gzip"
      /\ Chosen = "ZSTD" <=> magic = "zstd"
      /\ Chosen = "LZ4" <=> magic = "lz4"
  BY DEF MagicOf
<1>2. /\ reader.end \in {"EOF", "error"}
      /\ reader.end = "EOF" =>
            \/ Right(row, magic) /\ Reached(row) /\ reader.content = row.content
            \/ NothingLeft(row) /\ magic # "gzip" /\ reader.content = << >>
      /\ Right(row, magic) =>
            /\ reader.end = "EOF" /\ reader.content = row.content
            /\ magic = "gzip" => Kind(data, 1) = "gzip"
  BY ReadersOfRow
<1>3. /\ Right(row, magic) => RightCodec(row)
      /\ RightCodec(row) /\ Intact(row) => Right(row, magic)
      /\ magic # "gzip" /\ NothingLeft(row) => NoFrame(row)
  BY <1>1, CodecIsRight
<1>4. row.content \in Seq(Bytes) /\ << >> \in Seq(Bytes)
  BY EmptySeq DEF Current, Rows
<1>5. /\ ReadLimited(reader).ok <=> reader.end = "EOF" /\ Len(reader.content) <= MaxOutput
      /\ ReadLimited(reader).ok => ReadLimited(reader).output = reader.content
  <2>1. reader.end = "EOF" => reader.content \in Seq(Bytes)
    BY <1>2, <1>4
  <2> QED
    BY <1>2, <2>1, WithinLimit
<1>6. Reached(row) => ~NoFrame(row)
  BY NoFrameLeft
<1>7. ASSUME ReadLimited(reader).ok
      PROVE  Answerable(row) /\ ReadLimited(reader).output = Content(row)
  <2>1. CASE Right(row, magic) /\ Reached(row) /\ reader.content = row.content
    <3>1. Sound(row)
      BY <1>3, <1>5, <1>7, <2>1 DEF Sound, Holds, Right, Intact
    <3> QED
      BY <1>5, <1>6, <1>7, <2>1, <3>1 DEF Answerable, Content
  <2>2. CASE NothingLeft(row) /\ magic # "gzip" /\ reader.content = << >>
    BY <1>3, <1>5, <1>7, <2>2 DEF Answerable, Content
  <2> QED
    BY <1>2, <1>5, <1>7, <2>1, <2>2
<1>8. ASSUME Sound(row)
      PROVE  ReadLimited(reader).ok /\ (Chosen = "GZIP" => Kind(data, 1) = "gzip")
  <2>1. Right(row, magic) /\ Len(row.content) <= MaxOutput
    BY <1>3, <1>8 DEF Sound, Holds, Intact
  <2> QED
    BY <1>1, <1>2, <1>5, <2>1
<1> QED
  BY <1>7, <1>8

BlockRead == IF Kind(data, 1) = "block" THEN Delivered(data) ELSE NothingBut("error")

\* What the block decoder makes of it.
LEMMA BlockOutcome ==
    ASSUME NEW row, Current(row), Chosen = "LZ4BLOCK"
    PROVE  /\ BlockRead.end = "EOF" /\ Len(BlockRead.content) <= MaxOutput =>
                 Answerable(row) /\ BlockRead.content = Content(row)
           /\ Sound(row) => BlockRead.end = "EOF" /\ Len(BlockRead.content) <= MaxOutput
<1>1. row \in Rows /\ Fits(row) /\ data = RowData(row)
  BY DEF Current
<1>2. RightCodec(row) <=> row.magic = "block" /\ row.skips = << >>
  BY CodecIsRight
<1>3. CASE Kind(data, 1) = "block"
  <2>1. data # << >>
    BY <1>3 DEF Kind
  <2>2. row.skips = << >>
    BY <1>1, <1>3, <2>1, BeginningOfRow
  <2>3. Reached(row) /\ FrameOf(row) = data /\ row.magic = "block"
    BY <1>1, <1>3, <2>1, <2>2, BeginningOfRow
  <2>4. /\ BlockRead.end = "EOF" <=> Intact(row)
        /\ Intact(row) => BlockRead.content = row.content
    BY <1>1, <1>3, <2>3, FrameOfUnits DEF BlockRead
  <2>5. ~NoFrame(row)
    BY <2>3, NoFrameLeft
  <2> QED
    BY <1>2, <2>2, <2>3, <2>4, <2>5 DEF Answerable, Content, Sound, Holds, Intact
<1>4. CASE Kind(data, 1) # "block"
  <2>1. BlockRead.end = "error"
    BY <1>4 DEF BlockRead, NothingBut
  <2>2. ~Sound(row)
    <3>1. SUFFICES ASSUME Sound(row) PROVE FALSE
      OBVIOUS
    <3>2. row.magic = "block" /\ row.skips = << >> /\ Intact(row)
      BY <1>2, <3>1 DEF Sound, Holds, Intact
    <3>3. Reached(row) /\ Start(row) \in Nat
      BY <1>1, <3>2, IntactIsReached, WholeDataUnits
    <3>4. data # << >>
      BY <1>1, <3>3 DEF Reached
    <3> QED
      BY <1>1, <1>4, <3>2, <3>4, BeginningOfRow
  <2> QED
    BY <2>1, <2>2
<1> QED
  BY <1>3, <1>4

-----------------------------------------------------------------------------
(* What is left of the input.                                              *)

RowsFine(rs) == rs \in Seq(Rows) /\ \A i \in DOMAIN rs : Fits(rs[i])

\* A row as it is sent: two strings within the limit.
LEMMA EncodedUnits ==
    ASSUME NEW row \in Rows, Fits(row)
    PROVE  /\ RowData(row) \in Seq(Units) /\ Len(RowData(row)) <= MaxInt
           /\ Codec(row) \in Seq(Units) /\ Len(Codec(row)) <= MaxInt
           /\ PutString(RowData(row)) \in Seq(Units) /\ PutString(Codec(row)) \in Seq(Units)
           /\ Encoded(row) \in Seq(Units) /\ Encoded(row) # << >>
           /\ Encoded(row) = PutString(RowData(row)) \o PutString(Codec(row))
           /\ Len(PutString(RowData(row))) \in Nat \ {0}
<1>1. RowData(row) \in Seq(Units) /\ Len(RowData(row)) <= MaxInt
  BY IntactIsReached DEF Fits
<1>2. Codec(row) \in Seq(Units) /\ Len(Codec(row)) <= MaxInt
  <2>1. CASE row.codec = ""
    <3>1. Codec(row) = << >>
      BY <2>1 DEF Codec
    <3>2. << >> \in Seq(Units) /\ Len(<< >>) = 0
      BY EmptySeq
    <3> QED
      BY <3>1, <3>2, Limits
  <2>2. CASE row.codec # ""
    <3> DEFINE u == [kind |-> "name", name |-> row.codec]
    <3>1. Codec(row) = <<u>>
      BY <2>2 DEF Codec
    <3>2. row.codec \in CodecNames
      BY <2>2 DEF Rows
    <3>3. u \in Units
      BY <3>2, UnitTypes
    <3> HIDE DEF u
    <3>4. <<u>> \in Seq(Units) /\ Len(<<u>>) = 1
      BY <3>3
    <3> QED
      BY <3>1, <3>4, Limits
  <2> QED
    BY <2>1, <2>2
<1> DEFINE a == PutString(RowData(row))
           b == PutString(Codec(row))
<1>3. /\ a \in Seq(Units) /\ b \in Seq(Units)
      /\ Len(a) = Len(PutUvarint[Len(RowData(row))]) + Len(RowData(row))
      /\ Len(RowData(row)) \in Nat
  BY <1>1, <1>2, PutStringType
<1>4. Len(PutUvarint[Len(RowData(row))]) \in Nat \ {0}
  BY <1>3, LengthAsUnits
<1>5. Len(a) \in Nat \ {0}
  BY <1>3, <1>4
<1>6. Encoded(row) = a \o b
  BY DEF Encoded
<1> HIDE DEF a, b
<1>7. a \o b \in Seq(Units) /\ Len(b) \in Nat /\ Len(a \o b) = Len(a) + Len(b)
  BY <1>3, ConcatParts, ZenonT(30)
<1>8. a \o b # << >>
  <2>1. Len(a \o b) # 0
    BY <1>5, <1>7
  <2> QED
    BY <2>1
<1> QED
  BY <1>1, <1>2, <1>3, <1>5, <1>6, <1>7, <1>8 DEF a, b

\* The first rows of a sequence, and what follows them.
Before(rs, n) == EncodedRows(SubSeq(rs, 1, n))
Remains(rs, n, rest) == rest \in Seq(Units) /\ EncodedRows(rs) = Before(rs, n) \o rest

\* What follows the first rows begins with the next one.
LEMMA RemainingRows ==
    ASSUME NEW rs, RowsFine(rs), NEW n \in 0..Len(rs)
    PROVE  /\ EncodedRows(rs) \in Seq(Units)
           /\ Before(rs, n) \in Seq(Units)
           /\ n = 0 => Remains(rs, n, EncodedRows(rs))
           /\ n = Len(rs) => \A rest : Remains(rs, n, rest) => rest = << >>
           /\ n < Len(rs) => /\ rs[n + 1] \in Rows /\ Fits(rs[n + 1])
                             /\ \A rest : Remains(rs, n, rest) =>
                                  \E more : /\ Remains(rs, n + 1, more)
                                            /\ rest = Encoded(rs[n + 1]) \o more
<1> DEFINE seqs == [i \in DOMAIN rs |-> Encoded(rs[i])]
           W == FlattenSeq(seqs)
           P(j) == FlattenSeq(SubSeq(seqs, 1, j))
           N == Len(rs)
<1>1. N \in Nat /\ DOMAIN rs = 1..N /\ \A i \in 1..N : rs[i] \in Rows /\ Fits(rs[i])
  <2>1. rs \in Seq(Rows)
    BY DEF RowsFine
  <2>2. N \in Nat /\ DOMAIN rs = 1..N
    BY <2>1, LenProperties
  <2>3. \A i \in 1..N : rs[i] \in Rows
    BY <2>1, ElementOfSeq
  <2> QED
    BY <2>2, <2>3 DEF RowsFine
<1>2. /\ seqs \in Seq(Seq(Units)) /\ Len(seqs) = N
      /\ \A i \in 1..N : seqs[i] = Encoded(rs[i])
  <2>1. \A i \in 1..N : Encoded(rs[i]) \in Seq(Units)
    BY <1>1, EncodedUnits
  <2> QED
    BY <1>1, <2>1
<1>3. ASSUME NEW j \in 0..N PROVE Before(rs, j) = P(j)
  <2> DEFINE u == SubSeq(rs, 1, j)
             v == SubSeq(seqs, 1, j)
  <2>1. u \in Seq(Rows) /\ Len(u) = j
    BY BeginningOf DEF RowsFine
  <2>2. \A i \in 1..j : u[i] = rs[i]
    BY <1>1
  <2>3. DOMAIN u = 1..j
    BY <2>1
  <2> HIDE DEF u
  <2>4. [i \in DOMAIN u |-> Encoded(u[i])] = [i \in 1..j |-> Encoded(rs[i])]
    BY <2>2, <2>3
  <2>5. v \in Seq(Seq(Units)) /\ Len(v) = j
    <3> HIDE DEF seqs
    <3>1. j \in 0..Len(seqs)
      BY <1>2
    <3> QED
      BY <1>2, <3>1, BeginningOf
  <2>6. \A i \in 1..j : v[i] = seqs[i] /\ i \in 1..N
    <3> HIDE DEF seqs
    <3> QED
      BY <1>1, <1>2
  <2> HIDE DEF v, seqs
  <2>7. v = [i \in 1..j |-> v[i]]
    BY <2>5
  <2>8. \A i \in 1..j : v[i] = Encoded(rs[i])
    BY <1>2, <2>6
  <2>9. v = [i \in 1..j |-> Encoded(rs[i])]
    BY <2>7, <2>8
  <2> QED
    BY <2>4, <2>9 DEF Before, EncodedRows, u, v
<1>4. EncodedRows(rs) = W
  BY DEF EncodedRows
<1> HIDE DEF seqs
<1>5. W \in Seq(Units)
  BY <1>2, FlattenType
<1>6. n \in 0..Len(seqs)
  BY <1>2
<1>7. SubSeq(seqs, 1, n) \in Seq(Seq(Units)) /\ Len(SubSeq(seqs, 1, n)) = n
  BY <1>2, <1>6, BeginningOf
<1>8. P(n) \in Seq(Units)
  BY <1>7, FlattenType
<1>9. ASSUME n = 0 PROVE Remains(rs, n, EncodedRows(rs))
  <2>1. SubSeq(seqs, 1, n) = << >>
    BY <1>7, <1>9, EmptySeq
  <2>2. P(n) = << >>
    BY <2>1, FlattenNone
  <2> HIDE DEF W, P
  <2>3. << >> \o W = W
    BY <1>5, ConcatEmptySeq
  <2> QED
    BY <1>3, <1>4, <1>5, <2>2, <2>3 DEF Remains
<1>10. ASSUME n = Len(rs), NEW rest, Remains(rs, n, rest) PROVE rest = << >>
  <2>1. P(n) = W
    BY <1>2, <1>10, SubSeqFull
  <2> HIDE DEF W, P
  <2>2. W = W \o rest /\ rest \in Seq(Units)
    BY <1>3, <1>4, <1>10, <2>1 DEF Remains
  <2> QED
    BY <1>5, <2>2, ConcatSimplifications
<1>11. ASSUME n < Len(rs)
       PROVE  /\ rs[n + 1] \in Rows /\ Fits(rs[n + 1])
              /\ \A rest : Remains(rs, n, rest) =>
                    \E more : Remains(rs, n + 1, more) /\ rest = Encoded(rs[n + 1]) \o more
  <2> DEFINE e == Encoded(rs[n + 1])
             a == P(n)
             b == P(n + 1)
  <2>1. n + 1 \in 1..N /\ n + 1 \in 0..N /\ n + 1 \in 0..Len(seqs) /\ n < Len(seqs)
    BY <1>1, <1>2, <1>11
  <2>2. b = a \o e /\ e \in Seq(Units) /\ a \in Seq(Units)
    <3>1. seqs[n + 1] = e
      BY <1>2, <2>1
    <3>2. /\ P(n) \in Seq(Units) /\ seqs[n + 1] \in Seq(Units)
          /\ P(n + 1) = P(n) \o seqs[n + 1]
      BY <1>2, <1>6, <2>1, FlattenNext
    <3> QED
      BY <3>1, <3>2
  <2>3. PICK more \in Seq(Units) : W = P(n + 1) \o more
    BY <1>2, <2>1, FlattenBeginning
  <2>4. Before(rs, n) = a /\ Before(rs, n + 1) = b
    BY <1>3, <2>1
  <2> HIDE DEF e, a, b, W, P
  <2>5. Remains(rs, n + 1, more)
    BY <1>4, <2>3, <2>4 DEF Remains, b
  <2>6. ASSUME NEW rest, Remains(rs, n, rest) PROVE rest = e \o more
    <3>1. rest \in Seq(Units) /\ W = a \o rest
      BY <1>4, <2>4, <2>6 DEF Remains
    <3>2. W = (a \o e) \o more
      BY <2>2, <2>3 DEF b
    <3>3. (a \o e) \o more = a \o (e \o more)
      BY <2>2, <2>3, ConcatAssociative, SMTT(30)
    <3>4. e \o more \in Seq(Units)
      BY <2>2, <2>3, ConcatProperties
    <3>5. a \o rest = a \o (e \o more)
      BY <3>1, <3>2, <3>3
    <3> DEFINE f == e \o more
    <3> HIDE DEF f
    <3>6. f \in Seq(Units) /\ a \o rest = a \o f
      BY <3>4, <3>5 DEF f
    <3>7. rest = f
      BY <2>2, <3>1, <3>6, ConcatSimplifications
    <3> QED
      BY <3>7 DEF f
  <2>7. rs[n + 1] \in Rows /\ Fits(rs[n + 1])
    BY <1>1, <2>1
  <2> QED
    BY <2>5, <2>6, <2>7 DEF e
<1>12. EncodedRows(rs) \in Seq(Units) /\ Before(rs, n) \in Seq(Units)
  BY <1>3, <1>4, <1>5, <1>8
<1> HIDE DEF W, P
<1> QED
  BY <1>9, <1>10, <1>11, <1>12

\* What may come after the rows: a part of another one, or a length that is none.
CutRow(t) ==
    \E row \in Rows : /\ Fits(row)
                      /\ \E m \in 1..(Len(Encoded(row)) - 1) : t = SubSeq(Encoded(row), 1, m)
TornEnd(isTorn, t) ==
    /\ t \in Seq(Units)
    /\ ~isTorn => t = << >>
    /\ isTorn => CutRow(t) \/ t = PutUvarint[MaxInt + 1]

\* The input when the first n rows have been read.
Waits(rs, isTorn, in, n) ==
    \E rest, t : Remains(rs, n, rest) /\ TornEnd(isTorn, t) /\ in = rest \o t

\* The input when the data of the row that is cut has been read.
CutCodec(in) ==
    \E row \in Rows : /\ Fits(row)
                      /\ \E m \in 0..(Len(PutString(Codec(row))) - 1) :
                            in = SubSeq(PutString(Codec(row)), 1, m)

\* A codec that is cut is not read.
LEMMA CutCodecIsRefused ==
    ASSUME NEW in, CutCodec(in)
    PROVE  ReadString(in).err \in {"EOF", "ErrUnexpectedEOF"}
<1>1. PICK row \in Rows :
          /\ Fits(row)
          /\ \E m \in 0..(Len(PutString(Codec(row))) - 1) : in = SubSeq(PutString(Codec(row)), 1, m)
  BY DEF CutCodec
<1>2. PICK m \in 0..(Len(PutString(Codec(row))) - 1) :
          Fits(row) /\ in = SubSeq(PutString(Codec(row)), 1, m)
  BY <1>1
<1>3. Codec(row) \in Seq(Units) /\ Len(Codec(row)) <= MaxInt /\ PutString(Codec(row)) \in Seq(Units)
  BY <1>2, EncodedUnits
<1>4. CASE m = 0
  <2>1. in = << >>
    BY <1>2, <1>4
  <2> QED
    BY <2>1, NothingToRead
<1>5. CASE m # 0
  <2>1. m \in 1..(Len(PutString(Codec(row))) - 1)
    BY <1>5
  <2>2. ReadString(SubSeq(PutString(Codec(row)), 1, m)).err = "ErrUnexpectedEOF"
    BY <1>3, <2>1, CutStringIsRefused
  <2> QED
    BY <1>2, <2>2
<1> QED
  BY <1>4, <1>5

\* One that is not is.
LEMMA CodecReadsBack ==
    ASSUME NEW row \in Rows, Fits(row), NEW in \in Seq(Units)
    PROVE  ReadString(PutString(Codec(row)) \o in) =
              [err |-> "none", value |-> Codec(row), rest |-> in]
<1>1. Codec(row) \in Seq(Units) /\ Len(Codec(row)) <= MaxInt
  BY EncodedUnits
<1> QED
  BY <1>1, StringReadsBack

\* A row that is cut is refused, if not for its data then for its codec.
LEMMA CutRowIsRefused ==
    ASSUME NEW t, CutRow(t)
    PROVE  \/ ReadString(t).err = "ErrUnexpectedEOF"
           \/ ReadString(t).err = "none" /\ CutCodec(ReadString(t).rest)
<1>1. PICK row \in Rows :
          Fits(row) /\ \E m \in 1..(Len(Encoded(row)) - 1) : t = SubSeq(Encoded(row), 1, m)
  BY DEF CutRow
<1>2. PICK m \in 1..(Len(Encoded(row)) - 1) : Fits(row) /\ t = SubSeq(Encoded(row), 1, m)
  BY <1>1
<1> DEFINE d == RowData(row)
           a == PutString(d)
           b == PutString(Codec(row))
<1>3. /\ d \in Seq(Units) /\ Len(d) <= MaxInt
      /\ a \in Seq(Units) /\ b \in Seq(Units) /\ Encoded(row) = a \o b
      /\ Len(a) \in Nat \ {0}
  BY <1>2, EncodedUnits
<1>4. ASSUME NEW q, q \in Seq(Units)
      PROVE  ReadString(a \o q).err = "none" /\ ReadString(a \o q).rest = q
  <2>1. ReadString(a \o q) = [err |-> "none", value |-> d, rest |-> q]
    <3> HIDE DEF d
    <3> QED
      BY <1>3, <1>4, StringReadsBack
  <2> QED
    BY <2>1
<1>5. ASSUME m < Len(a) PROVE ReadString(SubSeq(a, 1, m)).err = "ErrUnexpectedEOF"
  <2>1. m \in 1..(Len(a) - 1)
    <3> HIDE DEF a
    <3> QED
      BY <1>3, <1>5
  <2> HIDE DEF d
  <2> QED
    BY <1>3, <2>1, CutStringIsRefused
<1>6. ASSUME NEW k \in 0..(Len(b) - 1) PROVE CutCodec(SubSeq(b, 1, k))
  BY <1>2 DEF CutCodec
<1> HIDE DEF d, a, b
<1>7. Len(b) \in Nat /\ Len(a \o b) = Len(a) + Len(b)
  BY <1>3, ConcatParts
<1>8. m \in 1..(Len(a) + Len(b) - 1) /\ m \in 0..(Len(a) + Len(b))
  BY <1>3, <1>7
<1>9. t = IF m <= Len(a) THEN SubSeq(a, 1, m) ELSE a \o SubSeq(b, 1, m - Len(a))
  BY <1>2, <1>3, <1>8, BeginningOfConcat
<1>10. CASE m < Len(a)
  BY <1>3, <1>5, <1>8, <1>9, <1>10
<1>11. CASE m = Len(a)
  <2>1. t = a
    BY <1>3, <1>9, <1>11, SubSeqFull
  <2>2. << >> \in Seq(Units) /\ a \o << >> = a
    BY <1>3, ConcatEmptySeq, EmptySeq
  <2>3. SubSeq(b, 1, 0) = << >> /\ 0 \in 0..(Len(b) - 1)
    BY <1>3, <1>7, <1>8, <1>11
  <2>4. CutCodec(<< >>)
    BY <1>6, <2>3
  <2>5. ReadString(a).err = "none" /\ ReadString(a).rest = << >>
    BY <1>4, <2>2
  <2> QED
    BY <2>1, <2>4, <2>5
<1>12. CASE m > Len(a)
  <2> DEFINE k == m - Len(a)
  <2>1. k \in 0..(Len(b) - 1) /\ k \in 0..Len(b)
    BY <1>3, <1>7, <1>8, <1>12
  <2>2. t = a \o SubSeq(b, 1, k)
    BY <1>3, <1>8, <1>9, <1>12
  <2> HIDE DEF k
  <2>3. SubSeq(b, 1, k) \in Seq(Units)
    BY <1>3, <2>1, BeginningOf
  <2>4. CutCodec(SubSeq(b, 1, k))
    BY <1>6, <2>1
  <2> QED
    BY <1>4, <2>2, <2>3, <2>4
<1> QED
  BY <1>3, <1>8, <1>10, <1>11, <1>12

\* The data of the next row is read.
ReadsOn(rs, isTorn, in, n) ==
    \E more \in Seq(Units) :
       /\ Waits(rs, isTorn, more, n + 1)
       /\ ReadString(in) = [err |-> "none", value |-> RowData(rs[n + 1]),
                            rest |-> PutString(Codec(rs[n + 1])) \o more]

\* What readString gives when the data of a row is due.
LEMMA RowReadsBack ==
    ASSUME NEW rs, RowsFine(rs), NEW isTorn \in BOOLEAN, NEW n \in 0..Len(rs), NEW in,
           Waits(rs, isTorn, in, n)
    PROVE  /\ n < Len(rs) => ReadsOn(rs, isTorn, in, n) /\ ReadString(in).err = "none"
           /\ n = Len(rs) /\ ~isTorn => ReadString(in).err = "EOF"
           /\ n = Len(rs) /\ isTorn =>
                 \/ ReadString(in).err \in {"ErrUnexpectedEOF", "limit"}
                 \/ ReadString(in).err = "none" /\ CutCodec(ReadString(in).rest)
<1>1. PICK rest, t : Remains(rs, n, rest) /\ TornEnd(isTorn, t) /\ in = rest \o t
  BY DEF Waits
<1>2. rest \in Seq(Units) /\ t \in Seq(Units)
  BY <1>1 DEF Remains, TornEnd
<1>3. ASSUME n < Len(rs)
      PROVE  ReadsOn(rs, isTorn, in, n) /\ ReadString(in).err = "none"
  <2> DEFINE row == rs[n + 1]
             d == RowData(row)
             a == PutString(d)
             b == PutString(Codec(row))
  <2>1. row \in Rows /\ Fits(row)
    BY <1>3, RemainingRows
  <2>2. PICK next : Remains(rs, n + 1, next) /\ rest = Encoded(row) \o next
    BY <1>1, <1>3, RemainingRows
  <2>3. next \in Seq(Units)
    BY <2>2 DEF Remains
  <2> HIDE DEF row
  <2>4. /\ d \in Seq(Units) /\ Len(d) <= MaxInt
        /\ a \in Seq(Units) /\ b \in Seq(Units) /\ Encoded(row) = a \o b
    BY <2>1, EncodedUnits
  <2> DEFINE more == next \o t
  <2>5. more \in Seq(Units) /\ Waits(rs, isTorn, more, n + 1)
    <3>1. more \in Seq(Units)
      BY <1>2, <2>3, ConcatProperties
    <3> QED
      BY <1>1, <2>2, <3>1 DEF Waits
  <2>6. ASSUME NEW s, s \in Seq(Units)
        PROVE  ReadString(a \o s) = [err |-> "none", value |-> d, rest |-> s]
    <3> HIDE DEF d
    <3> QED
      BY <2>4, <2>6, StringReadsBack
  <2> HIDE DEF d, a, b
  <2>7. in = a \o (b \o more)
    <3>1. in = ((a \o b) \o next) \o t
      BY <1>1, <2>2, <2>4
    <3>2. a \o b \in Seq(Units)
      BY <2>4, ConcatProperties
    <3>3. ((a \o b) \o next) \o t = (a \o b) \o (next \o t)
      <4> DEFINE f == a \o b
      <4> HIDE DEF f
      <4>1. f \in Seq(Units) /\ next \in Seq(Units) /\ t \in Seq(Units)
        BY <1>2, <2>3, <3>2 DEF f
      <4>2. (f \o next) \o t = f \o (next \o t)
        BY <4>1, ConcatAssociative, SMTT(30)
      <4> QED
        BY <4>2 DEF f
    <3> HIDE DEF more
    <3>4. (a \o b) \o more = a \o (b \o more)
      BY <2>4, <2>5, ConcatAssociative, SMTT(30)
    <3> QED
      BY <3>1, <3>3, <3>4 DEF more
  <2> HIDE DEF more
  <2>8. b \o more \in Seq(Units)
    BY <2>4, <2>5, ConcatProperties
  <2>9. ReadString(in) = [err |-> "none", value |-> d, rest |-> b \o more]
    BY <2>6, <2>7, <2>8
  <2>10. ReadString(in).err = "none"
    BY <2>9
  <2> QED
    BY <2>5, <2>9, <2>10 DEF ReadsOn, d, b, row
<1>4. ASSUME n = Len(rs) PROVE in = t
  <2>1. rest = << >>
    BY <1>1, <1>4, RemainingRows
  <2>2. << >> \o t = t
    BY <1>2, ConcatEmptySeq
  <2> QED
    BY <1>1, <2>1, <2>2
<1>5. ASSUME n = Len(rs), ~isTorn PROVE ReadString(in).err = "EOF"
  <2>1. in = << >>
    BY <1>1, <1>4, <1>5 DEF TornEnd
  <2> QED
    BY <2>1, NothingToRead
<1>6. ASSUME n = Len(rs), isTorn
      PROVE  \/ ReadString(in).err \in {"ErrUnexpectedEOF", "limit"}
             \/ ReadString(in).err = "none" /\ CutCodec(ReadString(in).rest)
  <2>1. in = t /\ (CutRow(t) \/ t = PutUvarint[MaxInt + 1])
    BY <1>1, <1>4, <1>6 DEF TornEnd
  <2>2. CASE CutRow(t)
    BY <2>1, <2>2, CutRowIsRefused
  <2>3. CASE t = PutUvarint[MaxInt + 1]
    BY <2>1, <2>3, LengthOverLimit
  <2> QED
    BY <2>1, <2>2, <2>3
<1> QED
  BY <1>3, <1>5, <1>6

-----------------------------------------------------------------------------
(* The invariant.                                                          *)

\* The answers, one after the other.
LEMMA AnswersNext ==
    ASSUME RowsFine(rows), NEW n \in 0..Len(rows)
    PROVE  /\ n = 0 => Answers(n) = << >>
           /\ n < Len(rows) => Answers(n + 1) = Answers(n) \o PutString(Content(rows[n + 1]))
<1> DEFINE seqs(k) == [i \in 1..k |-> Answer(rows[i])]
<1>1. Len(rows) \in Nat /\ \A i \in 1..Len(rows) : rows[i] \in Rows
  <2>1. rows \in Seq(Rows)
    BY DEF RowsFine
  <2> QED
    BY <2>1, LenProperties, ElementOfSeq
<1>2. \A row : Answer(row) = PutString(Content(row))
  BY DEF Answer, Content
<1>3. ASSUME NEW i \in 1..Len(rows) PROVE Answer(rows[i]) \in Seq(Units)
  <2>1. rows[i].content \in Seq(Units)
    <3>1. rows[i].content \in Seq(Bytes)
      BY <1>1 DEF Rows
    <3> QED
      BY <3>1, UnitTypes, SeqMonotonic
  <2>2. Content(rows[i]) \in Seq(Units)
    BY <2>1, EmptySeq DEF Content
  <2> QED
    BY <1>2, <2>2, PutStringType
<1>4. ASSUME n = 0 PROVE Answers(n) = << >>
  <2>1. seqs(0) = << >>
    OBVIOUS
  <2>2. Answers(n) = FlattenSeq(seqs(0))
    BY <1>4 DEF Answers
  <2> HIDE DEF seqs
  <2> QED
    BY <2>1, <2>2, FlattenNone
<1>5. ASSUME n < Len(rows)
      PROVE  Answers(n + 1) = Answers(n) \o PutString(Content(rows[n + 1]))
  <2> DEFINE x == Answer(rows[n + 1])
  <2>1. n + 1 \in 1..Len(rows) /\ \A i \in 1..n : i \in 1..Len(rows)
    BY <1>1, <1>5
  <2>2. x \in Seq(Units)
    BY <1>3, <2>1
  <2>3. seqs(n) \in Seq(Seq(Units)) /\ Len(seqs(n)) = n
    <3>1. \A i \in 1..n : Answer(rows[i]) \in Seq(Units)
      BY <1>3, <2>1
    <3> QED
      BY <1>1, <3>1
  <2>4. seqs(n + 1) = Append(seqs(n), x)
    <3>1. Append(seqs(n), x) = [i \in 1..(n + 1) |-> IF i = n + 1 THEN x ELSE seqs(n)[i]]
      <4> DEFINE s == seqs(n)
                 a == Append(s, x)
      <4>1. /\ Append(s, x) \in Seq(Seq(Units)) /\ Len(Append(s, x)) = n + 1
            /\ Append(s, x)[n + 1] = x /\ \A i \in 1..n : Append(s, x)[i] = s[i]
        <5> HIDE DEF s, x
        <5> QED
          BY <2>2, <2>3, AppendProperties DEF s
      <4> HIDE DEF s, x, a
      <4>2. a = [i \in 1..(n + 1) |-> a[i]]
        <5>1. a \in Seq(Seq(Units)) /\ Len(a) = n + 1
          BY <4>1 DEF a
        <5>2. DOMAIN a = 1..(n + 1) /\ a = [i \in DOMAIN a |-> a[i]]
          BY <5>1, LenProperties
        <5> QED
          BY <5>2
      <4>3. \A i \in 1..(n + 1) : a[i] = IF i = n + 1 THEN x ELSE s[i]
        BY <1>1, <4>1 DEF a
      <4>4. a = [i \in 1..(n + 1) |-> IF i = n + 1 THEN x ELSE s[i]]
        BY <4>2, <4>3
      <4> QED
        BY <4>4 DEF a, s
    <3>2. \A i \in 1..(n + 1) : (IF i = n + 1 THEN x ELSE seqs(n)[i]) = Answer(rows[i])
      <4>1. ASSUME NEW i \in 1..(n + 1)
            PROVE  (IF i = n + 1 THEN x ELSE seqs(n)[i]) = Answer(rows[i])
        <5>1. CASE i = n + 1
          BY <5>1
        <5>2. CASE i # n + 1
          <6>1. i \in 1..n
            BY <1>1, <5>2
          <6> QED
            BY <5>2, <6>1
        <5> QED
          BY <5>1, <5>2
      <4> QED
        BY <4>1
    <3> QED
      BY <3>1, <3>2
  <2>5. Answers(n + 1) = FlattenSeq(seqs(n + 1)) /\ Answers(n) = FlattenSeq(seqs(n))
    BY DEF Answers
  <2>6. FlattenSeq(Append(seqs(n), x)) = FlattenSeq(seqs(n)) \o x
    <3> HIDE DEF seqs, x
    <3> QED
      BY <2>2, <2>3, FlattenAppend
  <2>7. x = PutString(Content(rows[n + 1]))
    BY <1>2
  <2> HIDE DEF seqs, x
  <2> QED
    BY <2>4, <2>5, <2>6, <2>7
<1> QED
  BY <1>4, <1>5

\* The decompressed data.
Viewed == SubSeq(IF view.buffer = "output" THEN output ELSE block, 1, view.size)

\* Where the program is with the row that follows the first n.
Progress(n) ==
    /\ stage = "data" => Waits(rows, torn, input, n)
    /\ stage = "codec" =>
          \/ torn /\ CutCodec(input)
          \/ /\ n < Len(rows) /\ data = RowData(rows[n + 1])
             /\ \E more \in Seq(Units) : /\ Waits(rows, torn, more, n + 1)
                                         /\ input = PutString(Codec(rows[n + 1])) \o more
    /\ stage = "decompress" => /\ n < Len(rows) /\ Waits(rows, torn, input, n + 1)
                               /\ data = RowData(rows[n + 1]) /\ codec = Codec(rows[n + 1])
    /\ stage = "write" => /\ n < Len(rows) /\ Waits(rows, torn, input, n + 1)
                          /\ Answerable(rows[n + 1]) /\ Viewed = Content(rows[n + 1])
    /\ stage = "done" => n = Len(rows) /\ ~torn
    /\ stage = "failed" => torn \/ \E i \in DOMAIN rows : ~Sound(rows[i])

\* The first n rows have been answered, and all of them could be.
Answered(n) == out = Answers(n) /\ \A i \in 1..n : Answerable(rows[i])

IInv ==
    /\ RowsFine(rows) /\ torn \in BOOLEAN
    /\ \E n \in 0..Len(rows) : Answered(n) /\ Progress(n)

\* It holds at first,
LEMMA InvInit == Init => IInv
<1> SUFFICES ASSUME Init PROVE IInv
  OBVIOUS
<1>1. ASSUME RowsFine(rows), torn \in BOOLEAN,
             NEW t, TornEnd(torn, t), input = EncodedRows(rows) \o t
      PROVE  IInv
  <2>1. Len(rows) \in Nat
    BY <1>1, LenProperties DEF RowsFine
  <2>2. 0 \in 0..Len(rows)
    BY <2>1
  <2>3. Remains(rows, 0, EncodedRows(rows))
    BY <1>1, <2>2, RemainingRows
  <2>4. Waits(rows, torn, input, 0)
    BY <1>1, <2>3 DEF Waits
  <2>5. stage = "data" /\ out = << >>
    BY DEF Init
  <2>6. Answered(0)
    <3>1. Answers(0) = << >>
      BY <1>1, <2>2, AnswersNext
    <3>2. 1..0 = {}
      OBVIOUS
    <3> QED
      BY <2>5, <3>1, <3>2 DEF Answered
  <2>7. Progress(0)
    BY <2>4, <2>5 DEF Progress
  <2> QED
    BY <1>1, <2>2, <2>6, <2>7 DEF IInv
<1>2. \A rs \in Batches \union CutBatches : RowsFine(rs)
  BY RowsAssumption DEF RowsFine
<1>3. CASE rows \in Batches /\ torn = FALSE /\ input = EncodedRows(rows)
  <2>1. RowsFine(rows) /\ torn \in BOOLEAN
    BY <1>2, <1>3
  <2>2. Len(rows) \in Nat
    BY <2>1, LenProperties DEF RowsFine
  <2>3. EncodedRows(rows) \in Seq(Units)
    <3>1. 0 \in 0..Len(rows)
      BY <2>2
    <3> QED
      BY <2>1, <3>1, RemainingRows
  <2>4. EncodedRows(rows) \o << >> = EncodedRows(rows) /\ << >> \in Seq(Units)
    BY <2>3, ConcatEmptySeq, EmptySeq
  <2>5. TornEnd(torn, << >>)
    BY <1>3, <2>4 DEF TornEnd
  <2> QED
    BY <1>1, <1>3, <2>1, <2>4, <2>5
<1>4. ASSUME NEW rs \in CutBatches \ {<< >>}, torn = TRUE, rows = Front(rs),
             NEW m \in 1..(Len(Encoded(Last(rs))) - 1),
             input = EncodedRows(rows) \o SubSeq(Encoded(Last(rs)), 1, m)
      PROVE  IInv
  <2> DEFINE row == Last(rs)
             t == SubSeq(Encoded(row), 1, m)
  <2>1. RowsFine(rs) /\ rs \in Seq(Rows) /\ rs # << >>
    BY <1>2, <1>4 DEF RowsFine
  <2>2. Len(rs) \in Nat \ {0}
    BY <2>1, EmptySeq
  <2>3. row \in Rows /\ Fits(row)
    <3>1. row = rs[Len(rs)] /\ Len(rs) \in 1..Len(rs)
      BY <2>2 DEF Last
    <3>2. DOMAIN rs = 1..Len(rs)
      BY <2>1, LenProperties
    <3> QED
      BY <2>1, <3>1, <3>2, ElementOfSeq DEF RowsFine
  <2>4. RowsFine(rows)
    <3> DEFINE k == Len(rs) - 1
    <3>1. rows = SubSeq(rs, 1, k) /\ k \in 0..Len(rs) /\ \A i \in 1..k : i \in 1..Len(rs)
      BY <1>4, <2>2 DEF Front
    <3> HIDE DEF k
    <3>2. rows \in Seq(Rows) /\ Len(rows) = k
      BY <2>1, <3>1, BeginningOf
    <3>3. DOMAIN rows = 1..k
      BY <3>2, LenProperties
    <3>4. \A i \in 1..k : rows[i] = rs[i]
      BY <3>1
    <3>5. \A i \in 1..k : Fits(rs[i])
      <4>1. DOMAIN rs = 1..Len(rs)
        BY <2>1, LenProperties
      <4> QED
        BY <2>1, <3>1, <4>1 DEF RowsFine
    <3> QED
      BY <3>2, <3>3, <3>4, <3>5 DEF RowsFine
  <2> HIDE DEF row
  <2>5. m \in 1..(Len(Encoded(row)) - 1)
    BY <1>4 DEF row
  <2>6. CutRow(t)
    BY <2>3, <2>5 DEF CutRow
  <2>7. t \in Seq(Units)
    <3>1. Encoded(row) \in Seq(Units)
      BY <2>3, EncodedUnits
    <3>2. m \in 0..Len(Encoded(row))
      <4>1. Len(Encoded(row)) \in Nat
        BY <3>1, LenProperties
      <4> QED
        BY <2>5, <4>1
    <3> QED
      BY <3>1, <3>2, BeginningOf
  <2>8. TornEnd(torn, t)
    BY <1>4, <2>6, <2>7 DEF TornEnd
  <2>9. input = EncodedRows(rows) \o t /\ torn \in BOOLEAN
    BY <1>4 DEF row
  <2> HIDE DEF t
  <2> QED
    BY <1>1, <2>4, <2>8, <2>9
<1>5. CASE /\ torn = TRUE /\ rows \in CutBatches
           /\ input = EncodedRows(rows) \o PutUvarint[MaxInt + 1]
  <2>1. RowsFine(rows) /\ torn \in BOOLEAN
    BY <1>2, <1>5
  <2>2. PutUvarint[MaxInt + 1] \in Seq(Units)
    <3>1. MaxInt + 1 \in Nat
      BY Limits
    <3> QED
      BY <3>1, LengthAsUnits
  <2>3. TornEnd(torn, PutUvarint[MaxInt + 1])
    BY <1>5, <2>2 DEF TornEnd
  <2> QED
    BY <1>1, <1>5, <2>1, <2>3
<1> QED
  BY <1>3, <1>4, <1>5 DEF Init

\* The front of a buffer that is filled with some content is that content.
LEMMA FrontOfBuffer ==
    ASSUME NEW S, NEW content \in Seq(S), NEW size \in Nat, Len(content) <= size, NEW old
    PROVE  SubSeq([i \in 1..size |-> IF i <= Len(content) THEN content[i] ELSE old[i]],
                  1, Len(content)) = content
<1> DEFINE f == [i \in 1..size |-> IF i <= Len(content) THEN content[i] ELSE old[i]]
           L == Len(content)
           g == SubSeq(f, 1, L)
<1>1. L \in Nat /\ \A i \in 1..L : content[i] \in S
  BY LenProperties, ElementOfSeq
<1>2. \A i \in 1..L : f[i] = content[i]
  <2>1. ASSUME NEW i \in 1..L PROVE f[i] = content[i]
    <3>1. i \in 1..size /\ i <= L
      BY <1>1
    <3> QED
      BY <3>1
  <2> QED
    BY <2>1
<1> HIDE DEF f, L
<1>3. \A i \in 1..L : f[i] \in S
  BY <1>1, <1>2
<1>4. /\ g \in Seq(S) /\ Len(g) = IF 1 <= L THEN L - 1 + 1 ELSE 0
      /\ \A i \in 1..(L - 1 + 1) : g[i] = f[1 + i - 1]
  <2>1. 1 \in Int /\ L \in Int
    BY <1>1
  <2> QED
    BY <1>3, <2>1, SubSeqProperties
<1> HIDE DEF g
<1>5. Len(g) = L /\ L - 1 + 1 = L /\ \A i \in 1..L : 1 + i - 1 = i
  BY <1>1, <1>4
<1>6. \A i \in 1..L : g[i] = content[i]
  BY <1>2, <1>4, <1>5
<1>7. g = content
  <2>1. g \in Seq(S) /\ Len(g) = Len(content) /\ \A i \in 1..Len(g) : g[i] = content[i]
    BY <1>4, <1>5, <1>6 DEF L
  <2> QED
    BY <2>1, SeqEqual
<1> QED
  BY <1>7 DEF g, f, L

\* and every step preserves it.
LEMMA InvNext == IInv /\ [Next]_vars => IInv'
<1> SUFFICES ASSUME IInv, [Next]_vars PROVE IInv'
  OBVIOUS
<1>1. RowsFine(rows) /\ torn \in BOOLEAN
  BY DEF IInv
<1>2. PICK n \in 0..Len(rows) : Answered(n) /\ Progress(n)
  BY DEF IInv
<1>3. Len(rows) \in Nat /\ n \in 0..Len(rows) /\ (n < Len(rows) \/ n = Len(rows))
  <2>1. Len(rows) \in Nat
    BY <1>1, LenProperties DEF RowsFine
  <2>2. n \in 0..Len(rows)
    BY <1>2
  <2> QED
    BY <2>1, <2>2
<1>4. ASSUME n < Len(rows)
      PROVE  /\ rows[n + 1] \in Rows /\ Fits(rows[n + 1])
             /\ n + 1 \in DOMAIN rows /\ n + 1 \in 0..Len(rows)
             /\ \A i \in 1..(n + 1) : i \in 1..n \/ i = n + 1
  <2>1. rows[n + 1] \in Rows /\ Fits(rows[n + 1])
    BY <1>1, <1>4, RemainingRows
  <2>2. n + 1 \in 1..Len(rows) /\ n + 1 \in 0..Len(rows)
    BY <1>3, <1>4
  <2>3. \A i \in 1..(n + 1) : i \in 1..n \/ i = n + 1
    BY <1>3
  <2>4. DOMAIN rows = 1..Len(rows)
    BY <1>1, LenProperties DEF RowsFine
  <2> QED
    BY <2>1, <2>2, <2>3, <2>4
<1>5. ASSUME UNCHANGED <<rows, torn, out>>, Progress(n)' PROVE IInv'
  <2>1. Answered(n)'
    BY <1>2, <1>5 DEF Answered, Answers
  <2>2. n \in 0..Len(rows')
    BY <1>5
  <2> QED
    BY <1>1, <1>5, <2>1, <2>2 DEF IInv
<1>6. ASSUME EndOfInput PROVE IInv'
  <2>1. stage = "data" /\ ReadString(input).err = "EOF" /\ stage' = "done"
        /\ UNCHANGED <<rows, torn, out>>
    BY <1>6 DEF EndOfInput
  <2>2. Waits(rows, torn, input, n)
    BY <1>2, <2>1 DEF Progress
  <2>3. ~(n < Len(rows))
    <3>1. SUFFICES ASSUME n < Len(rows) PROVE FALSE
      OBVIOUS
    <3>2. ReadString(input).err = "none"
      BY <1>1, <2>2, <3>1, RowReadsBack
    <3> QED
      BY <2>1, <3>2
  <2>4. n = Len(rows)
    BY <1>3, <2>3
  <2>5. ~torn
    BY <1>1, <2>1, <2>2, <2>4, RowReadsBack
  <2>6. Progress(n)'
    BY <2>1, <2>4, <2>5 DEF Progress
  <2> QED
    BY <1>5, <2>1, <2>6
<1>7. ASSUME ReadData PROVE IInv'
  <2>1. /\ stage = "data" /\ ReadString(input).err = "none" /\ stage' = "codec"
        /\ data' = ReadString(input).value /\ input' = ReadString(input).rest
        /\ UNCHANGED <<rows, torn, out>>
    BY <1>7 DEF ReadData
  <2>2. Waits(rows, torn, input, n)
    BY <1>2, <2>1 DEF Progress
  <2>3. CASE n < Len(rows)
    <3>1. PICK more \in Seq(Units) :
              /\ Waits(rows, torn, more, n + 1)
              /\ ReadString(input) = [err |-> "none", value |-> RowData(rows[n + 1]),
                                      rest |-> PutString(Codec(rows[n + 1])) \o more]
      BY <1>1, <1>3, <2>2, <2>3, RowReadsBack DEF ReadsOn
    <3>2. data' = RowData(rows[n + 1]) /\ input' = PutString(Codec(rows[n + 1])) \o more
      BY <2>1, <3>1
    <3>3. Progress(n)'
      BY <2>1, <2>3, <3>1, <3>2 DEF Progress
    <3> QED
      BY <1>5, <2>1, <3>3
  <2>4. CASE ~(n < Len(rows))
    <3>1. n = Len(rows)
      BY <1>3, <2>4
    <3>2. torn /\ CutCodec(input')
      BY <1>1, <2>1, <2>2, <3>1, RowReadsBack
    <3>3. Progress(n)'
      BY <2>1, <3>2 DEF Progress
    <3> QED
      BY <1>5, <2>1, <3>3
  <2> QED
    BY <2>3, <2>4
<1>8. ASSUME stage = "codec", ~(torn /\ CutCodec(input))
      PROVE  /\ n < Len(rows) /\ data = RowData(rows[n + 1])
             /\ \E more \in Seq(Units) :
                   /\ Waits(rows, torn, more, n + 1)
                   /\ ReadString(input) = [err |-> "none", value |-> Codec(rows[n + 1]),
                                           rest |-> more]
  <2>1. PICK more \in Seq(Units) : /\ n < Len(rows) /\ data = RowData(rows[n + 1])
                                   /\ Waits(rows, torn, more, n + 1)
                                   /\ input = PutString(Codec(rows[n + 1])) \o more
    BY <1>2, <1>8 DEF Progress
  <2>2. ReadString(input) = [err |-> "none", value |-> Codec(rows[n + 1]), rest |-> more]
    BY <1>4, <2>1, CodecReadsBack
  <2> QED
    BY <2>1, <2>2
<1>9. ASSUME ReadCodec PROVE IInv'
  <2>1. /\ stage = "codec" /\ ReadString(input).err = "none" /\ stage' = "decompress"
        /\ codec' = ReadString(input).value /\ input' = ReadString(input).rest
        /\ UNCHANGED <<rows, torn, data, out>>
    BY <1>9 DEF ReadCodec
  <2>2. ~(torn /\ CutCodec(input))
    BY <2>1, CutCodecIsRefused
  <2>3. PICK more \in Seq(Units) :
            /\ n < Len(rows) /\ data = RowData(rows[n + 1])
            /\ Waits(rows, torn, more, n + 1)
            /\ ReadString(input) = [err |-> "none", value |-> Codec(rows[n + 1]), rest |-> more]
    BY <1>8, <2>1, <2>2
  <2>4. codec' = Codec(rows[n + 1]) /\ input' = more
    BY <2>1, <2>3
  <2>5. Progress(n)'
    BY <2>1, <2>3, <2>4 DEF Progress
  <2> QED
    BY <1>5, <2>1, <2>5
<1>10. ASSUME ReadFails PROVE IInv'
  <2>1. stage' = "failed" /\ UNCHANGED <<rows, torn, out>>
    BY <1>10 DEF ReadFails
  <2>2. torn
    <3>1. CASE stage = "data" /\ ReadString(input).err \notin {"none", "EOF"}
      <4>1. Waits(rows, torn, input, n)
        BY <1>2, <3>1 DEF Progress
      <4>2. ~(n < Len(rows))
        <5>1. SUFFICES ASSUME n < Len(rows) PROVE FALSE
          OBVIOUS
        <5>2. ReadString(input).err = "none"
          BY <1>1, <4>1, <5>1, RowReadsBack
        <5> QED
          BY <3>1, <5>2
      <4>3. n = Len(rows)
        BY <1>3, <4>2
      <4> QED
        BY <1>1, <3>1, <4>1, <4>3, RowReadsBack
    <3>2. CASE stage = "codec" /\ ReadString(input).err # "none"
      <4>1. SUFFICES ASSUME ~torn PROVE FALSE
        OBVIOUS
      <4>2. ReadString(input).err = "none"
        BY <1>8, <3>2, <4>1
      <4> QED
        BY <3>2, <4>2
    <3> QED
      BY <1>10, <3>1, <3>2 DEF ReadFails
  <2>3. Progress(n)'
    BY <2>1, <2>2 DEF Progress
  <2> QED
    BY <1>5, <2>1, <2>3
<1>11. ASSUME stage = "decompress"
       PROVE  n < Len(rows) /\ Waits(rows, torn, input, n + 1) /\ Current(rows[n + 1])
  BY <1>2, <1>4, <1>11 DEF Progress, Current
<1>12. ASSUME n < Len(rows), ~Sound(rows[n + 1]), stage' = "failed", UNCHANGED <<rows, torn, out>>
       PROVE  IInv'
  <2>1. \E i \in DOMAIN rows : ~Sound(rows[i])
    BY <1>4, <1>12
  <2>2. Progress(n)'
    BY <1>12, <2>1 DEF Progress
  <2> QED
    BY <1>5, <1>12, <2>2
<1>13. ASSUME n < Len(rows), Waits(rows, torn, input, n + 1), Answerable(rows[n + 1]),
              Viewed' = Content(rows[n + 1]), stage' = "write", UNCHANGED <<rows, torn, input, out>>
       PROVE  IInv'
  <2>1. Progress(n)'
    <3> DEFINE V == Viewed
    <3>1. V' = Content(rows[n + 1])
      BY <1>13
    <3> HIDE DEF V
    <3>2. /\ stage' = "write"
          /\ n < Len(rows') /\ Waits(rows', torn', input', n + 1)
          /\ Answerable(rows'[n + 1]) /\ V' = Content(rows'[n + 1])
      BY <1>13, <3>1
    <3> QED
      BY <3>2 DEF Progress, V
  <2> QED
    BY <1>5, <1>13, <2>1
<1>14. n < Len(rows) => Content(rows[n + 1]) \in Seq(Units)
  <2>1. ASSUME n < Len(rows) PROVE Content(rows[n + 1]) \in Seq(Units)
    <3>1. rows[n + 1].content \in Seq(Bytes)
      BY <1>4, <2>1 DEF Rows
    <3>2. rows[n + 1].content \in Seq(Units)
      BY <3>1, UnitTypes, SeqMonotonic
    <3> QED
      BY <3>2, EmptySeq DEF Content
  <2> QED
    BY <2>1
<1>15. ASSUME DecompressStream PROVE IInv'
  <2>1. /\ stage = "decompress" /\ Chosen \in DOMAIN MagicOf
        /\ UNCHANGED <<rows, torn, input, out>>
    BY <1>15 DEF DecompressStream
  <2> DEFINE magic == MagicOf[Chosen]
             opens == Chosen = "GZIP" => Kind(data, 1) = "gzip"
  <2>2. PICK reader \in Readers(magic) :
            /\ output' = IF opens THEN ReadLimited(reader).output ELSE output
            /\ view' = [buffer |-> "output", size |-> Len(output')]
            /\ stage' = IF opens /\ ReadLimited(reader).ok THEN "write" ELSE "failed"
    BY <1>15 DEF DecompressStream
  <2>3. Chosen \in {"GZIP", "ZSTD", "LZ4"} /\ magic \in {"gzip", "zstd", "lz4"}
    BY <2>1 DEF MagicOf
  <2>4. n < Len(rows) /\ Waits(rows, torn, input, n + 1) /\ Current(rows[n + 1])
    BY <1>11, <2>1
  <2> DEFINE row == rows[n + 1]
             read == ReadLimited(reader)
  <2>5. /\ read.ok => Answerable(row) /\ read.output = Content(row)
        /\ Sound(row) => read.ok /\ opens
    <3> HIDE DEF row
    <3>1. Current(row)
      BY <2>4 DEF row
    <3> QED
      BY <2>3, <3>1, StreamOutcome
  <2>6. CASE opens /\ read.ok
    <3>1. stage' = "write" /\ output' = Content(row) /\ Answerable(row)
      BY <2>2, <2>5, <2>6
    <3>2. Viewed' = Content(row)
      <4>1. view'.buffer = "output" /\ view'.size = Len(output')
        BY <2>2
      <4>2. Viewed' = SubSeq(output', 1, Len(output'))
        BY <4>1 DEF Viewed
      <4>3. output' \in Seq(Units)
        BY <1>14, <2>4, <3>1
      <4> QED
        BY <3>1, <4>2, <4>3, SubSeqFull
    <3> QED
      BY <1>13, <2>1, <2>4, <3>1, <3>2
  <2>7. CASE ~(opens /\ read.ok)
    <3>1. stage' = "failed" /\ ~Sound(row)
      BY <2>2, <2>5, <2>7
    <3> QED
      BY <1>12, <2>1, <2>4, <3>1
  <2> QED
    BY <2>6, <2>7
<1>16. ASSUME DecompressBlock PROVE IInv'
  <2> DEFINE read == BlockRead
             fits == read.end = "EOF" /\ Len(read.content) <= MaxOutput
             old == IF block = << >> THEN [i \in 1..MaxOutput |-> Byte("0")] ELSE block
  <2>1. /\ stage = "decompress" /\ Chosen = "LZ4BLOCK"
        /\ block' = IF fits THEN [i \in 1..MaxOutput |->
                                     IF i <= Len(read.content) THEN read.content[i] ELSE old[i]]
                    ELSE old
        /\ view' = [buffer |-> "block", size |-> Len(read.content)]
        /\ stage' = IF fits THEN "write" ELSE "failed"
        /\ UNCHANGED <<rows, torn, input, out>>
    BY <1>16 DEF DecompressBlock, BlockRead
  <2>2. n < Len(rows) /\ Waits(rows, torn, input, n + 1) /\ Current(rows[n + 1])
    BY <1>11, <2>1
  <2> DEFINE row == rows[n + 1]
  <2>3. /\ fits => Answerable(row) /\ read.content = Content(row)
        /\ Sound(row) => fits
    <3> HIDE DEF row
    <3>1. Current(row)
      BY <2>2 DEF row
    <3> QED
      BY <2>1, <3>1, BlockOutcome
  <2> HIDE DEF read, old
  <2>4. CASE fits
    <3> DEFINE c == Content(row)
    <3>1. /\ stage' = "write" /\ Answerable(row) /\ read.content = c /\ Len(c) <= MaxOutput
          /\ block' = [i \in 1..MaxOutput |-> IF i <= Len(c) THEN c[i] ELSE old[i]]
          /\ view' = [buffer |-> "block", size |-> Len(c)]
      BY <2>1, <2>3, <2>4
    <3>2. c \in Seq(Units)
      BY <1>14, <2>2
    <3>3. Viewed' = SubSeq(block', 1, Len(c))
      <4> HIDE DEF c
      <4>1. view'.buffer = "block" /\ view'.size = Len(c)
        BY <3>1
      <4> QED
        BY <4>1 DEF Viewed
    <3>4. Viewed' = c
      <4> HIDE DEF c
      <4>1. SubSeq([i \in 1..MaxOutput |-> IF i <= Len(c) THEN c[i] ELSE old[i]], 1, Len(c)) = c
        BY <3>1, <3>2, Limits, FrontOfBuffer
      <4> QED
        BY <3>1, <3>3, <4>1
    <3> QED
      BY <1>13, <2>1, <2>2, <3>1, <3>4
  <2>5. CASE ~fits
    <3>1. stage' = "failed" /\ ~Sound(row)
      BY <2>1, <2>3, <2>5
    <3> QED
      BY <1>12, <2>1, <2>2, <3>1
  <2> QED
    BY <2>4, <2>5
<1>17. ASSUME DecompressUnsupported PROVE IInv'
  <2>1. /\ stage = "decompress" /\ stage' = "failed" /\ UNCHANGED <<rows, torn, out>>
        /\ Chosen \notin {"GZIP", "ZSTD", "LZ4", "LZ4BLOCK"}
    BY <1>17 DEF DecompressUnsupported, MagicOf
  <2>2. n < Len(rows) /\ Current(rows[n + 1])
    BY <1>11, <2>1
  <2>3. ~(RightCodec(rows[n + 1]) /\ Intact(rows[n + 1]))
    BY <2>1, <2>2, CodecIsRight
  <2>4. ~Sound(rows[n + 1])
    BY <2>3 DEF Sound, Holds, Intact
  <2> QED
    BY <1>12, <2>1, <2>2, <2>4
<1>18. ASSUME Write PROVE IInv'
  <2>1. /\ stage = "write" /\ stage' = "data" /\ UNCHANGED <<rows, torn, input>>
        /\ out' = out \o PutString(Viewed)
    BY <1>18 DEF Write, Viewed
  <2>2. /\ n < Len(rows) /\ Waits(rows, torn, input, n + 1)
        /\ Answerable(rows[n + 1]) /\ Viewed = Content(rows[n + 1])
    BY <1>2, <2>1 DEF Progress
  <2>3. out' = Answers(n + 1)
    <3>1. Answers(n + 1) = Answers(n) \o PutString(Content(rows[n + 1]))
      BY <1>1, <2>2, AnswersNext
    <3> QED
      BY <1>2, <2>1, <2>2, <3>1 DEF Answered
  <2>4. \A i \in 1..(n + 1) : Answerable(rows[i])
    BY <1>2, <1>4, <2>2 DEF Answered
  <2> DEFINE k == n + 1
  <2>5. k \in 0..Len(rows')
    BY <1>4, <2>1, <2>2
  <2> HIDE DEF k
  <2>6. Answered(k)'
    <3>1. out' = Answers(k) /\ \A i \in 1..k : Answerable(rows[i])
      BY <2>3, <2>4 DEF k
    <3> QED
      BY <2>1, <3>1 DEF Answered, Answers
  <2>7. Progress(k)'
    <3>1. stage' = "data" /\ Waits(rows', torn', input', k)
      BY <2>1, <2>2 DEF k
    <3> QED
      BY <3>1 DEF Progress
  <2> QED
    BY <1>1, <2>1, <2>5, <2>6, <2>7 DEF IInv
<1>19. CASE UNCHANGED vars
  <2>1. Progress(n)'
    BY <1>2, <1>19 DEF Progress, Viewed, vars
  <2> QED
    BY <1>5, <1>19, <2>1 DEF vars
<1> QED
  BY <1>6, <1>7, <1>9, <1>10, <1>15, <1>16, <1>17, <1>18, <1>19 DEF Next

\* What is written are whole answers, in order, of rows that are sound, or that
\* have no frame and are to be read with a codec that knows skippable frames;
\* whatever the buffers held, and wherever the input ends.
THEOREM OnlyWholeAnswers == Spec => []AnswersAreWhole
<1>1. IInv => AnswersAreWhole
  BY DEF IInv, Answered, Answerable, AnswersAreWhole
<1> QED
  BY <1>1, InvInit, InvNext, PTL DEF Spec

\* The program succeeds only if every row was answered and the input ended after
\* the last one, and fails only over a row that is not sound or a torn input.
THEOREM OutcomeIsDue == Spec => []EndsAsItShould
<1>1. IInv => EndsAsItShould
  <2>1. SUFFICES ASSUME IInv PROVE EndsAsItShould
    OBVIOUS
  <2>2. PICK n \in 0..Len(rows) : Answered(n) /\ Progress(n)
    BY <2>1 DEF IInv
  <2> QED
    BY <2>2 DEF Answered, Progress, EndsAsItShould
<1> QED
  BY <1>1, InvInit, InvNext, PTL DEF Spec
=============================================================================
