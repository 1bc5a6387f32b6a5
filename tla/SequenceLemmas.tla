--------------------------- MODULE SequenceLemmas --------------------------
(***************************************************************************)
(* Facts about positions and about FlattenSeq that the proofs share.       *)
(***************************************************************************)
EXTENDS Integers, SequencesExt, SequenceTheorems, WellFoundedInduction, TLAPS

-----------------------------------------------------------------------------
(* Positions.                                                              *)

\* A set of positions has a first one.
LEMMA FirstPosition ==
    ASSUME NEW S, S \subseteq Nat, S # {}
    PROVE  \E k \in S : \A j \in S : k <= j
<1>1. PICK k \in S : \A j \in S : <<j, k>> \notin OpToRel(<, Nat)
  BY WFMin, NatLessThanWellFounded
<1>2. ASSUME NEW j \in S PROVE k <= j
  <2>1. k \in Nat /\ j \in Nat
    BY <1>1
  <2>2. ~(j < k)
    BY <1>1, <2>1 DEF OpToRel
  <2> QED
    BY <2>1, <2>2
<1> QED
  BY <1>2

\* What holds at the beginning, and after each position at which it holds,
\* holds at every position.
LEMMA EveryPosition ==
    ASSUME NEW n \in Nat, NEW S, 0 \in S, \A k \in 1..n : k - 1 \in S => k \in S
    PROVE  0..n \subseteq S
<1>1. SUFFICES ASSUME (0..n) \ S # {} PROVE FALSE
  OBVIOUS
<1>2. (0..n) \ S \subseteq Nat
  OBVIOUS
<1>3. PICK k \in (0..n) \ S : \A j \in (0..n) \ S : k <= j
  BY <1>1, <1>2, FirstPosition
<1>4. k \in 1..n /\ k - 1 \in 0..n /\ ~(k <= k - 1)
  BY <1>3
<1>5. k - 1 \in S
  BY <1>3, <1>4
<1> QED
  BY <1>3, <1>4, <1>5

-----------------------------------------------------------------------------
(* FlattenSeq.                                                             *)

\* FlattenSeq of a sequence of sequences is the last value of a function that
\* appends them one by one.
LEMMA Flattening ==
    ASSUME NEW S, NEW seqs \in Seq(Seq(S)), Len(seqs) # 0
    PROVE  \E f \in [1..Len(seqs) -> Seq(S)] :
              /\ f[1] = seqs[1]
              /\ \A k \in 2..Len(seqs) : f[k] = f[k - 1] \o seqs[k]
              /\ FlattenSeq(seqs) = f[Len(seqs)]
<1> DEFINE N == Len(seqs)
           Upto(f, n) == /\ f \in [1..n -> Seq(S)]
                         /\ n > 0 => f[1] = seqs[1]
                         /\ \A k \in 2..n : f[k] = f[k - 1] \o seqs[k]
           T == {n \in Nat : \E f : Upto(f, n)}
<1>1. N \in Nat /\ N > 0
  BY LenProperties
<1>2. \A k \in 1..N : seqs[k] \in Seq(S)
  BY ElementOfSeq
<1>3. 0 \in T
  <2>1. Upto([k \in 1..0 |-> seqs[1]], 0)
    OBVIOUS
  <2> QED
    BY <2>1
<1>4. ASSUME NEW n \in 1..N, n - 1 \in T PROVE n \in T
  <2>1. PICK f : Upto(f, n - 1)
    BY <1>4
  <2> DEFINE g == [k \in 1..n |-> IF k < n THEN f[k]
                                 ELSE IF n = 1 THEN seqs[1] ELSE f[n - 1] \o seqs[n]]
  <2>2. ASSUME NEW k \in 1..n PROVE g[k] \in Seq(S)
    <3>1. CASE k < n
      BY <2>1, <3>1
    <3>2. CASE k = n /\ n = 1
      BY <1>1, <1>2, <3>2
    <3>3. CASE k = n /\ n # 1
      <4>1. f[n - 1] \in Seq(S) /\ seqs[n] \in Seq(S)
        BY <1>2, <2>1, <3>3
      <4>2. f[n - 1] \o seqs[n] \in Seq(S)
        BY <4>1, ConcatProperties
      <4> QED
        BY <3>3, <4>2
    <3> QED
      BY <3>1, <3>2, <3>3
  <2>3. g[1] = seqs[1]
    <3>1. CASE n = 1
      BY <3>1
    <3>2. CASE n > 1
      BY <2>1, <3>2
    <3> QED
      BY <3>1, <3>2
  <2>4. ASSUME NEW k \in 2..n PROVE g[k] = g[k - 1] \o seqs[k]
    <3>1. k \in 1..n /\ k - 1 \in 1..n /\ k - 1 < n
      OBVIOUS
    <3>2. g[k - 1] = f[k - 1]
      BY <3>1
    <3>3. CASE k < n
      <4>1. k \in 2..(n - 1)
        BY <3>3
      <4> QED
        BY <2>1, <3>1, <3>2, <3>3, <4>1
    <3>4. CASE k = n
      <4>1. n # 1 /\ ~(n < n)
        BY <3>4
      <4>2. g[n] = f[n - 1] \o seqs[n]
        BY <3>1, <3>4, <4>1
      <4> QED
        BY <3>2, <3>4, <4>2
    <3>5. k < n \/ k = n
      BY <1>1
    <3> QED
      BY <3>3, <3>4, <3>5
  <2>5. g \in [1..n -> Seq(S)]
    BY <2>2
  <2> HIDE DEF g
  <2>6. Upto(g, n)
    BY <2>3, <2>4, <2>5
  <2> HIDE DEF Upto
  <2> QED
    BY <1>1, <2>6
<1>5. N \in T
  <2> HIDE DEF T
  <2>1. 0..N \subseteq T
    BY <1>1, <1>3, <1>4, EveryPosition
  <2> QED
    BY <1>1, <2>1
<1>6. PICK f : Upto(f, N)
  BY <1>5
<1>7. f = [i \in 1..N |-> IF i = 1 THEN seqs[i] ELSE f[i - 1] \o seqs[i]]
  <2>1. ASSUME NEW i \in 1..N
        PROVE  f[i] = IF i = 1 THEN seqs[i] ELSE f[i - 1] \o seqs[i]
    <3>1. CASE i = 1
      BY <1>1, <1>6, <3>1
    <3>2. CASE i # 1
      <4>1. i \in 2..N
        BY <3>2
      <4> QED
        BY <1>6, <3>2, <4>1
    <3> QED
      BY <3>1, <3>2
  <2> QED
    BY <1>6, <2>1
<1> DEFINE F == CHOOSE h : h = [i \in 1..N |-> IF i = 1 THEN seqs[i] ELSE h[i - 1] \o seqs[i]]
<1>8. F = [i \in 1..N |-> IF i = 1 THEN seqs[i] ELSE F[i - 1] \o seqs[i]]
  BY <1>7, Zenon
<1>9. FlattenSeq(seqs) = F[N]
  BY <1>1, Zenon DEF FlattenSeq
<1> HIDE DEF F
<1>10. F[1] = seqs[1] /\ \A k \in 2..N : F[k] = F[k - 1] \o seqs[k]
  <2>1. F[1] = seqs[1]
    BY <1>1, <1>8
  <2>2. ASSUME NEW k \in 2..N PROVE F[k] = F[k - 1] \o seqs[k]
    <3>1. k \in 1..N /\ k # 1
      OBVIOUS
    <3> QED
      BY <1>8, <3>1
  <2> QED
    BY <2>1, <2>2
<1>11. ASSUME NEW k \in 1..N PROVE F[k] \in Seq(S)
  <2> DEFINE U == {n \in Nat : n \in 1..N => F[n] \in Seq(S)}
  <2>1. 0 \in U
    OBVIOUS
  <2>2. ASSUME NEW n \in 1..N, n - 1 \in U PROVE n \in U
    <3>1. CASE n = 1
      BY <1>2, <1>10, <3>1
    <3>2. CASE n # 1
      <4>1. n \in 2..N /\ n - 1 \in 1..N
        BY <3>2
      <4>2. F[n - 1] \in Seq(S) /\ seqs[n] \in Seq(S)
        BY <1>2, <2>2, <4>1
      <4>3. F[n - 1] \o seqs[n] \in Seq(S)
        BY <4>2, ConcatProperties
      <4>4. F[n] \in Seq(S)
        BY <1>10, <4>1, <4>3
      <4> QED
        BY <1>1, <4>4
    <3> QED
      BY <3>1, <3>2
  <2> HIDE DEF U
  <2>3. 0..N \subseteq U
    BY <1>1, <2>1, <2>2, EveryPosition
  <2> QED
    BY <1>1, <2>3 DEF U
<1>12. F \in [1..N -> Seq(S)]
  BY <1>8, <1>11
<1> QED
  BY <1>9, <1>10, <1>12

\* The sequence of no sequences.
LEMMA FlattenNone == FlattenSeq(<< >>) = << >>
<1> QED
  BY DEF FlattenSeq

\* FlattenSeq gives a sequence of the elements.
LEMMA FlattenType ==
    ASSUME NEW S, NEW seqs \in Seq(Seq(S))
    PROVE  FlattenSeq(seqs) \in Seq(S)
<1>1. CASE Len(seqs) = 0
  BY <1>1, FlattenNone, EmptySeq
<1>2. CASE Len(seqs) # 0
  <2>1. Len(seqs) \in 1..Len(seqs)
    BY <1>2, LenProperties
  <2>2. \E f \in [1..Len(seqs) -> Seq(S)] : FlattenSeq(seqs) = f[Len(seqs)]
    BY <1>2, Flattening
  <2> QED
    BY <2>1, <2>2
<1> QED
  BY <1>1, <1>2

\* One more sequence comes last.
LEMMA FlattenAppend ==
    ASSUME NEW S, NEW seqs \in Seq(Seq(S)), NEW x \in Seq(S)
    PROVE  FlattenSeq(Append(seqs, x)) = FlattenSeq(seqs) \o x
<1> DEFINE more == Append(seqs, x)
           n == Len(seqs)
<1>1. more \in Seq(Seq(S)) /\ Len(more) = n + 1 /\ n \in Nat
  BY AppendProperties, LenProperties
<1>2. more[n + 1] = x /\ \A k \in 1..n : more[k] = seqs[k]
  BY AppendProperties
<1> HIDE DEF more
<1>3. PICK f \in [1..(n + 1) -> Seq(S)] :
          /\ f[1] = more[1]
          /\ \A k \in 2..(n + 1) : f[k] = f[k - 1] \o more[k]
          /\ FlattenSeq(more) = f[n + 1]
  <2>1. Len(more) # 0
    BY <1>1
  <2>2. \E f \in [1..Len(more) -> Seq(S)] :
              /\ f[1] = more[1]
              /\ \A k \in 2..Len(more) : f[k] = f[k - 1] \o more[k]
              /\ FlattenSeq(more) = f[Len(more)]
    BY <1>1, <2>1, Flattening
  <2> QED
    BY <1>1, <2>2
<1>4. CASE n = 0
  <2>1. seqs = << >>
    BY <1>4, EmptySeq
  <2>2. FlattenSeq(more) = x
    BY <1>2, <1>3, <1>4
  <2> QED
    BY <2>1, <2>2, FlattenNone, ConcatEmptySeq DEF more
<1>5. CASE n # 0
  <2>1. PICK g \in [1..n -> Seq(S)] :
            /\ g[1] = seqs[1]
            /\ \A k \in 2..n : g[k] = g[k - 1] \o seqs[k]
            /\ FlattenSeq(seqs) = g[n]
    BY <1>5, Flattening
  <2> DEFINE T == {k \in Nat : k \in 1..n => f[k] = g[k]}
  <2>2. 0 \in T
    OBVIOUS
  <2>3. ASSUME NEW k \in 1..n, k - 1 \in T PROVE k \in T
    <3>1. more[k] = seqs[k] /\ k \in Nat
      BY <1>1, <1>2
    <3>2. CASE k = 1
      BY <1>3, <2>1, <3>1, <3>2
    <3>3. CASE k # 1
      <4>1. k \in 2..n /\ k \in 2..(n + 1) /\ k - 1 \in 1..n
        BY <1>1, <3>3
      <4>2. f[k - 1] = g[k - 1]
        BY <2>3, <4>1
      <4> QED
        BY <1>3, <2>1, <3>1, <4>1, <4>2
    <3> QED
      BY <3>2, <3>3
  <2> HIDE DEF T
  <2>4. n \in T
    <3>1. 0..n \subseteq T
      BY <1>1, <2>2, <2>3, EveryPosition
    <3>2. n \in 0..n
      BY <1>1
    <3> QED
      BY <3>1, <3>2
  <2>5. f[n] = g[n]
    BY <1>1, <1>5, <2>4 DEF T
  <2>6. f[n + 1] = f[n] \o x
    <3>1. n + 1 \in 2..(n + 1) /\ (n + 1) - 1 = n
      BY <1>1, <1>5
    <3> QED
      BY <1>2, <1>3, <3>1
  <2> QED
    BY <1>3, <2>1, <2>5, <2>6 DEF more
<1> QED
  BY <1>4, <1>5

\* The beginning of a sequence, and one element more.
LEMMA BeginningOf ==
    ASSUME NEW S, NEW s \in Seq(S), NEW k \in 0..Len(s)
    PROVE  /\ SubSeq(s, 1, k) \in Seq(S)
           /\ Len(SubSeq(s, 1, k)) = k
           /\ k < Len(s) =>
                 s[k + 1] \in S /\ SubSeq(s, 1, k + 1) = Append(SubSeq(s, 1, k), s[k + 1])
<1>1. Len(s) \in Nat /\ \A i \in 1..Len(s) : s[i] \in S
  BY LenProperties, ElementOfSeq
<1>2. SubSeq(s, 1, k) \in Seq(S) /\ Len(SubSeq(s, 1, k)) = k
  <2>1. 1 \in Int /\ k \in Int /\ \A i \in 1..k : s[i] \in S
    BY <1>1
  <2>2. /\ SubSeq(s, 1, k) \in Seq(S)
        /\ Len(SubSeq(s, 1, k)) = IF 1 <= k THEN k - 1 + 1 ELSE 0
    BY <2>1, SubSeqProperties
  <2>3. Len(SubSeq(s, 1, k)) = k
    BY <1>1, <2>2
  <2> QED
    BY <2>2, <2>3
<1>3. ASSUME k < Len(s)
      PROVE  s[k + 1] \in S /\ SubSeq(s, 1, k + 1) = Append(SubSeq(s, 1, k), s[k + 1])
  <2>1. 1 \in 1..Len(s) /\ k + 1 \in 1..Len(s) /\ (k + 1) - 1 = k
    BY <1>1, <1>3
  <2>2. SubSeq(s, 1, k + 1) = SubSeq(s, 1, (k + 1) - 1) \o <<s[k + 1]>>
    BY <2>1, SubSeqRecursiveSecond
  <2>3. SubSeq(s, 1, k) \o <<s[k + 1]>> = Append(SubSeq(s, 1, k), s[k + 1])
    BY <1>1, <1>2, <2>1, AppendIsConcat
  <2> QED
    BY <1>1, <2>1, <2>2, <2>3
<1> QED
  BY <1>2, <1>3

\* What is put together begins with what its beginning gives.
LEMMA FlattenBeginning ==
    ASSUME NEW S, NEW seqs \in Seq(Seq(S)), NEW k \in 0..Len(seqs)
    PROVE  \E rest \in Seq(S) : FlattenSeq(seqs) = FlattenSeq(SubSeq(seqs, 1, k)) \o rest
<1> DEFINE F(j) == FlattenSeq(SubSeq(seqs, 1, j))
           Splits(d) == \E rest \in Seq(S) : FlattenSeq(seqs) = F(Len(seqs) - d) \o rest
           T == {d \in Nat : d <= Len(seqs) => Splits(d)}
<1>1. Len(seqs) \in Nat
  BY LenProperties
<1>2. 0 \in T
  <2>1. SubSeq(seqs, 1, Len(seqs) - 0) = seqs
    BY <1>1, SubSeqFull
  <2>2. FlattenSeq(seqs) = F(Len(seqs) - 0) \o << >> /\ << >> \in Seq(S)
    BY <2>1, FlattenType, ConcatEmptySeq, EmptySeq
  <2> QED
    BY <2>2
<1>3. ASSUME NEW d \in 1..Len(seqs), d - 1 \in T PROVE d \in T
  <2> DEFINE j == Len(seqs) - d
  <2>1. j \in 0..Len(seqs) /\ j < Len(seqs) /\ j + 1 = Len(seqs) - (d - 1) /\ d - 1 <= Len(seqs)
    BY <1>1
  <2>2. PICK rest \in Seq(S) : FlattenSeq(seqs) = F(Len(seqs) - (d - 1)) \o rest
    BY <1>3, <2>1
  <2> HIDE DEF j
  <2>3. /\ SubSeq(seqs, 1, j) \in Seq(Seq(S))
        /\ seqs[j + 1] \in Seq(S)
        /\ SubSeq(seqs, 1, j + 1) = Append(SubSeq(seqs, 1, j), seqs[j + 1])
    BY <2>1, BeginningOf
  <2>4. F(j) \in Seq(S) /\ F(j + 1) = F(j) \o seqs[j + 1]
    BY <2>3, FlattenAppend, FlattenType
  <2> DEFINE A == F(j)
             B == seqs[j + 1]
  <2>5. FlattenSeq(seqs) = (A \o B) \o rest
    BY <2>1, <2>2, <2>4
  <2>6. A \in Seq(S) /\ B \in Seq(S)
    BY <2>3, <2>4
  <2> HIDE DEF A, B
  <2>7. FlattenSeq(seqs) = A \o (B \o rest)
    <3>1. (A \o B) \o rest = A \o (B \o rest)
      BY <2>6, ConcatAssociative, SMTT(30)
    <3> QED
      BY <2>5, <3>1
  <2>8. B \o rest \in Seq(S)
    BY <2>6, ConcatProperties
  <2>9. Splits(d)
    BY <2>7, <2>8 DEF A, j
  <2> HIDE DEF Splits
  <2> QED
    BY <1>1, <2>9
<1> HIDE DEF T
<1>4. Len(seqs) - k \in T
  <2>1. 0..Len(seqs) \subseteq T
    BY <1>1, <1>2, <1>3, EveryPosition
  <2> QED
    BY <1>1, <2>1
<1>5. Splits(Len(seqs) - k)
  BY <1>1, <1>4 DEF T
<1>6. Len(seqs) - (Len(seqs) - k) = k
  BY <1>1
<1> QED
  BY <1>5, <1>6

\* Where one of the sequences stands in what they are put together to.
LEMMA FlattenNext ==
    ASSUME NEW S, NEW seqs \in Seq(Seq(S)), NEW k \in 0..Len(seqs), k < Len(seqs)
    PROVE  /\ FlattenSeq(SubSeq(seqs, 1, k)) \in Seq(S) /\ seqs[k + 1] \in Seq(S)
           /\ FlattenSeq(SubSeq(seqs, 1, k + 1)) = FlattenSeq(SubSeq(seqs, 1, k)) \o seqs[k + 1]
           /\ Len(FlattenSeq(SubSeq(seqs, 1, k))) + Len(seqs[k + 1]) <= Len(FlattenSeq(seqs))
           /\ \A i \in 1..Len(seqs[k + 1]) :
                 FlattenSeq(seqs)[Len(FlattenSeq(SubSeq(seqs, 1, k))) + i] = seqs[k + 1][i]
<1> DEFINE A == FlattenSeq(SubSeq(seqs, 1, k))
           B == FlattenSeq(SubSeq(seqs, 1, k + 1))
           E == seqs[k + 1]
           W == FlattenSeq(seqs)
<1>1. Len(seqs) \in Nat /\ k + 1 \in 0..Len(seqs)
  BY LenProperties
<1>2. /\ SubSeq(seqs, 1, k) \in Seq(Seq(S)) /\ E \in Seq(S)
      /\ SubSeq(seqs, 1, k + 1) = Append(SubSeq(seqs, 1, k), E)
  BY BeginningOf
<1>3. A \in Seq(S) /\ B = A \o E
  BY <1>2, FlattenAppend, FlattenType
<1>4. PICK rest \in Seq(S) : W = B \o rest
  BY <1>1, FlattenBeginning
<1> HIDE DEF A, B, E, W
<1>5. /\ B \in Seq(S) /\ Len(B) = Len(A) + Len(E)
      /\ \A i \in 1..(Len(A) + Len(E)) : B[i] = IF i <= Len(A) THEN A[i] ELSE E[i - Len(A)]
  BY <1>2, <1>3, ConcatProperties
<1>6. /\ Len(W) = Len(B) + Len(rest)
      /\ \A i \in 1..(Len(B) + Len(rest)) : W[i] = IF i <= Len(B) THEN B[i] ELSE rest[i - Len(B)]
  BY <1>4, <1>5, ConcatProperties
<1>7. Len(A) \in Nat /\ Len(E) \in Nat /\ Len(rest) \in Nat
  BY <1>2, <1>3, LenProperties
<1>8. ASSUME NEW i \in 1..Len(E) PROVE W[Len(A) + i] = E[i]
  <2> DEFINE n == Len(A) + i
  <2>1. /\ n \in 1..(Len(A) + Len(E)) /\ n \in 1..(Len(B) + Len(rest))
        /\ ~(n <= Len(A)) /\ n <= Len(B) /\ n - Len(A) = i
    BY <1>5, <1>7
  <2> HIDE DEF n
  <2>2. W[n] = B[n] /\ B[n] = E[i]
    BY <1>5, <1>6, <2>1
  <2> QED
    BY <2>2 DEF n
<1>9. Len(A) + Len(E) <= Len(W)
  BY <1>5, <1>6, <1>7
<1> QED
  BY <1>2, <1>3, <1>8, <1>9 DEF A, B, E, W

-----------------------------------------------------------------------------
(* Recursion to smaller numbers.                                           *)

\* An equation that gives the value at a number from that at a smaller one, and
\* a function that satisfies it.
LeadsDown(D, V, stop, val, comb, next) ==
    /\ D \in SUBSET Nat
    /\ \A n \in D : n \in stop => val[n] \in V
    /\ \A n \in D : n \notin stop => next[n] \in D /\ next[n] < n
    /\ \A n \in D : n \notin stop => \A v \in V : comb[<<n, v>>] \in V
Solves(f, D, V, stop, val, comb, next) ==
    /\ f \in [D -> V]
    /\ \A n \in D : f[n] = IF n \in stop THEN val[n] ELSE comb[<<n, f[next[n]]>>]

\* Such an equation has a solution.
LEMMA RecursionToSmaller ==
    ASSUME NEW D, NEW V, NEW stop, NEW val, NEW comb, NEW next,
           LeadsDown(D, V, stop, val, comb, next)
    PROVE  \E f : Solves(f, D, V, stop, val, comb, next)
<1> USE DEF LeadsDown
<1> DEFINE Equation(f, n) == f[n] = IF n \in stop THEN val[n] ELSE comb[<<n, f[next[n]]>>]
           Upto(f, m) == \A n \in D : n <= m => f[n] \in V /\ Equation(f, n)
           T == {m \in Nat : \E f : Upto(f, m)}
<1>1. ASSUME NEW n \in D, n \notin stop
      PROVE  next[n] \in D /\ next[n] < n /\ n \in Nat /\ next[n] \in Nat
  <2>1. next[n] \in D /\ next[n] < n
    BY <1>1, Zenon
  <2> QED
    BY <2>1
<1>2. ASSUME NEW m \in Nat, m > 0 => m - 1 \in T PROVE m \in T
  <2>1. PICK f : m > 0 => Upto(f, m - 1)
    <3>1. CASE m > 0
      BY <1>2, <3>1
    <3>2. CASE m = 0
      BY <3>2
    <3> QED
      BY <3>1, <3>2
  <2> DEFINE g == [n \in D |-> IF n < m THEN f[n]
                              ELSE IF n \in stop THEN val[n] ELSE comb[<<n, f[next[n]]>>]]
  <2>2. ASSUME NEW n \in D, n <= m PROVE g[n] \in V /\ Equation(g, n)
    <3>1. n \in Nat
      OBVIOUS
    <3>2. CASE n < m
      <4>1. f[n] \in V /\ Equation(f, n) /\ g[n] = f[n]
        BY <2>1, <3>1, <3>2
      <4>2. CASE n \in stop
        BY <4>1, <4>2
      <4>3. CASE n \notin stop
        <5>1. next[n] \in D /\ next[n] < m
          BY <1>1, <3>1, <3>2, <4>3
        <5>2. g[next[n]] = f[next[n]]
          BY <5>1
        <5> QED
          BY <4>1, <4>3, <5>2
      <4> QED
        BY <4>2, <4>3
    <3>3. CASE n = m
      <4>1. ~(n < m)
        BY <3>1, <3>3
      <4>2. g[n] = IF n \in stop THEN val[n] ELSE comb[<<n, f[next[n]]>>]
        BY <4>1
      <4>3. CASE n \in stop
        BY <4>2, <4>3
      <4>4. CASE n \notin stop
        <5>1. next[n] \in D /\ next[n] < m /\ next[n] \in Nat /\ m > 0 /\ next[n] <= m - 1
          BY <1>1, <3>3, <4>4
        <5>2. g[next[n]] = f[next[n]] /\ f[next[n]] \in V
          BY <2>1, <5>1
        <5>3. comb[<<n, f[next[n]]>>] \in V
          BY <4>4, <5>2
        <5> QED
          BY <4>2, <4>4, <5>2, <5>3
      <4> QED
        BY <4>3, <4>4
    <3> QED
      BY <2>2, <3>1, <3>2, <3>3
  <2> HIDE DEF g
  <2>3. Upto(g, m)
    BY <2>2
  <2> HIDE DEF Upto
  <2> QED
    BY <2>3
<1>3. ASSUME NEW m \in Nat PROVE m \in T
  <2> HIDE DEF T
  <2>1. 0 \in T
    BY <1>2
  <2>2. \A k \in 1..m : k - 1 \in T => k \in T
    BY <1>2
  <2>3. 0..m \subseteq T
    BY <2>1, <2>2, EveryPosition
  <2> QED
    BY <2>3
\* Two functions that satisfy the equation agree.
<1>4. ASSUME NEW m \in Nat, NEW f, NEW g, Upto(f, m), Upto(g, m)
      PROVE  \A n \in D : n <= m => f[n] = g[n]
  <2> DEFINE Differ == {n \in D : n <= m /\ f[n] # g[n]}
  <2>1. SUFFICES ASSUME Differ # {} PROVE FALSE
    OBVIOUS
  <2>2. PICK n \in Differ : \A k \in Differ : n <= k
    <3>1. Differ \subseteq Nat
      OBVIOUS
    <3> HIDE DEF Differ
    <3> QED
      BY <2>1, <3>1, FirstPosition
  <2>3. n \in D /\ n <= m /\ f[n] # g[n] /\ Equation(f, n) /\ Equation(g, n)
    BY <1>4, <2>2
  <2>4. CASE n \in stop
    BY <2>3, <2>4
  <2>5. CASE n \notin stop
    <3>1. next[n] \in D /\ next[n] < n /\ n \in Nat /\ next[n] \in Nat
      BY <1>1, <2>3, <2>5
    <3>2. next[n] \notin Differ
      <4> DEFINE q == next[n]
      <4> HIDE DEF q, Differ
      <4>1. q < n /\ n \in Nat /\ q \in Nat
        BY <3>1 DEF q
      <4> QED
        BY <2>2, <4>1 DEF q
    <3>3. next[n] <= m
      BY <2>3, <3>1
    <3>4. f[next[n]] = g[next[n]]
      BY <3>1, <3>2, <3>3
    <3> QED
      BY <2>3, <2>5, <3>4
  <2> QED
    BY <2>4, <2>5
<1> DEFINE h == [n \in D |-> (CHOOSE f : Upto(f, n))[n]]
<1>5. ASSUME NEW n \in D PROVE h[n] \in V /\ Equation(h, n)
  <2> DEFINE f == CHOOSE u : Upto(u, n)
  <2>1. n \in Nat
    OBVIOUS
  <2>2. Upto(f, n)
    <3>1. \E u : Upto(u, n)
      BY <1>3, <2>1
    <3> HIDE DEF Upto
    <3> QED
      BY <3>1
  <2>3. h[n] = f[n]
    OBVIOUS
  <2> HIDE DEF f
  <2>4. f[n] \in V /\ Equation(f, n)
    BY <2>1, <2>2
  <2>5. CASE n \in stop
    BY <2>3, <2>4, <2>5
  <2>6. CASE n \notin stop
    <3> DEFINE m == next[n]
               e == CHOOSE u : Upto(u, m)
    <3>1. m \in D /\ m < n /\ m \in Nat
      BY <1>1, <2>6
    <3>2. Upto(e, m)
      <4>1. \E u : Upto(u, m)
        BY <1>3, <3>1
      <4> HIDE DEF Upto, m
      <4> QED
        BY <4>1
    <3>3. h[m] = e[m]
      BY <3>1
    <3> HIDE DEF e
    <3>4. Upto(f, m)
      <4>1. \A k \in D : k <= m => k <= n
        <5> HIDE DEF m
        <5>1. \A k \in D : k \in Nat
          OBVIOUS
        <5>2. \A k \in Nat : k <= m => k <= n
          BY <2>1, <3>1
        <5> QED
          BY <5>1, <5>2
      <4> HIDE DEF m, Equation
      <4> QED
        BY <2>2, <4>1
    <3>5. e[m] = f[m]
      <4> HIDE DEF m, Upto
      <4>1. \A k \in D : k <= m => e[k] = f[k]
        BY <1>4, <3>1, <3>2, <3>4
      <4> QED
        BY <3>1, <4>1
    <3> QED
      BY <2>3, <2>4, <2>6, <3>3, <3>5
  <2> QED
    BY <2>5, <2>6
<1>6. h \in [D -> V]
  <2> HIDE DEF Equation
  <2> QED
    BY <1>5
<1> HIDE DEF h
<1> QED
  BY <1>5, <1>6 DEF Solves

-----------------------------------------------------------------------------
(* Two sequences, one after the other.                                     *)

\* The second one comes after the first.
LEMMA ConcatParts ==
    ASSUME NEW S, NEW s \in Seq(S), NEW t \in Seq(S)
    PROVE  /\ s \o t \in Seq(S)
           /\ Len(s) \in Nat /\ Len(t) \in Nat /\ Len(s \o t) = Len(s) + Len(t)
           /\ \A i \in 1..Len(s) : (s \o t)[i] = s[i]
           /\ \A i \in 1..Len(t) : (s \o t)[Len(s) + i] = t[i]
           /\ SubSeq(s \o t, 1, Len(s)) = s
           /\ SubSeq(s \o t, Len(s) + 1, Len(s) + Len(t)) = t
<1> DEFINE w == s \o t
<1>1. Len(s) \in Nat /\ Len(t) \in Nat
  BY LenProperties
<1>2. /\ w \in Seq(S) /\ Len(w) = Len(s) + Len(t)
      /\ \A i \in 1..(Len(s) + Len(t)) : w[i] = IF i <= Len(s) THEN s[i] ELSE t[i - Len(s)]
  BY ConcatProperties
<1> HIDE DEF w
<1>3. \A i \in 1..Len(s) : w[i] = s[i]
  BY <1>1, <1>2
<1>4. ASSUME NEW i \in 1..Len(t) PROVE w[Len(s) + i] = t[i]
  <2> DEFINE k == Len(s) + i
  <2>1. k \in 1..(Len(s) + Len(t)) /\ ~(k <= Len(s)) /\ k - Len(s) = i
    BY <1>1
  <2> HIDE DEF k
  <2>2. w[k] = t[i]
    BY <1>2, <2>1
  <2> QED
    BY <2>2 DEF k
<1>5. SubSeq(w, 1, Len(s)) = s
  <2> DEFINE v == SubSeq(w, 1, Len(s))
  <2>1. /\ v \in Seq(S) /\ Len(v) = Len(s)
        /\ \A i \in 1..Len(s) : v[i] = w[i]
    <3>1. Len(s) \in 0..Len(w) /\ 1 \in Int /\ Len(s) \in Int
      BY <1>1, <1>2
    <3>2. v \in Seq(S) /\ Len(v) = Len(s)
      BY <1>2, <3>1, BeginningOf
    <3>3. \A i \in 1..Len(s) : w[i] \in S
      BY <1>3, ElementOfSeq
    <3>4. \A i \in 1..(Len(s) - 1 + 1) : v[i] = w[1 + i - 1]
      BY <3>1, <3>3, SubSeqProperties
    <3>5. \A i \in 1..Len(s) : v[i] = w[i]
      BY <1>1, <3>4
    <3> QED
      BY <3>2, <3>5
  <2> HIDE DEF v
  <2>2. v = s
    BY <1>3, <2>1, SeqEqual
  <2> QED
    BY <2>2 DEF v
<1>6. SubSeq(w, Len(s) + 1, Len(s) + Len(t)) = t
  <2> DEFINE m == Len(s) + 1
             n == Len(s) + Len(t)
             v == SubSeq(w, m, n)
  <2>1. m \in Int /\ n \in Int /\ n - m + 1 = Len(t) /\ (m <= n <=> Len(t) > 0)
    BY <1>1
  <2>2. \A i \in m..n : w[i] \in S
    <3>1. m..n \subseteq 1..Len(w)
      BY <1>1, <1>2
    <3> QED
      BY <1>2, <3>1, ElementOfSeq
  <2> HIDE DEF m, n
  <2>3. /\ v \in Seq(S) /\ Len(v) = (IF m <= n THEN n - m + 1 ELSE 0)
        /\ \A i \in 1..(n - m + 1) : v[i] = w[m + i - 1]
    BY <2>1, <2>2, SubSeqProperties
  <2> HIDE DEF v
  <2>4. Len(v) = Len(t)
    BY <1>1, <2>1, <2>3
  <2>5. ASSUME NEW i \in 1..Len(t) PROVE v[i] = t[i]
    <3>1. m + i - 1 = Len(s) + i
      BY <1>1 DEF m
    <3> QED
      BY <1>4, <2>1, <2>3, <3>1
  <2>6. v = t
    BY <2>3, <2>4, <2>5, SeqEqual
  <2> QED
    BY <2>6 DEF v, m, n
<1> QED
  BY <1>1, <1>2, <1>3, <1>4, <1>5, <1>6 DEF w

\* A beginning that goes beyond the first one, or does not.
LEMMA BeginningOfConcat ==
    ASSUME NEW S, NEW s \in Seq(S), NEW t \in Seq(S), NEW m \in 0..(Len(s) + Len(t))
    PROVE  SubSeq(s \o t, 1, m) =
              IF m <= Len(s) THEN SubSeq(s, 1, m) ELSE s \o SubSeq(t, 1, m - Len(s))
<1> DEFINE w == s \o t
           v == SubSeq(w, 1, m)
<1>1. /\ w \in Seq(S) /\ Len(s) \in Nat /\ Len(t) \in Nat /\ Len(w) = Len(s) + Len(t)
      /\ \A i \in 1..Len(s) : w[i] = s[i]
      /\ \A i \in 1..Len(t) : w[Len(s) + i] = t[i]
  BY ConcatParts
<1> HIDE DEF w
<1>2. \A x \in Seq(S) : \A n \in 0..Len(x) :
         /\ SubSeq(x, 1, n) \in Seq(S) /\ Len(SubSeq(x, 1, n)) = n
         /\ \A i \in 1..n : SubSeq(x, 1, n)[i] = x[i]
  <2>1. SUFFICES ASSUME NEW x \in Seq(S), NEW n \in 0..Len(x)
                 PROVE  /\ SubSeq(x, 1, n) \in Seq(S) /\ Len(SubSeq(x, 1, n)) = n
                        /\ \A i \in 1..n : SubSeq(x, 1, n)[i] = x[i]
    OBVIOUS
  <2>2. SubSeq(x, 1, n) \in Seq(S) /\ Len(SubSeq(x, 1, n)) = n
    BY BeginningOf
  <2>3. Len(x) \in Nat /\ 1 \in Int /\ n \in Int /\ \A i \in 1..n : x[i] \in S
    <3>1. Len(x) \in Nat
      BY LenProperties
    <3>2. \A i \in 1..n : i \in 1..Len(x)
      BY <3>1
    <3> QED
      BY <3>1, <3>2, ElementOfSeq
  <2>4. \A i \in 1..(n - 1 + 1) : SubSeq(x, 1, n)[i] = x[1 + i - 1]
    BY <2>3, SubSeqProperties
  <2>5. \A i \in 1..n : SubSeq(x, 1, n)[i] = x[i]
    BY <2>3, <2>4
  <2> QED
    BY <2>2, <2>5
<1>3. v \in Seq(S) /\ Len(v) = m /\ \A i \in 1..m : v[i] = w[i]
  BY <1>1, <1>2
<1> HIDE DEF v
<1>4. CASE m <= Len(s)
  <2> DEFINE u == SubSeq(s, 1, m)
  <2>1. m \in 0..Len(s)
    BY <1>1, <1>4
  <2>2. u \in Seq(S) /\ Len(u) = m /\ \A i \in 1..m : u[i] = s[i]
    BY <1>2, <2>1
  <2> HIDE DEF u
  <2>3. ASSUME NEW i \in 1..m PROVE v[i] = u[i]
    <3>1. i \in 1..Len(s)
      BY <1>1, <2>1
    <3>2. v[i] = w[i] /\ w[i] = s[i] /\ u[i] = s[i]
      BY <1>1, <1>3, <2>2, <3>1
    <3> QED
      BY <3>2
  <2>4. v = u
    BY <1>3, <2>2, <2>3, SeqEqual
  <2> QED
    BY <1>4, <2>4 DEF u, v, w
<1>5. CASE ~(m <= Len(s))
  <2> DEFINE d == m - Len(s)
             r == SubSeq(t, 1, d)
             u == s \o r
  <2>1. d \in 0..Len(t) /\ m = Len(s) + d /\ m \in Nat
    BY <1>1, <1>5
  <2> HIDE DEF d
  <2>2. r \in Seq(S) /\ Len(r) = d /\ \A i \in 1..d : r[i] = t[i]
    BY <1>2, <2>1
  <2> HIDE DEF r
  <2>3. /\ u \in Seq(S) /\ Len(u) = Len(s) + d
        /\ \A i \in 1..Len(s) : u[i] = s[i]
        /\ \A i \in 1..d : u[Len(s) + i] = r[i]
    <3>1. /\ u \in Seq(S) /\ Len(u) = Len(s) + Len(r)
          /\ \A i \in 1..Len(s) : u[i] = s[i]
          /\ \A i \in 1..Len(r) : u[Len(s) + i] = r[i]
      <4>1. r \in Seq(S)
        BY <2>2
      <4> QED
        BY <4>1, ConcatParts
    <3> HIDE DEF u
    <3> QED
      BY <2>2, <3>1
  <2> HIDE DEF u
  <2>4. ASSUME NEW i \in 1..m PROVE v[i] = u[i]
    <3>1. CASE i <= Len(s)
      <4>1. i \in 1..Len(s)
        BY <1>1, <3>1
      <4> QED
        BY <1>1, <1>3, <2>3, <4>1
    <3>2. CASE ~(i <= Len(s))
      <4> DEFINE j == i - Len(s)
      <4>1. j \in 1..d /\ j \in 1..Len(t) /\ i = Len(s) + j
        BY <1>1, <2>1, <3>2
      <4> HIDE DEF j
      <4>2. v[i] = w[Len(s) + j] /\ u[Len(s) + j] = r[j] /\ r[j] = t[j] /\ w[Len(s) + j] = t[j]
        BY <1>1, <1>3, <2>2, <2>3, <4>1
      <4> QED
        BY <4>1, <4>2
    <3> QED
      BY <3>1, <3>2
  <2>5. v = u
    BY <1>3, <2>1, <2>3, <2>4, SeqEqual
  <2> QED
    BY <1>5, <2>5 DEF u, v, w, r, d
<1> QED
  BY <1>4, <1>5

\* What is left after the first k.
LEMMA EndOf ==
    ASSUME NEW S, NEW s \in Seq(S), NEW k \in 0..Len(s)
    PROVE  /\ SubSeq(s, k + 1, Len(s)) \in Seq(S)
           /\ Len(SubSeq(s, k + 1, Len(s))) = Len(s) - k
           /\ \A i \in 1..(Len(s) - k) : SubSeq(s, k + 1, Len(s))[i] = s[k + i]
<1> DEFINE m == k + 1
           n == Len(s)
           v == SubSeq(s, m, n)
<1>1. n \in Nat /\ k \in 0..n /\ m \in Int /\ n \in Int /\ n - m + 1 = n - k
  BY LenProperties
<1>2. \A i \in m..n : s[i] \in S
  <2>1. m..n \subseteq 1..Len(s)
    BY <1>1
  <2> QED
    BY <2>1, ElementOfSeq
<1>3. m = k + 1
  OBVIOUS
<1> HIDE DEF m, n
<1>4. /\ v \in Seq(S) /\ Len(v) = (IF m <= n THEN n - m + 1 ELSE 0)
      /\ \A i \in 1..(n - m + 1) : v[i] = s[m + i - 1]
  BY <1>1, <1>2, SubSeqProperties
<1> HIDE DEF v
<1>5. Len(v) = n - k
  BY <1>1, <1>3, <1>4
<1>6. ASSUME NEW i \in 1..(n - k) PROVE v[i] = s[k + i]
  <2>1. m + i - 1 = k + i
    BY <1>1, <1>3
  <2> QED
    BY <1>1, <1>4, <2>1
<1> QED
  BY <1>4, <1>5, <1>6 DEF v, m, n

\* A part of the first one, and all of the second.
LEMMA EndOfConcat ==
    ASSUME NEW S, NEW s \in Seq(S), NEW t \in Seq(S), NEW k \in 0..Len(s)
    PROVE  SubSeq(s \o t, k + 1, Len(s \o t)) = SubSeq(s, k + 1, Len(s)) \o t
<1> DEFINE w == s \o t
           v == SubSeq(w, k + 1, Len(w))
           u == SubSeq(s, k + 1, Len(s))
           x == u \o t
<1>1. /\ w \in Seq(S) /\ Len(s) \in Nat /\ Len(t) \in Nat /\ Len(w) = Len(s) + Len(t)
      /\ \A i \in 1..Len(s) : w[i] = s[i]
      /\ \A i \in 1..Len(t) : w[Len(s) + i] = t[i]
  BY ConcatParts
<1>2. u \in Seq(S) /\ Len(u) = Len(s) - k /\ \A i \in 1..(Len(s) - k) : u[i] = s[k + i]
  BY EndOf
<1> HIDE DEF w, u
<1>3. k \in 0..Len(w)
  BY <1>1
<1>4. v \in Seq(S) /\ Len(v) = Len(w) - k /\ \A i \in 1..(Len(w) - k) : v[i] = w[k + i]
  BY <1>1, <1>3, EndOf
<1>5. /\ x \in Seq(S) /\ Len(x) = Len(u) + Len(t)
      /\ \A i \in 1..Len(u) : x[i] = u[i]
      /\ \A i \in 1..Len(t) : x[Len(u) + i] = t[i]
  <2>1. u \in Seq(S)
    BY <1>2
  <2> QED
    BY <2>1, ConcatParts
<1> HIDE DEF v, x
<1>6. ASSUME NEW i \in 1..Len(v) PROVE v[i] = x[i]
  <2>1. i \in 1..(Len(w) - k) /\ Len(w) - k = Len(s) - k + Len(t) /\ v[i] = w[k + i]
    BY <1>1, <1>4
  <2>2. CASE i <= Len(s) - k
    <3>1. i \in 1..(Len(s) - k) /\ i \in 1..Len(u) /\ k + i \in 1..Len(s)
      BY <1>1, <1>2, <2>1, <2>2
    <3> QED
      BY <1>1, <1>2, <1>5, <2>1, <3>1
  <2>3. CASE ~(i <= Len(s) - k)
    <3> DEFINE j == i - (Len(s) - k)
    <3>1. j \in 1..Len(t) /\ i = Len(u) + j /\ k + i = Len(s) + j
      BY <1>1, <1>2, <2>1, <2>3
    <3> HIDE DEF j
    <3>2. x[Len(u) + j] = t[j] /\ w[Len(s) + j] = t[j]
      BY <1>1, <1>5, <3>1
    <3> QED
      BY <2>1, <3>1, <3>2
  <2> QED
    BY <2>2, <2>3
<1>7. v = x
  <2>1. Len(v) = Len(x)
    BY <1>1, <1>2, <1>4, <1>5
  <2> QED
    BY <1>4, <1>5, <1>6, <2>1, SeqEqual
<1> QED
  BY <1>7 DEF v, x, w, u

\* What follows the first k sequences in their concatenation.
Follows(seqs, k, rest, S) ==
    rest \in Seq(S) /\ FlattenSeq(seqs) = FlattenSeq(SubSeq(seqs, 1, k)) \o rest

\* It begins with the next sequence.
LEMMA FollowingSequences ==
    ASSUME NEW S, NEW seqs \in Seq(Seq(S)), NEW k \in 0..Len(seqs)
    PROVE  /\ k = 0 => Follows(seqs, k, FlattenSeq(seqs), S)
           /\ k = Len(seqs) => \A rest : Follows(seqs, k, rest, S) => rest = << >>
           /\ k < Len(seqs) =>
                 \A rest : Follows(seqs, k, rest, S) =>
                    \E more : Follows(seqs, k + 1, more, S) /\ rest = seqs[k + 1] \o more
<1> DEFINE W == FlattenSeq(seqs)
           P(j) == FlattenSeq(SubSeq(seqs, 1, j))
<1>1. W \in Seq(S) /\ Len(seqs) \in Nat
  BY FlattenType, LenProperties
<1>2. SubSeq(seqs, 1, k) \in Seq(Seq(S)) /\ Len(SubSeq(seqs, 1, k)) = k
  BY BeginningOf
<1>3. P(k) \in Seq(S)
  BY <1>2, FlattenType
<1>4. ASSUME k = 0 PROVE Follows(seqs, k, W, S)
  <2>1. SubSeq(seqs, 1, k) = << >>
    BY <1>2, <1>4, EmptySeq
  <2>2. P(k) = << >>
    BY <2>1, FlattenNone
  <2> HIDE DEF W, P
  <2>3. << >> \o W = W
    BY <1>1, ConcatEmptySeq
  <2>4. W = P(k) \o W
    BY <2>2, <2>3
  <2> QED
    BY <1>1, <2>4 DEF Follows, W, P
<1>5. ASSUME k = Len(seqs), NEW rest, Follows(seqs, k, rest, S) PROVE rest = << >>
  <2>1. P(k) = W
    BY <1>5, SubSeqFull
  <2>2. W = P(k) \o rest /\ rest \in Seq(S)
    BY <1>5 DEF Follows
  <2> HIDE DEF W, P
  <2>3. W = W \o rest
    BY <2>1, <2>2
  <2> QED
    BY <1>1, <2>2, <2>3, ConcatSimplifications
<1>6. ASSUME k < Len(seqs), NEW rest, Follows(seqs, k, rest, S)
      PROVE  \E more : Follows(seqs, k + 1, more, S) /\ rest = seqs[k + 1] \o more
  <2> DEFINE e == seqs[k + 1]
             a == P(k)
             b == P(k + 1)
  <2>1. k + 1 \in 0..Len(seqs) /\ k \in 0..Len(seqs)
    BY <1>1, <1>6
  <2>2. a \in Seq(S) /\ e \in Seq(S) /\ b = a \o e
    BY <1>6, <2>1, FlattenNext
  <2>3. PICK more \in Seq(S) : W = b \o more
    BY <2>1, FlattenBeginning
  <2>4. rest \in Seq(S) /\ W = a \o rest
    BY <1>6 DEF Follows
  <2>5. Follows(seqs, k + 1, more, S)
    BY <2>3 DEF Follows
  <2> HIDE DEF e, a, b, W, P
  <2>6. rest = e \o more
    <3> DEFINE f == e \o more
    <3>1. f \in Seq(S)
      BY <2>2, <2>3, ConcatProperties
    <3>2. (a \o e) \o more = a \o f
      BY <2>2, <2>3, ConcatAssociative
    <3> HIDE DEF f
    <3>3. a \o rest = a \o f
      BY <2>2, <2>3, <2>4, <3>2
    <3>4. rest = f
      BY <2>2, <2>4, <3>1, <3>3, ConcatSimplifications
    <3> QED
      BY <3>4 DEF f
  <2> QED
    BY <2>5, <2>6 DEF e
<1> QED
  BY <1>4, <1>5, <1>6 DEF W
=============================================================================
