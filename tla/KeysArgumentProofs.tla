------------------------ MODULE KeysArgumentProofs -------------------------
(***************************************************************************)
(* Proofs about KeysArgument, for any characters and any number of keys:   *)
(* keys without backslashes are read as the query names them, and an       *)
(* argument that is cut short or lacks a quote is refused.                 *)
(***************************************************************************)
EXTENDS KeysArgument, SequenceLemmas

-----------------------------------------------------------------------------
(* Blanks around a text.                                                   *)

LEMMA TrimLeftDrops ==
    ASSUME NEW S, NEW t \in Seq(S)
    PROVE  \E k \in 0..Len(t) :
              /\ TrimLeft(t) = SubSeq(t, k + 1, Len(t))
              /\ \A i \in 1..k : t[i] = Blank
              /\ k < Len(t) => t[k + 1] # Blank
<1> DEFINE I == {i \in 1..Len(t) : t[i] # Blank}
           first == SelectInSeq(t, LAMBDA c : c # Blank)
<1>1. Len(t) \in Nat
  BY LenProperties
<1>2. first = IF I # {} THEN Min(I) ELSE 0
  BY DEF SelectInSeq
<1>3. TrimLeft(t) = IF first = 0 THEN << >> ELSE SubSeq(t, first, Len(t))
  BY DEF TrimLeft
<1> HIDE DEF first
<1>4. CASE I = {}
  <2>1. TrimLeft(t) = << >> /\ SubSeq(t, Len(t) + 1, Len(t)) = << >>
    BY <1>1, <1>2, <1>3, <1>4, SubSeqEmpty
  <2>2. \A i \in 1..Len(t) : t[i] = Blank
    BY <1>4
  <2>3. Len(t) \in 0..Len(t) /\ ~(Len(t) < Len(t))
    BY <1>1
  <2> QED
    BY <2>1, <2>2, <2>3
<1>5. CASE I # {}
  <2>1. I \subseteq Nat
    BY <1>1
  <2>2. PICK m \in I : \A j \in I : m <= j
    <3> HIDE DEF I
    <3> QED
      BY <1>5, <2>1, FirstPosition
  <2>3. Min(I) \in I /\ \A j \in I : Min(I) <= j
    <3> HIDE DEF I
    <3> QED
      BY <2>2 DEF Min
  <2>4. first = Min(I)
    BY <1>2, <1>5
  <2>5. first \in 1..Len(t) /\ t[first] # Blank /\ \A i \in 1..Len(t) : t[i] # Blank => first <= i
    BY <2>3, <2>4
  <2> DEFINE k == first - 1
  <2>6. k \in 0..Len(t) /\ k + 1 = first /\ first # 0
    BY <1>1, <2>5
  <2>7. \A i \in 1..k : t[i] = Blank
    BY <1>1, <2>5
  <2> QED
    BY <1>3, <2>5, <2>6, <2>7
<1> QED
  BY <1>4, <1>5

\* Nothing is dropped of a text that begins with something else.
LEMMA NothingToTrim ==
    ASSUME NEW S, NEW t \in Seq(S), t = << >> \/ t[1] # Blank
    PROVE  TrimLeft(t) = t
<1>1. PICK k \in 0..Len(t) :
          /\ TrimLeft(t) = SubSeq(t, k + 1, Len(t))
          /\ \A i \in 1..k : t[i] = Blank
  BY TrimLeftDrops
<1>2. Len(t) \in Nat /\ (t = << >> => Len(t) = 0)
  BY LenProperties, EmptySeq
<1>3. k = 0
  <2>1. CASE t = << >>
    BY <1>2, <2>1
  <2>2. CASE t # << >>
    <3>1. ~(1 \in 1..k)
      BY <1>1, <2>2
    <3> QED
      BY <1>2, <3>1
  <2> QED
    BY <2>1, <2>2
<1>4. SubSeq(t, 1, Len(t)) = t
  BY SubSeqFull
<1> QED
  BY <1>1, <1>3, <1>4

\* Blanks before such a text are dropped, and nothing else.
LEMMA BlanksAreTrimmed ==
    ASSUME NEW S, NEW b \in Seq({Blank}), NEW t \in Seq(S), Blank \in S,
           t = << >> \/ t[1] # Blank
    PROVE  b \o t \in Seq(S) /\ TrimLeft(b \o t) = t
<1> DEFINE w == b \o t
<1>1. b \in Seq(S)
  BY SeqMonotonic
<1>2. /\ w \in Seq(S) /\ Len(b) \in Nat /\ Len(t) \in Nat /\ Len(w) = Len(b) + Len(t)
      /\ \A i \in 1..Len(b) : w[i] = b[i]
      /\ \A i \in 1..Len(t) : w[Len(b) + i] = t[i]
      /\ SubSeq(w, Len(b) + 1, Len(b) + Len(t)) = t
  <2>1. b \in Seq(S) /\ t \in Seq(S)
    BY <1>1
  <2>2. SubSeq(w, Len(b) + 1, Len(b) + Len(t)) = t
    BY <2>1, ConcatParts
  <2>3. /\ w \in Seq(S) /\ Len(b) \in Nat /\ Len(t) \in Nat /\ Len(w) = Len(b) + Len(t)
        /\ \A i \in 1..Len(b) : w[i] = b[i]
        /\ \A i \in 1..Len(t) : w[Len(b) + i] = t[i]
    BY <2>1, ConcatParts
  <2> QED
    BY <2>2, <2>3
<1>3. \A i \in 1..Len(b) : b[i] \in {Blank}
  BY ElementOfSeq
<1> HIDE DEF w
<1>4. PICK k \in 0..Len(w) :
          /\ TrimLeft(w) = SubSeq(w, k + 1, Len(w))
          /\ \A i \in 1..k : w[i] = Blank
          /\ k < Len(w) => w[k + 1] # Blank
  BY <1>2, TrimLeftDrops
<1>5. ~(k < Len(b))
  <2> SUFFICES ASSUME k < Len(b) PROVE FALSE
    OBVIOUS
  <2>1. k + 1 \in 1..Len(b) /\ k < Len(w)
    BY <1>2
  <2> QED
    BY <1>2, <1>3, <1>4, <2>1
<1>6. ~(k > Len(b))
  <2> SUFFICES ASSUME k > Len(b) PROVE FALSE
    OBVIOUS
  <2>1. Len(b) + 1 \in 1..k /\ 1 \in 1..Len(t)
    BY <1>2
  <2>2. w[Len(b) + 1] = t[1] /\ w[Len(b) + 1] = Blank
    BY <1>2, <1>4, <2>1
  <2>3. t # << >>
    BY <1>2, <2>1, EmptySeq
  <2> QED
    BY <2>2, <2>3
<1>7. k = Len(b)
  BY <1>2, <1>5, <1>6
<1>8. TrimLeft(w) = t
  BY <1>2, <1>4, <1>7
<1> QED
  BY <1>2, <1>8 DEF w

-----------------------------------------------------------------------------
(* Inside and outside of the quotes.                                       *)

\* A quote that is not escaped.
Unescaped(t, i) == t[i] = SingleQuote /\ ~(i > 1 /\ t[i - 1] = EscapeChar)

\* After i characters of t one is within a key (1) or not (0), and a backslash
\* only ever escapes a quote.
Quoting(t, in) ==
    /\ in \in [0..Len(t) -> {0, 1}]
    /\ \A i \in 1..Len(t) : in[i] = IF Unescaped(t, i) THEN 1 - in[i - 1] ELSE in[i - 1]
    /\ \A i \in 1..Len(t) : t[i] = EscapeChar => i < Len(t) /\ t[i + 1] = SingleQuote

\* Brackets only occur within keys.
Bracketed(t, in) == \A i \in 1..Len(t) : t[i] = "]" => in[i] = 1

\* From a to z, in a part of a literal, and from a to the inside of a key, in
\* what is left of a damaged one.
Between(t, a, z) ==
    \E in : Quoting(t, in) /\ Bracketed(t, in) /\ in[0] = a /\ in[Len(t)] = z
Open(t, a) == \E in : Quoting(t, in) /\ in[0] = a /\ in[Len(t)] = 1

LEMMA NothingBetween == ASSUME NEW a \in {0, 1} PROVE Between(<< >>, a, a)
<1> DEFINE in == [i \in 0..Len(<< >>) |-> a]
<1>1. Len(<< >>) = 0
  BY EmptySeq
<1>2. Quoting(<< >>, in) /\ Bracketed(<< >>, in) /\ in[0] = a /\ in[Len(<< >>)] = a
  BY <1>1 DEF Quoting, Bracketed
<1> QED
  BY <1>2 DEF Between

LEMMA BetweenTexts ==
    ASSUME NEW S, NEW t \in Seq(S), NEW u \in Seq(S), NEW a, NEW m, NEW z,
           Between(t, a, m), Between(u, m, z)
    PROVE  Between(t \o u, a, z)
<1>1. PICK f : Quoting(t, f) /\ Bracketed(t, f) /\ f[0] = a /\ f[Len(t)] = m
  BY DEF Between
<1>2. PICK g : Quoting(u, g) /\ Bracketed(u, g) /\ g[0] = m /\ g[Len(u)] = z
  BY DEF Between
<1> DEFINE w == t \o u
           in == [i \in 0..(Len(t) + Len(u)) |-> IF i <= Len(t) THEN f[i] ELSE g[i - Len(t)]]
<1>3. /\ Len(t) \in Nat /\ Len(u) \in Nat /\ Len(w) = Len(t) + Len(u)
      /\ \A i \in 1..Len(t) : w[i] = t[i]
      /\ \A i \in 1..Len(u) : w[Len(t) + i] = u[i]
  BY ConcatParts
<1>4. /\ \A i \in 0..Len(t) : in[i] = f[i]
      /\ \A i \in 0..Len(u) : in[Len(t) + i] = g[i]
  <2>1. ASSUME NEW i \in 0..Len(t) PROVE in[i] = f[i]
    <3>1. i \in 0..(Len(t) + Len(u)) /\ i <= Len(t)
      BY <1>3
    <3> QED
      BY <3>1
  <2>2. ASSUME NEW i \in 0..Len(u), i # 0 PROVE in[Len(t) + i] = g[i]
    <3>1. /\ Len(t) + i \in 0..(Len(t) + Len(u))
          /\ ~(Len(t) + i <= Len(t)) /\ Len(t) + i - Len(t) = i
      BY <1>3, <2>2
    <3> QED
      BY <3>1
  <2>3. in[Len(t)] = g[0] /\ Len(t) + 0 = Len(t)
    <3>1. Len(t) \in 0..Len(t)
      BY <1>3
    <3>2. in[Len(t)] = f[Len(t)]
      BY <2>1, <3>1
    <3> QED
      BY <1>1, <1>2, <1>3, <3>2
  <2> HIDE DEF in
  <2> QED
    BY <2>1, <2>2, <2>3
<1>5. /\ \A i \in 0..Len(t) : f[i] \in {0, 1}
      /\ \A i \in 0..Len(u) : g[i] \in {0, 1}
  BY <1>1, <1>2 DEF Quoting
<1>6. in \in [0..Len(w) -> {0, 1}]
  BY <1>3, <1>5
<1> HIDE DEF w, in
<1>7. ASSUME NEW i \in 1..Len(t)
      PROVE  /\ in[i] = IF Unescaped(w, i) THEN 1 - in[i - 1] ELSE in[i - 1]
             /\ w[i] = EscapeChar => i < Len(w) /\ w[i + 1] = SingleQuote
             /\ w[i] = "]" => in[i] = 1
  <2>1. i \in 0..Len(t) /\ i - 1 \in 0..Len(t) /\ (i > 1 => i - 1 \in 1..Len(t))
    BY <1>3
  <2>2. Unescaped(w, i) <=> Unescaped(t, i)
    BY <1>3, <2>1 DEF Unescaped
  <2>3. f[i] = IF Unescaped(t, i) THEN 1 - f[i - 1] ELSE f[i - 1]
    BY <1>1 DEF Quoting
  <2>4. in[i] = f[i] /\ in[i - 1] = f[i - 1]
    BY <1>4, <2>1
  <2>5. ASSUME w[i] = EscapeChar PROVE i < Len(w) /\ w[i + 1] = SingleQuote
    <3>1. i < Len(t) /\ t[i + 1] = SingleQuote
      BY <1>1, <1>3, <2>5 DEF Quoting
    <3>2. i + 1 \in 1..Len(t)
      BY <1>3, <3>1
    <3> QED
      BY <1>3, <3>1, <3>2
  <2>6. ASSUME w[i] = "]" PROVE in[i] = 1
    BY <1>1, <1>3, <2>4, <2>6 DEF Bracketed
  <2> QED
    BY <2>2, <2>3, <2>4, <2>5, <2>6
<1>8. ASSUME NEW j \in 1..Len(u), NEW i, i = Len(t) + j
      PROVE  /\ in[i] = IF Unescaped(w, i) THEN 1 - in[i - 1] ELSE in[i - 1]
             /\ w[i] = EscapeChar => i < Len(w) /\ w[i + 1] = SingleQuote
             /\ w[i] = "]" => in[i] = 1
  <2>1. j \in 0..Len(u) /\ j - 1 \in 0..Len(u) /\ i - 1 = Len(t) + (j - 1) /\ w[i] = u[j]
    BY <1>3, <1>8
  <2>2. Unescaped(w, i) <=> Unescaped(u, j)
    <3>1. CASE j > 1
      <4>1. j - 1 \in 1..Len(u)
        BY <1>3, <3>1
      <4>2. w[i - 1] = u[j - 1] /\ i > 1
        <5> DEFINE k == j - 1
        <5>1. k \in 1..Len(u) /\ i - 1 = Len(t) + k
          BY <2>1, <4>1
        <5> HIDE DEF k
        <5>2. w[i - 1] = u[k]
          BY <1>3, <5>1
        <5>3. i > 1
          BY <1>3, <1>8, <3>1
        <5> QED
          BY <5>2, <5>3 DEF k
      <4> QED
        BY <2>1, <3>1, <4>2 DEF Unescaped
    <3>2. CASE j = 1
      <4>1. ~(i > 1 /\ w[i - 1] = EscapeChar)
        <5> SUFFICES ASSUME i > 1, w[i - 1] = EscapeChar PROVE FALSE
          OBVIOUS
        <5>1. i - 1 = Len(t) /\ Len(t) \in 1..Len(t)
          BY <1>3, <1>8, <3>2
        <5>2. t[Len(t)] = EscapeChar
          BY <1>3, <5>1
        <5>3. Len(t) < Len(t)
          BY <1>1, <5>1, <5>2 DEF Quoting
        <5> QED
          BY <1>3, <5>3
      <4> QED
        BY <2>1, <3>2, <4>1 DEF Unescaped
    <3> QED
      BY <1>3, <3>1, <3>2
  <2>3. g[j] = IF Unescaped(u, j) THEN 1 - g[j - 1] ELSE g[j - 1]
    BY <1>2 DEF Quoting
  <2>4. in[i] = g[j] /\ in[i - 1] = g[j - 1]
    BY <1>4, <1>8, <2>1
  <2>5. ASSUME w[i] = EscapeChar PROVE i < Len(w) /\ w[i + 1] = SingleQuote
    <3>1. j < Len(u) /\ u[j + 1] = SingleQuote
      BY <1>2, <2>1, <2>5 DEF Quoting
    <3>2. j + 1 \in 1..Len(u) /\ i + 1 = Len(t) + (j + 1)
      BY <1>3, <1>8, <3>1
    <3> QED
      BY <1>3, <1>8, <3>1, <3>2
  <2>6. ASSUME w[i] = "]" PROVE in[i] = 1
    BY <1>2, <2>1, <2>4, <2>6 DEF Bracketed
  <2> QED
    BY <2>2, <2>3, <2>4, <2>5, <2>6
<1>9. ASSUME NEW i \in 1..Len(w)
      PROVE  /\ in[i] = IF Unescaped(w, i) THEN 1 - in[i - 1] ELSE in[i - 1]
             /\ w[i] = EscapeChar => i < Len(w) /\ w[i + 1] = SingleQuote
             /\ w[i] = "]" => in[i] = 1
  <2>1. CASE i <= Len(t)
    <3>1. i \in 1..Len(t)
      BY <1>3, <2>1
    <3> QED
      BY <1>7, <3>1
  <2>2. CASE ~(i <= Len(t))
    <3>1. i - Len(t) \in 1..Len(u) /\ i = Len(t) + (i - Len(t))
      BY <1>3, <2>2
    <3> QED
      BY <1>8, <3>1
  <2> QED
    BY <2>1, <2>2
<1>10. Quoting(w, in) /\ Bracketed(w, in)
  BY <1>6, <1>9 DEF Quoting, Bracketed
<1>11. in[0] = a /\ in[Len(w)] = z
  <2>1. 0 \in 0..Len(t) /\ Len(u) \in 0..Len(u)
    BY <1>3
  <2> QED
    BY <1>1, <1>2, <1>3, <1>4, <2>1
<1> QED
  BY <1>10, <1>11 DEF Between, w

\* As many texts as there are, each of which returns to where it began.
LEMMA BetweenMany ==
    ASSUME NEW S, NEW seqs \in Seq(Seq(S)), NEW a \in {0, 1},
           \A i \in 1..Len(seqs) : Between(seqs[i], a, a)
    PROVE  Between(FlattenSeq(seqs), a, a)
<1> DEFINE P(k) == FlattenSeq(SubSeq(seqs, 1, k))
           R == {k \in 0..Len(seqs) : Between(P(k), a, a)}
<1>1. Len(seqs) \in Nat
  BY LenProperties
<1>2. 0 \in R
  <2>1. 0 \in 0..Len(seqs)
    BY <1>1
  <2>2. SubSeq(seqs, 1, 0) = << >>
    BY SubSeqEmpty
  <2>3. P(0) = << >>
    BY <2>2, FlattenNone
  <2> QED
    BY <2>1, <2>3, NothingBetween
<1>3. ASSUME NEW k \in 1..Len(seqs), k - 1 \in R PROVE k \in R
  <2> DEFINE j == k - 1
  <2>1. j \in 0..Len(seqs) /\ j < Len(seqs) /\ j + 1 = k /\ k \in 0..Len(seqs)
    BY <1>1
  <2>2. Between(P(j), a, a) /\ Between(seqs[j + 1], a, a)
    BY <1>3, <2>1
  <2>3. P(j) \in Seq(S) /\ seqs[j + 1] \in Seq(S) /\ P(j + 1) = P(j) \o seqs[j + 1]
    <3> HIDE DEF j
    <3> QED
      BY <2>1, FlattenNext
  <2> HIDE DEF P, j
  <2>4. Between(P(j) \o seqs[j + 1], a, a)
    BY <2>2, <2>3, BetweenTexts
  <2> QED
    BY <2>1, <2>3, <2>4
<1>4. Len(seqs) \in R
  <2> HIDE DEF R
  <2>1. 0..Len(seqs) \subseteq R
    BY <1>1, <1>2, <1>3, EveryPosition
  <2> QED
    BY <1>1, <2>1
<1>5. P(Len(seqs)) = FlattenSeq(seqs)
  BY SubSeqFull
<1> QED
  BY <1>4, <1>5

-----------------------------------------------------------------------------
(* Literals, of keys without backslashes.                                  *)

Chars == KeyChars \union {SingleQuote, EscapeChar, "[", "]", ",", Blank}
Texts == Seq(Chars)

Letters == KeyChars \ {EscapeChar}
PlainKeys == Seq(Letters)

Part(keys, comma, i) == (IF i = 1 THEN << >> ELSE comma) \o Quoted(keys[i])
Parts(keys, comma) == [i \in DOMAIN keys |-> Part(keys, comma, i)]

LEMMA SameInside ==
    ASSUME NEW S, NEW t \in Seq(S), NEW a \in {0, 1},
           \A i \in 1..Len(t) : ~Unescaped(t, i) /\ (t[i] = "]" => a = 1),
           \A i \in 1..Len(t) : t[i] = EscapeChar => i < Len(t) /\ t[i + 1] = SingleQuote
    PROVE  Between(t, a, a)
<1> DEFINE in == [i \in 0..Len(t) |-> a]
<1>1. Len(t) \in Nat
  BY LenProperties
<1>2. \A i \in 0..Len(t) : in[i] = a
  OBVIOUS
<1>3. in \in [0..Len(t) -> {0, 1}]
  OBVIOUS
<1> HIDE DEF in
<1>4. \A i \in 1..Len(t) : in[i] = in[i - 1] /\ (t[i] = "]" => in[i] = 1)
  <2>1. SUFFICES ASSUME NEW i \in 1..Len(t)
                 PROVE  in[i] = in[i - 1] /\ (t[i] = "]" => in[i] = 1)
    OBVIOUS
  <2>2. i \in 0..Len(t) /\ i - 1 \in 0..Len(t)
    BY <1>1
  <2> QED
    BY <1>2, <2>2
<1>5. Quoting(t, in) /\ Bracketed(t, in)
  BY <1>3, <1>4 DEF Quoting, Bracketed
<1>6. in[0] = a /\ in[Len(t)] = a
  BY <1>1, <1>2
<1> QED
  BY <1>5, <1>6 DEF Between

LEMMA QuoteBetween == Between(<<SingleQuote>>, 0, 1) /\ Between(<<SingleQuote>>, 1, 0)
<1> DEFINE t == <<SingleQuote>>
<1>1. Len(t) = 1 /\ t[1] = SingleQuote /\ SingleQuote # EscapeChar /\ SingleQuote # "]"
  BY DEF SingleQuote, EscapeChar
<1> HIDE DEF t
<1>2. ASSUME NEW a \in {0, 1} PROVE Between(t, a, 1 - a)
  <2> DEFINE in == [i \in 0..1 |-> IF i = 0 THEN a ELSE 1 - a]
  <2>1. in \in [0..Len(t) -> {0, 1}] /\ in[0] = a /\ in[1] = 1 - a
    BY <1>1
  <2> HIDE DEF in
  <2>2. Unescaped(t, 1)
    BY <1>1 DEF Unescaped
  <2>3. \A i \in 1..Len(t) : i = 1
    BY <1>1
  <2>4. Quoting(t, in)
    BY <1>1, <2>1, <2>2, <2>3 DEF Quoting
  <2>5. Bracketed(t, in)
    BY <1>1, <2>3 DEF Bracketed
  <2> QED
    BY <1>1, <2>1, <2>4, <2>5 DEF Between
<1> QED
  BY <1>2 DEF t

LEMMA CharOfKey ==
    ASSUME NEW c \in Letters
    PROVE  EscapedChar(c) \in Texts /\ Between(EscapedChar(c), 1, 1)
<1>1. c \in Chars /\ c # EscapeChar /\ SingleQuote \in Chars /\ EscapeChar \in Chars
  BY DEF Letters, Chars
<1>2. CASE c = SingleQuote
  <2> DEFINE t == <<EscapeChar, SingleQuote>>
  <2>1. EscapedChar(c) = t
    BY <1>2 DEF EscapedChar
  <2>2. /\ t \in Texts /\ Len(t) = 2 /\ t[1] = EscapeChar /\ t[2] = SingleQuote
        /\ SingleQuote # EscapeChar
    BY <1>1 DEF Texts, SingleQuote, EscapeChar
  <2> HIDE DEF t
  <2>3. \A i \in 1..Len(t) : i = 1 \/ i = 2
    BY <2>2
  <2>4. ~Unescaped(t, 1) /\ ~Unescaped(t, 2)
    BY <2>2 DEF Unescaped
  <2>5. \A i \in 1..Len(t) : t[i] = EscapeChar => i < Len(t) /\ t[i + 1] = SingleQuote
    BY <2>2, <2>3
  <2>6. \A i \in 1..Len(t) : ~Unescaped(t, i)
    BY <2>3, <2>4
  <2>7. t \in Seq(Chars)
    BY <2>2 DEF Texts
  <2>8. Between(t, 1, 1)
    BY <2>5, <2>6, <2>7, SameInside
  <2> QED
    BY <2>1, <2>2, <2>8
<1>3. CASE c # SingleQuote
  <2> DEFINE t == <<c>>
  <2>1. EscapedChar(c) = t
    BY <1>1, <1>3 DEF EscapedChar
  <2>2. t \in Seq(Chars) /\ Len(t) = 1 /\ t[1] = c
    BY <1>1
  <2> HIDE DEF t
  <2>3. \A i \in 1..Len(t) : i = 1
    BY <2>2
  <2>4. \A i \in 1..Len(t) : ~Unescaped(t, i) /\ t[i] # EscapeChar
    BY <1>1, <1>3, <2>2, <2>3 DEF Unescaped
  <2>5. Between(t, 1, 1)
    BY <2>2, <2>4, SameInside
  <2> QED
    BY <2>1, <2>2, <2>5 DEF Texts
<1> QED
  BY <1>2, <1>3

LEMMA CharsOfKey ==
    ASSUME NEW key \in PlainKeys
    PROVE  /\ [i \in DOMAIN key |-> EscapedChar(key[i])] \in Seq(Texts)
           /\ Len([i \in DOMAIN key |-> EscapedChar(key[i])]) = Len(key)
           /\ Len(key) \in Nat
           /\ \A i \in 1..Len(key) : /\ key[i] \in Letters
                                     /\ [j \in DOMAIN key |-> EscapedChar(key[j])][i]
                                           = EscapedChar(key[i])
<1>1. Len(key) \in Nat /\ DOMAIN key = 1..Len(key) /\ \A i \in 1..Len(key) : key[i] \in Letters
  BY LenProperties, ElementOfSeq DEF PlainKeys
<1>2. \A i \in 1..Len(key) : EscapedChar(key[i]) \in Texts
  BY <1>1, CharOfKey
<1> QED
  BY <1>1, <1>2

LEMMA KeyBetween ==
    ASSUME NEW key \in PlainKeys
    PROVE  /\ EscapedKey(key) \in Texts /\ Between(EscapedKey(key), 1, 1)
           /\ Quoted(key) \in Texts /\ Between(Quoted(key), 0, 0)
           /\ Len(Quoted(key)) >= 1 /\ Quoted(key)[1] = SingleQuote
<1> DEFINE seqs == [i \in DOMAIN key |-> EscapedChar(key[i])]
           e == EscapedKey(key)
           q == <<SingleQuote>>
<1>1. /\ seqs \in Seq(Seq(Chars)) /\ Len(seqs) = Len(key)
      /\ \A i \in 1..Len(key) : key[i] \in Letters /\ seqs[i] = EscapedChar(key[i])
  BY CharsOfKey DEF Texts
<1>2. \A i \in 1..Len(seqs) : Between(seqs[i], 1, 1)
  <2> SUFFICES ASSUME NEW i \in 1..Len(seqs) PROVE Between(seqs[i], 1, 1)
    OBVIOUS
  <2>1. key[i] \in Letters /\ seqs[i] = EscapedChar(key[i])
    BY <1>1
  <2> HIDE DEF seqs
  <2> QED
    BY <2>1, CharOfKey
<1>3. e = FlattenSeq(seqs)
  BY DEF EscapedKey
<1> HIDE DEF seqs, e
<1>4. e \in Seq(Chars) /\ Between(e, 1, 1)
  BY <1>1, <1>2, <1>3, FlattenType, BetweenMany
<1>5. q \in Seq(Chars) /\ Len(q) = 1 /\ q[1] = SingleQuote
  BY DEF Chars
<1>6. Between(q, 0, 1) /\ Between(q, 1, 0)
  BY QuoteBetween
<1>7. Quoted(key) = (q \o e) \o q
  BY DEF Quoted, e
<1> HIDE DEF q
<1>8. /\ q \o e \in Seq(Chars) /\ Len(q \o e) = 1 + Len(e) /\ Len(e) \in Nat
      /\ (q \o e)[1] = SingleQuote
  <2>1. /\ q \o e \in Seq(Chars) /\ Len(q \o e) = Len(q) + Len(e) /\ Len(e) \in Nat
        /\ \A i \in 1..Len(q) : (q \o e)[i] = q[i]
    BY <1>4, <1>5, ConcatParts
  <2> QED
    BY <1>5, <2>1
<1>9. Between(q \o e, 0, 1)
  BY <1>4, <1>5, <1>6, BetweenTexts
<1> DEFINE d == q \o e
<1> HIDE DEF d
<1>10. d \in Seq(Chars) /\ Len(d) = 1 + Len(e) /\ Between(d, 0, 1) /\ d[1] = SingleQuote
  BY <1>8, <1>9 DEF d
<1>11. /\ d \o q \in Seq(Chars) /\ Len(d \o q) = Len(d) + Len(q)
       /\ \A i \in 1..Len(d) : (d \o q)[i] = d[i]
  <2>1. d \in Seq(Chars) /\ q \in Seq(Chars)
    BY <1>5, <1>10
  <2> QED
    BY <2>1, ConcatParts
<1>12. Between(d \o q, 0, 0)
  BY <1>5, <1>6, <1>10, BetweenTexts
<1>13. Len(d \o q) >= 1 /\ (d \o q)[1] = SingleQuote
  BY <1>5, <1>8, <1>10, <1>11
<1> QED
  BY <1>4, <1>7, <1>11, <1>12, <1>13 DEF d, e, Texts

LEMMA PartBetween ==
    ASSUME NEW keys \in Seq(PlainKeys), NEW comma \in Commas, NEW i \in 1..Len(keys)
    PROVE  Part(keys, comma, i) \in Texts /\ Between(Part(keys, comma, i), 0, 0)
<1> DEFINE q == Quoted(keys[i])
<1>1. keys[i] \in PlainKeys
  BY ElementOfSeq
<1>2. q \in Seq(Chars) /\ Between(q, 0, 0)
  BY <1>1, KeyBetween DEF Texts
<1> HIDE DEF q
<1>3. CASE i = 1
  <2>1. << >> \o q = q
    BY <1>2, ConcatEmptySeq
  <2> QED
    BY <1>2, <1>3, <2>1 DEF Part, q, Texts
<1>4. CASE i # 1
  <2>1. comma \in Seq({Blank, ","})
    BY SeparatorsAssumption
  <2>2. \A j \in 1..Len(comma) : comma[j] \in {Blank, ","}
    BY <2>1, ElementOfSeq
  <2>3. comma \in Seq(Chars)
    BY <2>1, SeqMonotonic DEF Chars
  <2>4. \A j \in 1..Len(comma) : ~Unescaped(comma, j) /\ comma[j] # "]" /\ comma[j] # EscapeChar
    BY <2>2 DEF Unescaped, Blank, SingleQuote, EscapeChar
  <2>5. Between(comma, 0, 0)
    BY <2>3, <2>4, SameInside
  <2>6. comma \o q \in Seq(Chars)
    BY <1>2, <2>3, ConcatProperties
  <2>7. Between(comma \o q, 0, 0)
    BY <1>2, <2>3, <2>5, BetweenTexts
  <2> QED
    BY <1>4, <2>6, <2>7 DEF Part, q, Texts
<1> QED
  BY <1>3, <1>4

LEMMA PartsOfList ==
    ASSUME NEW keys \in Seq(PlainKeys), NEW comma \in Commas
    PROVE  /\ Parts(keys, comma) \in Seq(Texts)
           /\ Len(keys) \in Nat /\ Len(Parts(keys, comma)) = Len(keys)
           /\ \A i \in 1..Len(keys) : Parts(keys, comma)[i] = Part(keys, comma, i)
           /\ Listed(keys, comma) = FlattenSeq(Parts(keys, comma))
           /\ Listed(keys, comma) \in Texts /\ Between(Listed(keys, comma), 0, 0)
<1> DEFINE ps == Parts(keys, comma)
<1>1. Len(keys) \in Nat /\ DOMAIN keys = 1..Len(keys)
  BY LenProperties
<1>2. \A i \in 1..Len(keys) : Part(keys, comma, i) \in Texts /\ Between(Part(keys, comma, i), 0, 0)
  BY PartBetween
<1>3. /\ ps \in Seq(Seq(Chars)) /\ Len(ps) = Len(keys)
      /\ \A i \in 1..Len(keys) : ps[i] = Part(keys, comma, i)
  BY <1>1, <1>2 DEF Parts, Texts
<1>4. Listed(keys, comma) = FlattenSeq(ps)
  BY DEF Listed, Parts, Part
<1> HIDE DEF ps
<1>5. \A i \in 1..Len(ps) : Between(ps[i], 0, 0)
  BY <1>2, <1>3
<1>6. FlattenSeq(ps) \in Seq(Chars) /\ Between(FlattenSeq(ps), 0, 0)
  BY <1>3, <1>5, FlattenType, BetweenMany
<1> QED
  BY <1>1, <1>3, <1>4, <1>6 DEF ps, Texts

-----------------------------------------------------------------------------
(* What is left of a literal that is damaged.                              *)

\* After some characters, unless an escaped quote comes next.
LEMMA OpenEnd ==
    ASSUME NEW S, NEW t \in Seq(S), NEW in, Quoting(t, in), in[Len(t)] = 1,
           NEW k \in 0..Len(t), k = 0 \/ t[k] # EscapeChar
    PROVE  Open(SubSeq(t, k + 1, Len(t)), in[k])
<1> DEFINE v == SubSeq(t, k + 1, Len(t))
           g == [i \in 0..(Len(t) - k) |-> in[k + i]]
<1>1. Len(t) \in Nat
  BY LenProperties
<1>2. v \in Seq(S) /\ Len(v) = Len(t) - k /\ \A i \in 1..(Len(t) - k) : v[i] = t[k + i]
  BY EndOf
<1>3. \A i \in 0..Len(t) : in[i] \in {0, 1}
  BY DEF Quoting
<1>4. \A i \in 0..(Len(t) - k) : g[i] = in[k + i]
  OBVIOUS
<1>5. g \in [0..(Len(t) - k) -> {0, 1}]
  <2>1. \A i \in 0..(Len(t) - k) : k + i \in 0..Len(t)
    BY <1>1
  <2> QED
    BY <1>3, <2>1
<1> HIDE DEF v, g
<1>6. ASSUME NEW i \in 1..Len(v)
      PROVE  /\ g[i] = IF Unescaped(v, i) THEN 1 - g[i - 1] ELSE g[i - 1]
             /\ v[i] = EscapeChar => i < Len(v) /\ v[i + 1] = SingleQuote
  <2> DEFINE j == k + i
  <2>1. j \in 1..Len(t) /\ i \in 1..(Len(t) - k) /\ j - 1 = k + (i - 1) /\ j + 1 = k + (i + 1)
    BY <1>1, <1>2
  <2>2. i \in 0..(Len(t) - k) /\ i - 1 \in 0..(Len(t) - k)
    BY <2>1
  <2>3. v[i] = t[j] /\ g[i] = in[j]
    BY <1>2, <1>4, <2>1, <2>2
  <2>4. g[i - 1] = in[j - 1]
    <3> HIDE DEF j
    <3> QED
      BY <1>4, <2>1, <2>2
  <2>5. Unescaped(v, i) <=> Unescaped(t, j)
    <3>1. CASE i > 1
      <4> DEFINE h == i - 1
      <4>1. h \in 1..(Len(t) - k) /\ j - 1 = k + h /\ j > 1
        BY <1>1, <2>1, <3>1
      <4> HIDE DEF h, j
      <4>2. v[h] = t[j - 1]
        BY <1>2, <4>1
      <4> QED
        BY <2>3, <3>1, <4>1, <4>2 DEF Unescaped, h
    <3>2. CASE i = 1
      <4>1. j - 1 = k /\ (j > 1 => k # 0)
        BY <1>1, <2>1, <3>2
      <4>2. ~(j > 1 /\ t[j - 1] = EscapeChar)
        BY <4>1
      <4> HIDE DEF j
      <4> QED
        BY <2>3, <3>2, <4>2 DEF Unescaped
    <3> QED
      BY <1>1, <2>1, <3>1, <3>2
  <2> HIDE DEF j
  <2>6. in[j] = IF Unescaped(t, j) THEN 1 - in[j - 1] ELSE in[j - 1]
    BY <2>1 DEF Quoting
  <2>7. ASSUME v[i] = EscapeChar PROVE i < Len(v) /\ v[i + 1] = SingleQuote
    <3>1. j < Len(t) /\ t[j + 1] = SingleQuote
      BY <2>1, <2>3, <2>7 DEF Quoting
    <3> DEFINE h == i + 1
    <3>2. h \in 1..(Len(t) - k) /\ j + 1 = k + h /\ i < Len(t) - k
      BY <1>1, <2>1, <3>1 DEF j
    <3> HIDE DEF h
    <3>3. v[h] = SingleQuote
      BY <1>2, <3>1, <3>2
    <3> QED
      BY <1>2, <3>2, <3>3 DEF h
  <2> QED
    BY <2>3, <2>4, <2>5, <2>6, <2>7
<1>7. Quoting(v, g)
  BY <1>2, <1>5, <1>6 DEF Quoting
<1>8. g[0] = in[k] /\ g[Len(v)] = 1
  BY <1>1, <1>2, <1>4
<1> QED
  BY <1>7, <1>8 DEF Open, v

\* Before a bracket, which can only be within a key.
LEMMA OpenCut ==
    ASSUME NEW S, NEW u \in Seq(S), NEW in, Quoting(u, in), Bracketed(u, in),
           NEW m \in 1..Len(u), u[m] = "]"
    PROVE  Open(SubSeq(u, 1, m - 1), in[0])
<1> DEFINE n == m - 1
           v == SubSeq(u, 1, n)
           g == [i \in 0..n |-> in[i]]
<1>1. Len(u) \in Nat /\ n \in 0..Len(u) /\ n \in Nat /\ n + 1 = m /\ n < Len(u)
  <2>1. Len(u) \in Nat
    BY LenProperties
  <2> QED
    BY <2>1
<1>2. v \in Seq(S) /\ Len(v) = n /\ \A i \in 1..n : v[i] = u[i]
  <2> HIDE DEF n
  <2>1. v \in Seq(S) /\ Len(v) = n
    BY <1>1, BeginningOf
  <2>2. \A i \in 1..(n - 1 + 1) : v[i] = u[1 + i - 1]
    <3>1. \A i \in 1..n : u[i] \in S
      <4>1. \A i \in 1..n : i \in 1..Len(u)
        BY <1>1
      <4> QED
        BY <4>1, ElementOfSeq
    <3> QED
      BY <1>1, <3>1, SubSeqProperties
  <2> QED
    BY <1>1, <2>1, <2>2
<1>3. \A i \in 0..n : g[i] = in[i]
  OBVIOUS
<1>4. in[m] = 1 /\ ~Unescaped(u, m)
  BY DEF Bracketed, Unescaped, SingleQuote
<1>5. in[n] = 1
  BY <1>4 DEF Quoting
<1>6. g \in [0..Len(v) -> {0, 1}]
  <2>1. \A i \in 0..n : in[i] \in {0, 1}
    BY <1>1 DEF Quoting
  <2> QED
    BY <1>2, <2>1
<1> HIDE DEF v, g, n
<1>7. ASSUME NEW i \in 1..Len(v)
      PROVE  /\ g[i] = IF Unescaped(v, i) THEN 1 - g[i - 1] ELSE g[i - 1]
             /\ v[i] = EscapeChar => i < Len(v) /\ v[i + 1] = SingleQuote
  <2>1. i \in 1..n /\ i \in 0..n /\ i - 1 \in 0..n /\ i \in 1..Len(u) /\ (i > 1 => i - 1 \in 1..n)
    BY <1>1, <1>2
  <2>2. Unescaped(v, i) <=> Unescaped(u, i)
    BY <1>2, <2>1 DEF Unescaped
  <2>3. in[i] = IF Unescaped(u, i) THEN 1 - in[i - 1] ELSE in[i - 1]
    BY <2>1 DEF Quoting
  <2>4. g[i] = in[i] /\ g[i - 1] = in[i - 1]
    BY <1>3, <2>1
  <2>5. ASSUME v[i] = EscapeChar PROVE i < Len(v) /\ v[i + 1] = SingleQuote
    <3>1. u[i + 1] = SingleQuote
      BY <1>2, <2>1, <2>5 DEF Quoting
    <3>2. i + 1 # m
      BY <3>1 DEF SingleQuote
    <3>3. i + 1 \in 1..n /\ i < n
      BY <1>1, <2>1, <3>2
    <3> QED
      BY <1>2, <3>1, <3>3
  <2> QED
    BY <2>2, <2>3, <2>4, <2>5
<1>8. Quoting(v, g)
  BY <1>6, <1>7 DEF Quoting
<1>9. g[0] = in[0] /\ g[Len(v)] = 1
  BY <1>1, <1>2, <1>3, <1>5
<1> QED
  BY <1>8, <1>9 DEF Open, v, n

LEMMA WithoutOne ==
    ASSUME NEW S, NEW t \in Seq(S), NEW j \in 1..Len(t)
    PROVE  /\ RemoveAt(t, j) \in Seq(S)
           /\ Len(t) \in Nat /\ Len(RemoveAt(t, j)) = Len(t) - 1
           /\ \A i \in 1..(Len(t) - 1) :
                 RemoveAt(t, j)[i] = IF i < j THEN t[i] ELSE t[i + 1]
<1> DEFINE n == j - 1
           a == SubSeq(t, 1, n)
           b == SubSeq(t, j + 1, Len(t))
<1>1. Len(t) \in Nat /\ n \in 0..Len(t) /\ j \in 0..Len(t) /\ j \in Nat /\ n \in Nat
  <2>1. Len(t) \in Nat
    BY LenProperties
  <2> QED
    BY <2>1
<1>2. RemoveAt(t, j) = a \o b
  BY DEF RemoveAt
<1>3. b \in Seq(S) /\ Len(b) = Len(t) - j /\ \A i \in 1..(Len(t) - j) : b[i] = t[j + i]
  BY <1>1, EndOf
<1>4. a \in Seq(S) /\ Len(a) = n /\ \A i \in 1..n : a[i] = t[i]
  <2> HIDE DEF n
  <2>1. a \in Seq(S) /\ Len(a) = n
    BY <1>1, BeginningOf
  <2>2. \A i \in 1..n : t[i] \in S
    <3>1. \A i \in 1..n : i \in 1..Len(t)
      BY <1>1
    <3> QED
      BY <3>1, ElementOfSeq
  <2>3. \A i \in 1..(n - 1 + 1) : a[i] = t[1 + i - 1]
    BY <1>1, <2>2, SubSeqProperties
  <2> QED
    BY <1>1, <2>1, <2>3
<1>5. n = j - 1
  OBVIOUS
<1> HIDE DEF a, b, n
<1>6. a \in Seq(S) /\ b \in Seq(S)
  BY <1>3, <1>4
<1> DEFINE c == a \o b
<1>7. /\ c \in Seq(S) /\ Len(c) = Len(a) + Len(b)
      /\ \A i \in 1..Len(a) : c[i] = a[i]
      /\ \A i \in 1..Len(b) : c[Len(a) + i] = b[i]
  BY <1>6, ConcatParts
<1> HIDE DEF c
<1>8. Len(c) = Len(t) - 1
  <2>1. Len(c) = Len(a) + Len(b) /\ Len(a) = n /\ Len(b) = Len(t) - j
    BY <1>3, <1>4, <1>7
  <2> QED
    BY <1>1, <1>5, <2>1
<1>9. ASSUME NEW i \in 1..(Len(t) - 1) PROVE c[i] = IF i < j THEN t[i] ELSE t[i + 1]
  <2>1. CASE i < j
    <3>1. i \in 1..n /\ i \in 1..Len(a)
      BY <1>1, <1>4, <1>5, <2>1
    <3> QED
      BY <1>4, <1>7, <2>1, <3>1
  <2>2. CASE ~(i < j)
    <3> DEFINE h == i - n
    <3>1. h \in 1..(Len(t) - j) /\ h \in 1..Len(b) /\ i = Len(a) + h /\ i + 1 = j + h
      BY <1>1, <1>3, <1>4, <1>5, <2>2
    <3> HIDE DEF h
    <3>2. c[i] = b[h] /\ b[h] = t[i + 1]
      BY <1>3, <1>7, <3>1
    <3> QED
      BY <2>2, <3>2
  <2> QED
    BY <2>1, <2>2
<1> QED
  BY <1>1, <1>2, <1>7, <1>8, <1>9 DEF c

\* Without a quote, inside and outside are exchanged from there on.
LEMMA OpenGap ==
    ASSUME NEW S, NEW u \in Seq(S), NEW in, Quoting(u, in), in[Len(u)] = 0,
           NEW j \in 1..Len(u), Unescaped(u, j)
    PROVE  Open(RemoveAt(u, j), in[0])
<1> DEFINE v == RemoveAt(u, j)
           n == Len(u) - 1
           g == [i \in 0..n |-> IF i < j THEN in[i] ELSE 1 - in[i + 1]]
<1>1. /\ v \in Seq(S) /\ Len(u) \in Nat /\ Len(v) = n
      /\ \A i \in 1..n : v[i] = IF i < j THEN u[i] ELSE u[i + 1]
  BY WithoutOne
<1>2. n \in Nat /\ n + 1 = Len(u) /\ j \in 1..(n + 1)
  BY <1>1
<1>3. \A i \in 0..Len(u) : in[i] \in {0, 1}
  BY DEF Quoting
<1>4. in[j] = 1 - in[j - 1]
  BY DEF Quoting
<1>5. \A i \in 0..n : g[i] = IF i < j THEN in[i] ELSE 1 - in[i + 1]
  OBVIOUS
<1>6. g \in [0..n -> {0, 1}]
  <2>1. \A i \in 0..n : (IF i < j THEN in[i] ELSE 1 - in[i + 1]) \in {0, 1}
    BY <1>2, <1>3
  <2> QED
    BY <2>1
<1> HIDE DEF v, n, g
<1>7. ASSUME NEW i \in 1..n, i < j
      PROVE  /\ g[i] = IF Unescaped(v, i) THEN 1 - g[i - 1] ELSE g[i - 1]
             /\ v[i] = EscapeChar => i < n /\ v[i + 1] = SingleQuote
  <2>1. /\ i \in 0..n /\ i - 1 \in 0..n /\ i \in 1..Len(u) /\ i - 1 < j
        /\ (i > 1 => i - 1 \in 1..n)
    BY <1>2, <1>7
  <2>2. Unescaped(v, i) <=> Unescaped(u, i)
    BY <1>1, <1>7, <2>1 DEF Unescaped
  <2>3. in[i] = IF Unescaped(u, i) THEN 1 - in[i - 1] ELSE in[i - 1]
    BY <2>1 DEF Quoting
  <2>4. g[i] = in[i] /\ g[i - 1] = in[i - 1]
    BY <1>5, <1>7, <2>1
  <2>5. ASSUME v[i] = EscapeChar PROVE i < n /\ v[i + 1] = SingleQuote
    <3>1. u[i] = EscapeChar
      BY <1>1, <1>7, <2>5
    <3>2. u[i + 1] = SingleQuote
      BY <2>1, <3>1 DEF Quoting
    <3>3. i + 1 # j
      <4> SUFFICES ASSUME i + 1 = j PROVE FALSE
        OBVIOUS
      <4>1. j > 1 /\ j - 1 = i
        BY <1>2
      <4> QED
        BY <3>1, <4>1 DEF Unescaped
    <3>4. i + 1 < j /\ i + 1 \in 1..n /\ i < n
      BY <1>2, <1>7, <3>3
    <3> QED
      BY <1>1, <3>2, <3>4
  <2> QED
    BY <2>2, <2>3, <2>4, <2>5
<1>8. ASSUME NEW i \in 1..n, ~(i < j)
      PROVE  /\ g[i] = IF Unescaped(v, i) THEN 1 - g[i - 1] ELSE g[i - 1]
             /\ v[i] = EscapeChar => i < n /\ v[i + 1] = SingleQuote
  <2> DEFINE k == i + 1
  <2>1. k \in 1..Len(u) /\ i \in 0..n /\ i - 1 \in 0..n /\ k \in 0..Len(u) /\ i \in 0..Len(u)
    BY <1>2, <1>8
  <2>2. v[i] = u[k] /\ g[i] = 1 - in[k]
    BY <1>1, <1>5, <1>8, <2>1
  <2>3. k - 1 = i /\ k > 1
    BY <1>2
  <2> HIDE DEF k
  <2>4. g[i - 1] = 1 - in[i]
    <3>1. CASE i = j
      <4>1. i - 1 < j /\ in[i] = 1 - in[i - 1] /\ in[i - 1] \in {0, 1}
        BY <1>2, <1>3, <1>4, <2>1, <3>1
      <4> QED
        BY <1>5, <2>1, <4>1
    <3>2. CASE i # j
      <4> DEFINE h == i - 1
      <4>1. h \in 0..n /\ ~(h < j) /\ h + 1 = i
        BY <1>2, <1>8, <2>1, <3>2
      <4> HIDE DEF h
      <4>2. g[h] = 1 - in[i]
        BY <1>5, <4>1
      <4> QED
        BY <4>2 DEF h
    <3> QED
      BY <3>1, <3>2
  <2>5. Unescaped(v, i) <=> Unescaped(u, k)
    <3>1. CASE i = j
      <4>1. u[i] = SingleQuote /\ SingleQuote # EscapeChar
        BY <3>1 DEF Unescaped, SingleQuote, EscapeChar
      <4>2. ~(k > 1 /\ u[k - 1] = EscapeChar)
        BY <2>3, <4>1
      <4>3. ~(i > 1 /\ v[i - 1] = EscapeChar)
        <5> SUFFICES ASSUME i > 1, v[i - 1] = EscapeChar PROVE FALSE
          OBVIOUS
        <5>1. i - 1 \in 1..n /\ i - 1 < j
          BY <1>2, <3>1
        <5>2. u[i - 1] = EscapeChar
          BY <1>1, <5>1
        <5> QED
          BY <3>1, <5>2 DEF Unescaped
      <4> QED
        BY <2>2, <4>2, <4>3 DEF Unescaped
    <3>2. CASE i # j
      <4> DEFINE h == i - 1
      <4>1. h \in 1..n /\ ~(h < j) /\ h + 1 = i /\ i > 1
        BY <1>2, <1>8, <3>2
      <4> HIDE DEF h
      <4>2. v[h] = u[i]
        BY <1>1, <4>1
      <4>3. v[i - 1] = u[k - 1]
        BY <2>3, <4>2 DEF h
      <4> QED
        BY <2>2, <2>3, <4>1, <4>3 DEF Unescaped
    <3> QED
      BY <3>1, <3>2
  <2>6. in[k] = IF Unescaped(u, k) THEN 1 - in[k - 1] ELSE in[k - 1]
    BY <2>1 DEF Quoting
  <2>7. in[i] \in {0, 1} /\ in[k] \in {0, 1}
    BY <1>3, <2>1
  <2>8. g[i] = IF Unescaped(v, i) THEN 1 - g[i - 1] ELSE g[i - 1]
    BY <2>2, <2>3, <2>4, <2>5, <2>6, <2>7
  <2>9. ASSUME v[i] = EscapeChar PROVE i < n /\ v[i + 1] = SingleQuote
    <3>1. k < Len(u) /\ u[k + 1] = SingleQuote
      BY <2>1, <2>2, <2>9 DEF Quoting
    <3>2. i < n /\ k \in 1..n /\ ~(k < j)
      BY <1>2, <1>8, <2>1, <2>3, <3>1
    <3>3. v[k] = SingleQuote
      BY <1>1, <3>1, <3>2
    <3> QED
      BY <3>2, <3>3 DEF k
  <2> QED
    BY <2>8, <2>9
<1>9. Quoting(v, g)
  BY <1>1, <1>6, <1>7, <1>8 DEF Quoting
<1>10. g[0] = in[0]
  BY <1>2, <1>5
<1>11. g[n] = 1
  <2>1. CASE n < j
    <3>1. j = n + 1 /\ n \in 0..n /\ j - 1 = n
      BY <1>2, <2>1
    <3>2. in[n] \in {0, 1} /\ in[j] = 0
      BY <1>2, <1>3, <3>1
    <3> QED
      BY <1>4, <1>5, <2>1, <3>1, <3>2
  <2>2. CASE ~(n < j)
    <3>1. n \in 0..n /\ in[n + 1] = 0
      BY <1>2
    <3> QED
      BY <1>5, <2>2, <3>1
  <2> QED
    BY <2>1, <2>2
<1> QED
  BY <1>1, <1>9, <1>10, <1>11 DEF Open, v

\* The text between two characters.
LEMMA Within ==
    ASSUME NEW S, NEW x \in Seq(S), Len(x) >= 2
    PROVE  /\ SubSeq(x, 2, Len(x) - 1) \in Seq(S)
           /\ Len(SubSeq(x, 2, Len(x) - 1)) = Len(x) - 2
           /\ \A i \in 1..(Len(x) - 2) : SubSeq(x, 2, Len(x) - 1)[i] = x[i + 1]
<1> DEFINE n == Len(x) - 1
           v == SubSeq(x, 2, n)
<1>1. Len(x) \in Nat /\ n \in Nat /\ n >= 1 /\ n - 2 + 1 = Len(x) - 2
  <2>1. Len(x) \in Nat
    BY LenProperties
  <2> QED
    BY <2>1
<1>2. \A i \in 2..n : x[i] \in S
  <2>1. \A i \in 2..n : i \in 1..Len(x)
    BY <1>1
  <2> QED
    BY <2>1, ElementOfSeq
<1> HIDE DEF n
<1>3. /\ v \in Seq(S) /\ Len(v) = (IF 2 <= n THEN n - 2 + 1 ELSE 0)
      /\ \A i \in 1..(n - 2 + 1) : v[i] = x[2 + i - 1]
  BY <1>1, <1>2, SubSeqProperties
<1> HIDE DEF v
<1>4. Len(v) = Len(x) - 2
  BY <1>1, <1>3
<1>5. ASSUME NEW i \in 1..(Len(x) - 2) PROVE v[i] = x[i + 1]
  <2>1. 2 + i - 1 = i + 1
    BY <1>1
  <2> QED
    BY <1>1, <1>3, <2>1
<1> QED
  BY <1>3, <1>4, <1>5 DEF v, n

\* Of a text that does not begin with a blank, the blanks at its end are dropped.
LEMMA TrimSpaceCuts ==
    ASSUME NEW S, NEW t \in Seq(S), t # << >>, t[1] # Blank
    PROVE  \E m \in 0..Len(t) :
              /\ TrimSpace(t) = SubSeq(t, 1, m)
              /\ \A i \in (m + 1)..Len(t) : t[i] = Blank
              /\ m > 0 => t[m] # Blank
<1> DEFINE r == Reverse(t)
           x == TrimLeft(r)
           N == Len(t)
<1>1. N \in Nat \ {0}
  <2>1. N \in Nat /\ N # 0
    BY EmptySeq
  <2> QED
    BY <2>1
<1>2. TrimSpace(t) = Reverse(x)
  BY NothingToTrim DEF TrimSpace
<1>3. r \in Seq(S) /\ Len(r) = N /\ \A i \in 1..N : r[i] = t[(N - i) + 1]
  <2>1. \A i \in 1..N : (N - i) + 1 \in 1..Len(t)
    BY <1>1
  <2>2. \A i \in 1..N : t[(N - i) + 1] \in S
    BY <2>1, ElementOfSeq
  <2>3. r = [i \in 1..N |-> t[(N - i) + 1]]
    BY DEF Reverse
  <2> QED
    BY <1>1, <2>2, <2>3
<1> HIDE DEF r, N
<1>4. PICK k \in 0..Len(r) :
          /\ x = SubSeq(r, k + 1, Len(r))
          /\ \A i \in 1..k : r[i] = Blank
          /\ k < Len(r) => r[k + 1] # Blank
  BY <1>3, TrimLeftDrops
<1>5. x \in Seq(S) /\ Len(x) = Len(r) - k /\ \A i \in 1..(Len(r) - k) : x[i] = r[k + i]
  <2>1. r \in Seq(S) /\ k \in 0..Len(r)
    BY <1>3
  <2> HIDE DEF x
  <2> DEFINE z == SubSeq(r, k + 1, Len(r))
  <2>2. z \in Seq(S) /\ Len(z) = Len(r) - k /\ \A i \in 1..(Len(r) - k) : z[i] = r[k + i]
    BY <2>1, EndOf
  <2>3. x = z
    BY <1>4
  <2> HIDE DEF z
  <2> QED
    BY <2>2, <2>3
<1> DEFINE m == N - k
           y == SubSeq(t, 1, m)
<1>6. m \in 0..N /\ k \in 0..N
  BY <1>1, <1>3
<1>7. y \in Seq(S) /\ Len(y) = m /\ \A i \in 1..m : y[i] = t[i]
  <2> HIDE DEF m
  <2>1. m \in 0..Len(t) /\ m \in Nat
    BY <1>1, <1>6 DEF N
  <2>2. y \in Seq(S) /\ Len(y) = m
    BY <2>1, BeginningOf
  <2>3. \A i \in 1..m : t[i] \in S
    <3>1. \A i \in 1..m : i \in 1..Len(t)
      BY <1>1, <2>1 DEF N
    <3> QED
      BY <3>1, ElementOfSeq
  <2>4. \A i \in 1..(m - 1 + 1) : y[i] = t[1 + i - 1]
    BY <2>1, <2>3, SubSeqProperties
  <2> QED
    BY <2>1, <2>2, <2>4
<1>8. Reverse(x) = y
  <2> HIDE DEF x, y
  <2>1. Len(x) = m
    BY <1>3, <1>5
  <2>2. Reverse(x) = [i \in 1..m |-> x[(m - i) + 1]]
    BY <2>1 DEF Reverse
  <2>3. ASSUME NEW i \in 1..m PROVE x[(m - i) + 1] = y[i]
    <3> DEFINE j == (m - i) + 1
    <3>1. j \in 1..(Len(r) - k) /\ k + j \in 1..N /\ (N - (k + j)) + 1 = i
      BY <1>1, <1>3, <1>6
    <3> HIDE DEF j
    <3>2. x[j] = t[i]
      BY <1>3, <1>5, <3>1
    <3> QED
      BY <1>7, <3>2 DEF j
  <2>4. y = [i \in 1..m |-> y[i]]
    BY <1>7
  <2> HIDE DEF m
  <2> QED
    BY <2>2, <2>3, <2>4
<1>9. ASSUME NEW i \in (m + 1)..N PROVE t[i] = Blank
  <2> DEFINE j == (N - i) + 1
  <2>1. j \in 1..N /\ j \in 1..k /\ (N - j) + 1 = i
    BY <1>1, <1>6
  <2> HIDE DEF j, m
  <2>2. r[j] = t[i]
    BY <1>3, <2>1
  <2> QED
    BY <1>4, <2>1, <2>2
<1>10. ASSUME m > 0 PROVE t[m] # Blank
  <2> DEFINE j == k + 1
  <2>1. j \in 1..N /\ (N - j) + 1 = m /\ k < Len(r)
    BY <1>1, <1>3, <1>6, <1>10
  <2>2. r[j] # Blank
    BY <1>4, <2>1
  <2> HIDE DEF j, m
  <2> QED
    BY <1>3, <2>1, <2>2
<1> QED
  BY <1>2, <1>6, <1>8, <1>9, <1>10 DEF N, y

InBrackets(u) == <<"[">> \o u \o <<"]">>

LEMMA BracketedText ==
    ASSUME NEW u \in Texts
    PROVE  /\ Len(u) \in Nat /\ InBrackets(u) \in Texts /\ Len(InBrackets(u)) = Len(u) + 2
           /\ InBrackets(u)[1] = "[" /\ InBrackets(u)[Len(u) + 2] = "]"
           /\ \A i \in 1..Len(u) : InBrackets(u)[i + 1] = u[i]
<1> DEFINE lit == InBrackets(u)
           b == <<"[">>
           c == <<"]">>
           d == b \o u
<1>1. u \in Seq(Chars)
  BY DEF Texts
<1>2. b \in Seq(Chars) /\ Len(b) = 1 /\ b[1] = "[" /\ c \in Seq(Chars) /\ Len(c) = 1 /\ c[1] = "]"
  BY DEF Chars
<1>3. lit = d \o c
  BY DEF InBrackets
<1> HIDE DEF b, c, lit
<1>4. b \in Seq(Chars) /\ c \in Seq(Chars)
  BY <1>2
<1>5. /\ d \in Seq(Chars) /\ Len(b) \in Nat /\ Len(u) \in Nat /\ Len(d) = Len(b) + Len(u)
      /\ \A i \in 1..Len(b) : d[i] = b[i]
      /\ \A i \in 1..Len(u) : d[Len(b) + i] = u[i]
  BY <1>1, <1>4, ConcatParts
<1> HIDE DEF d
<1>6. d \in Seq(Chars)
  BY <1>5
<1>7. /\ d \o c \in Seq(Chars) /\ Len(d \o c) = Len(d) + Len(c)
      /\ \A i \in 1..Len(d) : (d \o c)[i] = d[i]
      /\ \A i \in 1..Len(c) : (d \o c)[Len(d) + i] = c[i]
  BY <1>4, <1>6, ConcatParts
<1>8. /\ lit \in Seq(Chars) /\ Len(lit) = Len(u) + 2
      /\ \A i \in 1..(Len(u) + 1) : lit[i] = d[i]
      /\ lit[Len(u) + 2] = "]"
  <2>1. Len(d) = Len(u) + 1 /\ Len(d) + Len(c) = Len(u) + 2 /\ Len(d) + 1 = Len(u) + 2 /\ 1 \in 1..Len(c)
    BY <1>2, <1>5
  <2>2. (d \o c)[Len(d) + 1] = "]"
    BY <1>2, <1>7, <2>1
  <2> QED
    BY <1>3, <1>7, <2>1, <2>2
<1>9. lit[1] = "["
  BY <1>2, <1>5, <1>8
<1>10. ASSUME NEW i \in 1..Len(u) PROVE lit[i + 1] = u[i]
  <2>1. i + 1 \in 1..(Len(u) + 1) /\ i + 1 = Len(b) + i
    BY <1>2, <1>5
  <2> QED
    BY <1>5, <1>8, <2>1
<1> QED
  BY <1>5, <1>8, <1>9, <1>10 DEF Texts, lit

LEMMA BareLiteral ==
    ASSUME NEW keys \in Seq(PlainKeys), NEW comma \in Commas
    PROVE  Literal(keys, comma, << >>) = InBrackets(Listed(keys, comma))
<1> DEFINE b == <<"[">>
           c == <<"]">>
           u == Listed(keys, comma)
<1>1. u \in Seq(Chars) /\ b \in Seq(Chars) /\ c \in Seq(Chars)
  <2>1. u \in Seq(Chars)
    BY PartsOfList DEF Texts
  <2>2. b \in Seq(Chars) /\ c \in Seq(Chars)
    BY DEF Chars
  <2> QED
    BY <2>1, <2>2
<1> HIDE DEF b, c, u
<1>2. << >> \o b = b
  BY <1>1, ConcatEmptySeq
<1>3. b \o u \o c \in Seq(Chars)
  <2>1. b \o u \in Seq(Chars)
    BY <1>1, ConcatProperties
  <2> QED
    BY <1>1, <2>1, ConcatProperties
<1>4. (b \o u \o c) \o << >> = b \o u \o c
  BY <1>3, ConcatEmptySeq
<1>5. Literal(keys, comma, << >>) = << >> \o b \o u \o c \o << >>
  BY DEF Literal, b, c, u
<1> QED
  BY <1>2, <1>4, <1>5 DEF b, c, u, InBrackets

\* Whatever is missing, what is left within the brackets ends within a key.
LEMMA DamagedIsOpen ==
    ASSUME NEW keys \in Seq(PlainKeys), NEW comma \in Commas,
           NEW a \in Damaged(Literal(keys, comma, << >>)),
           NEW x, x = TrimSpace(a), Len(x) >= 2, x[1] = "[", x[Len(x)] = "]"
    PROVE  /\ SubSeq(x, 2, Len(x) - 1) \in Texts
           /\ Open(SubSeq(x, 2, Len(x) - 1), 0)
<1> DEFINE u == Listed(keys, comma)
           lit == InBrackets(u)
           N == Len(u)
           y == SubSeq(x, 2, Len(x) - 1)
<1>1. /\ u \in Seq(Chars) /\ N \in Nat /\ lit \in Seq(Chars) /\ Len(lit) = N + 2
      /\ lit[1] = "[" /\ lit[N + 2] = "]"
      /\ \A i \in 1..N : lit[i + 1] = u[i]
  <2>1. u \in Texts
    BY PartsOfList
  <2> HIDE DEF u
  <2> QED
    BY <2>1, BracketedText DEF Texts
<1>2. PICK in : Quoting(u, in) /\ Bracketed(u, in) /\ in[0] = 0 /\ in[N] = 0
  BY PartsOfList DEF Between
<1>3. \/ \E n \in 0..(Len(lit) - 1) : a = SubSeq(lit, 1, n)
      \/ \E i \in DOMAIN lit :
            a = RemoveAt(lit, i) /\ lit[i] = SingleQuote /\ lit[i - 1] # EscapeChar
  <2>1. a \in Damaged(lit)
    BY BareLiteral
  <2> HIDE DEF lit
  <2> QED
    BY <2>1 DEF Damaged
<1> HIDE DEF lit, u, N
<1>4. ASSUME NEW n \in 0..(Len(lit) - 1), a = SubSeq(lit, 1, n)
      PROVE  y \in Texts /\ Open(y, 0)
  <2>1. n \in 0..Len(lit) /\ n \in Nat /\ n <= N + 1
    BY <1>1
  <2>2. a \in Seq(Chars) /\ Len(a) = n /\ \A i \in 1..n : a[i] = lit[i]
    <3>1. a \in Seq(Chars) /\ Len(a) = n
      BY <1>1, <1>4, <2>1, BeginningOf
    <3>2. \A i \in 1..n : lit[i] \in Chars
      <4>1. \A i \in 1..n : i \in 1..Len(lit)
        BY <1>1, <2>1
      <4> QED
        BY <1>1, <4>1, ElementOfSeq
    <3>3. \A i \in 1..(n - 1 + 1) : SubSeq(lit, 1, n)[i] = lit[1 + i - 1]
      BY <2>1, <3>2, SubSeqProperties
    <3> QED
      BY <1>4, <2>1, <3>1, <3>3
  <2>3. n # 0
    <3> SUFFICES ASSUME n = 0 PROVE FALSE
      OBVIOUS
    <3>1. a = << >>
      BY <2>2, EmptySeq
    <3>2. TrimLeft(<< >>) = << >>
      <4>1. << >> \in Seq(Chars)
        BY EmptySeq
      <4> QED
        BY <4>1, NothingToTrim
    <3>3. Reverse(<< >>) = << >>
      BY DEF Reverse
    <3>4. x = << >>
      BY <3>1, <3>2, <3>3 DEF TrimSpace
    <3> QED
      BY <3>4
  <2>4. a # << >> /\ a[1] # Blank
    <3>1. 1 \in 1..n
      BY <2>1, <2>3
    <3>2. a[1] = "["
      BY <1>1, <2>2, <3>1
    <3> QED
      BY <2>2, <2>3, <3>2 DEF Blank
  <2>5. PICK m \in 0..Len(a) : x = SubSeq(a, 1, m)
    BY <2>2, <2>4, TrimSpaceCuts
  <2>6. x \in Seq(Chars) /\ Len(x) = m /\ \A i \in 1..m : x[i] = lit[i]
    <3>1. x \in Seq(Chars) /\ Len(x) = m
      BY <2>2, <2>5, BeginningOf
    <3>2. m \in Nat /\ m <= n
      BY <2>1, <2>2
    <3>3. \A i \in 1..m : a[i] \in Chars
      <4>1. \A i \in 1..m : i \in 1..Len(a)
        BY <2>2, <3>2
      <4> QED
        BY <2>2, <4>1, ElementOfSeq
    <3>4. \A i \in 1..(m - 1 + 1) : SubSeq(a, 1, m)[i] = a[1 + i - 1]
      BY <3>2, <3>3, SubSeqProperties
    <3>5. \A i \in 1..m : x[i] = a[i] /\ i \in 1..n
      BY <2>1, <2>5, <3>2, <3>4
    <3> QED
      BY <2>2, <3>1, <3>5
  <2>7. m \in Nat /\ m >= 2 /\ m <= N + 1
    <3>1. m \in Nat /\ m <= n
      BY <2>1, <2>2
    <3>2. m >= 2
      BY <2>6
    <3> QED
      BY <1>1, <2>1, <3>1, <3>2
  <2> DEFINE h == m - 1
  <2>8. h \in 1..N /\ h + 1 = m /\ m \in 1..m /\ h - 1 = m - 2 /\ h \in Nat
    BY <1>1, <2>7
  <2>9. u[h] = "]"
    <3> HIDE DEF h
    <3>1. lit[h + 1] = "]"
      BY <2>6, <2>8
    <3> QED
      BY <1>1, <2>8, <3>1
  <2>10. Open(SubSeq(u, 1, h - 1), in[0])
    <3> HIDE DEF h
    <3>1. h \in 1..Len(u)
      BY <2>8 DEF N
    <3> QED
      BY <1>1, <1>2, <2>9, <3>1, OpenCut
  <2> DEFINE v == SubSeq(u, 1, h - 1)
  <2>11. v \in Seq(Chars) /\ Len(v) = m - 2 /\ \A i \in 1..(m - 2) : v[i] = u[i]
    <3> DEFINE g == h - 1
    <3>1. g \in 0..Len(u) /\ g \in Nat /\ g = m - 2 /\ h - 1 = g
      BY <1>1, <2>8 DEF N
    <3> HIDE DEF g, h
    <3>2. SubSeq(u, 1, g) \in Seq(Chars) /\ Len(SubSeq(u, 1, g)) = g
      BY <1>1, <3>1, BeginningOf
    <3>3. \A i \in 1..g : u[i] \in Chars
      <4>1. \A i \in 1..g : i \in 1..Len(u)
        BY <3>1
      <4> QED
        BY <1>1, <4>1, ElementOfSeq
    <3>4. \A i \in 1..(g - 1 + 1) : SubSeq(u, 1, g)[i] = u[1 + i - 1]
      BY <3>1, <3>3, SubSeqProperties
    <3>5. \A i \in 1..g : SubSeq(u, 1, g)[i] = u[i]
      BY <3>1, <3>4
    <3> QED
      BY <3>1, <3>2, <3>5
  <2>12. y \in Seq(Chars) /\ Len(y) = m - 2 /\ \A i \in 1..(m - 2) : y[i] = x[i + 1]
    <3>1. x \in Seq(Chars)
      BY <2>6
    <3>2. /\ y \in Seq(Chars) /\ Len(y) = Len(x) - 2
          /\ \A i \in 1..(Len(x) - 2) : y[i] = x[i + 1]
      BY <3>1, Within
    <3> HIDE DEF y
    <3> QED
      BY <2>6, <3>2
  <2> HIDE DEF y, v, h
  <2>13. ASSUME NEW i \in 1..(m - 2) PROVE y[i] = v[i]
    <3>1. i + 1 \in 1..m /\ i \in 1..N
      BY <1>1, <2>7
    <3> QED
      BY <1>1, <2>6, <2>11, <2>12, <3>1
  <2>14. y = v
    BY <2>11, <2>12, <2>13, SeqEqual
  <2> QED
    BY <1>2, <2>10, <2>12, <2>14 DEF v, Texts
<1>5. ASSUME NEW i \in DOMAIN lit, a = RemoveAt(lit, i), lit[i] = SingleQuote,
             lit[i - 1] # EscapeChar
      PROVE  y \in Texts /\ Open(y, 0)
  <2>1. i \in 1..Len(lit)
    BY <1>1, LenProperties
  <2>2. i # 1 /\ i # N + 2
    BY <1>1, <1>5 DEF SingleQuote
  <2> DEFINE j == i - 1
  <2>3. j \in 1..N /\ i = j + 1 /\ j \in 1..Len(u)
    BY <1>1, <2>1, <2>2 DEF N
  <2> HIDE DEF j
  <2>4. Unescaped(u, j)
    <3>1. u[j] = SingleQuote
      BY <1>1, <1>5, <2>3
    <3>2. ASSUME j > 1 PROVE u[j - 1] # EscapeChar
      <4> DEFINE h == j - 1
      <4>1. h \in 1..N /\ h + 1 = i - 1
        BY <1>1, <2>3, <3>2
      <4> HIDE DEF h
      <4>2. u[h] = lit[i - 1]
        BY <1>1, <4>1
      <4> QED
        BY <1>5, <4>2 DEF h
    <3> QED
      BY <3>1, <3>2 DEF Unescaped
  <2>5. Open(RemoveAt(u, j), 0)
    <3>1. in[Len(u)] = 0
      BY <1>2 DEF N
    <3> QED
      BY <1>1, <1>2, <2>3, <2>4, <3>1, OpenGap
  <2>6. /\ a \in Seq(Chars) /\ Len(a) = N + 1
        /\ \A k \in 1..(N + 1) : a[k] = IF k < i THEN lit[k] ELSE lit[k + 1]
    <3>1. /\ a \in Seq(Chars) /\ Len(a) = Len(lit) - 1
          /\ \A k \in 1..(Len(lit) - 1) : a[k] = IF k < i THEN lit[k] ELSE lit[k + 1]
      BY <1>1, <1>5, <2>1, WithoutOne
    <3>2. Len(lit) - 1 = N + 1
      BY <1>1
    <3> QED
      BY <3>1, <3>2
  <2>7. a[1] = "[" /\ a[N + 1] = "]"
    <3>1. 1 \in 1..(N + 1) /\ 1 < i /\ N + 1 \in 1..(N + 1) /\ ~(N + 1 < i) /\ N + 1 + 1 = N + 2
      BY <1>1, <2>3
    <3> QED
      BY <1>1, <2>6, <3>1
  <2>8. x = a
    <3>1. a # << >> /\ a[1] # Blank /\ a[Len(a)] # Blank
      BY <1>1, <2>6, <2>7 DEF Blank
    <3>2. a \in Seq(Chars)
      BY <2>6
    <3>3. PICK m \in 0..Len(a) :
             TrimSpace(a) = SubSeq(a, 1, m) /\ \A k \in (m + 1)..Len(a) : a[k] = Blank
      BY <3>1, <3>2, TrimSpaceCuts
    <3>4. m = Len(a)
      <4>1. Len(a) \in Nat /\ ~(Len(a) \in (m + 1)..Len(a))
        BY <1>1, <2>6, <3>1, <3>3
      <4> QED
        BY <4>1
    <3>5. SubSeq(a, 1, Len(a)) = a
      BY <3>2, SubSeqFull
    <3> QED
      BY <3>3, <3>4, <3>5
  <2> DEFINE v == RemoveAt(u, j)
  <2>9. /\ v \in Seq(Chars) /\ Len(v) = N - 1
        /\ \A k \in 1..(N - 1) : v[k] = IF k < j THEN u[k] ELSE u[k + 1]
    BY <1>1, <2>3, WithoutOne DEF N
  <2>10. y \in Seq(Chars) /\ Len(y) = N - 1 /\ \A k \in 1..(N - 1) : y[k] = a[k + 1]
    <3>1. x \in Seq(Chars)
      BY <2>6, <2>8
    <3>2. /\ y \in Seq(Chars) /\ Len(y) = Len(x) - 2
          /\ \A k \in 1..(Len(x) - 2) : y[k] = x[k + 1]
      BY <3>1, Within
    <3>3. Len(x) - 2 = N - 1
      BY <1>1, <2>6, <2>8
    <3> HIDE DEF y
    <3> QED
      BY <2>8, <3>2, <3>3
  <2> HIDE DEF y, v
  <2>11. ASSUME NEW k \in 1..(N - 1) PROVE y[k] = v[k]
    <3> DEFINE g == k + 1
    <3>1. g \in 1..(N + 1) /\ k \in 1..N /\ g \in 1..N /\ (g < i <=> k < j) /\ g = k + 1
      BY <1>1, <2>3
    <3>2. y[k] = a[g]
      BY <2>10
    <3> HIDE DEF g
    <3>3. a[g] = IF g < i THEN lit[g] ELSE lit[g + 1]
      BY <2>6, <3>1
    <3>4. lit[g] = u[k] /\ lit[g + 1] = u[g]
      BY <1>1, <3>1
    <3>5. v[k] = IF k < j THEN u[k] ELSE u[g]
      BY <2>9, <3>1
    <3> QED
      BY <3>1, <3>2, <3>3, <3>4, <3>5
  <2>12. y = v
    BY <2>9, <2>10, <2>11, SeqEqual
  <2> QED
    BY <2>5, <2>10, <2>12 DEF v, Texts
<1> QED
  BY <1>3, <1>4, <1>5

-----------------------------------------------------------------------------
(* Where the program is in a literal that has arrived as it was written.   *)

CharsOf(key) == [i \in DOMAIN key |-> EscapedChar(key[i])]

\* After k keys the next one comes, or the end.
Bare(keys, comma, k, t) ==
    /\ t \in Texts
    /\ k = Len(keys) => t = << >>
    /\ k < Len(keys) => \E more : /\ Follows(Parts(keys, comma), k + 1, more, Chars)
                                  /\ t = Quoted(keys[k + 1]) \o more
AtElement(keys, comma, k, t) ==
    \E gap \in Seq({Blank}) : \E bare : Bare(keys, comma, k, bare) /\ t = gap \o bare

\* Of key k + 1 the beginning b has been read.
KeyLeft(key, b, e) ==
    /\ Len(b) \in 0..Len(key) /\ b = SubSeq(key, 1, Len(b))
    /\ Follows(CharsOf(key), Len(b), e, Chars)
InString(keys, comma, k, b, t) ==
    /\ k < Len(keys)
    /\ \E e, more : /\ KeyLeft(keys[k + 1], b, e)
                    /\ Follows(Parts(keys, comma), k + 1, more, Chars)
                    /\ t = e \o (<<SingleQuote>> \o more)

\* A first part is dropped.
LEMMA AfterFirst ==
    ASSUME NEW S, NEW a \in Seq(S), NEW b \in Seq(S)
    PROVE  /\ Len(a) = 1 => a \o b # << >> /\ (a \o b)[1] = a[1] /\ Tail(a \o b) = b
           /\ Len(a) = 2 => /\ Len(a \o b) > 1
                            /\ (a \o b)[1] = a[1] /\ (a \o b)[2] = a[2]
                            /\ SubSeq(a \o b, 3, Len(a \o b)) = b
<1> DEFINE w == a \o b
<1>1. /\ w \in Seq(S) /\ Len(a) \in Nat /\ Len(b) \in Nat /\ Len(w) = Len(a) + Len(b)
      /\ \A i \in 1..Len(a) : w[i] = a[i]
  BY ConcatParts
<1>2. SubSeq(w, Len(a) + 1, Len(a) + Len(b)) = b
  BY ConcatParts
<1> HIDE DEF w
<1>3. ASSUME Len(a) = 1 PROVE w # << >> /\ w[1] = a[1] /\ Tail(w) = b
  <2>1. Len(w) # 0 /\ 1 \in 1..Len(a)
    BY <1>1, <1>3
  <2>2. w # << >>
    BY <2>1, EmptySeq
  <2>3. Tail(w) = SubSeq(w, 2, Len(w))
    BY <1>1, <2>2, TailIsSubSeq
  <2> QED
    BY <1>1, <1>2, <1>3, <2>1, <2>2, <2>3
<1>4. ASSUME Len(a) = 2
      PROVE  Len(w) > 1 /\ w[1] = a[1] /\ w[2] = a[2] /\ SubSeq(w, 3, Len(w)) = b
  <2>1. 1 \in 1..Len(a) /\ 2 \in 1..Len(a) /\ Len(a) + 1 = 3 /\ Len(w) > 1
    BY <1>1, <1>4
  <2> QED
    BY <1>1, <1>2, <2>1
<1> QED
  BY <1>3, <1>4 DEF w

LEMMA FollowingParts ==
    ASSUME NEW keys \in Seq(PlainKeys), NEW comma \in Commas, NEW k \in 0..Len(keys)
    PROVE  /\ k = 0 => Follows(Parts(keys, comma), k, Listed(keys, comma), Chars)
           /\ k = Len(keys) =>
                 \A rest : Follows(Parts(keys, comma), k, rest, Chars) => rest = << >>
           /\ k < Len(keys) =>
                 \A rest : Follows(Parts(keys, comma), k, rest, Chars) =>
                    \E more : /\ Follows(Parts(keys, comma), k + 1, more, Chars)
                              /\ rest = Part(keys, comma, k + 1) \o more
<1> DEFINE ps == Parts(keys, comma)
<1>1. /\ ps \in Seq(Seq(Chars)) /\ Len(ps) = Len(keys) /\ Len(keys) \in Nat
      /\ \A i \in 1..Len(keys) : ps[i] = Part(keys, comma, i)
      /\ Listed(keys, comma) = FlattenSeq(ps)
  BY PartsOfList DEF Texts
<1>2. ps \in Seq(Seq(Chars)) /\ k \in 0..Len(ps)
  BY <1>1
<1> HIDE DEF ps
<1>3. /\ k = 0 => Follows(ps, k, FlattenSeq(ps), Chars)
      /\ k = Len(ps) => \A rest : Follows(ps, k, rest, Chars) => rest = << >>
      /\ k < Len(ps) =>
            \A rest : Follows(ps, k, rest, Chars) =>
               \E more : Follows(ps, k + 1, more, Chars) /\ rest = ps[k + 1] \o more
  BY <1>2, FollowingSequences
<1>4. k < Len(keys) => ps[k + 1] = Part(keys, comma, k + 1)
  BY <1>1
<1> QED
  BY <1>1, <1>3, <1>4 DEF ps

\* The brackets are stripped, and the first key comes next.
LEMMA FirstElement ==
    ASSUME NEW keys \in Seq(PlainKeys), NEW comma \in Commas, NEW bl \in Blanks
    PROVE  LET x == TrimSpace(Literal(keys, comma, bl))
           IN  /\ Len(x) >= 2 /\ x[1] = "[" /\ x[Len(x)] = "]"
               /\ AtElement(keys, comma, 0, SubSeq(x, 2, Len(x) - 1))
<1> DEFINE u == Listed(keys, comma)
           lit == InBrackets(u)
<1>1. u \in Texts
  BY PartsOfList
<1>2. /\ Len(u) \in Nat /\ lit \in Seq(Chars) /\ Len(lit) = Len(u) + 2
      /\ lit[1] = "[" /\ lit[Len(u) + 2] = "]"
      /\ \A i \in 1..Len(u) : lit[i + 1] = u[i]
  <2> HIDE DEF u
  <2> QED
    BY <1>1, BracketedText DEF Texts
<1>3. bl \in Seq({Blank}) /\ bl \in Seq(Chars)
  <2>1. bl \in Seq({Blank})
    BY SeparatorsAssumption
  <2> QED
    BY <2>1, SeqMonotonic DEF Chars
<1>4. Literal(keys, comma, bl) = bl \o (lit \o bl)
  <2> DEFINE b == <<"[">>
             c == <<"]">>
  <2>1. b \in Seq(Chars) /\ c \in Seq(Chars)
    BY DEF Chars
  <2>2. u \in Seq(Chars)
    BY <1>1 DEF Texts
  <2>3. Literal(keys, comma, bl) = (((bl \o b) \o u) \o c) \o bl /\ lit = (b \o u) \o c
    BY DEF Literal, InBrackets
  <2> HIDE DEF b, c, u, lit
  <2>4. b \o u \in Seq(Chars) /\ bl \o b \in Seq(Chars)
    BY <1>3, <2>1, <2>2, ConcatProperties
  <2>5. (bl \o b) \o u = bl \o (b \o u)
    BY <1>3, <2>1, <2>2, ConcatAssociative, SMTT(30)
  <2>6. (bl \o (b \o u)) \o c = bl \o ((b \o u) \o c)
    BY <1>3, <2>1, <2>4, ConcatAssociative, SMTT(30)
  <2>7. (bl \o lit) \o bl = bl \o (lit \o bl)
    BY <1>2, <1>3, ConcatAssociative, SMTT(30)
  <2> QED
    BY <2>3, <2>5, <2>6, <2>7
<1> DEFINE w == lit \o bl
           x == TrimSpace(Literal(keys, comma, bl))
<1> HIDE DEF u, lit
<1>5. /\ w \in Seq(Chars) /\ Len(bl) \in Nat /\ Len(w) = Len(lit) + Len(bl)
      /\ \A i \in 1..Len(lit) : w[i] = lit[i]
      /\ \A i \in 1..Len(bl) : w[Len(lit) + i] = bl[i]
  <2>1. lit \in Seq(Chars) /\ bl \in Seq(Chars)
    BY <1>2, <1>3
  <2> QED
    BY <2>1, ConcatParts
<1>6. SubSeq(w, 1, Len(lit)) = lit
  <2>1. lit \in Seq(Chars) /\ bl \in Seq(Chars)
    BY <1>2, <1>3
  <2> QED
    BY <2>1, ConcatParts
<1> HIDE DEF w
<1>7. w \in Seq(Chars) /\ w # << >> /\ w[1] # Blank
  <2>1. 1 \in 1..Len(lit) /\ Len(w) # 0
    BY <1>2, <1>5
  <2>2. w[1] = "["
    BY <1>2, <1>5, <2>1
  <2> QED
    BY <1>5, <2>1, <2>2, EmptySeq DEF Blank
<1>8. TrimLeft(bl \o w) = w /\ TrimLeft(w) = w
  <2>1. Blank \in Chars
    BY DEF Chars
  <2> QED
    BY <1>3, <1>7, <2>1, BlanksAreTrimmed, NothingToTrim
<1>9. x = TrimSpace(w)
  BY <1>4, <1>8 DEF TrimSpace, w
<1>10. PICK m \in 0..Len(w) :
          /\ x = SubSeq(w, 1, m)
          /\ \A i \in (m + 1)..Len(w) : w[i] = Blank
          /\ m > 0 => w[m] # Blank
  <2> HIDE DEF x
  <2> QED
    BY <1>7, <1>9, TrimSpaceCuts
<1>11. m = Len(lit)
  <2>1. m \in Nat /\ Len(lit) \in Nat
    BY <1>2, <1>5
  <2>2. ~(m < Len(lit))
    <3> SUFFICES ASSUME m < Len(lit) PROVE FALSE
      OBVIOUS
    <3>1. Len(lit) \in (m + 1)..Len(w) /\ Len(lit) \in 1..Len(lit)
      BY <1>2, <1>5, <2>1
    <3>2. w[Len(lit)] = "]"
      BY <1>2, <1>5, <3>1
    <3> QED
      BY <1>10, <3>1, <3>2 DEF Blank
  <2>3. ~(m > Len(lit))
    <3> SUFFICES ASSUME m > Len(lit) PROVE FALSE
      OBVIOUS
    <3> DEFINE j == m - Len(lit)
    <3>1. j \in 1..Len(bl) /\ m = Len(lit) + j
      BY <1>5, <2>1
    <3> HIDE DEF j
    <3>2. w[m] = bl[j]
      BY <1>5, <3>1
    <3>3. bl[j] \in {Blank}
      BY <1>3, <3>1, ElementOfSeq
    <3> QED
      BY <1>10, <2>1, <3>2, <3>3
  <2> QED
    BY <2>1, <2>2, <2>3
<1>12. x = lit
  BY <1>6, <1>10, <1>11
<1>13. Len(x) >= 2 /\ x[1] = "[" /\ x[Len(x)] = "]"
  BY <1>2, <1>12
<1>14. SubSeq(x, 2, Len(x) - 1) = u
  <2>1. x \in Seq(Chars) /\ Len(x) >= 2
    BY <1>2, <1>12, <1>13
  <2> DEFINE y == SubSeq(x, 2, Len(x) - 1)
  <2> HIDE DEF x
  <2>2. /\ y \in Seq(Chars) /\ Len(y) = Len(x) - 2
        /\ \A i \in 1..(Len(x) - 2) : y[i] = x[i + 1]
    BY <2>1, Within
  <2> HIDE DEF y
  <2>3. Len(x) - 2 = Len(u)
    BY <1>2, <1>12
  <2>4. \A i \in 1..Len(u) : y[i] = u[i]
    BY <1>2, <1>12, <2>2, <2>3
  <2>5. u \in Seq(Chars)
    BY <1>1 DEF Texts
  <2>6. y = u
    BY <2>2, <2>3, <2>4, <2>5, SeqEqual
  <2> QED
    BY <2>6 DEF y
<1>15. Bare(keys, comma, 0, u)
  <2>1. Len(keys) \in Nat /\ 0 \in 0..Len(keys)
    <3>1. Len(keys) \in Nat
      BY LenProperties
    <3> QED
      BY <3>1
  <2>2. Follows(Parts(keys, comma), 0, u, Chars)
    BY <2>1, FollowingParts DEF u
  <2>3. ASSUME 0 = Len(keys) PROVE u = << >>
    BY <2>1, <2>2, <2>3, FollowingParts
  <2>4. ASSUME 0 < Len(keys)
        PROVE  \E more : /\ Follows(Parts(keys, comma), 0 + 1, more, Chars)
                         /\ u = Quoted(keys[0 + 1]) \o more
    <3>1. PICK more : /\ Follows(Parts(keys, comma), 0 + 1, more, Chars)
                      /\ u = Part(keys, comma, 0 + 1) \o more
      BY <2>1, <2>2, <2>4, FollowingParts
    <3>2. keys[1] \in PlainKeys
      <4>1. 1 \in 1..Len(keys)
        BY <2>1, <2>4
      <4> QED
        BY <4>1, ElementOfSeq
    <3>3. Quoted(keys[1]) \in Seq(Chars)
      BY <3>2, KeyBetween DEF Texts
    <3>4. Part(keys, comma, 1) = << >> \o Quoted(keys[1])
      BY DEF Part
    <3>5. << >> \o Quoted(keys[1]) = Quoted(keys[1])
      BY <3>3, ConcatEmptySeq
    <3> QED
      BY <3>1, <3>4, <3>5, SMTT(30)
  <2> QED
    BY <1>1, <2>3, <2>4 DEF Bare
<1>16. AtElement(keys, comma, 0, u)
  <2>1. << >> \in Seq({Blank}) /\ << >> \o u = u
    <3>1. u \in Seq(Chars)
      BY <1>1 DEF Texts
    <3>2. << >> \in Seq({Blank})
      BY EmptySeq
    <3> QED
      BY <3>1, <3>2, ConcatEmptySeq
  <2> QED
    BY <1>15, <2>1 DEF AtElement
<1> QED
  BY <1>13, <1>14, <1>16 DEF x

\* The list ends, or a key begins.
LEMMA ElementBegins ==
    ASSUME NEW keys \in Seq(PlainKeys), NEW comma \in Commas, NEW k \in 0..Len(keys),
           NEW t, AtElement(keys, comma, k, t)
    PROVE  /\ k = Len(keys) => TrimLeft(t) = << >>
           /\ k < Len(keys) =>
                 /\ TrimLeft(t) # << >> /\ TrimLeft(t)[1] = SingleQuote
                 /\ InString(keys, comma, k, << >>, Tail(TrimLeft(t)))
<1>0. PICK gap \in Seq({Blank}) :
               \E bare : Bare(keys, comma, k, bare) /\ t = gap \o bare
  BY DEF AtElement
<1>1. PICK bare : Bare(keys, comma, k, bare) /\ t = gap \o bare
  BY <1>0
<1>2. Blank \in Chars /\ SingleQuote # Blank
  BY DEF Chars, Blank, SingleQuote
<1>3. bare \in Seq(Chars)
  BY <1>1 DEF Bare, Texts
<1>4. ASSUME k = Len(keys) PROVE TrimLeft(t) = << >>
  <2>1. bare = << >>
    BY <1>1, <1>4 DEF Bare
  <2>2. TrimLeft(gap \o bare) = bare
    BY <1>2, <1>3, <2>1, BlanksAreTrimmed
  <2> QED
    BY <1>1, <2>1, <2>2
<1>5. ASSUME k < Len(keys)
      PROVE  /\ TrimLeft(t) # << >> /\ TrimLeft(t)[1] = SingleQuote
             /\ InString(keys, comma, k, << >>, Tail(TrimLeft(t)))
  <2> DEFINE key == keys[k + 1]
             q == <<SingleQuote>>
             e == EscapedKey(key)
  <2>1. PICK more : /\ Follows(Parts(keys, comma), k + 1, more, Chars)
                    /\ bare = Quoted(key) \o more
    BY <1>1, <1>5 DEF Bare
  <2>2. k + 1 \in 1..Len(keys)
    <3>1. Len(keys) \in Nat
      BY LenProperties
    <3> QED
      BY <1>5, <3>1
  <2>3. key \in PlainKeys
    BY <2>2, ElementOfSeq
  <2>4. more \in Seq(Chars)
    BY <2>1 DEF Follows
  <2> HIDE DEF key
  <2>5. e \in Seq(Chars)
    BY <2>3, KeyBetween DEF Texts
  <2>6. q \in Seq(Chars) /\ Len(q) = 1 /\ q[1] = SingleQuote
    BY DEF Chars
  <2>7. Quoted(key) = (q \o e) \o q
    BY DEF Quoted
  <2>8. e = FlattenSeq(CharsOf(key))
    BY DEF EscapedKey, CharsOf
  <2> HIDE DEF q, e
  <2>9. ((q \o e) \o q) \o more = q \o (e \o (q \o more))
    <3>1. q \in Seq(Chars)
      BY <2>6
    <3>2. q \o e \in Seq(Chars) /\ q \o more \in Seq(Chars)
      BY <2>4, <2>5, <3>1, ConcatProperties
    <3>3. ((q \o e) \o q) \o more = (q \o e) \o (q \o more)
      <4> DEFINE n == q \o e
      <4>1. n \in Seq(Chars)
        BY <3>2
      <4> HIDE DEF n
      <4>2. (n \o q) \o more = n \o (q \o more)
        BY <2>4, <3>1, <4>1, ConcatAssociative, SMTT(30)
      <4> QED
        BY <4>2 DEF n
    <3>4. (q \o e) \o (q \o more) = q \o (e \o (q \o more))
      <4> DEFINE m == q \o more
      <4>1. m \in Seq(Chars)
        BY <3>2
      <4> HIDE DEF m
      <4>2. (q \o e) \o m = q \o (e \o m)
        BY <2>5, <3>1, <4>1, ConcatAssociative, SMTT(30)
      <4> QED
        BY <4>2 DEF m
    <3> QED
      BY <3>3, <3>4
  <2> DEFINE r == e \o (q \o more)
  <2>10. r \in Seq(Chars)
    <3>1. q \o more \in Seq(Chars)
      BY <2>4, <2>6, ConcatProperties
    <3> QED
      BY <2>5, <3>1, ConcatProperties
  <2>11. bare = q \o r
    BY <2>1, <2>7, <2>9
  <2>12. q \o r # << >> /\ (q \o r)[1] = SingleQuote /\ Tail(q \o r) = r
    <3> HIDE DEF r
    <3> QED
      BY <2>6, <2>10, AfterFirst
  <2> HIDE DEF r
  <2>13. bare # << >> /\ bare[1] = SingleQuote /\ Tail(bare) = r
    BY <2>11, <2>12
  <2>14. TrimLeft(gap \o bare) = bare
    BY <1>2, <1>3, <2>13, BlanksAreTrimmed
  <2>15. KeyLeft(key, << >>, e)
    <3> DEFINE cs == CharsOf(key)
    <3>1. cs \in Seq(Seq(Chars)) /\ Len(key) \in Nat /\ Len(cs) = Len(key)
      BY <2>3, CharsOfKey DEF CharsOf, Texts
    <3>2. cs \in Seq(Seq(Chars)) /\ 0 \in 0..Len(cs)
      BY <3>1
    <3> HIDE DEF cs
    <3>3. Follows(cs, 0, FlattenSeq(cs), Chars)
      BY <3>2, FollowingSequences
    <3>4. Len(<< >>) = 0 /\ SubSeq(key, 1, 0) = << >>
      BY EmptySeq, SubSeqEmpty
    <3>5. Follows(cs, 0, e, Chars)
      BY <2>8, <3>3 DEF cs
    <3> QED
      BY <3>1, <3>4, <3>5 DEF KeyLeft, cs
  <2>16. InString(keys, comma, k, << >>, r)
    BY <1>5, <2>1, <2>15 DEF InString, r, q, key
  <2> QED
    BY <1>1, <2>13, <2>14, <2>16
<1> QED
  BY <1>4, <1>5

\* A character of the key comes next, as it is or escaped, or its end.
LEMMA StringContinues ==
    ASSUME NEW keys \in Seq(PlainKeys), NEW comma \in Commas, NEW k \in 0..Len(keys),
           NEW b, NEW t, InString(keys, comma, k, b, t)
    PROVE  /\ t # << >>
           /\ \/ /\ Len(t) > 1 /\ t[1] = EscapeChar /\ t[2] = SingleQuote
                 /\ InString(keys, comma, k, Append(b, SingleQuote), SubSeq(t, 3, Len(t)))
              \/ /\ t[1] # EscapeChar /\ t[1] # SingleQuote
                 /\ InString(keys, comma, k, Append(b, t[1]), Tail(t))
              \/ /\ t[1] = SingleQuote /\ b = keys[k + 1]
                 /\ Follows(Parts(keys, comma), k + 1, Tail(t), Chars)
<1> DEFINE key == keys[k + 1]
           q == <<SingleQuote>>
           cs == CharsOf(key)
           n == Len(b)
<1>1. k < Len(keys)
  BY DEF InString
<1>2. PICK e, more : /\ KeyLeft(key, b, e)
                     /\ Follows(Parts(keys, comma), k + 1, more, Chars)
                     /\ t = e \o (q \o more)
  BY DEF InString
<1>3. key \in PlainKeys
  <2>1. k + 1 \in 1..Len(keys)
    <3>1. Len(keys) \in Nat
      BY LenProperties
    <3> QED
      BY <1>1, <3>1
  <2> QED
    BY <2>1, ElementOfSeq
<1>4. q \in Seq(Chars) /\ Len(q) = 1 /\ q[1] = SingleQuote
  BY DEF Chars
<1>5. more \in Seq(Chars)
  BY <1>2 DEF Follows
<1> HIDE DEF key, q
<1> DEFINE z == q \o more
<1>6. z \in Seq(Chars) /\ z # << >> /\ z[1] = SingleQuote /\ Tail(z) = more
  <2>1. z \in Seq(Chars)
    BY <1>4, <1>5, ConcatProperties
  <2>2. q \in Seq(Chars)
    BY <1>4
  <2> QED
    BY <1>4, <1>5, <2>1, <2>2, AfterFirst
<1>7. /\ n \in 0..Len(key) /\ b = SubSeq(key, 1, n)
      /\ Follows(cs, n, e, Chars)
  BY <1>2 DEF KeyLeft
<1>8. /\ cs \in Seq(Seq(Chars)) /\ Len(cs) = Len(key) /\ Len(key) \in Nat
      /\ \A i \in 1..Len(key) : key[i] \in Letters /\ cs[i] = EscapedChar(key[i])
  BY <1>3, CharsOfKey DEF CharsOf, Texts
<1> HIDE DEF cs, z, n
<1>9. /\ n = Len(cs) => \A rest : Follows(cs, n, rest, Chars) => rest = << >>
      /\ n < Len(cs) =>
            \A rest : Follows(cs, n, rest, Chars) =>
               \E next : Follows(cs, n + 1, next, Chars) /\ rest = cs[n + 1] \o next
  <2>1. cs \in Seq(Seq(Chars)) /\ n \in 0..Len(cs)
    BY <1>7, <1>8
  <2> QED
    BY <2>1, FollowingSequences
<1>10. t = e \o z
  BY <1>2 DEF z
<1>11. CASE n = Len(key)
  <2>1. e = << >>
    BY <1>7, <1>8, <1>9, <1>11
  <2>2. << >> \o z = z
    BY <1>6, ConcatEmptySeq
  <2>3. t = z
    BY <1>10, <2>1, <2>2
  <2>4. b = key
    <3>1. SubSeq(key, 1, Len(key)) = key
      BY <1>3, SubSeqFull DEF PlainKeys
    <3> QED
      BY <1>7, <1>11, <3>1
  <2> QED
    BY <1>2, <1>6, <2>3, <2>4 DEF key
<1>12. CASE n < Len(key)
  <2> DEFINE c == key[n + 1]
             x == EscapedChar(c)
  <2>1. n + 1 \in 1..Len(key) /\ n \in 0..Len(key) /\ n + 1 \in 0..Len(key) /\ n \in Nat
    BY <1>7, <1>8, <1>12
  <2>2. PICK next : Follows(cs, n + 1, next, Chars) /\ e = x \o next
    BY <1>7, <1>8, <1>9, <1>12, <2>1
  <2>3. next \in Seq(Chars)
    BY <2>2 DEF Follows
  <2>4. c \in Letters /\ c # EscapeChar
    BY <1>8, <2>1 DEF Letters
  <2> HIDE DEF c
  <2>5. x \in Seq(Chars)
    BY <2>4, CharOfKey DEF Texts
  <2> DEFINE y == next \o z
  <2>6. y \in Seq(Chars)
    BY <1>6, <2>3, ConcatProperties
  <2> HIDE DEF x
  <2>7. t = x \o y
    <3>1. z \in Seq(Chars)
      BY <1>6
    <3>2. (x \o next) \o z = x \o (next \o z)
      BY <2>3, <2>5, <3>1, ConcatAssociative, SMTT(30)
    <3> QED
      BY <1>10, <2>2, <3>2
  <2> HIDE DEF y
  <2>8. InString(keys, comma, k, Append(b, c), y)
    <3> DEFINE d == Append(b, c)
    <3>1. SubSeq(key, 1, n + 1) = d /\ Len(SubSeq(key, 1, n + 1)) = n + 1
      <4>1. key \in Seq(Letters)
        BY <1>3 DEF PlainKeys
      <4>2. SubSeq(key, 1, n + 1) = Append(SubSeq(key, 1, n), key[n + 1])
        BY <1>12, <2>1, <4>1, BeginningOf
      <4>3. Len(SubSeq(key, 1, n + 1)) = n + 1
        BY <2>1, <4>1, BeginningOf
      <4> QED
        BY <1>7, <4>2, <4>3 DEF c
    <3>2. Len(d) = n + 1 /\ d = SubSeq(key, 1, n + 1)
      BY <3>1
    <3> HIDE DEF d
    <3>3. KeyLeft(key, d, next)
      <4>1. Len(d) \in 0..Len(key) /\ d = SubSeq(key, 1, Len(d)) /\ Follows(cs, Len(d), next, Chars)
        BY <2>1, <2>2, <3>2
      <4> QED
        BY <4>1 DEF KeyLeft, cs
    <3>4. y = next \o (q \o more)
      BY DEF y, z
    <3> QED
      BY <1>1, <1>2, <3>3, <3>4 DEF InString, d, key, q
  <2>9. CASE c = SingleQuote
    <3>1. x \in Seq(Chars) /\ Len(x) = 2 /\ x[1] = EscapeChar /\ x[2] = SingleQuote
      <4>1. x = <<EscapeChar, SingleQuote>>
        BY <2>9 DEF x, EscapedChar
      <4> QED
        BY <2>5, <4>1
    <3>2. /\ Len(x \o y) > 1 /\ (x \o y)[1] = x[1] /\ (x \o y)[2] = x[2]
          /\ SubSeq(x \o y, 3, Len(x \o y)) = y
      BY <2>5, <2>6, <3>1, AfterFirst
    <3>3. t # << >>
      <4>1. Len(t) # 0
        BY <2>7, <3>2
      <4> QED
        BY <4>1, EmptySeq
    <3> QED
      BY <2>7, <2>8, <2>9, <3>1, <3>2, <3>3
  <2>10. CASE c # SingleQuote
    <3>1. x \in Seq(Chars) /\ Len(x) = 1 /\ x[1] = c
      <4>1. x = <<c>>
        BY <2>4, <2>10 DEF x, EscapedChar
      <4> QED
        BY <2>5, <4>1
    <3>2. x \o y # << >> /\ (x \o y)[1] = x[1] /\ Tail(x \o y) = y
      BY <2>5, <2>6, <3>1, AfterFirst
    <3> QED
      BY <2>4, <2>7, <2>8, <2>10, <3>1, <3>2
  <2> QED
    BY <2>9, <2>10
<1> QED
  BY <1>7, <1>8, <1>11, <1>12

SkipComma(t) == IF t # << >> /\ t[1] = "," THEN Tail(t) ELSE t

\* Between two keys there is one comma at most, and EndString skips it.
LEMMA CommaIsSkipped ==
    ASSUME NEW comma \in Commas, NEW bare \in Seq(Chars), bare # << >>, bare[1] = SingleQuote
    PROVE  \E gap \in Seq({Blank}) : SkipComma(TrimLeft(comma \o bare)) = gap \o bare
<1> DEFINE w == comma \o bare
           N == Len(comma)
<1>1. comma \in Seq({Blank, ","})
  BY SeparatorsAssumption
<1>2. comma \in Seq(Chars)
  BY <1>1, SeqMonotonic DEF Chars
<1>3. /\ w \in Seq(Chars) /\ N \in Nat /\ Len(bare) \in Nat /\ Len(w) = N + Len(bare)
      /\ \A i \in 1..N : w[i] = comma[i]
      /\ \A i \in 1..Len(bare) : w[N + i] = bare[i]
  BY <1>2, ConcatParts
<1>4. \A i \in 1..N : comma[i] \in {Blank, ","}
  BY <1>1, ElementOfSeq
<1>5. ASSUME NEW p \in 0..N PROVE SubSeq(w, p + 1, Len(w)) = SubSeq(comma, p + 1, N) \o bare
  BY <1>2, EndOfConcat
<1>6. \A i, j \in 1..N : comma[i] = "," /\ comma[j] = "," => i = j
  <2>1. DOMAIN comma = 1..N
    BY <1>1, LenProperties
  <2> QED
    BY <2>1, SeparatorsAssumption
<1> HIDE DEF w, N
<1>7. N \in Nat /\ Len(bare) \in Nat \ {0} /\ Len(w) = N + Len(bare)
  <2>1. N \in Nat /\ Len(bare) \in Nat /\ Len(w) = N + Len(bare)
    BY <1>3
  <2>2. Len(bare) # 0
    BY EmptySeq
  <2> QED
    BY <2>1, <2>2
<1>8. PICK k \in 0..Len(w) :
         /\ TrimLeft(w) = SubSeq(w, k + 1, Len(w))
         /\ \A i \in 1..k : w[i] = Blank
         /\ k < Len(w) => w[k + 1] # Blank
  BY <1>3, TrimLeftDrops
<1>9. k <= N
  <2> SUFFICES ASSUME ~(k <= N) PROVE FALSE
    OBVIOUS
  <2>1. N + 1 \in 1..k /\ 1 \in 1..Len(bare)
    BY <1>7
  <2>2. w[N + 1] = SingleQuote
    BY <1>3, <2>1
  <2> QED
    BY <1>8, <2>1, <2>2 DEF Blank, SingleQuote
<1>10. k \in 0..N /\ k < Len(w)
  BY <1>9, <1>7
<1> DEFINE x == TrimLeft(w)
<1>11. x \in Seq(Chars) /\ x # << >> /\ x[1] = w[k + 1] /\ Tail(x) = SubSeq(w, k + 2, Len(w))
  <2> DEFINE y == SubSeq(w, k + 1, Len(w))
  <2>1. k + 1 \in 1..Len(w) /\ Len(w) \in (k + 1)..Len(w) /\ k + 1 + 1 = k + 2
    BY <1>3, <1>10
  <2>2. Head(y) = w[k + 1] /\ Tail(y) = SubSeq(w, k + 1 + 1, Len(w))
    BY <1>3, <2>1, HeadTailOfSubSeq
  <2>3. /\ y \in Seq(Chars) /\ Len(y) = Len(w) - k
        /\ \A i \in 1..(Len(w) - k) : y[i] = w[k + i]
    BY <1>3, EndOf
  <2>4. x = y
    BY <1>8
  <2> HIDE DEF x, y
  <2>5. Len(y) # 0 /\ 1 \in 1..(Len(w) - k)
    BY <1>3, <1>10, <2>3
  <2>6. y # << >> /\ y[1] = w[k + 1]
    BY <2>3, <2>5, EmptySeq
  <2> QED
    BY <2>1, <2>2, <2>3, <2>4, <2>6
<1> HIDE DEF x
<1>12. CASE k = N
  <2>1. x[1] = SingleQuote
    <3>1. 1 \in 1..Len(bare)
      BY <1>7
    <3> QED
      BY <1>3, <1>11, <1>12, <3>1
  <2>2. SkipComma(x) = x
    BY <2>1 DEF SkipComma, SingleQuote
  <2>3. SubSeq(comma, N + 1, N) = << >>
    BY <1>3, SubSeqEmpty
  <2>4. x = << >> \o bare
    BY <1>5, <1>8, <1>10, <1>12, <2>3 DEF x
  <2>5. << >> \in Seq({Blank})
    BY EmptySeq
  <2> QED
    BY <2>2, <2>4, <2>5 DEF x, w
<1>13. CASE k < N
  <2>1. k + 1 \in 1..N
    BY <1>3, <1>10, <1>13
  <2>2. x[1] = "," /\ comma[k + 1] = ","
    BY <1>3, <1>4, <1>8, <1>10, <1>11, <2>1
  <2>3. SkipComma(x) = SubSeq(w, k + 2, Len(w))
    BY <1>11, <2>2 DEF SkipComma
  <2> DEFINE p == k + 1
             gap == SubSeq(comma, p + 1, N)
  <2>4. p \in 0..N /\ p + 1 = k + 2 /\ p \in 1..N
    BY <1>3, <2>1
  <2>5. SubSeq(w, p + 1, Len(w)) = gap \o bare
    BY <1>5, <2>4
  <2>6. gap \in Seq({Blank})
    <3> HIDE DEF p
    <3>1. \A i \in (p + 1)..N : comma[i] \in {Blank}
      <4>1. SUFFICES ASSUME NEW i \in (p + 1)..N PROVE comma[i] = Blank
        OBVIOUS
      <4>2. i \in 1..N /\ i # p
        BY <1>3, <2>4
      <4>3. comma[p] = ","
        BY <2>2 DEF p
      <4>4. comma[i] # ","
        BY <1>6, <2>4, <4>2, <4>3
      <4> QED
        BY <1>4, <4>2, <4>4
    <3>2. p + 1 \in Int /\ N \in Int
      BY <1>3, <2>4
    <3> QED
      BY <3>1, <3>2, SubSeqProperties
  <2>7. SkipComma(x) = gap \o bare
    BY <2>3, <2>4, <2>5
  <2> HIDE DEF gap
  <2> QED
    BY <2>6, <2>7 DEF x, w
<1>14. k = N \/ k < N
  BY <1>10, <1>7
<1> QED
  BY <1>12, <1>13, <1>14

LEMMA ElementEnds ==
    ASSUME NEW keys \in Seq(PlainKeys), NEW comma \in Commas, NEW k \in 1..Len(keys),
           NEW t, Follows(Parts(keys, comma), k, t, Chars)
    PROVE  AtElement(keys, comma, k, SkipComma(TrimLeft(t)))
<1>1. Len(keys) \in Nat /\ k \in 0..Len(keys)
  <2>1. Len(keys) \in Nat
    BY LenProperties
  <2> QED
    BY <2>1
<1>2. CASE k = Len(keys)
  <2>1. t = << >>
    BY <1>1, <1>2, FollowingParts
  <2>2. << >> \in Seq(Chars) /\ << >> \in Seq({Blank})
    BY EmptySeq
  <2>3. TrimLeft(<< >>) = << >>
    BY <2>2, NothingToTrim
  <2>4. SkipComma(TrimLeft(t)) = << >>
    BY <2>1, <2>3 DEF SkipComma
  <2>5. Bare(keys, comma, k, << >>)
    BY <1>1, <1>2, <2>2 DEF Bare, Texts
  <2>6. << >> \o << >> = << >>
    BY <2>2, ConcatEmptySeq
  <2>7. SkipComma(TrimLeft(t)) = << >> \o << >>
    BY <2>4, <2>6
  <2> QED
    BY <2>2, <2>5, <2>7 DEF AtElement
<1>3. CASE k # Len(keys)
  <2> DEFINE key == keys[k + 1]
  <2>1. k < Len(keys) /\ k + 1 \in 1..Len(keys) /\ k + 1 # 1
    BY <1>1, <1>3
  <2>2. PICK more : /\ Follows(Parts(keys, comma), k + 1, more, Chars)
                    /\ t = Part(keys, comma, k + 1) \o more
    BY <1>1, <2>1, FollowingParts
  <2>3. Part(keys, comma, k + 1) = comma \o Quoted(key)
    BY <2>1 DEF Part
  <2>4. key \in PlainKeys
    BY <2>1, ElementOfSeq
  <2>5. more \in Seq(Chars)
    BY <2>2 DEF Follows
  <2> HIDE DEF key
  <2> DEFINE qk == Quoted(key)
             bare == qk \o more
  <2>6. qk \in Seq(Chars) /\ Len(qk) >= 1 /\ qk[1] = SingleQuote
    BY <2>4, KeyBetween DEF Texts
  <2> HIDE DEF qk
  <2>7. /\ bare \in Seq(Chars) /\ Len(qk) \in Nat /\ Len(more) \in Nat
        /\ Len(bare) = Len(qk) + Len(more) /\ \A i \in 1..Len(qk) : bare[i] = qk[i]
    <3>1. qk \in Seq(Chars)
      BY <2>6
    <3> QED
      BY <2>5, <3>1, ConcatParts
  <2>8. comma \in Seq(Chars)
    <3>1. comma \in Seq({Blank, ","})
      BY SeparatorsAssumption
    <3> QED
      BY <3>1, SeqMonotonic DEF Chars
  <2>9. t = comma \o bare
    <3>1. (comma \o qk) \o more = comma \o (qk \o more)
      BY <2>5, <2>6, <2>8, ConcatAssociative, SMTT(30)
    <3> QED
      BY <2>2, <2>3, <3>1 DEF qk
  <2>10. Bare(keys, comma, k, bare)
    <3>1. bare = Quoted(keys[k + 1]) \o more
      BY DEF qk, key
    <3> HIDE DEF bare
    <3> QED
      BY <1>3, <2>2, <2>7, <3>1 DEF Bare, Texts
  <2> HIDE DEF bare
  <2>11. bare # << >> /\ bare[1] = SingleQuote
    <3>1. Len(bare) # 0 /\ 1 \in 1..Len(qk)
      BY <2>6, <2>7
    <3> QED
      BY <2>6, <2>7, <3>1, EmptySeq
  <2>12. PICK gap \in Seq({Blank}) : SkipComma(TrimLeft(comma \o bare)) = gap \o bare
    BY <2>7, <2>11, CommaIsSkipped
  <2> QED
    BY <2>9, <2>10, <2>12 DEF AtElement
<1> QED
  BY <1>2, <1>3

-----------------------------------------------------------------------------
(* Where the program is in a damaged literal.                              *)

LEMMA OpenHasMore == ASSUME NEW t, Open(t, 0) PROVE t # << >>
<1> SUFFICES ASSUME t = << >> PROVE FALSE
  OBVIOUS
<1>1. PICK in : in[0] = 0 /\ in[Len(t)] = 1
  BY DEF Open
<1>2. Len(t) = 0
  BY EmptySeq
<1> QED
  BY <1>1, <1>2

LEMMA OpenNext ==
    ASSUME NEW t \in Texts, NEW a, Open(t, a), t # << >>, t[1] # EscapeChar
    PROVE  Tail(t) \in Texts /\ Open(Tail(t), IF t[1] = SingleQuote THEN 1 - a ELSE a)
<1>1. PICK in : Quoting(t, in) /\ in[0] = a /\ in[Len(t)] = 1
  BY DEF Open
<1>2. t \in Seq(Chars) /\ Len(t) \in Nat \ {0} /\ Tail(t) = SubSeq(t, 2, Len(t))
  BY EmptySeq, TailIsSubSeq DEF Texts
<1>3. in[1] = IF t[1] = SingleQuote THEN 1 - a ELSE a
  <2>1. 1 \in 1..Len(t)
    BY <1>2
  <2>2. Unescaped(t, 1) <=> t[1] = SingleQuote
    BY DEF Unescaped
  <2>3. in[1] = IF Unescaped(t, 1) THEN 1 - in[1 - 1] ELSE in[1 - 1]
    BY <1>1, <2>1 DEF Quoting
  <2> QED
    BY <1>1, <2>2, <2>3
<1>4. 1 \in 0..Len(t) /\ 1 + 1 = 2
  BY <1>2
<1>5. Open(SubSeq(t, 1 + 1, Len(t)), in[1])
  BY <1>1, <1>2, <1>4, OpenEnd
<1>6. Tail(t) \in Texts
  BY <1>2, HeadTailProperties DEF Texts
<1> QED
  BY <1>2, <1>3, <1>4, <1>5, <1>6

LEMMA OpenEscaped ==
    ASSUME NEW t \in Texts, NEW a, Open(t, a), Len(t) > 1,
           t[1] = EscapeChar, t[2] = SingleQuote
    PROVE  SubSeq(t, 3, Len(t)) \in Texts /\ Open(SubSeq(t, 3, Len(t)), a)
<1>1. PICK in : Quoting(t, in) /\ in[0] = a /\ in[Len(t)] = 1
  BY DEF Open
<1>2. t \in Seq(Chars) /\ Len(t) \in Nat
  BY LenProperties DEF Texts
<1>3. 1 \in 1..Len(t) /\ 2 \in 1..Len(t) /\ 2 \in 0..Len(t) /\ 2 + 1 = 3
  BY <1>2
<1>4. SingleQuote # EscapeChar
  BY DEF SingleQuote, EscapeChar
<1>5. ~Unescaped(t, 1) /\ ~Unescaped(t, 2)
  BY <1>4 DEF Unescaped
<1>6. in[2] = a
  <2>1. in[1] = in[1 - 1] /\ in[2] = in[2 - 1]
    BY <1>1, <1>3, <1>5 DEF Quoting
  <2> QED
    BY <1>1, <2>1
<1>7. Open(SubSeq(t, 2 + 1, Len(t)), in[2])
  BY <1>1, <1>2, <1>3, <1>4, OpenEnd
<1>8. SubSeq(t, 2 + 1, Len(t)) \in Seq(Chars)
  BY <1>2, <1>3, EndOf
<1> QED
  BY <1>3, <1>6, <1>7, <1>8 DEF Texts

LEMMA OpenTrimmed ==
    ASSUME NEW t \in Texts, NEW a, Open(t, a)
    PROVE  TrimLeft(t) \in Texts /\ Open(TrimLeft(t), a)
<1>1. PICK in : Quoting(t, in) /\ in[0] = a /\ in[Len(t)] = 1
  BY DEF Open
<1>2. t \in Seq(Chars) /\ Len(t) \in Nat
  BY LenProperties DEF Texts
<1>3. PICK k \in 0..Len(t) :
         TrimLeft(t) = SubSeq(t, k + 1, Len(t)) /\ \A i \in 1..k : t[i] = Blank
  BY <1>2, TrimLeftDrops
<1>4. Blank # SingleQuote /\ Blank # EscapeChar
  BY DEF Blank, SingleQuote, EscapeChar
<1> DEFINE R == {i \in 0..k : in[i] = a}
<1>5. k \in Nat /\ 0 \in R
  BY <1>1, <1>2
<1>6. ASSUME NEW i \in 1..k, i - 1 \in R PROVE i \in R
  <2>1. i \in 1..Len(t) /\ i \in 0..k
    BY <1>2, <1>5
  <2>2. ~Unescaped(t, i)
    BY <1>3, <1>4 DEF Unescaped
  <2>3. in[i] = in[i - 1]
    BY <1>1, <2>1, <2>2 DEF Quoting
  <2> QED
    BY <1>6, <2>1, <2>3
<1>7. 0..k \subseteq R
  <2> HIDE DEF R
  <2> QED
    BY <1>5, <1>6, EveryPosition
<1>8. in[k] = a
  BY <1>5, <1>7
<1>9. k = 0 \/ t[k] # EscapeChar
  BY <1>3, <1>4, <1>5
<1>10. Open(SubSeq(t, k + 1, Len(t)), in[k])
  BY <1>1, <1>2, <1>9, OpenEnd
<1>11. SubSeq(t, k + 1, Len(t)) \in Seq(Chars)
  BY <1>2, EndOf
<1> QED
  BY <1>3, <1>8, <1>10, <1>11 DEF Texts

\* A backslash is always followed by the quote it escapes.
LEMMA OpenEscape ==
    ASSUME NEW t \in Texts, NEW a, Open(t, a), t # << >>, t[1] = EscapeChar
    PROVE  Len(t) > 1 /\ t[2] = SingleQuote
<1>1. PICK in : Quoting(t, in)
  BY DEF Open
<1>2. Len(t) \in Nat \ {0}
  BY EmptySeq DEF Texts
<1>3. 1 \in 1..Len(t)
  BY <1>2
<1>4. 1 < Len(t) /\ t[1 + 1] = SingleQuote
  BY <1>1, <1>3 DEF Quoting
<1> QED
  BY <1>2, <1>4

LEMMA OpenEnds ==
    ASSUME NEW t \in Texts, Open(t, 1), t # << >>, t[1] = SingleQuote
    PROVE  /\ SkipComma(TrimLeft(Tail(t))) \in Texts
           /\ Open(SkipComma(TrimLeft(Tail(t))), 0)
<1> DEFINE x == TrimLeft(Tail(t))
<1>1. SingleQuote # EscapeChar /\ "," # SingleQuote /\ "," # EscapeChar
  BY DEF SingleQuote, EscapeChar
<1>2. Tail(t) \in Texts /\ Open(Tail(t), 0)
  <2>1. Tail(t) \in Texts /\ Open(Tail(t), IF t[1] = SingleQuote THEN 1 - 1 ELSE 1)
    BY <1>1, OpenNext
  <2> QED
    BY <2>1
<1>3. x \in Texts /\ Open(x, 0)
  BY <1>2, OpenTrimmed
<1> HIDE DEF x
<1>4. CASE x # << >> /\ x[1] = ","
  <2>1. Tail(x) \in Texts /\ Open(Tail(x), IF x[1] = SingleQuote THEN 1 - 0 ELSE 0)
    BY <1>1, <1>3, <1>4, OpenNext
  <2>2. Open(Tail(x), 0)
    BY <1>1, <1>4, <2>1
  <2> QED
    BY <1>4, <2>1, <2>2 DEF SkipComma, x
<1>5. CASE ~(x # << >> /\ x[1] = ",")
  <2>1. SkipComma(x) = x
    BY <1>5 DEF SkipComma
  <2> QED
    BY <1>3, <2>1 DEF x
<1> QED
  BY <1>4, <1>5

-----------------------------------------------------------------------------
(* The inductive invariant.                                                *)

\* The program reads the literal of the keys that the query names.
ReadsLiteral(comma) ==
    /\ phase = "trim" => /\ result = << >>
                         /\ \E blanks \in Blanks : s = Literal(meant, comma, blanks)
    /\ phase \in {"element", "string"} =>
          Len(result) \in 0..Len(meant) /\ result = SubSeq(meant, 1, Len(result))
    /\ phase = "element" => AtElement(meant, comma, Len(result), s)
    /\ phase = "string" => InString(meant, comma, Len(result), sb, s)
    /\ phase = "done" => result = meant
    /\ phase # "error"

\* It reads one that is damaged, and will find a key without an end, or
\* something between two keys.
ReadsDamage ==
    /\ phase = "trim" => \E comma \in Commas : s \in Damaged(Literal(meant, comma, << >>))
    /\ phase = "element" => s \in Texts /\ Open(s, 0)
    /\ phase = "string" => s \in Texts /\ Open(s, 1)
    /\ phase # "done"

IInv ==
    /\ meant \in Seq(PlainKeys)
    /\ whole => \E comma \in Commas : ReadsLiteral(comma)
    /\ ~whole => ReadsDamage

\* It is about keys without backslashes.
Inv == NoBackslashes => IInv

LEMMA InvInit == Init => Inv
<1> SUFFICES ASSUME Init, NoBackslashes PROVE IInv
  BY DEF Inv
<1>1. meant \in Seq(PlainKeys)
  <2>1. PICK n \in 0..MaxKeys : meant \in [1..n -> BoundedSeq(KeyChars, KeySize)]
    BY DEF Init, BoundedSeq, SeqOf
  <2>2. n \in Nat
    BY KeyBounds
  <2>3. DOMAIN meant = 1..n
    BY <2>1
  <2>4. ASSUME NEW i \in 1..n PROVE meant[i] \in PlainKeys
    <3>1. meant[i] \in BoundedSeq(KeyChars, KeySize)
      BY <2>1
    <3> DEFINE key == meant[i]
    <3> HIDE DEF key
    <3>2. PICK m \in 0..KeySize : key \in [1..m -> KeyChars]
      BY <3>1 DEF BoundedSeq, SeqOf, key
    <3>3. m \in Nat
      BY KeyBounds
    <3>4. key \in Seq(KeyChars) /\ Len(key) = m
      BY <3>2, <3>3
    <3>5. ~Contains(key, EscapeChar)
      BY <2>3 DEF NoBackslashes, key
    <3>6. \A j \in 1..m : key[j] \in Letters
      BY <3>2, <3>4, <3>5 DEF Contains, Letters
    <3>7. key \in [1..m -> Letters]
      BY <3>2, <3>6
    <3>8. key \in Seq(Letters)
      BY <3>3, <3>7
    <3> QED
      BY <3>8 DEF key, PlainKeys
  <2>5. meant \in [1..n -> PlainKeys]
    BY <2>1, <2>4
  <2> QED
    BY <2>2, <2>5
<1>2. phase = "trim" /\ s = arg /\ result = << >>
  BY DEF Init
<1>3. PICK comma \in Commas, blanks \in Blanks :
         IF whole THEN arg = Literal(meant, comma, blanks)
                  ELSE arg \in Damaged(Literal(meant, comma, << >>))
  BY DEF Init
<1>4. ASSUME whole PROVE ReadsLiteral(comma)
  BY <1>2, <1>3, <1>4 DEF ReadsLiteral
<1>5. ASSUME ~whole PROVE ReadsDamage
  BY <1>2, <1>3, <1>5 DEF ReadsDamage
<1> QED
  BY <1>1, <1>4, <1>5 DEF IInv

LEMMA LiteralNext ==
    ASSUME meant \in Seq(PlainKeys), NEW comma \in Commas, ReadsLiteral(comma), Next
    PROVE  ReadsLiteral(comma)'
<1> DEFINE k == Len(result)
<1> USE DEF SkipComma
<1>0. Len(meant) \in Nat
  BY LenProperties
<1>1. ASSUME StripBrackets PROVE ReadsLiteral(comma)'
  <2>1. PICK blanks \in Blanks : s = Literal(meant, comma, blanks)
    BY <1>1 DEF StripBrackets, ReadsLiteral
  <2> DEFINE x == TrimSpace(s)
  <2>2. /\ Len(x) >= 2 /\ x[1] = "[" /\ x[Len(x)] = "]"
        /\ AtElement(meant, comma, 0, SubSeq(x, 2, Len(x) - 1))
    BY <2>1, FirstElement
  <2>3. /\ phase' = "element" /\ s' = SubSeq(x, 2, Len(x) - 1) /\ result' = << >>
        /\ meant' = meant
    BY <1>1, <2>2 DEF StripBrackets, ReadsLiteral
  <2> HIDE DEF x
  <2>4. Len(<< >>) = 0 /\ SubSeq(meant, 1, 0) = << >>
    BY EmptySeq, SubSeqEmpty
  <2>5. /\ Len(result') \in 0..Len(meant') /\ result' = SubSeq(meant', 1, Len(result'))
        /\ AtElement(meant', comma, Len(result'), s')
    BY <1>0, <2>2, <2>3, <2>4
  <2> QED
    BY <2>3, <2>5 DEF ReadsLiteral
<1>2. ASSUME BeginElement PROVE ReadsLiteral(comma)'
  <2>1. /\ phase = "element" /\ k \in 0..Len(meant) /\ result = SubSeq(meant, 1, k)
        /\ AtElement(meant, comma, k, s)
    BY <1>2 DEF BeginElement, ReadsLiteral
  <2> DEFINE x == TrimLeft(s)
  <2>2. /\ k = Len(meant) => x = << >>
        /\ k < Len(meant) =>
              x # << >> /\ x[1] = SingleQuote /\ InString(meant, comma, k, << >>, Tail(x))
    <3> HIDE DEF k
    <3> QED
      BY <2>1, ElementBegins
  <2>3. /\ sb' = << >> /\ meant' = meant /\ result' = result
        /\ phase' = CASE x = << >> -> "done"
                   [] x # << >> /\ x[1] = SingleQuote -> "string"
                   [] OTHER -> "error"
        /\ s' = IF x # << >> /\ x[1] = SingleQuote THEN Tail(x) ELSE x
    BY <1>2 DEF BeginElement
  <2> HIDE DEF x
  <2>4. CASE k = Len(meant)
    <3>1. phase' = "done"
      BY <2>2, <2>3, <2>4
    <3>2. result' = meant'
      <4>1. SubSeq(meant, 1, Len(meant)) = meant
        BY SubSeqFull
      <4> QED
        BY <2>1, <2>3, <2>4, <4>1
    <3> QED
      BY <3>1, <3>2 DEF ReadsLiteral
  <2>5. CASE k < Len(meant)
    <3>1. phase' = "string" /\ s' = Tail(x)
      BY <2>2, <2>3, <2>5
    <3>2. InString(meant', comma, Len(result'), sb', s')
      BY <2>2, <2>3, <2>5, <3>1
    <3>3. Len(result') \in 0..Len(meant') /\ result' = SubSeq(meant', 1, Len(result'))
      BY <2>1, <2>3
    <3> QED
      BY <3>1, <3>2, <3>3 DEF ReadsLiteral
  <2> QED
    BY <1>0, <2>1, <2>4, <2>5
<1>3. ASSUME phase = "string"
      PROVE  /\ k \in 0..Len(meant) /\ result = SubSeq(meant, 1, k)
             /\ InString(meant, comma, k, sb, s) /\ k < Len(meant)
             /\ s # << >>
             /\ \/ /\ Len(s) > 1 /\ s[1] = EscapeChar /\ s[2] = SingleQuote
                   /\ InString(meant, comma, k, Append(sb, SingleQuote), SubSeq(s, 3, Len(s)))
                \/ /\ s[1] # EscapeChar /\ s[1] # SingleQuote
                   /\ InString(meant, comma, k, Append(sb, s[1]), Tail(s))
                \/ /\ s[1] = SingleQuote /\ sb = meant[k + 1]
                   /\ Follows(Parts(meant, comma), k + 1, Tail(s), Chars)
  <2>1. /\ k \in 0..Len(meant) /\ result = SubSeq(meant, 1, k)
        /\ InString(meant, comma, k, sb, s)
    BY <1>3 DEF ReadsLiteral
  <2> HIDE DEF k
  <2>2. k < Len(meant)
    BY <2>1 DEF InString
  <2> QED
    BY <2>1, <2>2, StringContinues
<1>4. SingleQuote # EscapeChar
  BY DEF SingleQuote, EscapeChar
<1>5. ASSUME AppendEscapedQuote PROVE ReadsLiteral(comma)'
  <2>1. /\ phase = "string" /\ s[1] = EscapeChar /\ s[2] = SingleQuote
        /\ sb' = Append(sb, SingleQuote) /\ s' = SubSeq(s, 3, Len(s))
        /\ phase' = "string" /\ meant' = meant /\ result' = result
    BY <1>5 DEF AppendEscapedQuote, AtEscapedQuote
  <2>2. InString(meant', comma, Len(result'), sb', s')
    BY <1>3, <1>4, <2>1
  <2>3. Len(result') \in 0..Len(meant') /\ result' = SubSeq(meant', 1, Len(result'))
    BY <1>3, <2>1
  <2> QED
    BY <2>1, <2>2, <2>3 DEF ReadsLiteral
<1>6. ASSUME AppendChar PROVE ReadsLiteral(comma)'
  <2>1. /\ phase = "string" /\ s # << >> /\ s[1] # SingleQuote
        /\ ~(Len(s) > 1 /\ s[1] = EscapeChar /\ s[2] = SingleQuote)
        /\ sb' = Append(sb, s[1]) /\ s' = Tail(s)
        /\ phase' = "string" /\ meant' = meant /\ result' = result
    BY <1>6 DEF AppendChar, AtEscapedQuote, Starts
  <2>2. InString(meant', comma, Len(result'), sb', s')
    BY <1>3, <2>1
  <2>3. Len(result') \in 0..Len(meant') /\ result' = SubSeq(meant', 1, Len(result'))
    BY <1>3, <2>1
  <2> QED
    BY <2>1, <2>2, <2>3 DEF ReadsLiteral
<1>7. ASSUME EndString PROVE ReadsLiteral(comma)'
  <2>1. /\ phase = "string" /\ s[1] = SingleQuote
        /\ result' = Append(result, sb) /\ s' = SkipComma(TrimLeft(Tail(s)))
        /\ phase' = "element" /\ meant' = meant
    BY <1>7 DEF EndString, Starts
  <2> HIDE DEF SkipComma
  <2>2. /\ k \in 0..Len(meant) /\ result = SubSeq(meant, 1, k) /\ k < Len(meant)
        /\ sb = meant[k + 1] /\ Follows(Parts(meant, comma), k + 1, Tail(s), Chars)
    BY <1>3, <1>4, <2>1
  <2> HIDE DEF k
  <2>3. k + 1 \in 1..Len(meant) /\ k + 1 \in 0..Len(meant)
    BY <1>0, <2>2
  <2>4. AtElement(meant, comma, k + 1, s')
    BY <2>1, <2>2, <2>3, ElementEnds
  <2>5. result' = SubSeq(meant, 1, k + 1) /\ Len(result') = k + 1
    <3>1. SubSeq(meant, 1, k + 1) = Append(SubSeq(meant, 1, k), meant[k + 1])
      BY <2>2, BeginningOf
    <3>2. Len(SubSeq(meant, 1, k + 1)) = k + 1
      BY <2>3, BeginningOf
    <3> QED
      BY <2>1, <2>2, <3>1, <3>2
  <2>6. /\ Len(result') \in 0..Len(meant') /\ result' = SubSeq(meant', 1, Len(result'))
        /\ AtElement(meant', comma, Len(result'), s')
    BY <2>1, <2>3, <2>4, <2>5
  <2> QED
    BY <2>1, <2>6 DEF ReadsLiteral
<1>8. ASSUME Unterminated PROVE FALSE
  BY <1>3, <1>8 DEF Unterminated
<1> QED
  BY <1>1, <1>2, <1>5, <1>6, <1>7, <1>8 DEF Next

LEMMA DamageNext ==
    ASSUME meant \in Seq(PlainKeys), ReadsDamage, Next
    PROVE  ReadsDamage'
<1>1. ASSUME StripBrackets PROVE ReadsDamage'
  <2>1. PICK comma \in Commas : s \in Damaged(Literal(meant, comma, << >>))
    BY <1>1 DEF StripBrackets, ReadsDamage
  <2> DEFINE x == TrimSpace(s)
             wrapped == Len(x) >= 2 /\ x[1] = "[" /\ x[Len(x)] = "]"
             y == SubSeq(x, 2, Len(x) - 1)
  <2>2. wrapped => y \in Texts /\ Open(y, 0)
    BY <2>1, DamagedIsOpen
  <2>3. phase' = (IF wrapped THEN "element" ELSE "error") /\ s' = (IF wrapped THEN y ELSE x)
    BY <1>1 DEF StripBrackets
  <2> HIDE DEF x, y, wrapped
  <2>4. CASE wrapped
    BY <2>2, <2>3, <2>4 DEF ReadsDamage
  <2>5. CASE ~wrapped
    BY <2>3, <2>5 DEF ReadsDamage
  <2> QED
    BY <2>4, <2>5
<1>2. ASSUME BeginElement PROVE ReadsDamage'
  <2>1. s \in Texts /\ Open(s, 0)
    BY <1>2 DEF BeginElement, ReadsDamage
  <2> DEFINE x == TrimLeft(s)
  <2>2. x \in Texts /\ Open(x, 0)
    BY <2>1, OpenTrimmed
  <2>3. /\ phase' = CASE x = << >> -> "done"
                   [] x # << >> /\ x[1] = SingleQuote -> "string"
                   [] OTHER -> "error"
        /\ s' = IF x # << >> /\ x[1] = SingleQuote THEN Tail(x) ELSE x
    BY <1>2 DEF BeginElement
  <2> HIDE DEF x
  <2>4. x # << >>
    BY <2>2, OpenHasMore
  <2>5. CASE x[1] = SingleQuote
    <3>1. phase' = "string" /\ s' = Tail(x)
      BY <2>3, <2>4, <2>5
    <3>2. Tail(x) \in Texts /\ Open(Tail(x), IF x[1] = SingleQuote THEN 1 - 0 ELSE 0)
      <4>1. x[1] # EscapeChar
        BY <2>5 DEF SingleQuote, EscapeChar
      <4> QED
        BY <2>2, <2>4, <4>1, OpenNext
    <3>3. Open(Tail(x), 1)
      BY <2>5, <3>2
    <3> QED
      BY <3>1, <3>2, <3>3 DEF ReadsDamage
  <2>6. CASE x[1] # SingleQuote
    <3>1. phase' = "error"
      BY <2>3, <2>4, <2>6
    <3> QED
      BY <3>1 DEF ReadsDamage
  <2> QED
    BY <2>5, <2>6
<1>3. ASSUME phase = "string" PROVE s \in Texts /\ Open(s, 1)
  BY <1>3 DEF ReadsDamage
<1>4. ASSUME AppendEscapedQuote PROVE ReadsDamage'
  <2>1. /\ phase = "string" /\ Len(s) > 1 /\ s[1] = EscapeChar /\ s[2] = SingleQuote
        /\ s' = SubSeq(s, 3, Len(s)) /\ phase' = "string"
    BY <1>4 DEF AppendEscapedQuote, AtEscapedQuote
  <2>2. s' \in Texts /\ Open(s', 1)
    BY <1>3, <2>1, OpenEscaped
  <2> QED
    BY <2>1, <2>2 DEF ReadsDamage
<1>5. ASSUME AppendChar PROVE ReadsDamage'
  <2>1. /\ phase = "string" /\ s # << >> /\ s[1] # SingleQuote
        /\ ~(Len(s) > 1 /\ s[1] = EscapeChar /\ s[2] = SingleQuote)
        /\ s' = Tail(s) /\ phase' = "string"
    BY <1>5 DEF AppendChar, AtEscapedQuote, Starts
  <2>2. s[1] # EscapeChar
    BY <1>3, <2>1, OpenEscape
  <2>3. Tail(s) \in Texts /\ Open(Tail(s), IF s[1] = SingleQuote THEN 1 - 1 ELSE 1)
    BY <1>3, <2>1, <2>2, OpenNext
  <2>4. s' \in Texts /\ Open(s', 1)
    BY <2>1, <2>3
  <2> QED
    BY <2>1, <2>4 DEF ReadsDamage
<1>6. ASSUME EndString PROVE ReadsDamage'
  <2>1. /\ phase = "string" /\ s # << >> /\ s[1] = SingleQuote
        /\ s' = SkipComma(TrimLeft(Tail(s))) /\ phase' = "element"
    BY <1>6 DEF EndString, Starts, SkipComma
  <2>2. s' \in Texts /\ Open(s', 0)
    BY <1>3, <2>1, OpenEnds
  <2> QED
    BY <2>1, <2>2 DEF ReadsDamage
<1>7. ASSUME Unterminated PROVE ReadsDamage'
  BY <1>7 DEF Unterminated, ReadsDamage
<1> QED
  BY <1>1, <1>2, <1>4, <1>5, <1>6, <1>7 DEF Next

LEMMA InvNext == Inv /\ [Next]_vars => Inv'
<1> SUFFICES ASSUME Inv, [Next]_vars PROVE Inv'
  OBVIOUS
<1>1. CASE Next
  <2>1. meant' = meant /\ whole' = whole
    BY <1>1 DEF Next, StripBrackets, BeginElement, AppendEscapedQuote, AppendChar, EndString,
                Unterminated
  <2> SUFFICES ASSUME NoBackslashes' PROVE IInv'
    BY DEF Inv
  <2>2. NoBackslashes
    BY <2>1 DEF NoBackslashes
  <2>3. IInv
    BY <2>2 DEF Inv
  <2>4. ASSUME whole PROVE \E comma \in Commas : ReadsLiteral(comma)'
    BY <1>1, <2>3, <2>4, LiteralNext DEF IInv
  <2>5. ASSUME ~whole PROVE ReadsDamage'
    BY <1>1, <2>3, <2>5, DamageNext DEF IInv
  <2> QED
    BY <2>1, <2>3, <2>4, <2>5 DEF IInv
<1>2. CASE UNCHANGED vars
  BY <1>2 DEF vars, Inv, IInv, NoBackslashes, ReadsLiteral, ReadsDamage
<1> QED
  BY <1>1, <1>2

-----------------------------------------------------------------------------
\* Keys without backslashes arrive as the query names them, whatever else they
\* consist of and whatever stands between and around them; of a literal that is
\* cut short or lacks a quote the program makes no keys.  For any characters and
\* any number of keys (parseSingleQuotedArray).
THEOREM KeysArriveAsNamed == Spec => []KeysWithoutBackslashesAreAsNamed
<1>1. Inv => KeysWithoutBackslashesAreAsNamed
  <2> SUFFICES ASSUME Inv, NoBackslashes PROVE KeysAreAsNamed /\ (phase = "done" => whole)
    BY DEF KeysWithoutBackslashesAreAsNamed
  <2>1. IInv
    BY DEF Inv
  <2>2. ASSUME whole PROVE phase # "error" /\ (phase = "done" => result = meant)
    BY <2>1, <2>2 DEF IInv, ReadsLiteral
  <2>3. ASSUME ~whole PROVE phase # "done"
    BY <2>1, <2>3 DEF IInv, ReadsDamage
  <2> QED
    BY <2>2, <2>3 DEF KeysAreAsNamed
<1> QED
  BY <1>1, InvInit, InvNext, PTL DEF Spec

=============================================================================
