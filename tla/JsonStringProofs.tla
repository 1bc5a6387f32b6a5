-------------------------- MODULE JsonStringProofs -------------------------
(***************************************************************************)
(* Proofs about JsonString, for all spellings and strings of any length:   *)
(* a row that passes for one to be answered raw is one that writing would  *)
(* give, and what writeJSONString writes is read as it was meant.          *)
(***************************************************************************)
EXTENDS JsonString, SequenceLemmas

-----------------------------------------------------------------------------
(* Texts.                                                                  *)

\* What the code names is among the symbols.
LEMMA KnownSymbols ==
    /\ Quote \in Symbols /\ Backslash \in Symbols /\ Quote # Backslash
    /\ {"/", "n", "u", "a", "x", "0007", "7f", "LF", "BEL", "U+FFFD", "U+1F600"}
          \subseteq Symbols \ {Quote, Backslash}
<1> QED
  BY SpellingsAssumption DEF Known, Quote, Backslash

\* A text between quotes.
LEMMA EnclosedText ==
    ASSUME NEW s \in Seq(Symbols)
    PROVE  /\ Enclosed(s) \in Seq(Symbols)
           /\ Len(Enclosed(s)) = Len(s) + 2
           /\ Enclosed(s)[1] = Quote
           /\ Enclosed(s)[Len(s) + 2] = Quote
           /\ \A i \in 1..Len(s) : Enclosed(s)[i + 1] = s[i]
<1> DEFINE q == <<Quote>>
<1>1. q \in Seq(Symbols) /\ Len(q) = 1 /\ q[1] = Quote
  BY KnownSymbols
<1> HIDE DEF q
<1>2. /\ q \o s \in Seq(Symbols) /\ Len(q \o s) = Len(s) + 1 /\ Len(s) \in Nat
      /\ \A i \in 1..(Len(s) + 1) : (q \o s)[i] = IF i <= 1 THEN q[i] ELSE s[i - 1]
  BY <1>1, ConcatProperties, LenProperties, SMTT(30)
<1>3. /\ (q \o s) \o q \in Seq(Symbols) /\ Len((q \o s) \o q) = Len(s) + 2
      /\ \A i \in 1..(Len(s) + 2) :
            ((q \o s) \o q)[i] = IF i <= Len(s) + 1 THEN (q \o s)[i] ELSE q[i - (Len(s) + 1)]
  BY <1>1, <1>2, ConcatProperties
<1>4. Enclosed(s) = (q \o s) \o q
  BY DEF Enclosed, q
<1> DEFINE e == Enclosed(s)
<1>5. e[1] = Quote
  BY <1>1, <1>2, <1>3, <1>4
<1>6. e[Len(s) + 2] = Quote
  BY <1>1, <1>2, <1>3, <1>4
<1>7. ASSUME NEW i \in 1..Len(s) PROVE e[i + 1] = s[i]
  <2>1. i + 1 \in 1..(Len(s) + 1) /\ i + 1 \in 1..(Len(s) + 2) /\ ~(i + 1 <= 1)
        /\ i + 1 <= Len(s) + 1 /\ (i + 1) - 1 = i
    BY <1>2
  <2> QED
    BY <1>2, <1>3, <1>4, <2>1
<1> QED
  BY <1>3, <1>4, <1>5, <1>6, <1>7

\* What stands between two quotes of a text, with its quotes.
LEMMA EnclosedPart ==
    ASSUME NEW t \in Seq(Symbols), NEW p \in 2..Len(t), t[1] = Quote, t[p] = Quote
    PROVE  Enclosed(SubSeq(t, 2, p - 1)) = SubSeq(t, 1, p)
<1> DEFINE s == SubSeq(t, 2, p - 1)
           u == SubSeq(t, 1, p)
<1>1. Len(t) \in Nat /\ \A i \in 1..Len(t) : t[i] \in Symbols
  BY LenProperties, ElementOfSeq
<1>2. s \in Seq(Symbols) /\ Len(s) = p - 2 /\ \A i \in 1..(p - 2) : s[i] = t[i + 1]
  <2>1. 2 \in Int /\ p - 1 \in Int /\ \A i \in 2..(p - 1) : t[i] \in Symbols
    BY <1>1
  <2>2. /\ s \in Seq(Symbols)
        /\ Len(s) = IF 2 <= p - 1 THEN (p - 1) - 2 + 1 ELSE 0
        /\ \A i \in 1..((p - 1) - 2 + 1) : s[i] = t[2 + i - 1]
    BY <2>1, SubSeqProperties
  <2>3. ASSUME NEW i \in 1..(p - 2) PROVE s[i] = t[i + 1]
    <3>1. i \in 1..((p - 1) - 2 + 1) /\ 2 + i - 1 = i + 1
      BY <1>1
    <3> QED
      BY <2>2, <3>1
  <2>4. Len(s) = p - 2
    BY <1>1, <2>2
  <2> QED
    BY <2>2, <2>3, <2>4
<1>3. u \in Seq(Symbols) /\ Len(u) = p /\ \A i \in 1..p : u[i] = t[i]
  <2>1. 1 \in Int /\ p \in Int /\ \A i \in 1..p : t[i] \in Symbols
    BY <1>1
  <2>2. /\ u \in Seq(Symbols)
        /\ Len(u) = IF 1 <= p THEN p - 1 + 1 ELSE 0
        /\ \A i \in 1..(p - 1 + 1) : u[i] = t[1 + i - 1]
    BY <2>1, SubSeqProperties
  <2>3. ASSUME NEW i \in 1..p PROVE u[i] = t[i]
    <3>1. i \in 1..(p - 1 + 1) /\ 1 + i - 1 = i
      BY <1>1
    <3> QED
      BY <2>2, <3>1
  <2>4. Len(u) = p
    BY <1>1, <2>2
  <2> QED
    BY <2>2, <2>3, <2>4
<1> HIDE DEF s, u
<1> DEFINE e == Enclosed(s)
<1>4. /\ e \in Seq(Symbols) /\ Len(e) = p /\ e[1] = Quote /\ e[p] = Quote
      /\ \A i \in 1..(p - 2) : e[i + 1] = s[i]
  <2>1. /\ e \in Seq(Symbols) /\ Len(e) = Len(s) + 2 /\ e[1] = Quote /\ e[Len(s) + 2] = Quote
        /\ \A i \in 1..Len(s) : e[i + 1] = s[i]
    BY <1>2, EnclosedText
  <2>2. Len(s) + 2 = p
    BY <1>1, <1>2
  <2> QED
    BY <1>2, <2>1, <2>2
<1> HIDE DEF e
<1>5. ASSUME NEW i \in 1..p PROVE e[i] = u[i]
  <2>1. CASE i = 1 \/ i = p
    BY <1>3, <1>4, <2>1
  <2>2. CASE i # 1 /\ i # p
    <3>1. i - 1 \in 1..(p - 2) /\ (i - 1) + 1 = i
      BY <1>1, <2>2
    <3>2. e[i] = s[i - 1] /\ s[i - 1] = t[i]
      BY <1>2, <1>4, <3>1
    <3> QED
      BY <1>3, <3>2
  <2> QED
    BY <2>1, <2>2
<1>6. e = u
  BY <1>3, <1>4, <1>5, SeqEqual
<1> QED
  BY <1>6 DEF e, s, u

\* One more symbol of a text.
LEMMA OneMore ==
    ASSUME NEW t \in Seq(Symbols), NEW m \in 1..Len(t), NEW p \in m..Len(t)
    PROVE  SubSeq(t, m, p) = Append(SubSeq(t, m, p - 1), t[p])
<1>1. Len(t) \in Nat /\ \A i \in 1..Len(t) : t[i] \in Symbols
  BY LenProperties, ElementOfSeq
<1>2. SubSeq(t, m, p) = SubSeq(t, m, p - 1) \o <<t[p]>>
  BY SubSeqRecursiveSecond
<1>3. m \in Int /\ p - 1 \in Int /\ \A i \in m..(p - 1) : t[i] \in Symbols
  BY <1>1
<1>4. SubSeq(t, m, p - 1) \in Seq(Symbols) /\ t[p] \in Symbols
  BY <1>1, <1>3, SubSeqProperties
<1> QED
  BY <1>2, <1>4, AppendIsConcat

-----------------------------------------------------------------------------
(* What is written.                                                        *)

\* The text of a string without its quotes.
Body(s) == FlattenSeq([i \in DOMAIN s |-> Escaped(s[i])])

\* A string is written as its text in quotes.
LEMMA WrittenInQuotes == \A s : WriteJSONString(s) = Enclosed(Body(s))
<1> QED
  BY DEF WriteJSONString, Body

\* A rune is written with one to three symbols.
LEMMA EscapedType ==
    ASSUME NEW c \in Symbols
    PROVE  /\ Escaped(c) \in Seq(Symbols)
           /\ c \in {Quote, Backslash} => Escaped(c) = <<Backslash, c>>
           /\ c = "LF" => Escaped(c) = <<Backslash, "n">>
           /\ c = "BEL" => Escaped(c) = <<Backslash, "u", "0007">>
           /\ c \notin {Quote, Backslash} \union Control => Escaped(c) = <<c>>
<1>1. CASE c \in {Quote, Backslash}
  <2>1. Escaped(c) = <<Backslash, c>>
    BY <1>1 DEF Escaped, Quote, Backslash
  <2> QED
    BY <1>1, <2>1, KnownSymbols DEF Control
<1>2. CASE c = "LF"
  <2>1. Escaped(c) = <<Backslash, "n">>
    BY <1>2 DEF Escaped, Quote, Backslash
  <2>2. <<Backslash, "n">> \in Seq(Symbols)
    BY KnownSymbols
  <2>3. c \notin {Quote, Backslash} /\ c # "BEL"
    BY <1>2 DEF Quote, Backslash
  <2> QED
    BY <1>2, <2>1, <2>2, <2>3 DEF Control
<1>3. CASE c = "BEL"
  <2>1. Escaped(c) = <<Backslash, "u", "0007">>
    BY <1>3 DEF Escaped, Quote, Backslash
  <2>2. <<Backslash, "u", "0007">> \in Seq(Symbols)
    BY KnownSymbols
  <2>3. c \notin {Quote, Backslash} /\ c # "LF"
    BY <1>3 DEF Quote, Backslash
  <2> QED
    BY <1>3, <2>1, <2>2, <2>3 DEF Control
<1>4. CASE c \notin {Quote, Backslash} \union Control
  <2>1. Escaped(c) = <<c>>
    BY <1>4 DEF Escaped, Control
  <2> QED
    BY <1>4, <2>1 DEF Control
<1> QED
  BY <1>1, <1>2, <1>3, <1>4 DEF Control

\* The texts of the runes of a string.
LEMMA RunesType ==
    ASSUME NEW s \in Seq(Symbols)
    PROVE  /\ [i \in DOMAIN s |-> Escaped(s[i])] \in Seq(Seq(Symbols))
           /\ Len([i \in DOMAIN s |-> Escaped(s[i])]) = Len(s)
<1>1. Len(s) \in Nat /\ DOMAIN s = 1..Len(s)
  BY LenProperties
<1>2. \A i \in 1..Len(s) : Escaped(s[i]) \in Seq(Symbols)
  BY ElementOfSeq, EscapedType
<1> QED
  BY <1>1, <1>2

\* The text of a string is a sequence of symbols.
LEMMA BodyType ==
    ASSUME NEW s \in Seq(Symbols)
    PROVE  Body(s) \in Seq(Symbols)
<1> QED
  BY RunesType, FlattenType DEF Body

\* The empty string has none.
LEMMA BodyNone == Body(<< >>) = << >>
<1>1. [i \in DOMAIN << >> |-> Escaped(<< >>[i])] = << >>
  OBVIOUS
<1> QED
  BY <1>1, FlattenNone DEF Body

\* The text of one more rune comes last.
LEMMA BodyAppend ==
    ASSUME NEW s \in Seq(Symbols), NEW c \in Symbols
    PROVE  Body(Append(s, c)) = Body(s) \o Escaped(c)
<1> DEFINE runes == [i \in DOMAIN s |-> Escaped(s[i])]
           more == Append(s, c)
<1>1. /\ more \in Seq(Symbols) /\ Len(more) = Len(s) + 1 /\ Len(s) \in Nat
      /\ more[Len(s) + 1] = c /\ \A i \in 1..Len(s) : more[i] = s[i]
  BY AppendProperties, LenProperties
<1>2. runes \in Seq(Seq(Symbols)) /\ Len(runes) = Len(s) /\ Escaped(c) \in Seq(Symbols)
  BY RunesType, EscapedType
<1>3. \A i \in 1..Len(s) : runes[i] = Escaped(s[i])
  BY LenProperties
<1> HIDE DEF more, runes
<1> DEFINE l == [i \in DOMAIN more |-> Escaped(more[i])]
           r == Append(runes, Escaped(c))
<1>4. l \in Seq(Seq(Symbols)) /\ Len(l) = Len(s) + 1
  BY <1>1, RunesType
<1>5. /\ r \in Seq(Seq(Symbols)) /\ Len(r) = Len(s) + 1 /\ r[Len(s) + 1] = Escaped(c)
      /\ \A i \in 1..Len(s) : r[i] = runes[i]
  BY <1>2, AppendProperties
<1>6. \A i \in 1..(Len(s) + 1) : l[i] = Escaped(more[i])
  BY <1>1, LenProperties
<1> HIDE DEF l, r
<1>7. ASSUME NEW i \in 1..(Len(s) + 1) PROVE l[i] = r[i]
  <2>1. CASE i = Len(s) + 1
    BY <1>1, <1>5, <1>6, <2>1
  <2>2. CASE i # Len(s) + 1
    <3>1. i \in 1..Len(s)
      BY <1>1, <2>2
    <3> QED
      BY <1>1, <1>3, <1>5, <1>6, <3>1
  <2> QED
    BY <2>1, <2>2
<1>8. l = r
  BY <1>4, <1>5, <1>7, SeqEqual
<1>9. FlattenSeq(r) = FlattenSeq(runes) \o Escaped(c)
  BY <1>2, FlattenAppend DEF r
<1> QED
  BY <1>8, <1>9 DEF Body, l, more, runes

\* The beginning of a string and one more rune.
LEMMA Beginning ==
    ASSUME NEW s \in Seq(Symbols), NEW k \in 0..Len(s)
    PROVE  /\ SubSeq(s, 1, k) \in Seq(Symbols)
           /\ Len(SubSeq(s, 1, k)) = k
           /\ Body(SubSeq(s, 1, k)) \in Seq(Symbols)
           /\ k < Len(s) =>
                 /\ s[k + 1] \in Symbols
                 /\ SubSeq(s, 1, k + 1) = Append(SubSeq(s, 1, k), s[k + 1])
                 /\ Body(SubSeq(s, 1, k + 1)) = Body(SubSeq(s, 1, k)) \o Escaped(s[k + 1])
<1> QED
  BY BeginningOf, BodyType, BodyAppend

\* The text of the beginning of a string.
LEMMA BodyOfBeginning ==
    ASSUME NEW s \in Seq(Symbols), NEW k \in 0..Len(s)
    PROVE  Body(SubSeq(s, 1, k)) = FlattenSeq(SubSeq([i \in DOMAIN s |-> Escaped(s[i])], 1, k))
<1> DEFINE runes == [i \in DOMAIN s |-> Escaped(s[i])]
           b == SubSeq(s, 1, k)
           l == [i \in DOMAIN b |-> Escaped(b[i])]
           r == SubSeq(runes, 1, k)
<1>1. Len(s) \in Nat /\ DOMAIN s = 1..Len(s) /\ \A i \in 1..Len(s) : s[i] \in Symbols
  BY LenProperties, ElementOfSeq
<1>2. runes \in Seq(Seq(Symbols)) /\ Len(runes) = Len(s)
  BY RunesType
<1>3. 1 \in Int /\ k \in Int /\ \A i \in 1..k : s[i] \in Symbols
  BY <1>1
<1>4. b \in Seq(Symbols) /\ Len(b) = k
  BY BeginningOf
<1>5. r \in Seq(Seq(Symbols)) /\ Len(r) = k
  BY <1>2, BeginningOf
<1>6. \A i \in 1..k : b[i] = s[i]
  <2>1. \A i \in 1..(k - 1 + 1) : b[i] = s[1 + i - 1]
    BY <1>3, SubSeqProperties
  <2>2. ASSUME NEW i \in 1..k PROVE b[i] = s[i]
    <3>1. i \in 1..(k - 1 + 1) /\ 1 + i - 1 = i
      BY <1>1
    <3> QED
      BY <2>1, <3>1
  <2> QED
    BY <2>2
<1>7. \A i \in 1..k : r[i] = runes[i]
  <2>1. \A i \in 1..k : runes[i] \in Seq(Symbols)
    BY <1>1, <1>2, ElementOfSeq
  <2>2. \A i \in 1..(k - 1 + 1) : r[i] = runes[1 + i - 1]
    BY <1>3, <2>1, SubSeqProperties
  <2>3. ASSUME NEW i \in 1..k PROVE r[i] = runes[i]
    <3>1. i \in 1..(k - 1 + 1) /\ 1 + i - 1 = i
      BY <1>1
    <3> QED
      BY <2>2, <3>1
  <2> QED
    BY <2>3
<1>8. l \in Seq(Seq(Symbols)) /\ Len(l) = k
  BY <1>4, RunesType
<1>9. \A i \in 1..k : l[i] = Escaped(b[i])
  BY <1>4, LenProperties
<1>10. \A i \in 1..k : runes[i] = Escaped(s[i])
  BY <1>1
<1> HIDE DEF runes, b, l, r
<1>11. l = r
  BY <1>5, <1>6, <1>7, <1>8, <1>9, <1>10, SeqEqual, ZenonT(30)
<1> QED
  BY <1>11 DEF Body, l, r, b, runes

\* Where the text of a rune stands in the text of a string.
LEMMA NextRune ==
    ASSUME NEW s \in Seq(Symbols), NEW k \in 0..Len(s), k < Len(s),
           NEW p, p = 2 + Len(Body(SubSeq(s, 1, k)))
    PROVE  /\ p \in Nat
           /\ p + Len(Escaped(s[k + 1])) <= Len(WriteJSONString(s))
           /\ \A i \in 1..Len(Escaped(s[k + 1])) :
                 WriteJSONString(s)[p + i - 1] = Escaped(s[k + 1])[i]
<1> DEFINE runes == [i \in DOMAIN s |-> Escaped(s[i])]
           A == Body(SubSeq(s, 1, k))
           E == Escaped(s[k + 1])
           t == WriteJSONString(s)
<1>1. Len(s) \in Nat /\ DOMAIN s = 1..Len(s) /\ k + 1 \in 1..Len(s)
  BY LenProperties
<1>2. runes \in Seq(Seq(Symbols)) /\ Len(runes) = Len(s) /\ runes[k + 1] = E
  BY <1>1, RunesType
<1>3. Body(s) = FlattenSeq(runes) /\ A = FlattenSeq(SubSeq(runes, 1, k))
  BY BodyOfBeginning DEF Body
<1>4. Body(s) \in Seq(Symbols)
  BY BodyType
<1>5. /\ t \in Seq(Symbols) /\ Len(t) = Len(Body(s)) + 2
      /\ \A i \in 1..Len(Body(s)) : t[i + 1] = Body(s)[i]
  BY <1>4, EnclosedText, WrittenInQuotes
<1> HIDE DEF runes, A, E, t
<1>6. /\ A \in Seq(Symbols) /\ E \in Seq(Symbols)
      /\ Len(A) + Len(E) <= Len(Body(s))
      /\ \A i \in 1..Len(E) : Body(s)[Len(A) + i] = E[i]
  <2>1. /\ A \in Seq(Symbols) /\ runes[k + 1] \in Seq(Symbols)
        /\ Len(A) + Len(runes[k + 1]) <= Len(FlattenSeq(runes))
        /\ \A i \in 1..Len(runes[k + 1]) : FlattenSeq(runes)[Len(A) + i] = runes[k + 1][i]
    <3>1. runes \in Seq(Seq(Symbols)) /\ k \in 0..Len(runes) /\ k < Len(runes)
      BY <1>2
    <3>2. A = FlattenSeq(SubSeq(runes, 1, k))
      BY <1>3
    <3> QED
      BY <3>1, <3>2, FlattenNext
  <2> QED
    BY <1>2, <1>3, <2>1
<1>7. Len(A) \in Nat /\ Len(E) \in Nat /\ Len(Body(s)) \in Nat
  BY <1>4, <1>6, LenProperties
<1>8. p = 2 + Len(A)
  BY DEF A
<1>9. ASSUME NEW i \in 1..Len(E) PROVE t[p + i - 1] = E[i]
  <2> DEFINE n == Len(A) + i
  <2>1. n \in 1..Len(Body(s)) /\ p + i - 1 = n + 1
    <3>1. i \in Nat /\ 1 <= i /\ i <= Len(E) /\ Len(A) + Len(E) <= Len(Body(s))
      BY <1>6, <1>7
    <3>2. \A a, e, b \in Nat : i <= e /\ a + e <= b => a + i \in 1..b
      BY <3>1
    <3>3. n \in 1..Len(Body(s))
      BY <1>7, <3>1, <3>2
    <3> QED
      BY <1>7, <1>8, <3>1, <3>3
  <2>2. Body(s)[n] = E[i]
    BY <1>6
  <2> HIDE DEF n
  <2> QED
    BY <1>5, <2>1, <2>2
<1>10. p \in Nat /\ p + Len(E) <= Len(t)
  BY <1>5, <1>6, <1>7, <1>8
<1> QED
  BY <1>9, <1>10 DEF E, t

\* After the last rune the closing quote stands, and nothing else.
LEMMA ClosingQuote ==
    ASSUME NEW s \in Seq(Symbols), NEW p, p = 2 + Len(Body(s))
    PROVE  p \in Nat /\ p = Len(WriteJSONString(s)) /\ WriteJSONString(s)[p] = Quote
<1>1. Body(s) \in Seq(Symbols)
  BY BodyType
<1>2. Len(Body(s)) \in Nat
  BY <1>1, LenProperties
<1>3. Len(WriteJSONString(s)) = Len(Body(s)) + 2 /\ WriteJSONString(s)[Len(Body(s)) + 2] = Quote
  BY <1>1, EnclosedText, WrittenInQuotes
<1> QED
  BY <1>2, <1>3

-----------------------------------------------------------------------------
(* The inductive invariant.                                                *)

\* The parser is within a text that begins with a quote.
Types ==
    /\ text \in Seq(Symbols)
    /\ Len(text) > 0 /\ text[1] = Quote
    /\ pos \in 2..(Len(text) + 1)
    /\ buf \in Seq(Symbols)
    /\ decoded \in Seq(Symbols)
    /\ first \in Seq(Symbols)
    /\ rawSafe \in BOOLEAN

\* The part of the text that has been read.
SoFar == SubSeq(text, 2, pos - 1)

\* What has been viewed is written as it stands.
ViewIsWritten == pc = "view" => Body(SoFar) = SoFar

\* What has been copied is, too, as long as the row is fit to be answered raw.
CopyIsWritten == pc = "copy" /\ rawSafe => Body(buf) = SoFar

\* The answer is the JSON form of the string: writeJSONString has written it,
\* or no character is in it that strconv.AppendQuote spells in its own way.
WrittenAsJSON ==
    reading = 2 /\ (writer = "clean" \/ \A i \in DOMAIN first : first[i] \notin {"BEL", "DEL"})

\* When the answer is read, what has been read of it is a beginning of the
\* string that was written, and what comes next is the text of its next rune.
RereadInView ==
    pc = "view" => pos - 2 <= Len(first) /\ SoFar = SubSeq(first, 1, pos - 2)
RereadInCopy ==
    pc = "copy" => /\ Len(buf) <= Len(first) /\ buf = SubSeq(first, 1, Len(buf))
                   /\ pos = 2 + Len(Body(buf))
Reread ==
    /\ text = WriteJSONString(first)
    /\ RereadInView /\ RereadInCopy
    /\ pc # "error"
    /\ pc = "done" => decoded = first

IInv ==
    /\ Types
    /\ ViewIsWritten
    /\ CopyIsWritten
    /\ RawIsWhatIsWritten
    /\ WrittenAsJSON => Reread

-----------------------------------------------------------------------------
(* What the parser meets.                                                  *)

\* A group after a "u" stands for a symbol or for a pair of them.
LEMMA RuneOfEscape ==
    ASSUME NEW p \in Nat, UnicodeEscapeAt(p) # << >>
    PROVE  /\ UnicodeEscapeAt(p)[1] \in Symbols
           /\ \/ UnicodeEscapeAt(p)[2] = 2 /\ p + 1 <= Len(text)
              \/ UnicodeEscapeAt(p)[2] = 5 /\ p + 4 <= Len(text)
<1> DEFINE unit == p + 1 <= Len(text) /\ text[p + 1 - 1] = "u" /\ text[p + 1] \in DOMAIN HexRune
           h == HexRune[text[p + 1]]
<1>1. unit
  BY DEF UnicodeEscapeAt
<1>2. h \in {"a", "LF", "BEL", High, Low}
  BY <1>1 DEF HexRune
<1>3. High # Low /\ High \notin {"a", "LF", "BEL"} /\ Low \notin {"a", "LF", "BEL"}
  BY DEF High, Low
<1>4. CASE h = High
  <2> DEFINE pair == /\ p + 4 <= Len(text) /\ text[p + 2] = Backslash
                     /\ p + 4 <= Len(text) /\ text[p + 4 - 1] = "u"
                     /\ text[p + 4] \in DOMAIN HexRune
                     /\ HexRune[text[p + 4]] = Low
  <2>1. pair
    <3>1. SUFFICES ASSUME ~pair PROVE FALSE
      OBVIOUS
    <3>2. UnicodeEscapeAt(p) = << >>
      BY <1>1, <1>3, <1>4, <3>1 DEF UnicodeEscapeAt
    <3> QED
      BY <3>2
  <2>2. UnicodeEscapeAt(p) = <<Joined, 5>>
    BY <1>1, <1>3, <1>4, <2>1 DEF UnicodeEscapeAt
  <2> QED
    BY <2>1, <2>2, KnownSymbols DEF Joined
<1>5. CASE h = Low
  <2>1. UnicodeEscapeAt(p) = <<Replacement, 2>>
    BY <1>1, <1>3, <1>5 DEF UnicodeEscapeAt
  <2> QED
    BY <1>1, <2>1, KnownSymbols DEF Replacement
<1>6. CASE h \in {"a", "LF", "BEL"}
  <2>1. UnicodeEscapeAt(p) = <<h, 2>>
    BY <1>1, <1>3, <1>6 DEF UnicodeEscapeAt
  <2> QED
    BY <1>1, <1>6, <2>1, KnownSymbols
<1> QED
  BY <1>2, <1>4, <1>5, <1>6

\* The control character without a short escape is read back.
LEMMA RuneOfBell ==
    ASSUME NEW p \in Nat, p + 1 <= Len(text), text[p] = "u", text[p + 1] = "0007"
    PROVE  UnicodeEscapeAt(p) = <<"BEL", 2>>
<1>1. "0007" \in DOMAIN HexRune /\ HexRune["0007"] = "BEL" /\ "BEL" # High /\ "BEL" # Low
  BY DEF HexRune, High, Low
<1>2. p + 1 - 1 = p
  OBVIOUS
<1> QED
  BY <1>1, <1>2 DEF UnicodeEscapeAt

\* While an answer is read, the parser has read the first k runes of the string
\* and stands before the text of the next one, or before the closing quote.
LEMMA Meets ==
    ASSUME IInv, WrittenAsJSON, NEW k,
           (pc = "view" /\ k = pos - 2) \/ (pc = "copy" /\ k = Len(buf))
    PROVE  /\ k \in 0..Len(first)
           /\ Len(text) \in Nat
           /\ pc = "view" => SoFar = SubSeq(first, 1, k)
           /\ pc = "copy" => buf = SubSeq(first, 1, k)
           /\ pos = 2 + Len(Body(SubSeq(first, 1, k)))
           /\ k = Len(first) => pos = Len(text) /\ text[pos] = Quote
           /\ k < Len(first) =>
                 /\ first[k + 1] \in Symbols
                 /\ first[k + 1] \in {Quote, Backslash} =>
                       /\ pos + 2 <= Len(text)
                       /\ text[pos] = Backslash /\ text[pos + 1] = first[k + 1]
                 /\ first[k + 1] = "LF" =>
                       /\ pos + 2 <= Len(text)
                       /\ text[pos] = Backslash /\ text[pos + 1] = "n"
                 /\ first[k + 1] = "BEL" =>
                       /\ pos + 3 <= Len(text)
                       /\ text[pos] = Backslash /\ text[pos + 1] = "u" /\ text[pos + 2] = "0007"
                 /\ first[k + 1] \notin {Quote, Backslash} \union Control =>
                       pos + 1 <= Len(text) /\ text[pos] = first[k + 1]
<1>1. first \in Seq(Symbols) /\ text \in Seq(Symbols) /\ text = WriteJSONString(first)
  BY DEF IInv, Types, Reread
<1>2. Len(text) \in Nat /\ Len(first) \in Nat /\ pos \in Nat
  BY <1>1, LenProperties DEF IInv, Types
<1>3. k \in 0..Len(first) /\ pos = 2 + Len(Body(SubSeq(first, 1, k)))
  <2>1. CASE pc = "view" /\ k = pos - 2
    <3>1. k <= Len(first) /\ SoFar = SubSeq(first, 1, k) /\ Body(SoFar) = SoFar /\ pos >= 2
      BY <2>1 DEF IInv, Types, ViewIsWritten, Reread, RereadInView
    <3>2. k \in 0..Len(first)
      BY <1>2, <2>1, <3>1
    <3>3. Len(SubSeq(first, 1, k)) = k
      BY <1>1, <3>2, Beginning
    <3> QED
      BY <1>2, <2>1, <3>1, <3>2, <3>3
  <2>2. CASE pc = "copy" /\ k = Len(buf)
    <3>1. k <= Len(first) /\ buf = SubSeq(first, 1, k) /\ pos = 2 + Len(Body(buf))
      BY <2>2 DEF IInv, Reread, RereadInCopy
    <3>2. k \in Nat
      BY <2>2, LenProperties DEF IInv, Types
    <3> QED
      BY <1>2, <3>1, <3>2
  <2> QED
    BY <2>1, <2>2
<1>4. (pc = "view" => SoFar = SubSeq(first, 1, k)) /\ (pc = "copy" => buf = SubSeq(first, 1, k))
  BY DEF IInv, Reread, RereadInView, RereadInCopy
<1>5. ASSUME k = Len(first) PROVE pos = Len(text) /\ text[pos] = Quote
  <2>1. SubSeq(first, 1, k) = first
    BY <1>1, <1>5, SubSeqFull
  <2> QED
    BY <1>1, <1>3, <2>1, ClosingQuote
<1>6. ASSUME k < Len(first)
      PROVE  /\ first[k + 1] \in Symbols
             /\ pos + Len(Escaped(first[k + 1])) <= Len(text)
             /\ \A i \in 1..Len(Escaped(first[k + 1])) :
                   text[pos + i - 1] = Escaped(first[k + 1])[i]
  <2>1. first[k + 1] \in Symbols
    BY <1>1, <1>3, <1>6, Beginning
  <2> QED
    BY <1>1, <1>3, <1>6, <2>1, NextRune
<1>7. pos + 1 - 1 = pos /\ pos + 2 - 1 = pos + 1 /\ pos + 3 - 1 = pos + 2
  BY <1>2
<1>8. ASSUME k < Len(first), first[k + 1] \in {Quote, Backslash}
      PROVE  pos + 2 <= Len(text) /\ text[pos] = Backslash /\ text[pos + 1] = first[k + 1]
  <2>1. Escaped(first[k + 1]) = <<Backslash, first[k + 1]>>
    BY <1>6, <1>8, EscapedType
  <2> QED
    BY <1>6, <1>7, <1>8, <2>1
<1>9. ASSUME k < Len(first), first[k + 1] = "LF"
      PROVE  pos + 2 <= Len(text) /\ text[pos] = Backslash /\ text[pos + 1] = "n"
  <2> DEFINE E == Escaped(first[k + 1])
  <2>1. E = <<Backslash, "n">>
    BY <1>6, <1>9, EscapedType
  <2>2. Len(E) = 2 /\ E[1] = Backslash /\ E[2] = "n"
    BY <2>1
  <2>3. pos + Len(E) <= Len(text) /\ \A i \in 1..Len(E) : text[pos + i - 1] = E[i]
    BY <1>6, <1>9
  <2> HIDE DEF E
  <2> QED
    BY <1>7, <2>2, <2>3
<1>10. ASSUME k < Len(first), first[k + 1] = "BEL"
       PROVE  /\ pos + 3 <= Len(text)
              /\ text[pos] = Backslash /\ text[pos + 1] = "u" /\ text[pos + 2] = "0007"
  <2> DEFINE E == Escaped(first[k + 1])
  <2>1. E = <<Backslash, "u", "0007">>
    BY <1>6, <1>10, EscapedType
  <2>2. Len(E) = 3 /\ E[1] = Backslash /\ E[2] = "u" /\ E[3] = "0007"
    BY <2>1
  <2>3. pos + Len(E) <= Len(text) /\ \A i \in 1..Len(E) : text[pos + i - 1] = E[i]
    BY <1>6, <1>10
  <2> HIDE DEF E
  <2> QED
    BY <1>7, <2>2, <2>3
<1>11. ASSUME k < Len(first), first[k + 1] \notin {Quote, Backslash} \union Control
       PROVE  pos + 1 <= Len(text) /\ text[pos] = first[k + 1]
  <2>1. Escaped(first[k + 1]) = <<first[k + 1]>>
    BY <1>6, <1>11, EscapedType
  <2> QED
    BY <1>6, <1>7, <1>11, <2>1
<1> QED
  BY <1>2, <1>3, <1>4, <1>5, <1>6, <1>8, <1>9, <1>10, <1>11

\* The string that is read back grows by the rune that was written.
LEMMA RereadMore ==
    ASSUME NEW k \in 0..Len(first), k < Len(first), first \in Seq(Symbols),
           buf = SubSeq(first, 1, k), pos = 2 + Len(Body(buf)),
           NEW c, c = first[k + 1], NEW b, b = Append(buf, c)
    PROVE  /\ Len(b) <= Len(first)
           /\ b = SubSeq(first, 1, Len(b))
           /\ pos + Len(Escaped(c)) = 2 + Len(Body(b))
<1>1. Len(first) \in Nat
  BY LenProperties
<1>2. /\ c \in Symbols /\ buf \in Seq(Symbols) /\ Len(buf) = k /\ Body(buf) \in Seq(Symbols)
      /\ SubSeq(first, 1, k + 1) = b /\ Body(b) = Body(buf) \o Escaped(c)
  BY Beginning
<1>3. Len(b) = k + 1
  BY <1>2, AppendProperties
<1>4. Escaped(c) \in Seq(Symbols)
  BY <1>2, EscapedType
<1>5. Len(Body(b)) = Len(Body(buf)) + Len(Escaped(c))
  BY <1>2, <1>4, ConcatProperties
<1>6. Len(Body(buf)) \in Nat /\ Len(Escaped(c)) \in Nat
  BY <1>2, <1>4, LenProperties
<1> QED
  BY <1>1, <1>2, <1>3, <1>5, <1>6

-----------------------------------------------------------------------------
(* One step of the parser.                                                 *)

\* Nothing changes.
LEMMA NothingChanges ==
    ASSUME IInv, UNCHANGED vars
    PROVE  IInv'
<1>1. /\ text' = text /\ pc' = pc /\ pos' = pos /\ buf' = buf /\ rawSafe' = rawSafe
      /\ decoded' = decoded /\ first' = first /\ reading' = reading /\ writer' = writer
  BY DEF vars
<1>2. SoFar' = SoFar
  BY <1>1 DEF SoFar
<1>3. RawIsWhatIsWritten'
  BY <1>1 DEF IInv, RawIsWhatIsWritten
<1>4. (WrittenAsJSON => Reread)'
  BY <1>1, <1>2 DEF IInv, WrittenAsJSON, Reread, RereadInView, RereadInCopy
<1>5. Types' /\ ViewIsWritten' /\ CopyIsWritten'
  BY <1>1, <1>2 DEF IInv, Types, ViewIsWritten, CopyIsWritten
<1> QED
  BY <1>3, <1>4, <1>5 DEF IInv

\* What has been read, after one symbol more.
LEMMA SoFarGrows ==
    ASSUME Types, pos <= Len(text)
    PROVE  /\ Len(text) \in Nat /\ pos \in Nat /\ pos >= 2 /\ text[pos] \in Symbols
           /\ SoFar \in Seq(Symbols) /\ Len(SoFar) = pos - 2
           /\ SubSeq(text, 2, pos) = Append(SoFar, text[pos])
<1>1. text \in Seq(Symbols) /\ Len(text) \in Nat /\ pos \in 2..Len(text)
  BY LenProperties DEF Types
<1>2. \A i \in 1..Len(text) : text[i] \in Symbols
  BY <1>1, ElementOfSeq
<1>3. 2 \in 1..Len(text)
  BY <1>1
<1>4. SubSeq(text, 2, pos) = Append(SoFar, text[pos])
  BY <1>1, <1>3, OneMore DEF SoFar
<1>5. 2 \in Int /\ pos - 1 \in Int /\ \A i \in 2..(pos - 1) : text[i] \in Symbols
  BY <1>1, <1>2
<1>6. SoFar \in Seq(Symbols) /\ Len(SoFar) = IF 2 <= pos - 1 THEN (pos - 1) - 2 + 1 ELSE 0
  BY <1>5, SubSeqProperties DEF SoFar
<1>7. Len(SoFar) = pos - 2
  BY <1>1, <1>6
<1> QED
  BY <1>1, <1>2, <1>4, <1>6, <1>7

\* An ordinary symbol of a string that needs no copy.
LEMMA ViewByteStep ==
    ASSUME IInv, ViewByte
    PROVE  IInv'
<1>1. /\ pc = "view" /\ pc' = "view" /\ text' = text /\ first' = first /\ reading' = reading
      /\ writer' = writer /\ buf' = buf /\ rawSafe' = rawSafe /\ decoded' = decoded
      /\ pos' = pos + 1 /\ pos <= Len(text) /\ text[pos] \notin {Quote, Backslash} \union Control
  BY DEF ViewByte, ParserStep, AtOrdinary
<1>2. /\ Len(text) \in Nat /\ pos \in Nat /\ pos >= 2 /\ text[pos] \in Symbols
      /\ SoFar \in Seq(Symbols)
      /\ SubSeq(text, 2, pos) = Append(SoFar, text[pos])
  BY <1>1, SoFarGrows DEF IInv
<1>3. pos' - 1 = pos /\ SoFar' = Append(SoFar, text[pos])
  <2>1. (pos + 1) - 1 = pos
    BY <1>2
  <2> QED
    BY <1>1, <1>2, <2>1 DEF SoFar
<1>4. Types'
  <2>1. pos' \in 2..(Len(text) + 1)
    BY <1>1, <1>2
  <2> QED
    BY <1>1, <2>1 DEF IInv, Types
<1>5. ViewIsWritten'
  <2>1. Body(SoFar) = SoFar
    BY <1>1 DEF IInv, ViewIsWritten
  <2>2. Body(Append(SoFar, text[pos])) = SoFar \o <<text[pos]>>
    BY <1>1, <1>2, <2>1, BodyAppend, EscapedType
  <2>3. Append(SoFar, text[pos]) = SoFar \o <<text[pos]>>
    BY <1>2, AppendIsConcat
  <2> QED
    BY <1>3, <2>2, <2>3 DEF ViewIsWritten
<1>6. CopyIsWritten' /\ RawIsWhatIsWritten'
  BY <1>1 DEF CopyIsWritten, RawIsWhatIsWritten
<1>7. ASSUME WrittenAsJSON' PROVE Reread'
  <2>1. WrittenAsJSON
    BY <1>1, <1>7 DEF WrittenAsJSON
  <2> DEFINE k == pos - 2
  <2>2. /\ k \in 0..Len(first) /\ SoFar = SubSeq(first, 1, k)
        /\ k # Len(first) /\ (k < Len(first) => text[pos] = first[k + 1])
    <3>1. (pc = "view" /\ k = pos - 2) \/ (pc = "copy" /\ k = Len(buf))
      BY <1>1
    <3> HIDE DEF k
    <3> QED
      BY <1>1, <2>1, <3>1, Meets, KnownSymbols DEF Control
  <2>3. first \in Seq(Symbols) /\ Len(first) \in Nat
    BY LenProperties DEF IInv, Types
  <2>4. k < Len(first)
    BY <2>2, <2>3
  <2>5. SubSeq(first, 1, k + 1) = Append(SubSeq(first, 1, k), first[k + 1])
    BY <2>2, <2>3, <2>4, Beginning
  <2>6. pos' - 2 = k + 1 /\ pos' - 2 <= Len(first)
    BY <1>1, <1>2, <2>2, <2>3, <2>4
  <2>7. SoFar' = SubSeq(first, 1, k + 1)
    BY <1>3, <2>2, <2>4, <2>5
  <2> HIDE DEF k
  <2>8. RereadInView'
    BY <1>1, <2>6, <2>7 DEF RereadInView
  <2> QED
    BY <1>1, <2>1, <2>8 DEF IInv, Reread, RereadInCopy
<1> QED
  BY <1>4, <1>5, <1>6, <1>7 DEF IInv

\* The end of a string, whichever way it was read: s is the string.
LEMMA EndStep ==
    ASSUME IInv, pc \in {"view", "copy"}, At(Quote), pc' = "done", pos' = pos + 1,
           NEW s, decoded' = s, pc = "view" => s = SoFar, pc = "copy" => s = buf,
           UNCHANGED <<text, first, reading, writer, buf, rawSafe>>
    PROVE  IInv'
<1>1. /\ text' = text /\ first' = first /\ reading' = reading /\ writer' = writer
      /\ buf' = buf /\ rawSafe' = rawSafe /\ pos <= Len(text) /\ text[pos] = Quote
  BY DEF At
<1>2. /\ Len(text) \in Nat /\ pos \in Nat /\ pos >= 2 /\ SoFar \in Seq(Symbols)
  BY <1>1, SoFarGrows DEF IInv
<1>3. s \in Seq(Symbols)
  BY <1>2 DEF IInv, Types
<1>4. Types'
  <2>1. pos' \in 2..(Len(text) + 1)
    BY <1>1, <1>2
  <2> QED
    BY <1>1, <1>3, <2>1 DEF IInv, Types
<1>5. ASSUME rawSafe PROVE WriteJSONString(s) = SubSeq(text, 1, pos)
  <2>1. Body(s) = SoFar
    BY <1>5 DEF IInv, ViewIsWritten, CopyIsWritten
  <2>2. text \in Seq(Symbols) /\ text[1] = Quote /\ pos \in 2..Len(text)
    BY <1>1, <1>2 DEF IInv, Types
  <2>3. Enclosed(SoFar) = SubSeq(text, 1, pos)
    BY <1>1, <2>2, EnclosedPart DEF SoFar
  <2> QED
    BY <2>1, <2>3, WrittenInQuotes
<1>6. RawIsWhatIsWritten'
  <2>1. (pos + 1) - 1 = pos
    BY <1>2
  <2>2. (rawSafe => WriteJSONString(decoded) = SubSeq(text, 1, pos - 1))'
    BY <1>1, <1>5, <2>1
  <2> QED
    BY <2>2 DEF RawIsWhatIsWritten
<1>7. ASSUME WrittenAsJSON' PROVE Reread'
  <2>1. WrittenAsJSON
    BY <1>1, <1>7 DEF WrittenAsJSON
  <2> DEFINE k == IF pc = "view" THEN pos - 2 ELSE Len(buf)
  <2>2. (pc = "view" /\ k = pos - 2) \/ (pc = "copy" /\ k = Len(buf))
    OBVIOUS
  <2> HIDE DEF k
  <2>3. /\ k \in 0..Len(first) /\ s = SubSeq(first, 1, k)
        /\ k < Len(first) => FALSE
    BY <1>1, <2>1, <2>2, Meets, KnownSymbols DEF Control
  <2>4. first \in Seq(Symbols) /\ Len(first) \in Nat
    BY LenProperties DEF IInv, Types
  <2>5. k = Len(first)
    BY <2>3, <2>4
  <2>6. s = first
    BY <2>3, <2>4, <2>5, SubSeqFull
  <2> QED
    BY <1>1, <2>1, <2>6 DEF IInv, Reread, RereadInView, RereadInCopy
<1>8. ViewIsWritten' /\ CopyIsWritten'
  BY DEF ViewIsWritten, CopyIsWritten
<1> QED
  BY <1>4, <1>6, <1>7, <1>8 DEF IInv

\* The closing quote of a string that needs no copy.
LEMMA EndViewStep ==
    ASSUME IInv, EndView
    PROVE  IInv'
<1>1. /\ pc = "view" /\ At(Quote) /\ pc' = "done" /\ pos' = pos + 1 /\ decoded' = SoFar
      /\ UNCHANGED <<text, first, reading, writer, buf, rawSafe>>
  BY DEF EndView, ParserStep, SoFar
<1> QED
  BY <1>1, EndStep

\* The closing quote of a string that was copied.
LEMMA EndCopyStep ==
    ASSUME IInv, EndCopy
    PROVE  IInv'
<1>1. /\ pc = "copy" /\ At(Quote) /\ pc' = "done" /\ pos' = pos + 1 /\ decoded' = buf
      /\ UNCHANGED <<text, first, reading, writer, buf, rawSafe>>
  BY DEF EndCopy, ParserStep
<1> QED
  BY <1>1, EndStep

\* The first backslash: the string is read again from its beginning.
LEMMA StartOverStep ==
    ASSUME IInv, StartOver
    PROVE  IInv'
<1>1. /\ pc = "view" /\ pc' = "copy" /\ pos' = 2 /\ buf' = << >>
      /\ text' = text /\ first' = first /\ reading' = reading /\ writer' = writer
      /\ rawSafe' = rawSafe /\ decoded' = decoded /\ pos <= Len(text)
  BY DEF StartOver, ParserStep, At
<1>2. Len(text) \in Nat /\ Len(text) > 0 /\ first \in Seq(Symbols) /\ Len(first) \in Nat
  BY LenProperties DEF IInv, Types
<1>3. Types'
  <2>1. pos' \in 2..(Len(text) + 1)
    BY <1>1, <1>2
  <2> QED
    BY <1>1, <2>1, EmptySeq DEF IInv, Types
<1>4. CopyIsWritten'
  <2>1. SubSeq(text, 2, 2 - 1) = << >>
    BY SubSeqEmpty
  <2> QED
    BY <1>1, <2>1, BodyNone DEF CopyIsWritten, SoFar
<1>5. RereadInCopy'
  <2>1. Len(<< >>) = 0 /\ SubSeq(first, 1, 0) = << >>
    BY EmptySeq, SubSeqEmpty
  <2>2. 0 <= Len(first) /\ 2 = 2 + 0
    BY <1>2
  <2>3. (/\ Len(buf) <= Len(first) /\ buf = SubSeq(first, 1, Len(buf))
         /\ pos = 2 + Len(Body(buf)))'
    BY <1>1, <2>1, <2>2, BodyNone
  <2> QED
    BY <2>3 DEF RereadInCopy
<1>6. ViewIsWritten' /\ RawIsWhatIsWritten'
  BY <1>1 DEF ViewIsWritten, RawIsWhatIsWritten
<1>7. (WrittenAsJSON => Reread)'
  BY <1>1, <1>5 DEF IInv, WrittenAsJSON, Reread, RereadInView
<1> QED
  BY <1>3, <1>4, <1>6, <1>7 DEF IInv

\* A rune c has been copied, whose text is n symbols long.  If the row stays fit
\* to be answered raw, the text is the one that writing gives; if an answer is
\* read, the rune is the next one of the string.
LEMMA CopyStep ==
    ASSUME IInv, pc = "copy", pc' = "copy", NEW c \in Symbols, buf' = Append(buf, c),
           NEW n \in Nat, n > 0, pos + n <= Len(text) + 1, pos' = pos + n,
           rawSafe' \in BOOLEAN, rawSafe' => rawSafe,
           rawSafe' => SubSeq(text, 2, pos + n - 1) = SoFar \o Escaped(c),
           \A k \in 0..Len(first) :
              (WrittenAsJSON /\ k = Len(buf)) =>
                 k < Len(first) /\ c = first[k + 1] /\ Len(Escaped(c)) = n,
           UNCHANGED <<text, first, reading, writer, decoded>>
    PROVE  IInv'
<1>1. /\ text' = text /\ first' = first /\ reading' = reading /\ writer' = writer
      /\ decoded' = decoded
  OBVIOUS
<1>2. /\ Len(text) \in Nat /\ pos \in Nat /\ pos >= 2 /\ buf \in Seq(Symbols)
      /\ first \in Seq(Symbols) /\ Len(first) \in Nat
  BY LenProperties DEF IInv, Types
<1>3. Types'
  <2>1. pos' \in 2..(Len(text) + 1)
    BY <1>1, <1>2
  <2>2. buf' \in Seq(Symbols)
    BY <1>2, AppendProperties
  <2> QED
    BY <1>1, <2>1, <2>2 DEF IInv, Types
<1>4. CopyIsWritten'
  <2>1. ASSUME rawSafe' PROVE Body(buf') = SoFar'
    <3>1. Body(buf) = SoFar
      BY <2>1 DEF IInv, CopyIsWritten
    <3>2. Body(buf') = SoFar \o Escaped(c)
      BY <1>2, <3>1, BodyAppend
    <3>3. SoFar' = SubSeq(text, 2, pos + n - 1)
      <4>1. pos' = pos + n /\ pos' - 1 = pos + n - 1
        BY <1>2
      <4>2. SoFar' = SubSeq(text, 2, pos' - 1)
        BY <1>1 DEF SoFar
      <4>3. \A i, j : i = j => SubSeq(text, 2, i) = SubSeq(text, 2, j)
        OBVIOUS
      <4> QED
        BY <4>1, <4>2, <4>3
    <3> QED
      BY <2>1, <3>2, <3>3
  <2>2. (pc = "copy" /\ rawSafe => Body(buf) = SoFar)'
    BY <2>1
  <2> QED
    BY <2>2 DEF CopyIsWritten
<1>5. ASSUME WrittenAsJSON' PROVE Reread'
  <2>1. WrittenAsJSON
    BY <1>1, <1>5 DEF WrittenAsJSON
  <2> DEFINE k == Len(buf)
  <2>2. k \in 0..Len(first) /\ buf = SubSeq(first, 1, k) /\ pos = 2 + Len(Body(buf))
    <3>1. Len(buf) <= Len(first) /\ buf = SubSeq(first, 1, Len(buf)) /\ pos = 2 + Len(Body(buf))
      BY <2>1 DEF IInv, Reread, RereadInCopy
    <3>2. Len(buf) \in Nat
      BY <1>2, LenProperties
    <3>3. Len(buf) \in 0..Len(first)
      <4>1. \A i, j \in Nat : i <= j => i \in 0..j
        OBVIOUS
      <4> QED
        BY <1>2, <3>1, <3>2, <4>1
    <3> QED
      BY <3>1, <3>3
  <2>3. k < Len(first) /\ c = first[k + 1] /\ Len(Escaped(c)) = n
    BY <2>1, <2>2
  <2> HIDE DEF k
  <2>4. /\ Len(buf') <= Len(first)
        /\ buf' = SubSeq(first, 1, Len(buf'))
        /\ pos + Len(Escaped(c)) = 2 + Len(Body(buf'))
    BY <1>2, <2>2, <2>3, RereadMore
  <2>5. (/\ Len(buf) <= Len(first) /\ buf = SubSeq(first, 1, Len(buf))
         /\ pos = 2 + Len(Body(buf)))'
    BY <1>1, <2>3, <2>4
  <2>6. RereadInCopy'
    BY <2>5 DEF RereadInCopy
  <2> QED
    BY <1>1, <2>1, <2>6 DEF IInv, Reread, RereadInView
<1>6. ViewIsWritten' /\ RawIsWhatIsWritten'
  BY DEF ViewIsWritten, RawIsWhatIsWritten
<1> QED
  BY <1>3, <1>4, <1>5, <1>6 DEF IInv

\* An ordinary symbol is copied.
LEMMA CopyByteStep ==
    ASSUME IInv, CopyByte
    PROVE  IInv'
<1>1. /\ pc = "copy" /\ pc' = "copy" /\ buf' = Append(buf, text[pos]) /\ pos' = pos + 1
      /\ rawSafe' = rawSafe /\ UNCHANGED <<text, first, reading, writer, decoded>>
      /\ pos <= Len(text) /\ text[pos] \notin {Quote, Backslash} \union Control
  BY DEF CopyByte, ParserStep, AtOrdinary
<1>2. /\ Len(text) \in Nat /\ pos \in Nat /\ text[pos] \in Symbols /\ SoFar \in Seq(Symbols)
      /\ SubSeq(text, 2, pos) = Append(SoFar, text[pos])
  BY <1>1, SoFarGrows DEF IInv
<1>3. Escaped(text[pos]) = <<text[pos]>> /\ Len(Escaped(text[pos])) = 1
  BY <1>1, <1>2, EscapedType
<1>4. SubSeq(text, 2, pos + 1 - 1) = SoFar \o Escaped(text[pos])
  <2>1. pos + 1 - 1 = pos
    BY <1>2
  <2> QED
    BY <1>2, <1>3, <2>1, AppendIsConcat
<1>5. ASSUME NEW k \in 0..Len(first), WrittenAsJSON, k = Len(buf)
      PROVE  k < Len(first) /\ text[pos] = first[k + 1]
  <2>1. /\ k = Len(first) => text[pos] = Quote
        /\ k < Len(first) => text[pos] = first[k + 1]
    BY <1>1, <1>5, Meets DEF Control
  <2>2. Len(first) \in Nat
    BY LenProperties DEF IInv, Types
  <2> QED
    BY <1>1, <2>1, <2>2
<1>6. pos + 1 <= Len(text) + 1 /\ rawSafe' \in BOOLEAN /\ (rawSafe' => rawSafe)
  BY <1>1, <1>2 DEF IInv, Types
<1> DEFINE c == text[pos]
           n == 1
<1>7. /\ c \in Symbols /\ buf' = Append(buf, c)
      /\ n \in Nat /\ n > 0 /\ pos + n <= Len(text) + 1 /\ pos' = pos + n
      /\ rawSafe' => SubSeq(text, 2, pos + n - 1) = SoFar \o Escaped(c)
      /\ \A k \in 0..Len(first) :
            (WrittenAsJSON /\ k = Len(buf)) =>
               k < Len(first) /\ c = first[k + 1] /\ Len(Escaped(c)) = n
  BY <1>1, <1>2, <1>3, <1>4, <1>5, <1>6
<1> HIDE DEF c, n
<1> QED
  BY <1>1, <1>6, <1>7, CopyStep

\* An escape of one symbol: what it stands for is copied.
LEMMA ShortEscapeStep ==
    ASSUME IInv, ShortEscape
    PROVE  IInv'
<1> DEFINE e == text[pos + 1]
           c == ShortEscapes[e]
           n == 2
<1>1. /\ pc = "copy" /\ pc' = "copy" /\ buf' = Append(buf, c) /\ pos' = pos + 2
      /\ UNCHANGED <<text, first, reading, writer, decoded>>
      /\ rawSafe' = (rawSafe /\ e # "/")
      /\ pos < Len(text) /\ text[pos] = Backslash
      /\ e \in {Quote, Backslash, "/", "n"}
  BY DEF ShortEscape, ParserStep, Escape, At, ShortEscapes
<1>2. c = IF e = "n" THEN "LF" ELSE e
  BY <1>1 DEF ShortEscapes
<1>3. c \in Symbols
  BY <1>1, <1>2, KnownSymbols
<1>4. /\ Len(text) \in Nat /\ pos \in Nat /\ pos >= 2
      /\ text \in Seq(Symbols) /\ first \in Seq(Symbols) /\ Len(first) \in Nat
      /\ \A i \in 1..Len(text) : text[i] \in Symbols
  BY LenProperties, ElementOfSeq DEF IInv, Types
<1>5. /\ SoFar \in Seq(Symbols) /\ SubSeq(text, 2, pos) = Append(SoFar, Backslash)
  BY <1>1, <1>4, SoFarGrows DEF IInv
<1>6. "/" # Quote /\ "/" # Backslash /\ "n" # "/" /\ "n" # Quote /\ "n" # Backslash
  BY KnownSymbols
<1> HIDE DEF c, e
<1>7. SubSeq(text, 2, pos + 2 - 1) = SoFar \o <<Backslash, e>>
  <2>1. pos + 1 \in 2..Len(text) /\ 2 \in 1..Len(text) /\ (pos + 1) - 1 = pos /\ pos + 2 - 1 = pos + 1
    BY <1>1, <1>4
  <2>2. SubSeq(text, 2, pos + 1) = Append(SubSeq(text, 2, (pos + 1) - 1), text[pos + 1])
    BY <1>4, <2>1, OneMore
  <2>3. SubSeq(text, 2, pos + 1) = Append(Append(SoFar, Backslash), e)
    BY <1>5, <2>1, <2>2 DEF e
  <2>4. Backslash \in Symbols /\ e \in Symbols
    BY <1>1, KnownSymbols
  <2>5. Append(Append(SoFar, Backslash), e) = SoFar \o <<Backslash, e>>
    BY <1>5, <2>4
  <2> QED
    BY <2>1, <2>3, <2>5
<1>8. ASSUME e # "/" PROVE Escaped(c) = <<Backslash, e>> /\ Len(Escaped(c)) = 2
  <2>1. CASE e = "n"
    <3>1. c = "LF"
      BY <1>2, <2>1
    <3>2. Escaped(c) = <<Backslash, "n">>
      BY <1>3, <3>1, EscapedType
    <3> QED
      BY <2>1, <3>2
  <2>2. CASE e # "n"
    <3>1. c = e /\ c \in {Quote, Backslash}
      BY <1>1, <1>2, <1>8, <2>2
    <3>2. Escaped(c) = <<Backslash, c>>
      BY <1>3, <3>1, EscapedType
    <3> QED
      BY <3>1, <3>2
  <2> QED
    BY <2>1, <2>2
<1>9. ASSUME NEW k \in 0..Len(first), WrittenAsJSON, k = Len(buf)
      PROVE  k < Len(first) /\ c = first[k + 1] /\ Len(Escaped(c)) = 2
  <2>1. k < Len(first)
    <3>1. k = Len(first) => text[pos] = Quote
      BY <1>1, <1>9, Meets
    <3> QED
      BY <1>1, <1>4, <3>1, KnownSymbols
  <2>2. /\ first[k + 1] \in {Quote, Backslash} => e = first[k + 1]
        /\ first[k + 1] = "LF" => e = "n"
        /\ first[k + 1] = "BEL" => e = "u"
        /\ first[k + 1] \notin {Quote, Backslash} \union Control => text[pos] = first[k + 1]
    BY <1>1, <1>9, <2>1, Meets DEF e
  <2>3. first[k + 1] # "BEL" /\ first[k + 1] \in {Quote, Backslash} \union Control
    <3>1. "u" \notin {Quote, Backslash, "/", "n"}
      BY KnownSymbols
    <3> QED
      BY <1>1, <2>2, <3>1
  <2>4. first[k + 1] \in {Quote, Backslash} \/ first[k + 1] = "LF"
    BY <2>3 DEF Control
  <2>5. c = first[k + 1] /\ e # "/"
    BY <1>2, <1>6, <2>2, <2>4
  <2> QED
    BY <1>8, <2>1, <2>5
<1>10. /\ n \in Nat /\ n > 0 /\ pos + n <= Len(text) + 1 /\ pos' = pos + n
       /\ rawSafe' \in BOOLEAN /\ (rawSafe' => rawSafe)
  <2>1. rawSafe' \in BOOLEAN /\ (rawSafe' => rawSafe)
    BY <1>1
  <2> QED
    BY <1>1, <1>4, <2>1
<1>11. rawSafe' => SubSeq(text, 2, pos + n - 1) = SoFar \o Escaped(c)
  BY <1>1, <1>7, <1>8
<1>12. \A k \in 0..Len(first) :
           (WrittenAsJSON /\ k = Len(buf)) =>
              k < Len(first) /\ c = first[k + 1] /\ Len(Escaped(c)) = n
  BY <1>9
<1> HIDE DEF n
<1> QED
  BY <1>1, <1>3, <1>10, <1>11, <1>12, CopyStep

\* An escape of four digits, or a pair of them.
LEMMA UnicodeEscapeStep ==
    ASSUME IInv, UnicodeEscape
    PROVE  IInv'
<1> DEFINE rune == UnicodeEscapeAt(pos + 1)
           c == rune[1]
           n == 1 + rune[2]
<1>1. /\ pc = "copy" /\ pc' = "copy" /\ buf' = Append(buf, c) /\ pos' = pos + 1 + rune[2]
      /\ UNCHANGED <<text, first, reading, writer, decoded>>
      /\ rawSafe' = FALSE /\ rune # << >>
      /\ pos < Len(text) /\ text[pos] = Backslash /\ text[pos + 1] = "u"
  BY DEF UnicodeEscape, ParserStep, Escape, At
<1>2. Len(text) \in Nat /\ pos \in Nat /\ pos >= 2 /\ Len(first) \in Nat
  BY LenProperties DEF IInv, Types
<1>3. /\ c \in Symbols
      /\ \/ rune[2] = 2 /\ pos + 2 <= Len(text)
         \/ rune[2] = 5 /\ pos + 5 <= Len(text)
  <2>1. pos + 1 \in Nat /\ (pos + 1) + 1 = pos + 2 /\ (pos + 1) + 4 = pos + 5
    BY <1>2
  <2> QED
    BY <1>1, <2>1, RuneOfEscape
<1> HIDE DEF rune
<1>4. n \in Nat /\ n > 0 /\ pos + n <= Len(text) + 1 /\ pos' = pos + n
  BY <1>1, <1>2, <1>3, SMTT(30)
<1>5. ASSUME NEW k \in 0..Len(first), WrittenAsJSON, k = Len(buf)
      PROVE  k < Len(first) /\ c = first[k + 1] /\ Len(Escaped(c)) = n
  <2>1. k < Len(first)
    <3>1. k = Len(first) => text[pos] = Quote
      BY <1>1, <1>5, Meets
    <3> QED
      BY <1>1, <1>2, <3>1, KnownSymbols
  <2>2. /\ first[k + 1] \in {Quote, Backslash} => text[pos + 1] = first[k + 1]
        /\ first[k + 1] = "LF" => text[pos + 1] = "n"
        /\ first[k + 1] = "BEL" => pos + 3 <= Len(text) /\ text[pos + 2] = "0007"
        /\ first[k + 1] \notin {Quote, Backslash} \union Control => text[pos] = first[k + 1]
        /\ first[k + 1] \in Symbols
    BY <1>1, <1>5, <2>1, Meets
  <2>3. first[k + 1] = "BEL"
    <3>1. "u" \notin {Quote, Backslash, "n"}
      BY KnownSymbols
    <3> QED
      BY <1>1, <2>2, <3>1 DEF Control
  <2>4. rune = <<"BEL", 2>>
    <3>1. pos + 1 \in Nat /\ (pos + 1) + 1 = pos + 2 /\ pos + 2 <= Len(text)
      BY <1>2, <2>2, <2>3
    <3> QED
      BY <1>1, <2>2, <2>3, <3>1, RuneOfBell DEF rune
  <2>5. Escaped("BEL") = <<Backslash, "u", "0007">>
    BY <2>2, <2>3, EscapedType
  <2>6. Len(Escaped("BEL")) = 3
    BY <2>5
  <2>7. c = "BEL" /\ n = 3
    BY <2>4
  <2> QED
    BY <2>1, <2>3, <2>6, <2>7
<1>6. \A k \in 0..Len(first) :
         (WrittenAsJSON /\ k = Len(buf)) =>
            k < Len(first) /\ c = first[k + 1] /\ Len(Escaped(c)) = n
  BY <1>5
<1>7. buf' = Append(buf, c) /\ c \in Symbols
  BY <1>1, <1>3
<1> HIDE DEF c, n
<1> QED
  BY <1>1, <1>4, <1>6, <1>7, CopyStep

\* A parser that reads an answer written as JSON never fails: what it meets is
\* no control character, no end of the text, and no escape that is none.
LEMMA FailStep ==
    ASSUME IInv, Fail
    PROVE  IInv'
<1>1. /\ pc \in {"view", "copy"} /\ pc' = "error"
      /\ text' = text /\ pos' = pos /\ buf' = buf /\ rawSafe' = rawSafe
      /\ decoded' = decoded /\ first' = first /\ reading' = reading /\ writer' = writer
  BY DEF Fail, ParserStep
<1>2. ~WrittenAsJSON
  <2> SUFFICES ASSUME WrittenAsJSON PROVE FALSE
    OBVIOUS
  <2> DEFINE k == IF pc = "view" THEN pos - 2 ELSE Len(buf)
  <2>1. (pc = "view" /\ k = pos - 2) \/ (pc = "copy" /\ k = Len(buf))
    BY <1>1
  <2> HIDE DEF k
  <2>2. /\ Len(text) \in Nat /\ Len(first) \in Nat /\ pos \in Nat
    BY LenProperties DEF IInv, Types
  <2>3. /\ k \in 0..Len(first)
        /\ k = Len(first) => pos = Len(text) /\ text[pos] = Quote
        /\ k < Len(first) =>
              /\ first[k + 1] \in {Quote, Backslash} =>
                    /\ pos + 2 <= Len(text)
                    /\ text[pos] = Backslash /\ text[pos + 1] = first[k + 1]
              /\ first[k + 1] = "LF" =>
                    /\ pos + 2 <= Len(text)
                    /\ text[pos] = Backslash /\ text[pos + 1] = "n"
              /\ first[k + 1] = "BEL" =>
                    /\ pos + 3 <= Len(text)
                    /\ text[pos] = Backslash /\ text[pos + 1] = "u" /\ text[pos + 2] = "0007"
              /\ first[k + 1] \notin {Quote, Backslash} \union Control =>
                    pos + 1 <= Len(text) /\ text[pos] = first[k + 1]
    BY <2>1, Meets
  <2>4. Quote \notin Control /\ Backslash \notin Control /\ Quote # Backslash
    BY KnownSymbols DEF Control
  <2>5. ASSUME pos <= Len(text), text[pos] \notin Control,
               text[pos] = Backslash => \/ pos < Len(text) /\ text[pos + 1] \in DOMAIN ShortEscapes
                                        \/ /\ pos < Len(text) /\ text[pos + 1] = "u"
                                           /\ UnicodeEscapeAt(pos + 1) # << >>
        PROVE  FALSE
    <3>1. /\ \/ pos > Len(text)
             \/ \E c \in Control : At(c)
             \/ /\ pc = "copy"
                /\ At(Backslash)
                /\ Escape => text[pos + 1] \notin DOMAIN ShortEscapes
                /\ Escape /\ text[pos + 1] = "u" => UnicodeEscapeAt(pos + 1) = << >>
      BY DEF Fail
    <3>2. ~(pos > Len(text))
      BY <2>2, <2>5
    <3>3. ~(\E c \in Control : At(c))
      BY <2>5 DEF At
    <3>4. At(Backslash)
      BY <3>1, <3>2, <3>3
    <3>5. Escape
      BY <2>5, <3>4 DEF Escape, At
    <3> QED
      BY <2>5, <3>1, <3>2, <3>3, <3>4, <3>5 DEF At
  <2>6. CASE k = Len(first)
    BY <2>2, <2>3, <2>4, <2>5, <2>6
  <2>7. CASE k < Len(first) /\ first[k + 1] \in {Quote, Backslash}
    <3>1. pos < Len(text) /\ pos <= Len(text)
      BY <2>2, <2>3, <2>7
    <3>2. text[pos] = Backslash /\ text[pos + 1] \in DOMAIN ShortEscapes
      BY <2>3, <2>7 DEF ShortEscapes
    <3> QED
      BY <2>4, <2>5, <3>1, <3>2
  <2>8. CASE k < Len(first) /\ first[k + 1] = "LF"
    <3>1. pos < Len(text) /\ pos <= Len(text)
      BY <2>2, <2>3, <2>8
    <3>2. text[pos] = Backslash /\ text[pos + 1] \in DOMAIN ShortEscapes
      BY <2>3, <2>8 DEF ShortEscapes
    <3> QED
      BY <2>4, <2>5, <3>1, <3>2
  <2>9. CASE k < Len(first) /\ first[k + 1] = "BEL"
    <3>1. /\ pos + 3 <= Len(text)
          /\ text[pos] = Backslash /\ text[pos + 1] = "u" /\ text[pos + 2] = "0007"
      BY <2>3, <2>9
    <3>2. pos < Len(text) /\ pos <= Len(text) /\ pos + 1 \in Nat
          /\ (pos + 1) + 1 = pos + 2 /\ pos + 2 <= Len(text)
      BY <2>2, <3>1
    <3>3. UnicodeEscapeAt(pos + 1) = <<"BEL", 2>>
      BY <3>1, <3>2, RuneOfBell
    <3>4. <<"BEL", 2>> # << >>
      OBVIOUS
    <3> QED
      BY <2>4, <2>5, <3>1, <3>2, <3>3, <3>4
  <2>10. CASE k < Len(first) /\ first[k + 1] \notin {Quote, Backslash} \union Control
    <3>1. pos <= Len(text) /\ text[pos] = first[k + 1]
      BY <2>2, <2>3, <2>10
    <3> QED
      BY <2>5, <2>10, <3>1
  <2>11. k = Len(first) \/ k < Len(first)
    BY <2>2, <2>3
  <2> QED
    BY <2>6, <2>7, <2>8, <2>9, <2>10, <2>11 DEF Control
<1>3. ~WrittenAsJSON'
  BY <1>1, <1>2 DEF WrittenAsJSON
<1>4. Types' /\ ViewIsWritten' /\ CopyIsWritten' /\ RawIsWhatIsWritten'
  BY <1>1 DEF IInv, Types, ViewIsWritten, CopyIsWritten, RawIsWhatIsWritten
<1> QED
  BY <1>3, <1>4 DEF IInv

-----------------------------------------------------------------------------
(* The answer.                                                             *)

\* How strconv.AppendQuote spells a rune.
Quoted(c) ==
    CASE c \in {Quote, Backslash} -> <<Backslash, c>>
      [] c = "LF" -> <<Backslash, "n">>
      [] c = "BEL" -> <<Backslash, "a">>
      [] c = "DEL" -> <<Backslash, "x", "7f">>
      [] OTHER -> <<c>>

\* What strconv.AppendQuote writes is a text in quotes.
LEMMA AppendQuoteType ==
    ASSUME NEW s \in Seq(Symbols)
    PROVE  /\ AppendQuote(s) \in Seq(Symbols) /\ Len(AppendQuote(s)) >= 2
           /\ AppendQuote(s)[1] = Quote
<1> DEFINE runes == [i \in DOMAIN s |-> Quoted(s[i])]
<1>1. Len(s) \in Nat /\ DOMAIN s = 1..Len(s) /\ \A i \in 1..Len(s) : s[i] \in Symbols
  BY LenProperties, ElementOfSeq
<1>2. ASSUME NEW c \in Symbols PROVE Quoted(c) \in Seq(Symbols)
  <2>1. /\ <<Backslash, c>> \in Seq(Symbols) /\ <<Backslash, "n">> \in Seq(Symbols)
        /\ <<Backslash, "a">> \in Seq(Symbols) /\ <<Backslash, "x", "7f">> \in Seq(Symbols)
        /\ <<c>> \in Seq(Symbols)
    BY KnownSymbols
  <2>2. CASE c \in {Quote, Backslash}
    BY <2>1, <2>2 DEF Quoted, Quote, Backslash
  <2>3. CASE c = "LF"
    BY <2>1, <2>3 DEF Quoted, Quote, Backslash
  <2>4. CASE c = "BEL"
    BY <2>1, <2>4 DEF Quoted, Quote, Backslash
  <2>5. CASE c = "DEL"
    BY <2>1, <2>5 DEF Quoted, Quote, Backslash
  <2>6. CASE c \notin {Quote, Backslash, "LF", "BEL", "DEL"}
    BY <2>1, <2>6 DEF Quoted
  <2> QED
    BY <2>2, <2>3, <2>4, <2>5, <2>6
<1>3. runes \in Seq(Seq(Symbols))
  BY <1>1, <1>2
<1>4. FlattenSeq(runes) \in Seq(Symbols)
  BY <1>3, FlattenType
<1>5. AppendQuote(s) = Enclosed(FlattenSeq(runes))
  BY DEF AppendQuote, Quoted
<1> HIDE DEF runes
<1>6. Len(FlattenSeq(runes)) \in Nat
  BY <1>4, LenProperties
<1>7. /\ Enclosed(FlattenSeq(runes)) \in Seq(Symbols)
      /\ Len(Enclosed(FlattenSeq(runes))) = Len(FlattenSeq(runes)) + 2
      /\ Enclosed(FlattenSeq(runes))[1] = Quote
  BY <1>4, EnclosedText
<1> QED
  BY <1>5, <1>6, <1>7

\* It is what writeJSONString writes when the two agree on every rune.
LEMMA QuotesAgree ==
    ASSUME NEW s, \A i \in DOMAIN s : s[i] \notin {"BEL", "DEL"}
    PROVE  AppendQuote(s) = WriteJSONString(s)
<1>1. ASSUME NEW c, c \notin {"BEL", "DEL"} PROVE Quoted(c) = Escaped(c)
  <2>1. CASE c \in {Quote, Backslash}
    BY <2>1 DEF Quoted, Escaped, Quote, Backslash
  <2>2. CASE c = "LF"
    BY <2>2 DEF Quoted, Escaped, Quote, Backslash
  <2>3. CASE c \notin {Quote, Backslash, "LF"}
    BY <1>1, <2>3 DEF Quoted, Escaped
  <2> QED
    BY <2>1, <2>2, <2>3
<1>2. [i \in DOMAIN s |-> Quoted(s[i])] = [i \in DOMAIN s |-> Escaped(s[i])]
  BY <1>1
<1>3. AppendQuote(s) = Enclosed(FlattenSeq([i \in DOMAIN s |-> Quoted(s[i])]))
  BY DEF AppendQuote, Quoted
<1> QED
  BY <1>2, <1>3 DEF WriteJSONString

\* The next program begins to read the answer.
LEMMA ReadAnswerStep ==
    ASSUME IInv, ReadAnswer
    PROVE  IInv'
<1>1. /\ pc = "done" /\ reading' = 2 /\ first' = decoded /\ pc' = "view" /\ pos' = 2
      /\ text' = IF writer = "clean" THEN WriteJSONString(decoded) ELSE AppendQuote(decoded)
      /\ buf' \in {<< >>, <<"a">>} /\ rawSafe' = TRUE /\ decoded' = << >> /\ writer' = writer
  BY DEF ReadAnswer
<1>2. decoded \in Seq(Symbols) /\ Len(decoded) \in Nat
  BY LenProperties DEF IInv, Types
<1>3. text' \in Seq(Symbols) /\ Len(text') >= 2 /\ text'[1] = Quote
  <2>1. /\ WriteJSONString(decoded) \in Seq(Symbols) /\ Len(WriteJSONString(decoded)) >= 2
        /\ WriteJSONString(decoded)[1] = Quote
    <3>1. Body(decoded) \in Seq(Symbols)
      BY <1>2, BodyType
    <3>2. Len(Body(decoded)) \in Nat
      BY <3>1, LenProperties
    <3>3. /\ Enclosed(Body(decoded)) \in Seq(Symbols)
          /\ Len(Enclosed(Body(decoded))) = Len(Body(decoded)) + 2
          /\ Enclosed(Body(decoded))[1] = Quote
      BY <3>1, EnclosedText
    <3> QED
      BY <3>2, <3>3, WrittenInQuotes
  <2>2. /\ AppendQuote(decoded) \in Seq(Symbols) /\ Len(AppendQuote(decoded)) >= 2
        /\ AppendQuote(decoded)[1] = Quote
    BY <1>2, AppendQuoteType
  <2> QED
    BY <1>1, <2>1, <2>2
<1>4. Types'
  <2>1. Len(text') \in Nat
    BY <1>3, LenProperties
  <2>2. Len(text') > 0 /\ pos' \in 2..(Len(text') + 1)
    BY <1>1, <1>3, <2>1
  <2>3. buf' \in Seq(Symbols) /\ << >> \in Seq(Symbols)
    <3>1. "a" \in Symbols
      BY KnownSymbols
    <3>2. <<"a">> \in Seq(Symbols)
      BY <3>1
    <3> QED
      BY <1>1, <3>2, EmptySeq
  <2> QED
    BY <1>1, <1>2, <1>3, <2>2, <2>3 DEF Types
<1>5. SoFar' = << >>
  <2>1. SoFar' = SubSeq(text', 2, 2 - 1)
    BY <1>1 DEF SoFar
  <2> QED
    BY <2>1, SubSeqEmpty
<1>6. ViewIsWritten' /\ CopyIsWritten' /\ RawIsWhatIsWritten'
  BY <1>1, <1>5, BodyNone DEF ViewIsWritten, CopyIsWritten, RawIsWhatIsWritten
<1>7. ASSUME WrittenAsJSON' PROVE Reread'
  <2>1. writer = "clean" \/ \A i \in DOMAIN decoded : decoded[i] \notin {"BEL", "DEL"}
    BY <1>1, <1>7 DEF WrittenAsJSON
  <2>2. text' = WriteJSONString(first')
    BY <1>1, <2>1, QuotesAgree
  <2>3. (pos - 2 <= Len(first) /\ SoFar = SubSeq(first, 1, pos - 2))'
    <3>1. SubSeq(decoded, 1, 0) = << >> /\ 2 - 2 = 0
      BY SubSeqEmpty
    <3> QED
      BY <1>1, <1>2, <1>5, <3>1
  <2> QED
    BY <1>1, <2>2, <2>3 DEF Reread, RereadInView, RereadInCopy
<1> QED
  BY <1>4, <1>6, <1>7 DEF IInv

-----------------------------------------------------------------------------
(* The theorems.                                                           *)

\* The first reading begins at the quote of a text, whole or cut short.
LEMMA InitEstablishes == Init => IInv
<1> SUFFICES ASSUME Init PROVE IInv
  OBVIOUS
<1>1. /\ pieces \in BoundedSeq(Spellings, MaxPieces)
      /\ text = TextOf(pieces) \/ text = Front(TextOf(pieces))
      /\ pc = "view" /\ pos = 2 /\ rawSafe = TRUE /\ decoded = << >>
      /\ buf \in {<< >>, <<"a">>} /\ first = << >> /\ reading = 1
  BY DEF Init, Start
<1>2. TextOf(pieces) \in Seq(Symbols) /\ Len(TextOf(pieces)) >= 2 /\ TextOf(pieces)[1] = Quote
  <2> DEFINE texts == [i \in DOMAIN pieces |-> pieces[i].text]
  <2>1. pieces \in Seq(Spellings)
    BY <1>1, SpellingsAssumption DEF BoundedSeq, SeqOf
  <2>2. Len(pieces) \in Nat /\ DOMAIN pieces = 1..Len(pieces)
        /\ \A i \in 1..Len(pieces) : pieces[i] \in Spellings
    BY <2>1, LenProperties, ElementOfSeq
  <2>3. \A i \in 1..Len(pieces) : pieces[i].text \in Seq(Symbols)
    BY <2>2, SpellingsAssumption
  <2>4. texts \in Seq(Seq(Symbols))
    BY <2>2, <2>3
  <2>5. FlattenSeq(texts) \in Seq(Symbols)
    BY <2>4, FlattenType
  <2>6. TextOf(pieces) = Enclosed(FlattenSeq(texts))
    BY DEF TextOf
  <2> HIDE DEF texts
  <2>7. Len(FlattenSeq(texts)) \in Nat
    BY <2>5, LenProperties
  <2>8. /\ Enclosed(FlattenSeq(texts)) \in Seq(Symbols)
        /\ Len(Enclosed(FlattenSeq(texts))) = Len(FlattenSeq(texts)) + 2
        /\ Enclosed(FlattenSeq(texts))[1] = Quote
    BY <2>5, EnclosedText
  <2> QED
    BY <2>6, <2>7, <2>8
<1>3. text \in Seq(Symbols) /\ Len(text) > 0 /\ text[1] = Quote
  <2> DEFINE t == TextOf(pieces)
  <2> HIDE DEF t
  <2>1. t \in Seq(Symbols) /\ Len(t) >= 2 /\ t[1] = Quote
    BY <1>2 DEF t
  <2>2. Len(t) \in Nat /\ \A i \in 1..Len(t) : t[i] \in Symbols
    BY <2>1, LenProperties, ElementOfSeq
  <2>3. Front(t) = SubSeq(t, 1, Len(t) - 1)
    BY DEF Front
  <2>4. 1 \in Int /\ Len(t) - 1 \in Int /\ \A i \in 1..(Len(t) - 1) : t[i] \in Symbols
    BY <2>2
  <2>5. /\ SubSeq(t, 1, Len(t) - 1) \in Seq(Symbols)
        /\ Len(SubSeq(t, 1, Len(t) - 1)) = IF 1 <= Len(t) - 1 THEN (Len(t) - 1) - 1 + 1 ELSE 0
        /\ \A i \in 1..((Len(t) - 1) - 1 + 1) : SubSeq(t, 1, Len(t) - 1)[i] = t[1 + i - 1]
    BY <2>4, SubSeqProperties
  <2>6. 1 \in 1..((Len(t) - 1) - 1 + 1) /\ 1 + 1 - 1 = 1
    BY <2>1, <2>2
  <2>7. SubSeq(t, 1, Len(t) - 1)[1] = Quote
    BY <2>1, <2>5, <2>6
  <2>8. Len(SubSeq(t, 1, Len(t) - 1)) > 0
    BY <2>1, <2>2, <2>5
  <2>9. text = t \/ text = SubSeq(t, 1, Len(t) - 1)
    BY <1>1, <2>3 DEF t
  <2> QED
    BY <2>1, <2>2, <2>5, <2>7, <2>8, <2>9
<1>4. Types
  <2>1. Len(text) \in Nat
    BY <1>3, LenProperties
  <2>2. pos \in 2..(Len(text) + 1)
    BY <1>1, <1>3, <2>1
  <2>3. buf \in Seq(Symbols) /\ << >> \in Seq(Symbols)
    <3>1. "a" \in Symbols
      BY KnownSymbols
    <3>2. <<"a">> \in Seq(Symbols)
      BY <3>1
    <3> QED
      BY <1>1, <3>2, EmptySeq
  <2> QED
    BY <1>1, <1>3, <2>2, <2>3 DEF Types
<1>5. SoFar = << >>
  <2>1. SubSeq(text, 2, 2 - 1) = << >>
    BY SubSeqEmpty
  <2> QED
    BY <1>1, <2>1 DEF SoFar
<1>6. ViewIsWritten /\ CopyIsWritten /\ RawIsWhatIsWritten /\ ~WrittenAsJSON
  BY <1>1, <1>5, BodyNone DEF ViewIsWritten, CopyIsWritten, RawIsWhatIsWritten, WrittenAsJSON
<1> QED
  BY <1>4, <1>6 DEF IInv

\* The invariant is inductive.
LEMMA Invariance == Spec => []IInv
<1>1. ASSUME IInv, [Next]_vars PROVE IInv'
  <2>1. CASE ViewByte
    BY <1>1, <2>1, ViewByteStep
  <2>2. CASE EndView
    BY <1>1, <2>2, EndViewStep
  <2>3. CASE StartOver
    BY <1>1, <2>3, StartOverStep
  <2>4. CASE CopyByte
    BY <1>1, <2>4, CopyByteStep
  <2>5. CASE EndCopy
    BY <1>1, <2>5, EndCopyStep
  <2>6. CASE ShortEscape
    BY <1>1, <2>6, ShortEscapeStep
  <2>7. CASE UnicodeEscape
    BY <1>1, <2>7, UnicodeEscapeStep
  <2>8. CASE Fail
    BY <1>1, <2>8, FailStep
  <2>9. CASE ReadAnswer
    BY <1>1, <2>9, ReadAnswerStep
  <2>10. CASE UNCHANGED vars
    BY <1>1, <2>10, NothingChanges
  <2> QED
    BY <1>1, <2>1, <2>2, <2>3, <2>4, <2>5, <2>6, <2>7, <2>8, <2>9, <2>10 DEF Next
<1> QED
  BY <1>1, InitEstablishes, PTL DEF Spec

\* Returning the row as it came when rawSafe still holds at the end of a string
\* is only a shortcut: writing the string that was read would give the bytes that
\* were read, for all spellings and strings of any length.
THEOREM RawIsOnlyAShortcut == Spec => []RawIsWhatIsWritten
<1>1. IInv => RawIsWhatIsWritten
  BY DEF IInv
<1> QED
  BY <1>1, Invariance, PTL

\* No character is in the string that strconv.AppendQuote spells in its own way.
SpelledAlike == \A i \in DOMAIN first : first[i] \notin {"BEL", "DEL"}

\* What writeJSONString wrote is read back by the next program as the string it
\* was, and never rejected; so is what strconv.AppendQuote wrote, of a string with
\* no character that it spells in its own way.
THEOREM WrittenIsReadBack == Spec => [](writer = "clean" \/ SpelledAlike => AnswerReadsBack)
<1>1. IInv => (writer = "clean" \/ SpelledAlike => AnswerReadsBack)
  BY DEF IInv, WrittenAsJSON, SpelledAlike, Reread, AnswerReadsBack
<1> QED
  BY <1>1, Invariance, PTL
-----------------------------------------------------------------------------
(* The first reading: a string is read as JSON means it, however its runes *)
(* are spelled, and a malformed one is rejected. The inductive invariant,  *)
(* next to the one above.                                                  *)

\* The text of the first k pieces.
Upto(k) == FlattenSeq(SubSeq([i \in DOMAIN pieces |-> pieces[i].text], 1, k))

\* The row spells a string, and may end within it.
Given == pieces \in Seq(Spellings) /\ ~Clash(pieces)
Arrived == text \in {TextOf(pieces), Front(TextOf(pieces))}

\* The first k pieces have been read, and mean s.
Read(k, s) ==
    /\ k \in 0..Len(pieces)
    /\ pos = 2 + Len(Upto(k))
    /\ \A i \in 1..k : pieces[i].means = s[i] /\ s[i] # Malformed

\* What has been viewed or copied is what the pieces read so far mean, but for a
\* backslash before the closing quote, after which nothing is left to read.
ViewIsMeant == pc = "view" => Read(pos - 2, SoFar)
CopyIsMeant ==
    pc = "copy" => \/ Read(Len(buf), buf)
                   \/ pos > Len(text) /\ ~WellFormed

MInv ==
    /\ Given
    /\ reading = 1 => Arrived /\ ViewIsMeant /\ CopyIsMeant /\ ReadAsMeant

-----------------------------------------------------------------------------
(* What lies ahead of the parser.                                          *)

\* The texts of the pieces.
LEMMA TextsType ==
    ASSUME Given
    PROVE  /\ Len(pieces) \in Nat
           /\ \A i \in 1..Len(pieces) : pieces[i] \in Spellings
           /\ [i \in DOMAIN pieces |-> pieces[i].text] \in Seq(Seq(Symbols))
           /\ Len([i \in DOMAIN pieces |-> pieces[i].text]) = Len(pieces)
           /\ \A i \in 1..Len(pieces) :
                 [j \in DOMAIN pieces |-> pieces[j].text][i] = pieces[i].text
<1>1. /\ Len(pieces) \in Nat /\ DOMAIN pieces = 1..Len(pieces)
      /\ \A i \in 1..Len(pieces) : pieces[i] \in Spellings
  BY LenProperties, ElementOfSeq DEF Given
<1>2. \A i \in 1..Len(pieces) : pieces[i].text \in Seq(Symbols)
  BY <1>1, SpellingsAssumption
<1> QED
  BY <1>1, <1>2

\* Before the first piece nothing has been read.
LEMMA UptoNone ==
    ASSUME Given
    PROVE  Upto(0) = << >> /\ Len(Upto(0)) = 0
<1>1. SubSeq([i \in DOMAIN pieces |-> pieces[i].text], 1, 0) = << >>
  BY SubSeqEmpty
<1> QED
  BY <1>1, FlattenNone, EmptySeq DEF Upto

\* What a row spells, between its quotes.
LEMMA TextParts ==
    ASSUME Given
    PROVE  /\ Upto(Len(pieces)) \in Seq(Symbols)
           /\ TextOf(pieces) = Enclosed(Upto(Len(pieces)))
           /\ TextOf(pieces) \in Seq(Symbols)
           /\ Len(TextOf(pieces)) = Len(Upto(Len(pieces))) + 2
           /\ TextOf(pieces)[Len(TextOf(pieces))] = Quote
           /\ \A i \in 1..Len(Upto(Len(pieces))) :
                 TextOf(pieces)[i + 1] = Upto(Len(pieces))[i]
<1> DEFINE texts == [i \in DOMAIN pieces |-> pieces[i].text]
<1>1. texts \in Seq(Seq(Symbols)) /\ Len(texts) = Len(pieces)
  BY TextsType
<1>2. SubSeq(texts, 1, Len(texts)) = texts
  BY <1>1, SubSeqFull
<1>3. Upto(Len(pieces)) = FlattenSeq(texts)
  BY <1>1, <1>2 DEF Upto
<1>4. FlattenSeq(texts) \in Seq(Symbols)
  BY <1>1, FlattenType
<1>5. TextOf(pieces) = Enclosed(Upto(Len(pieces)))
  BY <1>3 DEF TextOf
<1> HIDE DEF texts
<1> QED
  BY <1>3, <1>4, <1>5, EnclosedText

\* The text that has arrived is the row, or all of it but the closing quote.
LEMMA ArrivedText ==
    ASSUME Given, Arrived
    PROVE  /\ Len(TextOf(pieces)) \in Nat
           /\ \/ text = TextOf(pieces)
              \/ Len(text) = Len(TextOf(pieces)) - 1 /\ text # TextOf(pieces)
           /\ \A i \in 1..(Len(TextOf(pieces)) - 1) : text[i] = TextOf(pieces)[i]
<1> DEFINE w == TextOf(pieces)
<1>1. w \in Seq(Symbols) /\ Len(w) \in Nat /\ Len(w) >= 2
  <2>1. Len(Upto(Len(pieces))) \in Nat
    BY TextParts, LenProperties
  <2> QED
    BY <2>1, TextParts
<1> HIDE DEF w
<1>2. \A i \in 1..Len(w) : w[i] \in Symbols
  BY <1>1, ElementOfSeq
<1>3. 1 \in Int /\ Len(w) - 1 \in Int /\ \A i \in 1..(Len(w) - 1) : w[i] \in Symbols
  BY <1>1, <1>2
<1>4. /\ Len(SubSeq(w, 1, Len(w) - 1)) = IF 1 <= Len(w) - 1 THEN (Len(w) - 1) - 1 + 1 ELSE 0
      /\ \A i \in 1..((Len(w) - 1) - 1 + 1) : SubSeq(w, 1, Len(w) - 1)[i] = w[1 + i - 1]
  BY <1>3, SubSeqProperties
<1>5. Len(Front(w)) = Len(w) - 1
  BY <1>1, <1>4 DEF Front
<1>6. ASSUME NEW i \in 1..(Len(w) - 1) PROVE Front(w)[i] = w[i]
  <2>1. i \in 1..((Len(w) - 1) - 1 + 1) /\ 1 + i - 1 = i
    BY <1>1
  <2> QED
    BY <1>4, <2>1 DEF Front
<1>7. text = w \/ text = Front(w)
  BY DEF Arrived, w
<1>8. Len(w) # Len(w) - 1
  BY <1>1
<1>9. Front(w) # w
  BY <1>5, <1>8
<1> QED
  BY <1>1, <1>5, <1>6, <1>7, <1>9 DEF w

\* After k pieces the text of the next one stands, or the closing quote.
LEMMA Ahead ==
    ASSUME Given, Arrived, NEW k \in 0..Len(pieces), NEW p, p = 2 + Len(Upto(k))
    PROVE  /\ p \in Nat /\ p >= 2 /\ Len(text) \in Nat
           /\ k = Len(pieces) =>
                 \/ text = TextOf(pieces) /\ p = Len(text) /\ text[p] = Quote
                 \/ text # TextOf(pieces) /\ p = Len(text) + 1
           /\ k < Len(pieces) =>
                 /\ pieces[k + 1] \in Spellings /\ pieces[k + 1].text \in Seq(Symbols)
                 /\ p + Len(pieces[k + 1].text) <= Len(text) + 1
                 /\ p + Len(pieces[k + 1].text) = 2 + Len(Upto(k + 1))
                 /\ \A i \in 1..Len(pieces[k + 1].text) :
                       text[p + i - 1] = pieces[k + 1].text[i]
<1> DEFINE texts == [i \in DOMAIN pieces |-> pieces[i].text]
           w == TextOf(pieces)
           all == Upto(Len(pieces))
           A == Upto(k)
           E == pieces[k + 1].text
<1>1. /\ Len(pieces) \in Nat /\ texts \in Seq(Seq(Symbols)) /\ Len(texts) = Len(pieces)
      /\ \A i \in 1..Len(pieces) : texts[i] = pieces[i].text /\ pieces[i] \in Spellings
  BY TextsType
<1>2. /\ all \in Seq(Symbols) /\ w \in Seq(Symbols) /\ Len(w) = Len(all) + 2
      /\ w[Len(w)] = Quote /\ \A i \in 1..Len(all) : w[i + 1] = all[i]
  BY TextParts
<1>3. /\ Len(w) \in Nat /\ (text = w \/ (Len(text) = Len(w) - 1 /\ text # w))
      /\ \A i \in 1..(Len(w) - 1) : text[i] = w[i]
  BY ArrivedText
<1>4. A = FlattenSeq(SubSeq(texts, 1, k)) /\ all = FlattenSeq(texts)
  <2>1. SubSeq(texts, 1, Len(texts)) = texts
    BY <1>1, SubSeqFull
  <2> QED
    BY <1>1, <2>1 DEF Upto
<1>5. A \in Seq(Symbols) /\ Len(A) \in Nat /\ Len(all) \in Nat
  <2>1. SubSeq(texts, 1, k) \in Seq(Seq(Symbols))
    BY <1>1, BeginningOf
  <2>2. A \in Seq(Symbols)
    BY <1>4, <2>1, FlattenType
  <2> QED
    BY <1>2, <2>2, LenProperties
<1>6. p \in Nat /\ p >= 2 /\ Len(text) \in Nat /\ p = 2 + Len(A)
  BY <1>2, <1>3, <1>5
<1>7. ASSUME k = Len(pieces)
      PROVE  \/ text = w /\ p = Len(text) /\ text[p] = Quote
             \/ text # w /\ p = Len(text) + 1
  <2>1. p = Len(w)
    BY <1>2, <1>5, <1>6, <1>7
  <2> HIDE DEF w
  <2> QED
    BY <1>2, <1>3, <2>1
<1>8. ASSUME k < Len(pieces)
      PROVE  /\ pieces[k + 1] \in Spellings /\ E \in Seq(Symbols)
             /\ p + Len(E) <= Len(text) + 1
             /\ p + Len(E) = 2 + Len(Upto(k + 1))
             /\ \A i \in 1..Len(E) : text[p + i - 1] = E[i]
  <2>1. k + 1 \in 1..Len(pieces) /\ texts[k + 1] = E /\ pieces[k + 1] \in Spellings
    <3>1. k + 1 \in 1..Len(pieces)
      BY <1>1, <1>8
    <3> HIDE DEF texts
    <3> QED
      BY <1>1, <3>1
  <2>2. k \in 0..Len(texts) /\ k < Len(texts)
    BY <1>1, <1>8
  <2> HIDE DEF texts
  <2>3. /\ texts[k + 1] \in Seq(Symbols)
        /\ FlattenSeq(SubSeq(texts, 1, k + 1)) = FlattenSeq(SubSeq(texts, 1, k)) \o texts[k + 1]
        /\ Len(FlattenSeq(SubSeq(texts, 1, k))) + Len(texts[k + 1]) <= Len(FlattenSeq(texts))
        /\ \A i \in 1..Len(texts[k + 1]) :
              FlattenSeq(texts)[Len(FlattenSeq(SubSeq(texts, 1, k))) + i] = texts[k + 1][i]
    BY <1>1, <2>2, FlattenNext
  <2>4. Upto(k + 1) = FlattenSeq(SubSeq(texts, 1, k + 1))
    BY DEF Upto, texts
  <2> HIDE DEF A, E, all, w
  <2>5. /\ E \in Seq(Symbols) /\ Upto(k + 1) = A \o E /\ Len(A) + Len(E) <= Len(all)
        /\ \A i \in 1..Len(E) : all[Len(A) + i] = E[i]
    BY <1>4, <2>1, <2>3, <2>4
  <2>6. Len(Upto(k + 1)) = Len(A) + Len(E) /\ Len(E) \in Nat
    BY <1>5, <2>5, ConcatProperties, LenProperties
  <2>7. p + Len(E) <= Len(text) + 1 /\ p + Len(E) = 2 + Len(Upto(k + 1))
    BY <1>2, <1>3, <1>5, <1>6, <2>5, <2>6, SMTT(30)
  <2>8. ASSUME NEW i \in 1..Len(E) PROVE text[p + i - 1] = E[i]
    <3> DEFINE n == Len(A) + i
    <3>1. n \in 1..Len(all) /\ n + 1 \in 1..(Len(w) - 1) /\ p + i - 1 = n + 1
      <4>1. i \in Nat /\ 1 <= i /\ i <= Len(E) /\ Len(A) + Len(E) <= Len(all)
        BY <2>5, <2>6
      <4>2. \A a, e, b \in Nat : i <= e /\ a + e <= b => a + i \in 1..b
        BY <4>1
      <4>3. n \in 1..Len(all)
        BY <1>5, <2>6, <4>1, <4>2
      <4>4. p + i - 1 = n + 1
        BY <1>5, <1>6, <4>1
      <4> HIDE DEF n
      <4> QED
        BY <1>2, <1>5, <4>3, <4>4
    <3>2. all[n] = E[i]
      BY <2>5
    <3> HIDE DEF n
    <3>3. text[n + 1] = w[n + 1] /\ w[n + 1] = all[n]
      BY <1>2, <1>3, <3>1
    <3> QED
      BY <3>1, <3>2, <3>3
  <2> QED
    BY <2>1, <2>5, <2>7, <2>8 DEF E
<1> HIDE DEF A, E, all, w, texts
<1> QED
  BY <1>6, <1>7, <1>8 DEF w, E

\* Which symbols a piece may be made of.
LEMMA Kinds ==
    ASSUME NEW piece \in Spellings
    PROVE  PlainPiece(piece) \/ ShortPiece(piece) \/ DigitsPiece(piece) \/ PairPiece(piece)
              \/ MalformedPiece(piece)
<1> QED
  BY MeaningAssumption

\* No piece begins with a quote, and only a plain one begins with a symbol that
\* is neither a backslash nor a control character.
LEMMA Begins ==
    ASSUME NEW piece \in Spellings
    PROVE  /\ piece.text \in Seq(Symbols) /\ Len(piece.text) \in Nat /\ Len(piece.text) > 0
           /\ piece.text[1] # Quote
           /\ PlainPiece(piece) =>
                 /\ Len(piece.text) = 1 /\ piece.text[1] = piece.means
                 /\ piece.means \in Symbols /\ piece.means # Malformed
                 /\ piece.text[1] \notin {Quote, Backslash} \union Control
           /\ ~PlainPiece(piece) => piece.text[1] \in {Backslash} \union Control
           /\ piece.text[1] \in Control => piece.means = Malformed
<1>1. piece.text \in Seq(Symbols) /\ Len(piece.text) \in Nat
  BY SpellingsAssumption, LenProperties
<1>2. /\ "LF" # Quote /\ "BEL" # Quote /\ "LF" # Backslash /\ "BEL" # Backslash
      /\ Backslash # Quote
  BY KnownSymbols
<1>3. CASE PlainPiece(piece)
  <2>1. piece.text = <<piece.means>> /\ piece.means \in Symbols \ {Quote, Backslash, "LF", "BEL"}
    BY <1>3 DEF PlainPiece
  <2>2. Len(piece.text) = 1 /\ piece.text[1] = piece.means
    BY <2>1
  <2>3. piece.means \in Symbols /\ piece.means # Malformed
    BY <2>1, MeaningAssumption
  <2>4. piece.means \notin {Quote, Backslash} \union Control
    BY <2>1 DEF Control
  <2> QED
    BY <1>1, <1>3, <2>2, <2>3, <2>4
<1>4. CASE ~PlainPiece(piece)
  <2>1. /\ Len(piece.text) > 0 /\ piece.text[1] \in {Backslash} \union Control
        /\ piece.text[1] \in Control => piece.means = Malformed
    <3>1. CASE ShortPiece(piece)
      <4>1. \E c : piece.text = <<Backslash, c>>
        BY <3>1 DEF ShortPiece
      <4> QED
        BY <1>2, <4>1 DEF Control
    <3>2. CASE DigitsPiece(piece)
      <4>1. \E g : piece.text = <<Backslash, "u", g>>
        BY <3>2 DEF DigitsPiece
      <4> QED
        BY <1>2, <4>1 DEF Control
    <3>3. CASE PairPiece(piece)
      BY <1>2, <3>3 DEF PairPiece, Control
    <3>4. CASE MalformedPiece(piece)
      <4>1. \/ piece.text = <<"LF">> \/ piece.text = <<"BEL">> \/ piece.text = <<Backslash>>
            \/ \E c : piece.text = <<Backslash, c>>
            \/ \E g : piece.text = <<Backslash, "u", g>>
        BY <3>4 DEF MalformedPiece
      <4>2. piece.means = Malformed
        BY <3>4 DEF MalformedPiece
      <4> QED
        BY <4>1, <4>2, SMTT(30) DEF Control
    <3> QED
      BY <1>4, <3>1, <3>2, <3>3, <3>4, Kinds
  <2> QED
    BY <1>1, <1>2, <1>4, <2>1 DEF Control
<1> QED
  BY <1>3, <1>4

-----------------------------------------------------------------------------
(* One step of the parser.                                                 *)

\* Where the first piece that is not a plain one begins, a view ends.
LEMMA InView ==
    ASSUME Types, MInv, reading = 1, pc = "view", NEW k, k = pos - 2
    PROVE  /\ k \in 0..Len(pieces) /\ pos = 2 + Len(Upto(k)) /\ Given /\ Arrived
           /\ \A i \in 1..k : pieces[i].means = SoFar[i] /\ SoFar[i] # Malformed
<1> QED
  BY DEF MInv, ViewIsMeant, Read

\* As long as anything is left to read, the parser stands between two pieces.
LEMMA InCopy ==
    ASSUME Types, MInv, reading = 1, pc = "copy", pos <= Len(text) \/ WellFormed,
           NEW k, k = Len(buf)
    PROVE  /\ k \in 0..Len(pieces) /\ pos = 2 + Len(Upto(k)) /\ Given /\ Arrived
           /\ \A i \in 1..k : pieces[i].means = buf[i] /\ buf[i] # Malformed
<1>1. Given /\ Arrived /\ CopyIsMeant
  BY DEF MInv
<1>2. ~(pos > Len(text) /\ ~WellFormed)
  <2>1. Len(text) \in Nat /\ pos \in Nat
    BY LenProperties DEF Types
  <2> QED
    BY <2>1
<1>3. Read(Len(buf), buf)
  BY <1>1, <1>2 DEF CopyIsMeant
<1> QED
  BY <1>1, <1>3 DEF Read

\* Nothing is claimed of the second reading.
LEMMA OtherReading ==
    ASSUME MInv, pieces' = pieces, reading' # 1
    PROVE  MInv'
<1>1. Given'
  BY DEF MInv, Given
<1> QED
  BY <1>1 DEF MInv

\* What has been viewed before stays.
LEMMA ViewedStays ==
    ASSUME Types, pos <= Len(text), NEW s, s = Append(SoFar, text[pos])
    PROVE  /\ pos - 1 \in Nat /\ s[pos - 1] = text[pos]
           /\ \A i \in 1..(pos - 2) : s[i] = SoFar[i]
<1>1. /\ Len(text) \in Nat /\ pos \in Nat /\ pos >= 2 /\ text[pos] \in Symbols
      /\ SoFar \in Seq(Symbols) /\ Len(SoFar) = pos - 2
  BY SoFarGrows
<1> HIDE DEF SoFar
<1>2. s[Len(SoFar) + 1] = text[pos] /\ \A i \in 1..Len(SoFar) : s[i] = SoFar[i]
  BY <1>1, AppendProperties
<1>3. Len(SoFar) + 1 = pos - 1
  BY <1>1
<1> QED
  BY <1>1, <1>2, <1>3

\* A plain piece is viewed.
LEMMA ViewPieceStep ==
    ASSUME IInv, MInv, reading = 1, ViewByte
    PROVE  MInv'
<1>1. /\ pc = "view" /\ pc' = "view" /\ text' = text /\ reading' = reading /\ pieces' = pieces
      /\ pos' = pos + 1 /\ pos <= Len(text) /\ text[pos] \notin {Quote, Backslash} \union Control
  BY DEF ViewByte, ParserStep, AtOrdinary
<1>2. Types
  BY DEF IInv
<1>3. /\ Len(text) \in Nat /\ pos \in Nat /\ pos >= 2
      /\ SubSeq(text, 2, pos) = Append(SoFar, text[pos])
  BY <1>1, <1>2, SoFarGrows
<1> DEFINE k == pos - 2
<1>4. /\ k \in 0..Len(pieces) /\ pos = 2 + Len(Upto(k)) /\ Given /\ Arrived
      /\ \A i \in 1..k : pieces[i].means = SoFar[i] /\ SoFar[i] # Malformed
  BY <1>1, <1>2, InView
<1> HIDE DEF k
<1>5. k < Len(pieces)
  <2>1. k # Len(pieces)
    <3>1. k = Len(pieces) => text[pos] = Quote \/ pos = Len(text) + 1
      BY <1>4, Ahead
    <3> QED
      BY <1>1, <1>3, <3>1
  <2>2. Len(pieces) \in Nat
    BY <1>4, LenProperties DEF Given
  <2> QED
    BY <1>4, <2>1, <2>2
<1> DEFINE piece == pieces[k + 1]
<1>6. /\ piece \in Spellings /\ pos + Len(piece.text) = 2 + Len(Upto(k + 1))
      /\ \A i \in 1..Len(piece.text) : text[pos + i - 1] = piece.text[i]
  BY <1>4, <1>5, Ahead
<1> HIDE DEF piece
<1>7. text[pos] = piece.text[1]
  <2>1. 1 \in 1..Len(piece.text) /\ pos + 1 - 1 = pos
    BY <1>3, <1>6, Begins
  <2> QED
    BY <1>6, <2>1
<1>8. Len(piece.text) = 1 /\ text[pos] = piece.means /\ piece.means # Malformed
  <2>1. PlainPiece(piece)
    BY <1>1, <1>6, <1>7, Begins
  <2> QED
    BY <1>6, <1>7, <2>1, Begins
<1>9. SoFar' = Append(SoFar, text[pos])
  <2>1. (pos + 1) - 1 = pos
    BY <1>3
  <2> QED
    BY <1>1, <1>3, <2>1 DEF SoFar
<1>10. Read(pos - 2, SoFar)'
  <2>1. pos' - 2 = k + 1 /\ k + 1 = pos - 1 /\ k = pos - 2
    BY <1>1, <1>3 DEF k
  <2>2. k + 1 \in 0..Len(pieces) /\ pos' = 2 + Len(Upto(k + 1))
    <3>1. Len(pieces) \in Nat
      BY <1>4, LenProperties DEF Given
    <3> QED
      BY <1>1, <1>4, <1>5, <1>6, <1>8, <3>1
  <2>3. SoFar'[k + 1] = text[pos] /\ \A i \in 1..k : SoFar'[i] = SoFar[i]
    BY <1>1, <1>2, <1>9, <2>1, ViewedStays
  <2>4. ASSUME NEW i \in 1..(k + 1) PROVE pieces[i].means = SoFar'[i] /\ SoFar'[i] # Malformed
    <3>1. CASE i = k + 1
      BY <1>8, <2>3, <3>1 DEF piece
    <3>2. CASE i # k + 1
      <4>1. i \in 1..k
        BY <1>4, <3>2
      <4> QED
        BY <1>4, <2>3, <4>1
    <3> QED
      BY <3>1, <3>2
  <2> QED
    BY <1>1, <2>1, <2>2, <2>4 DEF Read, Upto
<1>11. Given' /\ Arrived'
  BY <1>1, <1>4 DEF Given, Arrived
<1> QED
  BY <1>1, <1>10, <1>11 DEF MInv, ViewIsMeant, CopyIsMeant, ReadAsMeant

\* A number up to n is below n unless it is n.
LEMMA BelowIt ==
    ASSUME NEW n \in Nat, NEW k \in 0..n, k # n
    PROVE  k < n
<1> QED
  OBVIOUS

\* The closing quote, k pieces having been read that mean s.
LEMMA EndPiecesStep ==
    ASSUME Types, MInv, reading = 1, At(Quote), pc' = "done",
           NEW k, NEW s \in Seq(Symbols), decoded' = s, Len(s) = k, Read(k, s),
           UNCHANGED <<pieces, text, reading>>
    PROVE  MInv'
<1>1. /\ text' = text /\ reading' = reading /\ pieces' = pieces
      /\ pos <= Len(text) /\ text[pos] = Quote
  BY DEF At
<1>2. Len(text) \in Nat /\ pos \in Nat /\ Len(pieces) \in Nat
  BY LenProperties DEF Types, MInv, Given
<1> DEFINE Meant == \A i \in 1..k : pieces[i].means = s[i] /\ s[i] # Malformed
<1>3. /\ k \in 0..Len(pieces) /\ pos = 2 + Len(Upto(k)) /\ Given /\ Arrived
      /\ Meant
  BY DEF Read, MInv
<1> HIDE DEF Meant
<1>4. k = Len(pieces)
  <2> SUFFICES ASSUME k # Len(pieces) PROVE FALSE
    OBVIOUS
  <2> DEFINE piece == pieces[k + 1]
  <2>1. k < Len(pieces)
    BY <1>2, <1>3, BelowIt, Zenon
  <2>2. /\ piece \in Spellings
        /\ \A i \in 1..Len(piece.text) : text[pos + i - 1] = piece.text[i]
    BY <1>3, <2>1, Ahead
  <2> HIDE DEF piece
  <2>3. Len(piece.text) \in Nat /\ Len(piece.text) > 0 /\ piece.text[1] # Quote
    BY <2>2, Begins
  <2>4. 1 \in 1..Len(piece.text) /\ pos + 1 - 1 = pos
    BY <1>2, <2>3
  <2> QED
    BY <1>1, <2>2, <2>3, <2>4
<1>5. text = TextOf(pieces)
  <2>1. text = TextOf(pieces) \/ pos = Len(text) + 1
    BY <1>4, <1>3, Ahead
  <2> QED
    BY <1>1, <1>2, <2>1
<1>6. s = MeaningOf(pieces)
  <2> DEFINE m == MeaningOf(pieces)
  <2>1. /\ \A i \in 1..Len(pieces) : m[i] = pieces[i].means /\ pieces[i].means = s[i]
        /\ m = [i \in 1..Len(pieces) |-> pieces[i].means]
    <3>1. DOMAIN pieces = 1..Len(pieces)
      BY LenProperties DEF MInv, Given
    <3> QED
      BY <1>2, <1>4, <1>3, <3>1 DEF MeaningOf, Meant
  <2>2. \A i \in 1..Len(pieces) : s[i] \in Symbols
    BY <1>4, ElementOfSeq
  <2>3. m \in Seq(Symbols) /\ Len(m) = Len(pieces)
    BY <1>2, <2>1, <2>2
  <2> HIDE DEF m
  <2>4. s = m
    BY <1>4, <2>1, <2>3, SeqEqual
  <2> QED
    BY <2>4 DEF m
<1>7. WellFormed
  BY <1>2, <1>4, <1>5, <1>3 DEF WellFormed, Meant
<1>8. ReadAsMeant'
  <2>1. (WellFormed /\ decoded = MeaningOf(pieces))'
    BY <1>1, <1>6, <1>7 DEF WellFormed
  <2> QED
    BY <2>1 DEF ReadAsMeant
<1>9. Given' /\ Arrived'
  BY <1>1, <1>3 DEF Given, Arrived
<1> QED
  BY <1>8, <1>9 DEF MInv, ViewIsMeant, CopyIsMeant

\* The closing quote of a string that needs no copy, and of one that was copied.
LEMMA EndViewPieces ==
    ASSUME IInv, MInv, reading = 1, EndView
    PROVE  MInv'
<1>1. /\ pc = "view" /\ At(Quote) /\ pc' = "done" /\ decoded' = SoFar
      /\ UNCHANGED <<pieces, text, reading>> /\ pos <= Len(text)
  BY DEF EndView, ParserStep, SoFar, At
<1>2. Types
  BY DEF IInv
<1>3. SoFar \in Seq(Symbols) /\ Len(SoFar) = pos - 2
  BY <1>1, <1>2, SoFarGrows
<1> DEFINE k == pos - 2
<1>4. Read(k, SoFar) /\ Len(SoFar) = k
  BY <1>1, <1>3 DEF MInv, ViewIsMeant
<1> HIDE DEF k, SoFar
<1> QED
  BY <1>1, <1>2, <1>3, <1>4, EndPiecesStep

LEMMA EndCopyPieces ==
    ASSUME IInv, MInv, reading = 1, EndCopy
    PROVE  MInv'
<1>1. /\ pc = "copy" /\ At(Quote) /\ pc' = "done" /\ decoded' = buf
      /\ UNCHANGED <<pieces, text, reading>> /\ pos <= Len(text)
  BY DEF EndCopy, ParserStep, At
<1>2. Types /\ buf \in Seq(Symbols)
  BY DEF IInv, Types
<1> DEFINE k == Len(buf)
<1>3. Read(k, buf)
  BY <1>1, <1>2, InCopy DEF Read
<1>4. Len(buf) = k
  OBVIOUS
<1> HIDE DEF k
<1> QED
  BY <1>1, <1>2, <1>3, <1>4, EndPiecesStep

\* The first backslash.
LEMMA StartOverPieces ==
    ASSUME IInv, MInv, reading = 1, StartOver
    PROVE  MInv'
<1>1. /\ pc = "view" /\ pc' = "copy" /\ pos' = 2 /\ buf' = << >>
      /\ text' = text /\ reading' = reading /\ pieces' = pieces
  BY DEF StartOver, ParserStep
<1>2. Given /\ Arrived
  BY DEF MInv
<1>3. Len(pieces) \in Nat /\ Len(Upto(0)) = 0
  BY <1>2, UptoNone, LenProperties DEF Given
<1>4. Read(Len(buf), buf)'
  <2>1. Len(<< >>) = 0 /\ 0 \in 0..Len(pieces) /\ 2 = 2 + Len(Upto(0)) /\ 1..0 = {}
    BY <1>3
  <2> QED
    BY <1>1, <2>1 DEF Read, Upto
<1>5. Given' /\ Arrived'
  BY <1>1, <1>2 DEF Given, Arrived
<1> QED
  BY <1>1, <1>4, <1>5 DEF MInv, ViewIsMeant, CopyIsMeant, ReadAsMeant

\* The next piece has been copied: it is n symbols long and means c.  Or nothing
\* is left of a text that is not well-formed.
LEMMA CopyPieceStep ==
    ASSUME Types, MInv, reading = 1, pc = "copy", pc' = "copy", pos <= Len(text),
           NEW c \in Symbols, buf' = Append(buf, c), NEW n \in Nat, pos' = pos + n,
           \/ /\ Len(buf) < Len(pieces)
              /\ pieces[Len(buf) + 1].means = c /\ Len(pieces[Len(buf) + 1].text) = n
           \/ pos + n > Len(text) /\ ~WellFormed,
           UNCHANGED <<pieces, text, reading>>
    PROVE  MInv'
<1>1. text' = text /\ reading' = reading /\ pieces' = pieces
  OBVIOUS
<1> DEFINE k == Len(buf)
<1>2. /\ k \in 0..Len(pieces) /\ pos = 2 + Len(Upto(k)) /\ Given /\ Arrived
      /\ \A i \in 1..k : pieces[i].means = buf[i] /\ buf[i] # Malformed
  BY InCopy
<1>3. /\ Len(pieces) \in Nat /\ buf' \in Seq(Symbols) /\ Len(buf') = k + 1 /\ buf'[k + 1] = c
      /\ \A i \in 1..k : buf'[i] = buf[i]
  BY <1>2, AppendProperties, LenProperties DEF Types, Given
<1>4. c # Malformed
  BY MeaningAssumption
<1>5. ASSUME k < Len(pieces), pieces[k + 1].means = c, Len(pieces[k + 1].text) = n
      PROVE  CopyIsMeant'
  <2> HIDE DEF k
  <2>1. pos + n = 2 + Len(Upto(k + 1))
    BY <1>2, <1>5, Ahead
  <2>2. k + 1 \in 0..Len(pieces)
    BY <1>2, <1>3, <1>5
  <2>3. ASSUME NEW i \in 1..(k + 1) PROVE pieces[i].means = buf'[i] /\ buf'[i] # Malformed
    <3>1. CASE i = k + 1
      BY <1>3, <1>4, <1>5, <3>1
    <3>2. CASE i # k + 1
      <4>1. i \in 1..k
        BY <1>2, <3>2
      <4> QED
        BY <1>2, <1>3, <4>1
    <3> QED
      BY <3>1, <3>2
  <2>4. Read(Len(buf), buf)'
    BY <1>1, <1>3, <2>1, <2>2, <2>3 DEF Read, Upto
  <2> QED
    BY <2>4 DEF CopyIsMeant
<1>6. ASSUME pos + n > Len(text), ~WellFormed
      PROVE  CopyIsMeant'
  <2>1. (pos > Len(text) /\ ~WellFormed)'
    BY <1>1, <1>6 DEF WellFormed
  <2> QED
    BY <2>1 DEF CopyIsMeant
<1>7. CopyIsMeant'
  BY <1>5, <1>6
<1>8. Given' /\ Arrived'
  BY <1>1, <1>2 DEF Given, Arrived
<1> QED
  BY <1>7, <1>8 DEF MInv, ViewIsMeant, ReadAsMeant

\* A symbol that is not the closing quote begins the next piece.
LEMMA NextPiece ==
    ASSUME IInv, MInv, reading = 1, pc = "copy", pos <= Len(text), text[pos] # Quote,
           NEW k, k = Len(buf), NEW piece, piece = pieces[k + 1]
    PROVE  /\ k < Len(pieces) /\ piece \in Spellings
           /\ Len(piece.text) \in Nat /\ Len(piece.text) > 0
           /\ pos \in Nat /\ pos >= 2 /\ Len(text) \in Nat
           /\ pos + Len(piece.text) <= Len(text) + 1
           /\ \A i \in 1..Len(piece.text) : text[pos + i - 1] = piece.text[i]
           /\ text[pos] = piece.text[1]
<1>1. Types
  BY DEF IInv
<1>2. k \in 0..Len(pieces) /\ pos = 2 + Len(Upto(k)) /\ Given /\ Arrived
  BY <1>1, InCopy
<1>3. pos \in Nat /\ pos >= 2 /\ Len(text) \in Nat /\ Len(pieces) \in Nat
  BY <1>2, Ahead, LenProperties DEF Given
<1>4. k < Len(pieces)
  <2>1. k # Len(pieces)
    <3>1. k = Len(pieces) => text[pos] = Quote \/ pos = Len(text) + 1
      BY <1>2, Ahead
    <3> QED
      BY <1>3, <3>1
  <2> QED
    BY <1>2, <1>3, <2>1, BelowIt, Zenon
<1>5. /\ piece \in Spellings
      /\ pos + Len(piece.text) <= Len(text) + 1
      /\ \A i \in 1..Len(piece.text) : text[pos + i - 1] = piece.text[i]
  <2>1. /\ pieces[k + 1] \in Spellings
        /\ pos + Len(pieces[k + 1].text) <= Len(text) + 1
        /\ \A i \in 1..Len(pieces[k + 1].text) : text[pos + i - 1] = pieces[k + 1].text[i]
    BY <1>2, <1>4, Ahead, ZenonT(30)
  <2> QED
    BY <2>1, Zenon
<1>6. Len(piece.text) \in Nat /\ Len(piece.text) > 0
  BY <1>5, Begins
<1>7. text[pos] = piece.text[1]
  <2>1. 1 \in 1..Len(piece.text) /\ pos + 1 - 1 = pos
    BY <1>3, <1>6
  <2> QED
    BY <1>5, <2>1
<1> QED
  BY <1>3, <1>4, <1>5, <1>6, <1>7

\* A plain piece is copied.
LEMMA CopyBytePieces ==
    ASSUME IInv, MInv, reading = 1, CopyByte
    PROVE  MInv'
<1>1. /\ pc = "copy" /\ pc' = "copy" /\ pos' = pos + 1 /\ pos <= Len(text)
      /\ text[pos] \notin {Quote, Backslash} \union Control
      /\ buf' = Append(buf, text[pos]) /\ UNCHANGED <<pieces, text, reading>>
  BY DEF CopyByte, ParserStep, AtOrdinary
<1>2. Types
  BY DEF IInv
<1> DEFINE piece == pieces[Len(buf) + 1]
<1>3. text[pos] # Quote
  BY <1>1
<1>4. Len(buf) < Len(pieces) /\ piece \in Spellings /\ text[pos] = piece.text[1]
  BY <1>1, <1>3, NextPiece
<1> HIDE DEF piece
<1>5. PlainPiece(piece)
  BY <1>1, <1>4, Begins
<1>6. Len(piece.text) = 1 /\ text[pos] = piece.means /\ text[pos] \in Symbols
  BY <1>4, <1>5, Begins
<1>7. pieces[Len(buf) + 1].means = text[pos] /\ Len(pieces[Len(buf) + 1].text) = 1 /\ 1 \in Nat
  BY <1>6 DEF piece
<1> HIDE DEF MInv, Types
<1> QED
  BY <1>1, <1>2, <1>4, <1>6, <1>7, CopyPieceStep

\* What a backslash that is not the last symbol of the text may begin.
LEMMA AtBackslash ==
    ASSUME Given, Arrived, NEW k \in 0..Len(pieces), NEW p, p = 2 + Len(Upto(k)),
           p < Len(text), text[p] = Backslash
    PROVE  /\ k < Len(pieces) /\ pieces[k + 1] \in Spellings
           /\ p \in Nat /\ p >= 2 /\ Len(text) \in Nat
           /\ p + Len(pieces[k + 1].text) <= Len(text) + 1
           /\ p + Len(pieces[k + 1].text) = 2 + Len(Upto(k + 1))
           /\ \A i \in 1..Len(pieces[k + 1].text) : text[p + i - 1] = pieces[k + 1].text[i]
           /\ \/ ShortPiece(pieces[k + 1]) /\ pieces[k + 1].text = <<Backslash, text[p + 1]>>
              \/ DigitsPiece(pieces[k + 1])
                    /\ p + 2 <= Len(text) /\ pieces[k + 1].text = <<Backslash, "u", text[p + 2]>>
                    /\ text[p + 1] = "u"
              \/ PairPiece(pieces[k + 1])
              \/ /\ pieces[k + 1].means = Malformed
                 /\ \/ text[p + 1] = Quote /\ p + 1 = Len(text)
                    \/ text[p + 1] \notin {Quote, Backslash, "/", "n", "u"}
                    \/ /\ text[p + 1] = "u" /\ p + 2 <= Len(text)
                       /\ text[p + 2] \notin DOMAIN Digits
                       /\ pieces[k + 1].text = <<Backslash, "u", text[p + 2]>>
<1> DEFINE piece == pieces[k + 1]
<1>1. p \in Nat /\ p >= 2 /\ Len(text) \in Nat /\ Len(pieces) \in Nat
  BY Ahead, LenProperties DEF Given
<1>2. Backslash # Quote /\ "LF" # Backslash /\ "BEL" # Backslash
  BY KnownSymbols
<1>3. k < Len(pieces)
  <2>1. k # Len(pieces)
    <3>1. k = Len(pieces) => text[p] = Quote \/ p = Len(text) + 1
      BY Ahead
    <3> QED
      BY <1>1, <1>2, <3>1
  <2> QED
    BY <1>1, <2>1, BelowIt, Zenon
<1>4. /\ piece \in Spellings
      /\ p + Len(piece.text) <= Len(text) + 1
      /\ p + Len(piece.text) = 2 + Len(Upto(k + 1))
      /\ \A i \in 1..Len(piece.text) : text[p + i - 1] = piece.text[i]
  BY <1>3, Ahead
<1>5. /\ Len(piece.text) \in Nat /\ Len(piece.text) > 0
      /\ PlainPiece(piece) => piece.text[1] # Backslash
  BY <1>4, Begins
<1> HIDE DEF piece
<1>6. p + 1 - 1 = p /\ p + 2 - 1 = p + 1 /\ p + 3 - 1 = p + 2
  BY <1>1
<1>7. text[p] = piece.text[1]
  <2>1. 1 \in 1..Len(piece.text)
    BY <1>5
  <2> QED
    BY <1>4, <1>6, <2>1
<1>8. \A a, b : piece.text = <<a, b>> => b = text[p + 1]
  <2> SUFFICES ASSUME NEW a, NEW b, piece.text = <<a, b>> PROVE b = text[p + 1]
    OBVIOUS
  <2>1. Len(piece.text) = 2 /\ piece.text[2] = b
    OBVIOUS
  <2> QED
    BY <1>4, <1>6, <2>1
<1>9. \A a, b, c : piece.text = <<a, b, c>> =>
                       b = text[p + 1] /\ c = text[p + 2] /\ p + 2 <= Len(text)
  <2> SUFFICES ASSUME NEW a, NEW b, NEW c, piece.text = <<a, b, c>>
               PROVE  b = text[p + 1] /\ c = text[p + 2] /\ p + 2 <= Len(text)
    OBVIOUS
  <2>1. Len(piece.text) = 3 /\ piece.text[2] = b /\ piece.text[3] = c
    OBVIOUS
  <2>2. p + 2 <= Len(text)
    BY <1>1, <1>4, <2>1
  <2> QED
    BY <1>4, <1>6, <2>1, <2>2
<1>10. ~PlainPiece(piece)
  BY <1>5, <1>7
<1> DEFINE Cases ==
             \/ ShortPiece(piece) /\ piece.text = <<Backslash, text[p + 1]>>
             \/ DigitsPiece(piece)
                    /\ p + 2 <= Len(text) /\ piece.text = <<Backslash, "u", text[p + 2]>>
                    /\ text[p + 1] = "u"
             \/ PairPiece(piece)
             \/ /\ piece.means = Malformed
                /\ \/ text[p + 1] = Quote /\ p + 1 = Len(text)
                   \/ text[p + 1] \notin {Quote, Backslash, "/", "n", "u"}
                   \/ /\ text[p + 1] = "u" /\ p + 2 <= Len(text)
                      /\ text[p + 2] \notin DOMAIN Digits
                      /\ piece.text = <<Backslash, "u", text[p + 2]>>
<1>11. ASSUME ShortPiece(piece) PROVE Cases
  <2>1. PICK c : piece.text = <<Backslash, c>>
    BY <1>11 DEF ShortPiece
  <2> QED
    BY <1>8, <1>11, <2>1
<1>12. ASSUME DigitsPiece(piece) PROVE Cases
  <2>1. PICK g : piece.text = <<Backslash, "u", g>>
    BY <1>12 DEF DigitsPiece
  <2> QED
    BY <1>9, <1>12, <2>1
<1>13. ASSUME MalformedPiece(piece) PROVE Cases
  <2>1. piece.means = Malformed
    BY <1>13 DEF MalformedPiece
  <2>2. ASSUME piece.text = <<Backslash>>
        PROVE  text[p + 1] = Quote /\ p + 1 = Len(text)
    <3>1. Len(piece.text) = 1
      BY <2>2
    <3>2. p + 1 = 2 + Len(Upto(k + 1)) /\ k + 1 \in 1..Len(pieces) /\ k + 1 \in 0..Len(pieces)
      BY <1>1, <1>3, <1>4, <3>1
    <3>3. k + 1 = Len(pieces)
      <4>1. ~(k + 1 \in 1..(Len(pieces) - 1))
        BY <2>2 DEF Given, Clash, piece
      <4> QED
        BY <1>1, <3>2, <4>1
    <3>4. (text[p + 1] = Quote /\ p + 1 = Len(text)) \/ p + 1 = Len(text) + 1
      BY <3>2, <3>3, Ahead
    <3> QED
      BY <1>1, <3>4
  <2>3. ASSUME NEW c \in Symbols \ {Quote, Backslash, "/", "n", "u"},
               piece.text = <<Backslash, c>>
        PROVE  text[p + 1] \notin {Quote, Backslash, "/", "n", "u"}
    BY <1>8, <2>3
  <2>4. ASSUME NEW g \in Symbols \ DOMAIN Digits, piece.text = <<Backslash, "u", g>>
        PROVE  Cases
    BY <1>9, <2>1, <2>4
  <2>5. piece.text # <<"LF">> /\ piece.text # <<"BEL">>
    BY <1>2, <1>7
  <2>6. \/ piece.text = <<Backslash>>
        \/ \E c \in Symbols \ {Quote, Backslash, "/", "n", "u"} : piece.text = <<Backslash, c>>
        \/ \E g \in Symbols \ DOMAIN Digits : piece.text = <<Backslash, "u", g>>
    BY <1>13, <2>5 DEF MalformedPiece
  <2> QED
    BY <2>1, <2>2, <2>3, <2>4, <2>6
<1>14. ASSUME PairPiece(piece) PROVE Cases
  BY <1>14
<1>15. Cases
  <2> HIDE DEF Cases
  <2>1. ShortPiece(piece) \/ DigitsPiece(piece) \/ PairPiece(piece) \/ MalformedPiece(piece)
    BY <1>4, <1>10, Kinds
  <2> QED
    BY <1>11, <1>12, <1>13, <1>14, <2>1
<1> QED
  BY <1>1, <1>3, <1>4, <1>15 DEF piece

\* A malformed piece spoils the string.
LEMMA Spoiled ==
    ASSUME Given, NEW k \in 0..Len(pieces), k < Len(pieces), pieces[k + 1].means = Malformed
    PROVE  ~WellFormed
<1>1. k + 1 \in DOMAIN pieces
  BY LenProperties DEF Given
<1> QED
  BY <1>1 DEF WellFormed

\* An escape of one symbol.
LEMMA ShortEscapePieces ==
    ASSUME IInv, MInv, reading = 1, ShortEscape
    PROVE  MInv'
<1> DEFINE e == text[pos + 1]
           c == ShortEscapes[e]
           k == Len(buf)
           piece == pieces[k + 1]
<1>1. /\ pc = "copy" /\ pc' = "copy" /\ pos' = pos + 2 /\ buf' = Append(buf, c)
      /\ UNCHANGED <<pieces, text, reading>>
      /\ pos < Len(text) /\ text[pos] = Backslash /\ pos <= Len(text)
      /\ e \in {Quote, Backslash, "/", "n"}
  BY DEF ShortEscape, ParserStep, Escape, At, ShortEscapes
<1>2. Types
  BY DEF IInv
<1>3. "n" # Quote /\ "n" # Backslash /\ "u" # Quote /\ "u" # Backslash
  BY KnownSymbols
<1>4. c = (IF e = "n" THEN "LF" ELSE e) /\ c \in Symbols
  <2>1. c = IF e = "n" THEN "LF" ELSE e
    BY <1>1 DEF ShortEscapes
  <2> HIDE DEF c
  <2> QED
    BY <1>1, <2>1, KnownSymbols
<1>5. k \in 0..Len(pieces) /\ pos = 2 + Len(Upto(k)) /\ Given /\ Arrived
  BY <1>1, <1>2, InCopy
<1> HIDE DEF c, k
<1>6. /\ k < Len(pieces)
      /\ Len(text) \in Nat /\ pos \in Nat
      /\ pos + Len(piece.text) <= Len(text) + 1
      /\ \A i \in 1..Len(piece.text) : text[pos + i - 1] = piece.text[i]
      /\ \/ ShortPiece(piece) /\ piece.text = <<Backslash, e>>
         \/ DigitsPiece(piece) /\ e = "u"
         \/ PairPiece(piece)
         \/ /\ piece.means = Malformed
            /\ (e = Quote /\ pos + 1 = Len(text)) \/ e \notin {Quote, Backslash, "/", "n", "u"}
                  \/ e = "u"
  <2> HIDE DEF e
  <2> QED
    BY <1>1, <1>5, AtBackslash DEF e
<1> HIDE DEF e, piece
<1>7. CASE ShortPiece(piece) /\ piece.text = <<Backslash, e>>
  <2>1. c = piece.means
    <3>1. CASE piece.means \in {Quote, Backslash, "/"} /\ piece.text = <<Backslash, piece.means>>
      <4>1. e = piece.means
        BY <1>7, <3>1
      <4>2. e # "n"
        BY <1>3, <3>1, <4>1
      <4> QED
        BY <1>4, <4>1, <4>2
    <3>2. CASE piece.means = "LF" /\ piece.text = <<Backslash, "n">>
      <4>1. e = "n"
        BY <1>7, <3>2
      <4> QED
        BY <1>4, <3>2, <4>1
    <3> QED
      BY <1>7, <3>1, <3>2 DEF ShortPiece
  <2>2. Len(piece.text) = 2
    BY <1>7
  <2>3. Len(buf) < Len(pieces) /\ pieces[Len(buf) + 1].means = c /\ Len(pieces[Len(buf) + 1].text) = 2
    BY <1>6, <2>1, <2>2 DEF piece, k
  <2>4. 2 \in Nat
    OBVIOUS
  <2> HIDE DEF MInv, Types
  <2> QED
    BY <1>1, <1>2, <1>4, <2>3, <2>4, CopyPieceStep
<1>8. CASE piece.means = Malformed /\ e = Quote /\ pos + 1 = Len(text)
  <2>1. pos + 2 > Len(text)
    BY <1>6, <1>8
  <2>2. ~WellFormed
    BY <1>5, <1>6, <1>8, Spoiled DEF piece
  <2>3. 2 \in Nat
    OBVIOUS
  <2> HIDE DEF MInv, Types, WellFormed
  <2> QED
    BY <1>1, <1>2, <1>4, <2>1, <2>2, <2>3, CopyPieceStep
<1>9. e # "u"
  BY <1>1, <1>3
<1>10. ~PairPiece(piece)
  <2> SUFFICES ASSUME PairPiece(piece) PROVE FALSE
    OBVIOUS
  <2>1. Len(piece.text) = 6 /\ piece.text[2] = "u"
    BY DEF PairPiece
  <2>2. 2 \in 1..Len(piece.text) /\ pos + 2 - 1 = pos + 1
    BY <1>6, <2>1
  <2>3. e = "u"
    BY <1>6, <2>1, <2>2 DEF e
  <2> QED
    BY <1>1, <1>3, <2>3
<1> QED
  BY <1>1, <1>6, <1>7, <1>8, <1>9, <1>10

\* The code units of the groups, and what JSON makes of them.
LEMMA CodeUnits ==
    /\ DOMAIN Digits = {"0061", "000a", "0007", "de00"}
    /\ DOMAIN HexRune = DOMAIN Digits \union {"d83d"} /\ "d83d" \notin DOMAIN Digits
    /\ HexRune["d83d"] = High
    /\ Digits["de00"] = Replacement
    /\ \A g \in DOMAIN HexRune : HexRune[g] = Low <=> g = "de00"
    /\ \A g \in DOMAIN Digits \ {"de00"} : HexRune[g] = Digits[g] /\ HexRune[g] \notin {High, Low}
<1>1. DOMAIN Digits = {"0061", "000a", "0007", "de00"}
  BY DEF Digits
<1>2. DOMAIN HexRune = {"0061", "000a", "0007", "d83d", "de00"}
  BY DEF HexRune
<1>3. /\ HexRune["d83d"] = High /\ HexRune["de00"] = Low /\ HexRune["0061"] = "a"
      /\ HexRune["000a"] = "LF" /\ HexRune["0007"] = "BEL"
  BY DEF HexRune
<1>4. /\ Digits["de00"] = Replacement /\ Digits["0061"] = "a"
      /\ Digits["000a"] = "LF" /\ Digits["0007"] = "BEL"
  BY DEF Digits, Replacement
<1>5. High # Low /\ High \notin {"a", "LF", "BEL"} /\ Low \notin {"a", "LF", "BEL"}
  BY DEF High, Low
<1> QED
  BY <1>1, <1>2, <1>3, <1>4, <1>5

\* parseUnicodeEscape, case by case.
Unit(i) == i <= Len(text) /\ text[i - 1] = "u" /\ text[i] \in DOMAIN HexRune
Paired(p) == text[p + 3] = Backslash /\ Unit(p + 5) /\ HexRune[text[p + 5]] = Low

LEMMA UnicodeEscapeIs ==
    ASSUME NEW p \in Nat, NEW h, h = HexRune[text[p + 2]]
    PROVE  /\ ~Unit(p + 2) => UnicodeEscapeAt(p + 1) = << >>
           /\ Unit(p + 2) /\ h \notin {High, Low} => UnicodeEscapeAt(p + 1) = <<h, 2>>
           /\ Unit(p + 2) /\ h = Low => UnicodeEscapeAt(p + 1) = <<Replacement, 2>>
           /\ Unit(p + 2) /\ h = High /\ Paired(p) => UnicodeEscapeAt(p + 1) = <<Joined, 5>>
           /\ Unit(p + 2) /\ h = High /\ ~Paired(p) => UnicodeEscapeAt(p + 1) = << >>
<1> DEFINE q == p + 1
<1>1. q \in Nat /\ q + 1 = p + 2 /\ q + 2 = p + 3 /\ q + 4 = p + 5
  OBVIOUS
<1>2. High # Low
  BY DEF High, Low
<1> HIDE DEF q
<1>3. /\ ~Unit(q + 1) => UnicodeEscapeAt(q) = << >>
      /\ Unit(q + 1) /\ HexRune[text[q + 1]] \notin {High, Low} =>
            UnicodeEscapeAt(q) = <<HexRune[text[q + 1]], 2>>
      /\ Unit(q + 1) /\ HexRune[text[q + 1]] = Low => UnicodeEscapeAt(q) = <<Replacement, 2>>
  BY <1>2 DEF UnicodeEscapeAt, Unit
<1> DEFINE pair == /\ q + 4 <= Len(text) /\ text[q + 2] = Backslash
                   /\ q + 4 <= Len(text) /\ text[q + 4 - 1] = "u"
                   /\ text[q + 4] \in DOMAIN HexRune
                   /\ HexRune[text[q + 4]] = Low
<1>4. ASSUME Unit(q + 1), HexRune[text[q + 1]] = High, pair
      PROVE  UnicodeEscapeAt(q) = <<Joined, 5>>
  <2>1. q + 1 <= Len(text) /\ text[q + 1 - 1] = "u" /\ text[q + 1] \in DOMAIN HexRune
    BY <1>1, <1>4 DEF Unit
  <2> QED
    BY <1>1, <1>2, <1>4, <2>1, SMTT(30) DEF UnicodeEscapeAt
<1>5. ASSUME Unit(q + 1), HexRune[text[q + 1]] = High, ~pair
      PROVE  UnicodeEscapeAt(q) = << >>
  <2>1. q + 1 <= Len(text) /\ text[q + 1 - 1] = "u" /\ text[q + 1] \in DOMAIN HexRune
    BY <1>1, <1>5 DEF Unit
  <2> QED
    BY <1>1, <1>2, <1>5, <2>1 DEF UnicodeEscapeAt
<1>6. pair <=> Paired(p)
  <2>1. Paired(p) <=> text[q + 2] = Backslash /\ Unit(q + 4) /\ HexRune[text[q + 4]] = Low
    BY <1>1, Zenon DEF Paired
  <2> QED
    BY <1>1, <2>1 DEF Unit
<1> HIDE DEF pair
<1> QED
  BY <1>1, <1>3, <1>4, <1>5, <1>6 DEF q

\* A high surrogate that stands alone has no low one after it.
LEMMA StandsAlone ==
    ASSUME Given, Arrived, NEW k \in 0..Len(pieces), k < Len(pieces),
           pieces[k + 1].text = <<Backslash, "u", "d83d">>,
           NEW p \in Nat, p = 2 + Len(Upto(k + 1)), Len(text) \in Nat,
           text[p] = Backslash, text[p + 1] = "u", text[p + 2] = "de00", p + 2 <= Len(text)
    PROVE  FALSE
<1> DEFINE next == pieces[k + 2]
<1>1. k + 1 \in 0..Len(pieces) /\ (k + 1) + 1 = k + 2 /\ Len(pieces) \in Nat
  BY LenProperties DEF Given
<1>2. p < Len(text)
  OBVIOUS
<1>3. "u" \notin {Quote, Backslash, "/", "n"}
  BY KnownSymbols
<1>4. /\ k + 1 < Len(pieces)
      /\ \A i \in 1..Len(next.text) : text[p + i - 1] = next.text[i]
      /\ \/ ShortPiece(next) /\ next.text = <<Backslash, text[p + 1]>>
         \/ next.text = <<Backslash, "u", text[p + 2]>>
         \/ PairPiece(next)
         \/ text[p + 1] = Quote \/ text[p + 1] \notin {Quote, Backslash, "/", "n", "u"}
  <2> DEFINE j == k + 1
  <2>1. j \in 0..Len(pieces) /\ p = 2 + Len(Upto(j)) /\ pieces[j + 1] = next
    BY <1>1
  <2> HIDE DEF j, next
  <2>2. /\ j < Len(pieces)
        /\ \A i \in 1..Len(pieces[j + 1].text) : text[p + i - 1] = pieces[j + 1].text[i]
        /\ \/ ShortPiece(pieces[j + 1]) /\ pieces[j + 1].text = <<Backslash, text[p + 1]>>
           \/ pieces[j + 1].text = <<Backslash, "u", text[p + 2]>>
           \/ PairPiece(pieces[j + 1])
           \/ text[p + 1] = Quote \/ text[p + 1] \notin {Quote, Backslash, "/", "n", "u"}
    BY <1>2, <2>1, AtBackslash, ZenonT(30)
  <2> QED
    BY <2>1, <2>2 DEF j
<1>5. ~(ShortPiece(next) /\ next.text = <<Backslash, text[p + 1]>>)
  <2> SUFFICES ASSUME ShortPiece(next), next.text = <<Backslash, "u">> PROVE FALSE
    OBVIOUS
  <2>1. PICK c \in {Quote, Backslash, "/", "n"} : next.text = <<Backslash, c>>
    BY DEF ShortPiece
  <2> HIDE DEF next
  <2>2. c = "u"
    BY <2>1
  <2> QED
    BY <1>3, <2>1, <2>2
<1>6. next.text # <<Backslash, "u", "de00">>
  <2>1. k + 1 \in 1..(Len(pieces) - 1)
    BY <1>1, <1>4
  <2> QED
    BY <1>1, <2>1 DEF Given, Clash
<1>7. ~PairPiece(next)
  <2> SUFFICES ASSUME PairPiece(next) PROVE FALSE
    OBVIOUS
  <2>1. Len(next.text) = 6 /\ next.text[3] = "d83d"
    BY DEF PairPiece
  <2> HIDE DEF next
  <2>2. 3 \in 1..Len(next.text) /\ p + 3 - 1 = p + 2
    BY <2>1
  <2>3. text[p + 2] = "d83d"
    BY <1>4, <2>1, <2>2
  <2> QED
    BY <2>3
<1> QED
  BY <1>3, <1>4, <1>5, <1>6, <1>7

\* An escape of digits, or of a pair of them, gives the rune that the piece
\* means and its length; there is none if the piece is malformed.
LEMMA RuneOfPiece ==
    ASSUME Given, Arrived, NEW k \in 0..Len(pieces), NEW p, p = 2 + Len(Upto(k)),
           p < Len(text), text[p] = Backslash, text[p + 1] = "u",
           NEW piece, piece = pieces[k + 1]
    PROVE  /\ k < Len(pieces)
           /\ \/ UnicodeEscapeAt(p + 1) = <<piece.means, Len(piece.text) - 1>>
              \/ UnicodeEscapeAt(p + 1) = << >> /\ piece.means = Malformed
<1> DEFINE g == text[p + 2]
<1>1. "u" \notin {Quote, Backslash, "/", "n"}
  BY KnownSymbols
<1>2. /\ k < Len(pieces) /\ p \in Nat /\ p >= 2 /\ Len(text) \in Nat
      /\ p + Len(pieces[k + 1].text) <= Len(text) + 1
      /\ p + Len(pieces[k + 1].text) = 2 + Len(Upto(k + 1))
      /\ \A i \in 1..Len(pieces[k + 1].text) : text[p + i - 1] = pieces[k + 1].text[i]
      /\ \/ ShortPiece(pieces[k + 1]) /\ pieces[k + 1].text = <<Backslash, text[p + 1]>>
         \/ DigitsPiece(pieces[k + 1])
               /\ p + 2 <= Len(text) /\ pieces[k + 1].text = <<Backslash, "u", text[p + 2]>>
         \/ PairPiece(pieces[k + 1])
         \/ /\ pieces[k + 1].means = Malformed /\ p + 2 <= Len(text)
            /\ text[p + 2] \notin DOMAIN Digits
            /\ pieces[k + 1].text = <<Backslash, "u", text[p + 2]>>
  <2>1. /\ k < Len(pieces)
        /\ p \in Nat /\ p >= 2 /\ Len(text) \in Nat
        /\ p + Len(pieces[k + 1].text) <= Len(text) + 1
        /\ p + Len(pieces[k + 1].text) = 2 + Len(Upto(k + 1))
        /\ \A i \in 1..Len(pieces[k + 1].text) : text[p + i - 1] = pieces[k + 1].text[i]
        /\ \/ ShortPiece(pieces[k + 1]) /\ pieces[k + 1].text = <<Backslash, text[p + 1]>>
           \/ DigitsPiece(pieces[k + 1])
                 /\ p + 2 <= Len(text) /\ pieces[k + 1].text = <<Backslash, "u", text[p + 2]>>
                 /\ text[p + 1] = "u"
           \/ PairPiece(pieces[k + 1])
           \/ /\ pieces[k + 1].means = Malformed
              /\ \/ text[p + 1] = Quote /\ p + 1 = Len(text)
                 \/ text[p + 1] \notin {Quote, Backslash, "/", "n", "u"}
                 \/ /\ text[p + 1] = "u" /\ p + 2 <= Len(text)
                    /\ text[p + 2] \notin DOMAIN Digits
                    /\ pieces[k + 1].text = <<Backslash, "u", text[p + 2]>>
    BY AtBackslash
  <2> QED
    BY <1>1, <2>1, Zenon
<1>3. /\ k < Len(pieces)
      /\ p + Len(piece.text) <= Len(text) + 1
      /\ \A i \in 1..Len(piece.text) : text[p + i - 1] = piece.text[i]
      /\ \/ ShortPiece(piece) /\ piece.text = <<Backslash, "u">>
         \/ DigitsPiece(piece) /\ p + 2 <= Len(text) /\ piece.text = <<Backslash, "u", g>>
         \/ PairPiece(piece)
         \/ /\ piece.means = Malformed /\ p + 2 <= Len(text)
            /\ g \notin DOMAIN Digits /\ piece.text = <<Backslash, "u", g>>
  BY <1>2, Zenon
<1>4. p + 2 - 1 = p + 1 /\ p + 6 - 1 = p + 5 /\ p + 5 - 1 = p + 4 /\ p + 4 - 1 = p + 3
      /\ p + 3 - 1 = p + 2
  BY <1>2
<1> HIDE DEF g
<1>5. ~(ShortPiece(piece) /\ piece.text = <<Backslash, "u">>)
  <2> SUFFICES ASSUME ShortPiece(piece), piece.text = <<Backslash, "u">> PROVE FALSE
    OBVIOUS
  <2>1. PICK c \in {Quote, Backslash, "/", "n"} : piece.text = <<Backslash, c>>
    BY DEF ShortPiece
  <2>2. c = "u"
    BY <2>1
  <2> QED
    BY <1>1, <2>1, <2>2
<1>6. /\ Unit(p + 2) <=> p + 2 <= Len(text) /\ g \in DOMAIN HexRune
      /\ ~Unit(p + 2) => UnicodeEscapeAt(p + 1) = << >>
      /\ Unit(p + 2) /\ HexRune[g] \notin {High, Low} => UnicodeEscapeAt(p + 1) = <<HexRune[g], 2>>
      /\ Unit(p + 2) /\ HexRune[g] = Low => UnicodeEscapeAt(p + 1) = <<Replacement, 2>>
      /\ Unit(p + 2) /\ HexRune[g] = High /\ Paired(p) => UnicodeEscapeAt(p + 1) = <<Joined, 5>>
      /\ Unit(p + 2) /\ HexRune[g] = High /\ ~Paired(p) => UnicodeEscapeAt(p + 1) = << >>
  <2>1. Unit(p + 2) <=> p + 2 <= Len(text) /\ g \in DOMAIN HexRune
    BY <1>4 DEF Unit, g
  <2> QED
    BY <1>2, <2>1, UnicodeEscapeIs DEF g
<1>7. ASSUME DigitsPiece(piece), p + 2 <= Len(text), piece.text = <<Backslash, "u", g>>
      PROVE  UnicodeEscapeAt(p + 1) = <<piece.means, Len(piece.text) - 1>>
  <2>1. PICK d \in DOMAIN Digits : piece.text = <<Backslash, "u", d>> /\ piece.means = Digits[d]
    BY <1>7 DEF DigitsPiece
  <2>2. d = g /\ Len(piece.text) - 1 = 2
    BY <1>7, <2>1
  <2>3. g \in DOMAIN Digits /\ piece.means = Digits[g] /\ Unit(p + 2)
    BY <1>6, <1>7, <2>1, <2>2, CodeUnits
  <2>4. CASE g = "de00"
    <3>1. HexRune[g] = Low /\ Digits[g] = Replacement
      BY <2>3, <2>4, CodeUnits
    <3> QED
      BY <1>6, <2>2, <2>3, <3>1
  <2>5. CASE g # "de00"
    <3>1. HexRune[g] = Digits[g] /\ HexRune[g] \notin {High, Low}
      BY <2>3, <2>5, CodeUnits
    <3> QED
      BY <1>6, <2>2, <2>3, <3>1
  <2> QED
    BY <2>4, <2>5
<1>8. ASSUME PairPiece(piece)
      PROVE  UnicodeEscapeAt(p + 1) = <<piece.means, Len(piece.text) - 1>>
  <2>1. piece.means = Joined /\ piece.text = <<Backslash, "u", "d83d", Backslash, "u", "de00">>
    BY <1>8 DEF PairPiece, Joined
  <2>2. /\ Len(piece.text) = 6 /\ piece.text[3] = "d83d"
        /\ piece.text[4] = Backslash /\ piece.text[5] = "u" /\ piece.text[6] = "de00"
    BY <2>1
  <2>3. 3 \in 1..Len(piece.text) /\ 4 \in 1..Len(piece.text) /\ 5 \in 1..Len(piece.text)
        /\ 6 \in 1..Len(piece.text)
    BY <2>2
  <2>4. /\ g = "d83d" /\ text[p + 3] = Backslash /\ text[p + 4] = "u" /\ text[p + 5] = "de00"
    BY <1>3, <1>4, <2>2, <2>3 DEF g
  <2>5. p + 2 <= Len(text) /\ p + 5 <= Len(text) /\ Len(piece.text) - 1 = 5
    BY <1>2, <1>3, <2>2, SMTT(30)
  <2>6. Unit(p + 2) /\ HexRune[g] = High
    BY <1>6, <2>4, <2>5, CodeUnits
  <2>7. Paired(p)
    <3>1. "de00" \in DOMAIN HexRune /\ HexRune["de00"] = Low
      BY CodeUnits
    <3> QED
      BY <1>4, <2>4, <2>5, <3>1 DEF Paired, Unit
  <2> QED
    BY <1>6, <2>1, <2>5, <2>6, <2>7
<1>9. ASSUME p + 2 <= Len(text), g \notin DOMAIN Digits, piece.text = <<Backslash, "u", g>>
      PROVE  UnicodeEscapeAt(p + 1) = << >>
  <2>1. CASE g # "d83d"
    BY <1>6, <1>9, <2>1, CodeUnits
  <2>2. CASE g = "d83d"
    <3>1. Unit(p + 2) /\ HexRune[g] = High
      BY <1>6, <1>9, <2>2, CodeUnits
    <3>2. ~Paired(p)
      <4> SUFFICES ASSUME Paired(p) PROVE FALSE
        OBVIOUS
      <4> DEFINE q == p + 3
      <4>1. Len(piece.text) = 3
        BY <1>9
      <4>2. q \in Nat /\ q + 1 = p + 4 /\ q + 2 = p + 5 /\ q = p + Len(piece.text)
        BY <1>2, <4>1
      <4>3. text[p + 3] = Backslash /\ p + 5 <= Len(text) /\ text[p + 4] = "u" /\ text[p + 5] = "de00"
        BY <1>4, CodeUnits DEF Paired, Unit
      <4> HIDE DEF q
      <4>4. /\ text[q] = Backslash /\ text[q + 1] = "u" /\ text[q + 2] = "de00"
            /\ q + 2 <= Len(text)
        BY <4>2, <4>3 DEF q
      <4>5. q = 2 + Len(Upto(k + 1)) /\ pieces[k + 1].text = <<Backslash, "u", "d83d">>
        BY <1>2, <1>9, <2>2, <4>2
      <4> QED
        BY <1>2, <4>2, <4>4, <4>5, StandsAlone
    <3> QED
      BY <1>6, <3>1, <3>2
  <2> QED
    BY <2>1, <2>2
<1> QED
  BY <1>3, <1>5, <1>7, <1>8, <1>9

\* An escape of digits.
LEMMA UnicodeEscapePieces ==
    ASSUME IInv, MInv, reading = 1, UnicodeEscape
    PROVE  MInv'
<1> DEFINE rune == UnicodeEscapeAt(pos + 1)
           c == rune[1]
           n == 1 + rune[2]
           k == Len(buf)
           piece == pieces[k + 1]
<1>1. /\ pc = "copy" /\ pc' = "copy" /\ buf' = Append(buf, c) /\ pos' = pos + 1 + rune[2]
      /\ UNCHANGED <<pieces, text, reading>>
      /\ pos < Len(text) /\ text[pos] = Backslash /\ text[pos + 1] = "u"
      /\ pos <= Len(text) /\ rune # << >>
  BY DEF UnicodeEscape, ParserStep, Escape, At
<1>2. Types
  BY DEF IInv
<1>3. /\ Len(text) \in Nat /\ pos \in Nat
  BY <1>2, LenProperties DEF Types
<1>4. k \in 0..Len(pieces) /\ pos = 2 + Len(Upto(k)) /\ Given /\ Arrived
  BY <1>1, <1>2, InCopy
<1>5. c \in Symbols /\ rune[2] \in Nat
  BY <1>1, <1>3, RuneOfEscape
<1> HIDE DEF rune, k, piece
<1>6. k < Len(pieces) /\ rune = <<piece.means, Len(piece.text) - 1>>
  <2>1. /\ k < Len(pieces)
        /\ \/ UnicodeEscapeAt(pos + 1) = <<piece.means, Len(piece.text) - 1>>
           \/ UnicodeEscapeAt(pos + 1) = << >> /\ piece.means = Malformed
    BY <1>1, <1>4, RuneOfPiece DEF piece
  <2> QED
    BY <1>1, <2>1 DEF rune
<1>7. Len(piece.text) \in Nat
  <2>1. piece \in Spellings
    BY <1>4, <1>6, Ahead DEF piece
  <2> QED
    BY <2>1, Begins
<1>8. piece.means = c /\ Len(piece.text) = n /\ n \in Nat /\ pos' = pos + n
  <2>1. rune[1] = piece.means /\ rune[2] = Len(piece.text) - 1
    BY <1>6
  <2>2. \A l \in Nat : 1 + (l - 1) = l /\ pos + 1 + (l - 1) = pos + l
    BY <1>3
  <2>3. n = Len(piece.text)
    BY <1>7, <2>1, <2>2
  <2> HIDE DEF n
  <2>4. pos' = pos + Len(piece.text)
    BY <1>1, <1>7, <2>1, <2>2
  <2> QED
    BY <1>7, <2>1, <2>3, <2>4
<1>9. Len(buf) < Len(pieces) /\ pieces[Len(buf) + 1].means = c /\ Len(pieces[Len(buf) + 1].text) = n
  BY <1>6, <1>8 DEF k, piece
<1> HIDE DEF c, n, MInv, Types
<1> QED
  BY <1>1, <1>2, <1>5, <1>8, <1>9, CopyPieceStep

\* A well-formed string is never rejected.
LEMMA FailPieces ==
    ASSUME IInv, MInv, reading = 1, Fail
    PROVE  MInv'
<1>1. /\ pc \in {"view", "copy"} /\ pc' = "error"
      /\ text' = text /\ pieces' = pieces /\ reading' = reading
  BY DEF Fail, ParserStep
<1>2. Types /\ Given /\ Arrived
  BY DEF IInv, MInv
<1>3. ~WellFormed
  <2> SUFFICES ASSUME WellFormed PROVE FALSE
    OBVIOUS
  <2> DEFINE k == IF pc = "view" THEN pos - 2 ELSE Len(buf)
             piece == pieces[k + 1]
  <2>1. (pc = "view" /\ k = pos - 2) \/ (pc = "copy" /\ k = Len(buf))
    BY <1>1
  <2> HIDE DEF k
  <2>2. k \in 0..Len(pieces) /\ pos = 2 + Len(Upto(k))
    BY <1>2, <2>1, InView, InCopy
  <2>3. pos \in Nat /\ pos >= 2 /\ Len(text) \in Nat /\ Len(pieces) \in Nat
    BY <1>2, <2>2, Ahead, LenProperties DEF Given
  <2>4. Quote \notin Control /\ Quote # Backslash
    BY KnownSymbols DEF Control
  <2>5. k < Len(pieces) => piece.means # Malformed
    BY <1>2, <2>2, Spoiled
  <2>6. CASE k = Len(pieces)
    <3>1. pos = Len(text) /\ text[pos] = Quote
      BY <1>2, <2>2, <2>6, Ahead DEF WellFormed
    <3>2. ~(pos > Len(text))
      BY <2>3, <3>1
    <3> QED
      BY <2>4, <3>1, <3>2 DEF Fail, At
  <2>7. CASE k # Len(pieces)
    <3>1. k < Len(pieces)
      BY <2>2, <2>3, <2>7, BelowIt, Zenon
    <3>2. /\ piece \in Spellings
          /\ pos + Len(piece.text) <= Len(text) + 1
          /\ \A i \in 1..Len(piece.text) : text[pos + i - 1] = piece.text[i]
      BY <1>2, <2>2, <3>1, Ahead
    <3> HIDE DEF piece
    <3>3. /\ Len(piece.text) \in Nat /\ Len(piece.text) > 0
          /\ piece.text[1] \notin Control
          /\ PlainPiece(piece) => piece.text[1] # Backslash
      BY <2>5, <3>1, <3>2, Begins
    <3>4. pos <= Len(text) /\ text[pos] = piece.text[1]
      <4>1. 1 \in 1..Len(piece.text) /\ pos + 1 - 1 = pos /\ pos <= Len(text)
        BY <2>3, <3>2, <3>3
      <4> QED
        BY <3>2, <4>1
    <3>5. /\ text[pos] = Backslash
          /\ Escape => text[pos + 1] \notin DOMAIN ShortEscapes
          /\ Escape /\ text[pos + 1] = "u" => UnicodeEscapeAt(pos + 1) = << >>
      <4>1. ~(pos > Len(text)) /\ ~(\E c \in Control : At(c))
        BY <2>3, <3>3, <3>4 DEF At
      <4> QED
        BY <4>1 DEF Fail, At
    <3>6. pos < Len(text)
      <4>1. Len(piece.text) >= 2
        <5>1. CASE ShortPiece(piece)
          <6>1. \E c : piece.text = <<Backslash, c>>
            BY <5>1 DEF ShortPiece
          <6> QED
            BY <6>1
        <5>2. CASE DigitsPiece(piece)
          <6>1. \E c : piece.text = <<Backslash, "u", c>>
            BY <5>2 DEF DigitsPiece
          <6> QED
            BY <6>1
        <5>3. CASE PairPiece(piece)
          BY <5>3 DEF PairPiece
        <5>4. ~PlainPiece(piece) /\ ~MalformedPiece(piece)
          BY <2>5, <3>1, <3>3, <3>4, <3>5 DEF MalformedPiece
        <5> QED
          BY <3>2, <5>1, <5>2, <5>3, <5>4, Kinds
      <4> QED
        BY <2>3, <3>2, <3>3, <4>1
    <3>7. Escape
      BY <3>4, <3>5, <3>6 DEF Escape, At
    <3>8. \/ ShortPiece(piece) /\ piece.text = <<Backslash, text[pos + 1]>>
          \/ text[pos + 1] = "u"
      <4>1. \/ ShortPiece(piece) /\ piece.text = <<Backslash, text[pos + 1]>>
            \/ text[pos + 1] = "u"
            \/ PairPiece(piece)
        BY <1>2, <2>2, <2>5, <3>1, <3>5, <3>6, AtBackslash DEF piece
      <4>2. ASSUME PairPiece(piece) PROVE text[pos + 1] = "u"
        <5>1. Len(piece.text) = 6 /\ piece.text[2] = "u"
          BY <4>2 DEF PairPiece
        <5>2. 2 \in 1..Len(piece.text) /\ pos + 2 - 1 = pos + 1
          BY <2>3, <5>1
        <5> QED
          BY <3>2, <5>1, <5>2
      <4> QED
        BY <4>1, <4>2
    <3>9. ASSUME ShortPiece(piece), piece.text = <<Backslash, text[pos + 1]>> PROVE FALSE
      <4>1. PICK c \in {Quote, Backslash, "/", "n"} : piece.text = <<Backslash, c>>
        BY <3>9 DEF ShortPiece
      <4>2. text[pos + 1] = c
        BY <3>9, <4>1
      <4> QED
        BY <3>5, <3>7, <4>1, <4>2 DEF ShortEscapes
    <3>10. ASSUME text[pos + 1] = "u" PROVE FALSE
      <4>1. UnicodeEscapeAt(pos + 1) = << >>
        BY <3>5, <3>7, <3>10
      <4>2. <<piece.means, Len(piece.text) - 1>> # << >>
        OBVIOUS
      <4>3. UnicodeEscapeAt(pos + 1) = <<piece.means, Len(piece.text) - 1>>
        BY <1>2, <2>2, <2>5, <3>1, <3>5, <3>6, <3>10, RuneOfPiece DEF piece
      <4> QED
        BY <4>1, <4>2, <4>3
    <3> QED
      BY <3>8, <3>9, <3>10
  <2> QED
    BY <2>6, <2>7
<1>4. Given' /\ Arrived' /\ ~WellFormed'
  BY <1>1, <1>2, <1>3 DEF Given, Arrived, WellFormed
<1> QED
  BY <1>1, <1>4 DEF MInv, ViewIsMeant, CopyIsMeant, ReadAsMeant

-----------------------------------------------------------------------------
(* Every behaviour.                                                        *)

\* It holds initially: nothing has been viewed.
LEMMA InitEstablishesMeaning == Init => MInv
<1> SUFFICES ASSUME Init PROVE MInv
  OBVIOUS
<1>1. /\ pieces \in BoundedSeq(Spellings, MaxPieces) /\ ~Clash(pieces)
      /\ text \in {TextOf(pieces), Front(TextOf(pieces))}
      /\ pc = "view" /\ pos = 2
  BY DEF Init, Start
<1>2. Given /\ Arrived
  BY <1>1 DEF Given, Arrived, BoundedSeq, SeqOf
<1>3. Read(pos - 2, SoFar)
  <2>1. Len(pieces) \in Nat /\ Len(Upto(0)) = 0
    BY <1>2, UptoNone, LenProperties DEF Given
  <2>2. 0 \in 0..Len(pieces) /\ 2 = 2 + Len(Upto(0)) /\ 1..0 = {} /\ 2 - 2 = 0
    BY <2>1
  <2> QED
    BY <1>1, <2>2 DEF Read
<1> QED
  BY <1>1, <1>2, <1>3 DEF MInv, ViewIsMeant, CopyIsMeant, ReadAsMeant

\* It is inductive, next to the invariant IInv above.
LEMMA MeaningInvariance == Spec => []MInv
<1>1. ASSUME IInv, MInv, Next PROVE MInv'
  <2>1. CASE reading' # 1
    <3>1. pieces' = pieces
      BY <1>1 DEF Next, ParserStep, ViewByte, EndView, StartOver, CopyByte, EndCopy,
                  ShortEscape, UnicodeEscape, Fail, ReadAnswer
    <3> QED
      BY <1>1, <2>1, <3>1, OtherReading
  <2>2. CASE reading' = 1
    <3>1. ~ReadAnswer
      BY <2>2 DEF ReadAnswer
    <3>2. reading = 1
      BY <1>1, <2>2, <3>1 DEF Next, ParserStep, ViewByte, EndView, StartOver, CopyByte,
                              EndCopy, ShortEscape, UnicodeEscape, Fail
    <3> QED
      BY <1>1, <3>1, <3>2, ViewPieceStep, EndViewPieces, StartOverPieces, CopyBytePieces,
         EndCopyPieces, ShortEscapePieces, UnicodeEscapePieces, FailPieces DEF Next
  <2> QED
    BY <2>1, <2>2
<1>2. ASSUME MInv, UNCHANGED vars PROVE MInv'
  <2>1. Given' /\ (Arrived <=> Arrived') /\ (ReadAsMeant <=> ReadAsMeant')
    BY <1>2 DEF vars, MInv, Given, Arrived, ReadAsMeant, WellFormed
  <2>2. (ViewIsMeant <=> ViewIsMeant') /\ (CopyIsMeant <=> CopyIsMeant')
    BY <1>2 DEF vars, ViewIsMeant, CopyIsMeant, Read, SoFar, Upto, WellFormed
  <2> QED
    BY <1>2, <2>1, <2>2 DEF vars, MInv
<1> QED
  BY <1>1, <1>2, Invariance, InitEstablishesMeaning, PTL DEF Spec

\* A string of any length and spelling is read as JSON means it, wherever its
\* first backslash is and whatever the shared buffer held before; one that is
\* malformed or ends too early is rejected, and no other.
THEOREM StringsAreReadAsMeant == Spec => []ReadAsMeant
<1>1. MInv => ReadAsMeant
  BY DEF MInv, ReadAsMeant
<1> QED
  BY <1>1, MeaningInvariance, PTL
=============================================================================
