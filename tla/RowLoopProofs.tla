--------------------------- MODULE RowLoopProofs ---------------------------
(***************************************************************************)
(* Proofs about RowLoop, for every set of the six programs, every bound on *)
(* rows and answers, every size of the writer's buffer and every choice of *)
(* faults.                                                                 *)
(***************************************************************************)
EXTENDS RowLoop, SequenceTheorems, TLAPS

Unit == Nat \X Nat

\* What the program has handed to its writer; part of it is still buffered.
Stream == out \o buf

\* s is made of units of answers the program gives, in order, without a gap.
Gapless(s) ==
    /\ s \in Seq(Unit)
    /\ \A k \in 1..Len(s) :
          /\ s[k][1] \in 1..Len(input)
          /\ s[k][2] \in 1..AnswerSize(main, input, s[k][1])
          /\ \A r \in 1..s[k][1] : Accepts(r)
    /\ InOrder(s)
    /\ \A j, k \in 1..Len(s) : j < k => Service!Before(s[j], s[k])
    /\ \A k \in 1..Len(s) : \A r \in 1..Len(input) : \A p \in 1..AnswerSize(main, input, r) :
          Service!Before(<<r, p>>, s[k]) => \E j \in 1..Len(s) : s[j] = <<r, p>>

\* Unit p of the answer to row r comes next after s.
ComesNext(s, r, p) ==
    IF p = 1 THEN EndsWithAnswer(s, r - 1)
             ELSE s # << >> /\ s[Len(s)] = <<r, p - 1>>

\* The rest of the answer to row r, from unit `from` on, in one call or in two
\* of which the first goes up to unit `to`.
Pieces(r, from, to) ==
    IF to = AnswerSize(main, input, r)
       THEN <<Units(r, from, to)>>
       ELSE <<Units(r, from, to), Units(r, to + 1, AnswerSize(main, input, r))>>

\* The calls still to be made hand over the rest of the answer to the row.
RestPending ==
    \E from \in 1..AnswerSize(main, input, row) :
        /\ ComesNext(Stream, row, from)
        /\ \E to \in from..AnswerSize(main, input, row) : pending = Pieces(row, from, to)

\* While nothing has failed on stdout.
StreamGrows ==
    (pc # "exited" /\ ~writeErr) =>
        /\ Gapless(Stream)
        /\ pc \in {"read", "flush"} => EndsWithAnswer(Stream, row)
        /\ pc = "compute" => EndsWithAnswer(Stream, row - 1)
        /\ pc = "write" => RestPending

\* Which rows have been found good when the program is where it is.
RowsRead ==
    /\ pc \in {"read", "write", "flush"} => \A r \in 1..row : Accepts(r)
    /\ pc = "compute" =>
          /\ row > 0
          /\ \A r \in 1..(row - 1) : Accepts(r)
          /\ input[row].whole \/ main.cutRow = "answer"
    /\ pc = "write" => row > 0 /\ pending # << >>
    /\ last /\ pc \in {"compute", "write"} => row = Len(input)
    /\ pc = "flush" => row = Len(input) \/ (readErr /\ main.onReadError = "return")

Running == status = "none" <=> pc # "exited"

\* A program that checks its writes does not outlive an error.
ErrorLetPass == writeErr /\ pc # "exited" => ~main.checksWrites

IInv ==
    /\ TypeOK
    /\ Running
    /\ ErrorLetPass
    /\ Gapless(out)
    /\ RowsRead
    /\ StreamGrows
    /\ SuccessIsComplete

-----------------------------------------------------------------------------
(* Rows, answers and units.                                                *)

\* What is known of the rows of an input.
LEMMA InputType ==
    ASSUME input \in Inputs
    PROVE  /\ Len(input) \in Nat
           /\ \A r \in 1..Len(input) :
                 /\ input[r].ok \in BOOLEAN
                 /\ input[r].parts \in 1..MaxParts
                 /\ input[r].whole \in BOOLEAN
           /\ \A r \in 1..(Len(input) - 1) : input[r].whole
<1>1. PICK n \in 0..MaxRows : input \in [1..n -> Row]
  BY DEF Inputs
<1>2. n \in Nat
  BY ConstantsAssumption
<1>3. input \in Seq(Row)
  BY <1>1, <1>2, SeqDef
<1>4. Len(input) \in Nat /\ \A r \in 1..Len(input) : input[r] \in Row
  BY <1>3, LenProperties, ElementOfSeq
<1>5. \A r \in 1..(Len(input) - 1) : input[r].whole
  BY DEF Inputs
<1> QED
  BY <1>4, <1>5 DEF Row

\* What the six programs have in common.
LEMMA MainType ==
    ASSUME main \in Mains
    PROVE  /\ main.checksWrites \in BOOLEAN
           /\ main.newline \in {"echo", "always", "never"}
           /\ main.onReadError \in {"fail", "return"}
<1>1. \/ main = CleanMain \/ main = DedupMain \/ main = DropKeysMain
      \/ main = RemoveEmptyMain \/ main = StripRun \/ main = DecompressRun
  BY ConstantsAssumption DEF AllMains
<1>2. CASE main = CleanMain
  BY <1>2 DEF CleanMain
<1>3. CASE main = DedupMain
  BY <1>3 DEF DedupMain
<1>4. CASE main = DropKeysMain
  BY <1>4 DEF DropKeysMain
<1>5. CASE main = RemoveEmptyMain
  BY <1>5 DEF RemoveEmptyMain
<1>6. CASE main = StripRun
  BY <1>6 DEF StripRun
<1>7. CASE main = DecompressRun
  BY <1>7 DEF DecompressRun
<1> QED
  BY <1>1, <1>2, <1>3, <1>4, <1>5, <1>6, <1>7

\* An answer has at least one unit.
LEMMA AnswerSizePositive ==
    ASSUME input \in Inputs, main \in Mains, NEW r \in 1..Len(input)
    PROVE  AnswerSize(main, input, r) \in Nat \ {0}
<1>1. input[r].parts \in Nat \ {0}
  BY InputType, ConstantsAssumption
<1> QED
  BY <1>1 DEF AnswerSize

\* The units of a part of an answer.
LEMMA UnitsType ==
    ASSUME NEW r \in Nat, NEW from \in Nat \ {0}, NEW to \in Nat, from <= to + 1
    PROVE  /\ Units(r, from, to) \in Seq(Unit)
           /\ Len(Units(r, from, to)) = to - from + 1
           /\ \A k \in 1..(to - from + 1) : Units(r, from, to)[k] = <<r, from + k - 1>>
<1> DEFINE n == to - from + 1
<1>1. n \in Nat
  OBVIOUS
<1>2. \A k \in 1..n : <<r, from + k - 1>> \in Unit
  BY DEF Unit
<1>3. Units(r, from, to) \in [1..n -> Unit]
  BY <1>2 DEF Units
<1>4. Units(r, from, to) \in Seq(Unit)
  BY <1>1, <1>3, SeqDef
<1>5. DOMAIN Units(r, from, to) = 1..n /\ DOMAIN Units(r, from, to) = 1..Len(Units(r, from, to))
  BY <1>3, <1>4, LenProperties
<1>6. Len(Units(r, from, to)) = n
  BY <1>1, <1>4, <1>5, LenProperties
<1> QED
  BY <1>4, <1>6 DEF Units

\* The Write calls for an answer: one piece, or two that follow each other.
LEMMA WritesShape ==
    ASSUME input \in Inputs, main \in Mains, NEW r \in 1..Len(input)
    PROVE  \E to \in 1..AnswerSize(main, input, r) : Writes(main, input, r) = Pieces(r, 1, to)
<1> DEFINE size == AnswerSize(main, input, r)
           body == input[r].parts
<1>1. size \in Nat \ {0} /\ body \in Nat \ {0}
  BY AnswerSizePositive, InputType, ConstantsAssumption
<1>2. CASE main.newline = "echo" /\ input[r].whole
  <2>1. size = body + 1
    BY <1>1, <1>2 DEF AnswerSize, EndsInNewline
  <2>2. Writes(main, input, r) = <<Units(r, 1, body), Units(r, body + 1, size)>>
    BY <1>2, <2>1 DEF Writes
  <2>3. body \in 1..size /\ Writes(main, input, r) = Pieces(r, 1, body)
    BY <1>1, <2>1, <2>2 DEF Pieces
  <2> QED
    BY <2>3
<1>3. CASE main.newline = "never" /\ body > 1
  <2>1. size = body
    BY <1>1, <1>3 DEF AnswerSize, EndsInNewline
  <2>2. Writes(main, input, r) = <<Units(r, 1, 1), Units(r, 1 + 1, size)>>
    BY <1>3, <2>1 DEF Writes
  <2>3. 1 \in 1..size /\ Writes(main, input, r) = Pieces(r, 1, 1)
    BY <1>1, <1>3, <2>1, <2>2 DEF Pieces
  <2> QED
    BY <2>3
<1>4. CASE ~(main.newline = "echo" /\ input[r].whole) /\ ~(main.newline = "never" /\ body > 1)
  <2>1. Writes(main, input, r) = <<Units(r, 1, size)>>
    BY <1>4 DEF Writes
  <2>2. size \in 1..size /\ Writes(main, input, r) = Pieces(r, 1, size)
    BY <1>1, <2>1 DEF Pieces
  <2> QED
    BY <2>2
<1> QED
  BY <1>2, <1>3, <1>4

\* Nothing is lost or repeated between what bufio.Writer hands on and keeps.
LEMMA PassedAndKept ==
    ASSUME NEW b \in Seq(Unit), NEW p \in Seq(Unit)
    PROVE  /\ Passed(b, p) \in Seq(Unit)
           /\ Kept(b, p) \in Seq(Unit)
           /\ Passed(b, p) \o Kept(b, p) = b \o p
<1> DEFINE all == b \o p
<1>1. all \in Seq(Unit) /\ Len(all) \in Nat
  BY ConcatProperties, LenProperties
<1>2. CASE Len(all) <= BufSize
  BY <1>1, <1>2, ConcatEmptySeq, EmptySeq DEF Passed, Kept
<1>3. CASE ~(Len(all) <= BufSize) /\ (b = << >> \/ Len(all) > 2 * BufSize)
  BY <1>1, <1>3, ConcatEmptySeq, EmptySeq DEF Passed, Kept
<1>4. CASE ~(Len(all) <= BufSize) /\ ~(b = << >> \/ Len(all) > 2 * BufSize)
  <2>1. Passed(b, p) = SubSeq(all, 1, BufSize) /\ Kept(b, p) = SubSeq(all, BufSize + 1, Len(all))
    BY <1>4 DEF Passed, Kept
  <2>2. BufSize \in 0..Len(all)
    BY <1>1, <1>4, ConstantsAssumption
  <2>3. SubSeq(all, 1, BufSize) \o SubSeq(all, BufSize + 1, Len(all)) = SubSeq(all, 1, Len(all))
    <3> HIDE DEF all
    <3>1. 1 \in 1..(Len(all) + 1) /\ BufSize \in (1 - 1)..Len(all) /\ Len(all) \in BufSize..Len(all)
      BY <1>1, <2>2
    <3>2. \A m \in 1..(Len(all) + 1) : \A k \in (m - 1)..Len(all) : \A n \in k..Len(all) :
             SubSeq(all, m, k) \o SubSeq(all, k + 1, n) = SubSeq(all, m, n)
      BY <1>1, ConcatAdjacentSubSeq
    <3> QED
      BY <3>1, <3>2
  <2>4. /\ SubSeq(all, 1, BufSize) \in Seq(Unit)
        /\ SubSeq(all, BufSize + 1, Len(all)) \in Seq(Unit)
    BY <1>1, <2>2, SubSeqProperties, ElementOfSeq
  <2> QED
    BY <1>1, <2>1, <2>3, <2>4, SubSeqFull
<1> QED
  BY <1>2, <1>3, <1>4

-----------------------------------------------------------------------------
(* Streams of units without gaps.                                          *)

\* The units are totally ordered.
LEMMA UnitsAreOrdered ==
    ASSUME NEW a \in Unit, NEW b \in Unit, NEW c \in Unit
    PROVE  /\ ~Service!Before(a, a)
           /\ Service!Before(a, b) => ~Service!Before(b, a)
           /\ Service!Before(a, b) /\ Service!Before(b, c) => Service!Before(a, c)
           /\ a = b \/ Service!Before(a, b) \/ Service!Before(b, a)
<1>1. a = <<a[1], a[2]>> /\ a[1] \in Nat /\ a[2] \in Nat
  BY DEF Unit
<1>2. b = <<b[1], b[2]>> /\ b[1] \in Nat /\ b[2] \in Nat
  BY DEF Unit
<1>3. c = <<c[1], c[2]>> /\ c[1] \in Nat /\ c[2] \in Nat
  BY DEF Unit
<1> QED
  BY <1>1, <1>2, <1>3 DEF Service!Before

\* Going through a stream without gaps: its units have the type of units, the
\* order of its positions is the order of its units, and the units of the
\* answers before one it has are among those before it.
LEMMA GaplessOrder ==
    ASSUME input \in Inputs, main \in Mains, NEW s, Gapless(s), NEW k \in 1..Len(s)
    PROVE  /\ s[k] \in Unit
           /\ \A j \in 1..Len(s) : Service!Before(s[j], s[k]) <=> j < k
           /\ \A r \in 1..Len(input) : \A p \in 1..AnswerSize(main, input, r) :
                 Service!Before(<<r, p>>, s[k]) => \E j \in 1..(k - 1) : s[j] = <<r, p>>
<1>1. s \in Seq(Unit) /\ Len(s) \in Nat /\ \A j \in 1..Len(s) : s[j] \in Unit
  BY LenProperties, ElementOfSeq DEF Gapless
<1>2. \A i, j \in 1..Len(s) : i < j => Service!Before(s[i], s[j])
  BY DEF Gapless
<1>3. ASSUME NEW j \in 1..Len(s) PROVE Service!Before(s[j], s[k]) <=> j < k
  <2>1. CASE j < k
    BY <1>2, <2>1
  <2>2. CASE j = k
    BY <1>1, <2>2, UnitsAreOrdered
  <2>3. CASE j > k
    <3>1. Service!Before(s[k], s[j])
      BY <1>2, <2>3
    <3>2. ~Service!Before(s[j], s[k])
      BY <1>1, <3>1, UnitsAreOrdered
    <3> QED
      BY <2>3, <3>2
  <2> QED
    BY <1>1, <2>1, <2>2, <2>3
<1>4. ASSUME NEW r \in 1..Len(input), NEW p \in 1..AnswerSize(main, input, r),
             Service!Before(<<r, p>>, s[k])
      PROVE  \E j \in 1..(k - 1) : s[j] = <<r, p>>
  <2>1. \A i \in 1..Len(s) : \A q \in 1..Len(input) : \A o \in 1..AnswerSize(main, input, q) :
           Service!Before(<<q, o>>, s[i]) => \E j \in 1..Len(s) : s[j] = <<q, o>>
    BY DEF Gapless
  <2>2. PICK j \in 1..Len(s) : s[j] = <<r, p>>
    BY <1>4, <2>1
  <2>3. j < k
    BY <1>3, <1>4, <2>2
  <2> QED
    BY <1>1, <2>2, <2>3
<1> QED
  BY <1>1, <1>3, <1>4

\* What has been sent of a stream without gaps has none.
LEMMA GaplessPrefix ==
    ASSUME input \in Inputs, main \in Mains, NEW s, Gapless(s), NEW n \in 0..Len(s)
    PROVE  Gapless(SubSeq(s, 1, n))
<1> DEFINE t == SubSeq(s, 1, n)
<1>1. s \in Seq(Unit) /\ Len(s) \in Nat /\ \A k \in 1..Len(s) : s[k] \in Unit
  BY LenProperties, ElementOfSeq DEF Gapless
<1>2. t \in Seq(Unit) /\ Len(t) = n /\ \A k \in 1..n : t[k] = s[k]
  BY <1>1, SubSeqProperties
<1>3. InOrder(t)
  <2>1. ASSUME t # << >> PROVE t[1] = <<1, 1>>
    <3>1. n > 0
      BY <1>1, <1>2, <2>1, EmptySeq
    <3> QED
      BY <1>1, <1>2, <3>1 DEF Gapless, InOrder
  <2>2. \A k \in 1..(n - 1) : t[k + 1] = Following(t[k])
    BY <1>1, <1>2 DEF Gapless, InOrder
  <2> QED
    BY <1>2, <2>1, <2>2 DEF InOrder
<1>4. ASSUME NEW k \in 1..n
      PROVE  /\ t[k][1] \in 1..Len(input)
             /\ t[k][2] \in 1..AnswerSize(main, input, t[k][1])
             /\ \A r \in 1..t[k][1] : Accepts(r)
  BY <1>1, <1>2 DEF Gapless
<1>5. \A j, k \in 1..n : j < k => Service!Before(t[j], t[k])
  <2>1. \A j, k \in 1..Len(s) : j < k => Service!Before(s[j], s[k])
    BY DEF Gapless
  <2> QED
    BY <1>1, <1>2, <2>1
<1>6. ASSUME NEW k \in 1..n, NEW r \in 1..Len(input), NEW p \in 1..AnswerSize(main, input, r),
             Service!Before(<<r, p>>, t[k])
      PROVE  \E j \in 1..n : t[j] = <<r, p>>
  <2>1. k \in 1..Len(s) /\ Service!Before(<<r, p>>, s[k])
    BY <1>1, <1>2, <1>6
  <2>2. PICK j \in 1..(k - 1) : s[j] = <<r, p>>
    BY <2>1, GaplessOrder
  <2> QED
    BY <1>1, <1>2, <2>2
<1> HIDE DEF t
<1>7. Gapless(t)
  BY <1>2, <1>3, <1>4, <1>5, <1>6 DEF Gapless
<1> QED
  BY <1>7 DEF t

\* The stream goes on with the units that come next.
LEMMA GaplessExtends ==
    ASSUME input \in Inputs, main \in Mains,
           NEW s, Gapless(s), NEW r \in 1..Len(input), \A q \in 1..r : Accepts(q),
           NEW from \in 1..AnswerSize(main, input, r),
           NEW to \in from..AnswerSize(main, input, r),
           ComesNext(s, r, from)
    PROVE  LET t == s \o Units(r, from, to)
           IN  /\ Gapless(t)
               /\ to = AnswerSize(main, input, r) => EndsWithAnswer(t, r)
               /\ to < AnswerSize(main, input, r) => ComesNext(t, r, to + 1)
<1> DEFINE u == Units(r, from, to)
           m == to - from + 1
           L == Len(s)
           t == s \o u
           Size(q) == AnswerSize(main, input, q)
<1>1. s \in Seq(Unit) /\ L \in Nat /\ \A k \in 1..L : s[k] \in Unit
  BY LenProperties, ElementOfSeq DEF Gapless
<1>2. Len(input) \in Nat /\ \A q \in 1..Len(input) : Size(q) \in Nat \ {0}
  BY InputType, AnswerSizePositive
<1>3. /\ m \in Nat \ {0} /\ r \in Nat \ {0} /\ from \in Nat \ {0} /\ to \in Nat
      /\ from <= to /\ to <= Size(r)
  BY <1>2
<1> HIDE DEF Size
<1>4. u \in Seq(Unit) /\ Len(u) = m /\ \A i \in 1..m : u[i] = <<r, from + i - 1>>
  <2>1. from <= to + 1
    BY <1>3
  <2> QED
    BY <1>3, <2>1, UnitsType, ZenonT(30)
<1> HIDE DEF u, t, m, L
<1>5. /\ t \in Seq(Unit)
      /\ Len(t) = L + m
      /\ \A k \in 1..L : t[k] = s[k]
      /\ \A i \in 1..m : t[L + i] = <<r, from + i - 1>>
  <2>1. /\ t \in Seq(Unit) /\ Len(t) = L + m
        /\ \A k \in 1..(L + m) : t[k] = IF k <= L THEN s[k] ELSE u[k - L]
    BY <1>1, <1>4, ConcatProperties DEF t, L
  <2>2. ASSUME NEW i \in 1..m PROVE t[L + i] = <<r, from + i - 1>>
    <3>1. L + i \in 1..(L + m) /\ ~(L + i <= L) /\ (L + i) - L = i
      BY <1>1, <1>3
    <3>2. t[L + i] = u[i]
      BY <2>1, <3>1
    <3> QED
      BY <1>4, <3>2
  <2>3. ASSUME NEW k \in 1..L PROVE t[k] = s[k]
    <3>1. k \in 1..(L + m) /\ k <= L
      BY <1>1, <1>3
    <3> QED
      BY <2>1, <3>1
  <2> QED
    BY <2>1, <2>2, <2>3
<1>6. \A k \in 1..(L + m) : k \in 1..L \/ \E i \in 1..m : k = L + i
  <2>1. ASSUME NEW k \in 1..(L + m), k \notin 1..L PROVE k - L \in 1..m /\ k = L + (k - L)
    BY <1>1, <1>3, <2>1
  <2> QED
    BY <2>1
\* The last unit of s, if there is one, is the one before <<r, from>>.
<1>7. L = 0 <=> s = << >>
  BY <1>1, EmptySeq DEF L
<1>8. L = 0 => r = 1 /\ from = 1
  BY <1>3, <1>7 DEF ComesNext, EndsWithAnswer
<1>9. ASSUME L > 0
      PROVE  \/ from = 1 /\ r > 1 /\ s[L] = <<r - 1, Size(r - 1)>>
             \/ from > 1 /\ s[L] = <<r, from - 1>>
  BY <1>3, <1>7, <1>9 DEF ComesNext, EndsWithAnswer, L, Size
<1>10. <<r, from>> \in Unit /\ \A i \in 1..m : <<r, from + i - 1>> \in Unit
  BY <1>3 DEF Unit
<1>11. ASSUME NEW k \in 1..L PROVE Service!Before(s[k], <<r, from>>)
  <2>1. L \in 1..L /\ s[k] \in Unit /\ s[L] \in Unit
    BY <1>1
  <2>2. Service!Before(s[L], <<r, from>>)
    BY <1>1, <1>3, <1>9, <1>11 DEF Service!Before
  <2>3. k = L \/ Service!Before(s[k], s[L])
    BY <1>1, <1>11, <2>1, GaplessOrder DEF L
  <2> QED
    BY <1>10, <2>1, <2>2, <2>3, UnitsAreOrdered
<1>12. ASSUME NEW q \in 1..Len(input), NEW o \in 1..Size(q),
              Service!Before(<<q, o>>, <<r, from>>)
       PROVE  \E j \in 1..L : s[j] = <<q, o>>
  <2>1. q \in Nat \ {0} /\ o \in Nat \ {0} /\ o <= Size(q) /\ Size(q) \in Nat
    BY <1>2
  <2>2. q < r \/ (q = r /\ o < from)
    BY <1>12 DEF Service!Before
  <2>3. L > 0
    BY <1>1, <1>8, <2>1, <2>2
  <2>4. <<q, o>> = s[L] \/ Service!Before(<<q, o>>, s[L])
    BY <1>3, <1>9, <2>1, <2>2, <2>3 DEF Service!Before
  <2>5. L \in 1..L
    BY <1>1, <2>3
  <2>6. ASSUME Service!Before(<<q, o>>, s[L]) PROVE \E j \in 1..(L - 1) : s[j] = <<q, o>>
    BY <2>5, <2>6, GaplessOrder DEF L, Size
  <2> QED
    BY <1>1, <2>4, <2>5, <2>6
<1>13. ASSUME NEW k \in 1..(L + m)
       PROVE  /\ t[k][1] \in 1..Len(input)
              /\ t[k][2] \in 1..Size(t[k][1])
              /\ \A q \in 1..t[k][1] : Accepts(q)
  <2>1. CASE k \in 1..L
    BY <1>5, <2>1 DEF Gapless, L, Size
  <2>2. ASSUME NEW i \in 1..m, k = L + i
        PROVE  t[k][1] = r /\ t[k][2] = from + i - 1 /\ from + i - 1 \in 1..Size(r)
    <3>1. t[k] = <<r, from + i - 1>>
      BY <1>5, <2>2
    <3>2. from + i - 1 \in 1..Size(r)
      BY <1>2, <1>3 DEF m
    <3> QED
      BY <3>1, <3>2
  <2>3. ASSUME NEW i \in 1..m, k = L + i
        PROVE  /\ t[k][1] \in 1..Len(input)
               /\ t[k][2] \in 1..Size(t[k][1])
               /\ \A q \in 1..t[k][1] : Accepts(q)
    BY <2>2, <2>3
  <2> QED
    BY <1>6, <2>1, <2>3
<1>14. ASSUME NEW j \in 1..(L + m), NEW k \in 1..(L + m), j < k
       PROVE  Service!Before(t[j], t[k])
  <2>1. CASE k \in 1..L
    <3>1. j \in 1..L
      BY <1>1, <1>3, <1>14, <2>1
    <3> QED
      BY <1>5, <1>14, <2>1, <3>1 DEF Gapless, L
  <2>2. ASSUME NEW i \in 1..m, k = L + i PROVE Service!Before(t[j], t[k])
    <3>1. t[k] = <<r, from + i - 1>>
      BY <1>5, <2>2
    <3>2. CASE j \in 1..L
      <4>1. Service!Before(s[j], <<r, from>>) /\ s[j] \in Unit
        BY <1>1, <1>11, <3>2
      <4>2. from + i - 1 = from \/ Service!Before(<<r, from>>, <<r, from + i - 1>>)
        BY <1>3 DEF Service!Before
      <4>3. Service!Before(s[j], <<r, from + i - 1>>)
        BY <1>10, <4>1, <4>2, UnitsAreOrdered
      <4> QED
        BY <1>5, <3>1, <3>2, <4>3
    <3>3. ASSUME NEW h \in 1..m, j = L + h PROVE Service!Before(t[j], t[k])
      <4>1. t[j] = <<r, from + h - 1>>
        BY <1>5, <3>3
      <4>2. from + h - 1 < from + i - 1
        BY <1>1, <1>3, <1>14, <2>2, <3>3
      <4> QED
        BY <3>1, <4>1, <4>2 DEF Service!Before
    <3> QED
      BY <1>6, <3>2, <3>3
  <2> QED
    BY <1>6, <2>1, <2>2
<1>15. ASSUME NEW k \in 1..(L + m), NEW q \in 1..Len(input), NEW o \in 1..Size(q),
              Service!Before(<<q, o>>, t[k])
       PROVE  \E j \in 1..(L + m) : t[j] = <<q, o>>
  <2>1. ASSUME NEW j \in 1..L, s[j] = <<q, o>> PROVE j \in 1..(L + m) /\ t[j] = <<q, o>>
    BY <1>1, <1>3, <1>5, <2>1, SMTT(30)
  <2>2. CASE k \in 1..L
    <3>1. Service!Before(<<q, o>>, s[k])
      BY <1>5, <1>15, <2>2
    <3>2. PICK j \in 1..(k - 1) : s[j] = <<q, o>>
      BY <2>2, <3>1, GaplessOrder DEF L, Size
    <3>3. j \in 1..L
      BY <1>1, <2>2
    <3> QED
      BY <2>1, <3>2, <3>3
  <2>3. ASSUME NEW i \in 1..m, k = L + i PROVE \E j \in 1..(L + m) : t[j] = <<q, o>>
    <3>1. q \in Nat \ {0} /\ o \in Nat \ {0}
      BY <1>2
    <3>2. Service!Before(<<q, o>>, <<r, from + i - 1>>)
      BY <1>5, <1>15, <2>3
    <3>3. CASE Service!Before(<<q, o>>, <<r, from>>)
      BY <1>12, <2>1, <3>3
    <3>4. CASE ~Service!Before(<<q, o>>, <<r, from>>)
      <4>1. q = r /\ from <= o /\ o < from + i - 1
        BY <1>3, <3>1, <3>2, <3>4 DEF Service!Before
      <4>2. (o - from) + 1 \in 1..m /\ from + ((o - from) + 1) - 1 = o
        BY <1>3, <3>1, <4>1
      <4>3. L + ((o - from) + 1) \in 1..(L + m)
        BY <1>1, <1>3, <4>2
      <4> QED
        BY <1>5, <4>1, <4>2, <4>3
    <3> QED
      BY <3>3, <3>4
  <2> QED
    BY <1>6, <2>2, <2>3
<1>16. t[1] = <<1, 1>>
  <2>1. CASE L = 0
    <3>1. L + 1 = 1 /\ 1 \in 1..m /\ from + 1 - 1 = 1 /\ r = 1
      BY <1>3, <1>8, <2>1
    <3> QED
      BY <1>5, <3>1
  <2>2. CASE L > 0
    BY <1>1, <1>5, <1>7, <2>2 DEF Gapless, InOrder
  <2> QED
    BY <1>1, <2>1, <2>2
<1>17. ASSUME NEW k \in 1..(L + m - 1) PROVE t[k + 1] = Following(t[k])
  <2>1. CASE k < L
    <3>1. k \in 1..(L - 1) /\ k \in 1..L /\ k + 1 \in 1..L
      BY <1>1, <2>1
    <3> QED
      BY <1>5, <3>1 DEF Gapless, InOrder, L
  <2>2. CASE k = L
    <3>1. t[k] = s[L] /\ 1 \in 1..m /\ t[L + 1] = <<r, from + 1 - 1>>
      BY <1>3, <1>5, <2>2
    <3>2. \/ from = 1 /\ r > 1 /\ s[L] = <<r - 1, Size(r - 1)>>
          \/ from > 1 /\ s[L] = <<r, from - 1>>
      BY <1>9, <2>2
    <3>3. CASE from = 1 /\ r > 1 /\ s[L] = <<r - 1, Size(r - 1)>>
      <4>1. Size(r - 1) \in Nat
        BY <1>2, <1>3, <3>3
      <4> QED
        BY <1>3, <2>2, <3>1, <3>3, <4>1 DEF Following, Size
    <3>4. CASE from > 1 /\ s[L] = <<r, from - 1>>
      BY <1>2, <1>3, <2>2, <3>1, <3>4 DEF Following, Size
    <3> QED
      BY <3>2, <3>3, <3>4
  <2>3. CASE k > L
    <3>1. k - L \in 1..m /\ (k - L) + 1 \in 1..m /\ k = L + (k - L) /\ k + 1 = L + ((k - L) + 1)
      BY <1>1, <1>3, <2>3
    <3>2. t[k] = <<r, from + (k - L) - 1>> /\ t[k + 1] = <<r, from + ((k - L) + 1) - 1>>
      BY <1>5, <3>1
    <3>3. from + (k - L) - 1 < Size(r) /\ from + ((k - L) + 1) - 1 = (from + (k - L) - 1) + 1
      BY <1>1, <1>2, <1>3, <3>1 DEF m
    <3> QED
      BY <3>2, <3>3 DEF Following, Size
  <2> QED
    BY <1>1, <1>3, <2>1, <2>2, <2>3
<1>18. Gapless(t)
  <2>1. Len(t) = L + m
    BY <1>5
  <2>2. ASSUME NEW k \in 1..(Len(t) - 1) PROVE t[k + 1] = Following(t[k])
    <3>1. k \in 1..(L + m - 1)
      BY <1>1, <1>3, <2>1
    <3> QED
      BY <1>17, <3>1
  <2>3. InOrder(t)
    BY <1>16, <2>2 DEF InOrder
  <2> QED
    BY <1>5, <1>13, <1>14, <1>15, <2>3 DEF Gapless, Size
<1>19. t # << >> /\ t[Len(t)] = <<r, to>>
  <2>1. m \in 1..m /\ from + m - 1 = to
    BY <1>3 DEF m
  <2>2. Len(t) = L + m /\ t[L + m] = <<r, from + m - 1>>
    BY <1>5, <2>1
  <2>3. t # << >>
    BY <1>1, <1>3, <2>2, EmptySeq
  <2> QED
    BY <2>1, <2>2, <2>3
<1>20. /\ to = Size(r) => EndsWithAnswer(t, r)
       /\ to < Size(r) => ComesNext(t, r, to + 1)
  BY <1>3, <1>19 DEF EndsWithAnswer, ComesNext, Size
<1> QED
  BY <1>18, <1>20 DEF t, u, Size

\* Of a stream without gaps, the query has one without gaps when all has been
\* sent but a part at the end of what was given and what is kept.
LEMMA GaplessSent ==
    ASSUME input \in Inputs, main \in Mains,
           NEW o \in Seq(Unit), NEW given \in Seq(Unit), NEW kept \in Seq(Unit),
           Gapless(o \o (given \o kept)), NEW n \in 0..Len(given)
    PROVE  Gapless(o \o SubSeq(given, 1, n))
<1> DEFINE all == o \o (given \o kept)
           part == SubSeq(given, 1, n)
           sent == o \o part
           prefix == SubSeq(all, 1, Len(o) + n)
<1>1. Len(o) \in Nat /\ Len(given) \in Nat /\ Len(kept) \in Nat /\ n \in Nat /\ n <= Len(given)
  BY LenProperties
<1>2. /\ given \o kept \in Seq(Unit)
      /\ Len(given \o kept) = Len(given) + Len(kept)
      /\ \A k \in 1..Len(given) : (given \o kept)[k] = given[k]
  BY <1>1, ConcatProperties
<1>3. all \in Seq(Unit) /\ Len(all) = Len(o) + (Len(given) + Len(kept))
  BY <1>2, ConcatProperties
<1>4. \A k \in 1..(Len(o) + (Len(given) + Len(kept))) :
         all[k] = IF k <= Len(o) THEN o[k] ELSE (given \o kept)[k - Len(o)]
  BY <1>2, ConcatProperties
<1>5. part \in Seq(Unit) /\ Len(part) = n /\ \A k \in 1..n : part[k] = given[k]
  <2>1. \A k \in 1..n : given[k] \in Unit
    BY <1>1, ElementOfSeq
  <2> QED
    BY <1>1, <2>1, SubSeqProperties
<1> HIDE DEF part
<1>6. sent \in Seq(Unit) /\ Len(sent) = Len(o) + n
      /\ \A k \in 1..(Len(o) + n) : sent[k] = IF k <= Len(o) THEN o[k] ELSE part[k - Len(o)]
  BY <1>5, ConcatProperties
<1> HIDE DEF all, sent
<1>7. Len(o) + n \in 0..Len(all) /\ \A k \in 1..(Len(o) + n) : all[k] \in Unit
  BY <1>1, <1>3, ElementOfSeq
<1>8. prefix \in Seq(Unit) /\ Len(prefix) = Len(o) + n
      /\ \A k \in 1..(Len(o) + n) : prefix[k] = all[k]
  BY <1>1, <1>7, SubSeqProperties
<1> HIDE DEF prefix
<1>9. ASSUME NEW k \in 1..(Len(o) + n) PROVE sent[k] = prefix[k]
  <2>1. k \in 1..(Len(o) + (Len(given) + Len(kept)))
    BY <1>1
  <2>2. CASE k <= Len(o)
    BY <1>4, <1>6, <1>8, <2>1, <2>2
  <2>3. CASE ~(k <= Len(o))
    <3>1. k - Len(o) \in 1..n /\ k - Len(o) \in 1..Len(given)
      BY <1>1, <2>3
    <3>2. sent[k] = given[k - Len(o)]
      BY <1>5, <1>6, <2>3, <3>1
    <3>3. prefix[k] = given[k - Len(o)]
      BY <1>2, <1>4, <1>8, <2>1, <2>3, <3>1
    <3> QED
      BY <3>2, <3>3
  <2> QED
    BY <2>2, <2>3
<1>10. sent = prefix
  BY <1>1, <1>6, <1>8, <1>9, SeqEqual
<1>11. Gapless(prefix)
  BY <1>7, GaplessPrefix DEF prefix, all
<1> QED
  BY <1>10, <1>11 DEF sent, part

-----------------------------------------------------------------------------
(* The invariant.                                                          *)

\* No step changes the program or its input, so what is said of a stream does
\* not change.
LEMMA SameRows ==
    ASSUME UNCHANGED <<main, input>>
    PROVE  /\ \A s : Gapless(s)' <=> Gapless(s)
           /\ \A s, r : EndsWithAnswer(s, r)' <=> EndsWithAnswer(s, r)
           /\ \A s, r, p : ComesNext(s, r, p)' <=> ComesNext(s, r, p)
           /\ \A r, from, to : Pieces(r, from, to)' = Pieces(r, from, to)
           /\ \A r : Accepts(r)' <=> Accepts(r)
<1>1. main' = main /\ input' = input
  OBVIOUS
<1>2. \A s : Gapless(s)' <=> Gapless(s)
  BY <1>1 DEF Gapless, InOrder, Following, Accepts
<1>3. \A s, r : EndsWithAnswer(s, r)' <=> EndsWithAnswer(s, r)
  BY <1>1 DEF EndsWithAnswer
<1>4. \A s, r, p : ComesNext(s, r, p)' <=> ComesNext(s, r, p)
  BY <1>1, <1>3 DEF ComesNext
<1>5. \A r, from, to : Pieces(r, from, to)' = Pieces(r, from, to)
  BY <1>1 DEF Pieces
<1>6. \A r : Accepts(r)' <=> Accepts(r)
  BY <1>1 DEF Accepts
<1> QED
  BY <1>2, <1>3, <1>4, <1>5, <1>6

\* The call that is made next hands over units that come next.
LEMMA HeadComesNext ==
    ASSUME IInv, pc = "write", ~writeErr
    PROVE  /\ Head(pending) \in Seq(Unit)
           /\ Gapless(Stream \o Head(pending))
           /\ Len(pending) \in {1, 2}
           /\ Len(pending) = 1 => EndsWithAnswer(Stream \o Head(pending), row)
           /\ Len(pending) = 2 =>
                 \E from \in 1..AnswerSize(main, input, row) :
                    /\ ComesNext(Stream \o Head(pending), row, from)
                    /\ Tail(pending) = Pieces(row, from, AnswerSize(main, input, row))
<1> DEFINE size == AnswerSize(main, input, row)
<1>1. /\ input \in Inputs /\ main \in Mains /\ row \in 1..Len(input) /\ row \in Nat
      /\ \A r \in 1..row : Accepts(r)
  BY InputType DEF IInv, TypeOK, RowsRead
<1>2. size \in Nat \ {0}
  BY <1>1, AnswerSizePositive
<1>3. Gapless(Stream) /\ RestPending
  BY DEF IInv, StreamGrows
<1> HIDE DEF size
<1>4. PICK from \in 1..size :
         ComesNext(Stream, row, from) /\ \E to \in from..size : pending = Pieces(row, from, to)
  BY <1>3 DEF RestPending, size
<1>5. PICK to \in from..size : pending = Pieces(row, from, to)
  BY <1>4
<1>6. /\ Gapless(Stream \o Units(row, from, to))
      /\ to = size => EndsWithAnswer(Stream \o Units(row, from, to), row)
      /\ to < size => ComesNext(Stream \o Units(row, from, to), row, to + 1)
  BY <1>1, <1>3, <1>4, GaplessExtends DEF size
<1>7. Units(row, from, to) \in Seq(Unit)
  <2>1. from \in Nat \ {0} /\ to \in Nat /\ from <= to + 1
    BY <1>2
  <2> QED
    BY <1>1, <2>1, UnitsType
<1>8. CASE to = size
  <2>1. pending = <<Units(row, from, to)>>
    BY <1>5, <1>8 DEF Pieces, size
  <2> QED
    BY <1>6, <1>7, <1>8, <2>1
<1>9. CASE to < size
  <2>1. pending = <<Units(row, from, to), Units(row, to + 1, size)>>
    BY <1>5, <1>9 DEF Pieces, size
  <2>2. Len(pending) = 2 /\ Head(pending) = Units(row, from, to)
        /\ Tail(pending) = <<Units(row, to + 1, size)>>
    BY <2>1
  <2>3. to + 1 \in 1..size /\ Tail(pending) = Pieces(row, to + 1, size)
    BY <1>2, <1>9, <2>2 DEF Pieces, size
  <2> QED
    BY <1>6, <1>7, <1>9, <2>2, <2>3 DEF size
<1> QED
  BY <1>2, <1>8, <1>9

\* More than one call is more than the one that is made.
LEMMA TailNotEmpty ==
    ASSUME NEW S, NEW s \in Seq(S), Len(s) > 1
    PROVE  Tail(s) # << >>
<1>1. Len(s) \in Nat /\ s # << >>
  BY LenProperties, EmptySeq
<1>2. Len(Tail(s)) = Len(s) - 1
  BY <1>1, HeadTailProperties
<1>3. Len(Tail(s)) # 0
  BY <1>1, <1>2
<1> QED
  BY <1>3, EmptySeq

\* After a call of Write the loop goes on: with the next call, with the next
\* row or to the end.
LEMMA ContinueSteps ==
    ASSUME IInv, pc = "write", Continue, pending' = Tail(pending),
           UNCHANGED <<main, input, row, last, readErr>>
    PROVE  /\ RowsRead'
           /\ pending' \in Seq(Seq(Unit))
           /\ Len(pending) > 1 => pc' = "write"
           /\ ~(Len(pending) > 1) => pc' \in {"read", "flush"}
<1>1. pending \in Seq(Seq(Unit)) /\ pending # << >>
  BY DEF IInv, TypeOK, RowsRead, Unit
<1>2. /\ Tail(pending) \in Seq(Seq(Unit))
      /\ Len(pending) \in Nat
      /\ Len(Tail(pending)) = Len(pending) - 1
  BY <1>1, HeadTailProperties, LenProperties
<1>3. Len(pending) > 1 => pending' # << >>
  BY <1>1, TailNotEmpty
<1>4. /\ Len(pending) > 1 => pc' = "write"
      /\ ~(Len(pending) > 1) => pc' = IF last THEN "flush" ELSE "read"
  BY DEF Continue
<1>5. \A r \in 1..row : Accepts(r)
  BY DEF IInv, RowsRead
<1>6. \A r \in 1..row' : Accepts(r)'
  BY <1>5, SameRows
<1>7. /\ pc' = "write" => row' > 0 /\ pending' # << >>
      /\ last' /\ pc' \in {"compute", "write"} => row' = Len(input')
      /\ pc' = "flush" => row' = Len(input')
      /\ pc' # "compute"
  BY <1>3, <1>4 DEF IInv, RowsRead
<1>8. RowsRead'
  BY <1>6, <1>7 DEF RowsRead
<1> QED
  BY <1>2, <1>4, <1>8

\* A failed read keeps the invariant: nothing is sent.
LEMMA ReadFailsStep ==
    ASSUME IInv, ReadFails
    PROVE  IInv'
<1> USE DEF ReadFails, Exit
<1>1. TypeOK' /\ Running' /\ ErrorLetPass'
  BY DEF IInv, TypeOK, Running, ErrorLetPass
<1>2. Gapless(out)'
  BY SameRows DEF IInv
<1>3. RowsRead'
  <2>1. main.onReadError # "fail" => main.onReadError = "return"
    BY MainType DEF IInv, TypeOK
  <2>2. \A r \in 1..row' : Accepts(r)'
    BY SameRows DEF IInv, RowsRead
  <2> QED
    BY <2>1, <2>2 DEF RowsRead
<1>4. StreamGrows'
  <2>1. Stream' = Stream
    BY DEF Stream
  <2> QED
    BY <2>1, SameRows DEF IInv, StreamGrows
<1>5. SuccessIsComplete'
  BY DEF IInv, Running, SuccessIsComplete
<1> QED
  BY <1>1, <1>2, <1>3, <1>4, <1>5 DEF IInv

\* The end of stdin keeps the invariant: every row has been answered.
LEMMA AtEOFStep ==
    ASSUME IInv, AtEOF
    PROVE  IInv'
<1> USE DEF AtEOF
<1>1. TypeOK' /\ Running' /\ ErrorLetPass'
  BY DEF IInv, TypeOK, Running, ErrorLetPass
<1>2. Gapless(out)'
  BY SameRows DEF IInv
<1>3. RowsRead'
  <2>1. \A r \in 1..row' : Accepts(r)'
    BY SameRows DEF IInv, RowsRead
  <2> QED
    BY <2>1 DEF RowsRead
<1>4. StreamGrows'
  <2>1. Stream' = Stream
    BY DEF Stream
  <2> QED
    BY <2>1, SameRows DEF IInv, StreamGrows
<1>5. SuccessIsComplete'
  BY DEF IInv, Running, SuccessIsComplete
<1> QED
  BY <1>1, <1>2, <1>3, <1>4, <1>5 DEF IInv

\* Reading a row keeps the invariant; a row that is cut off is the last one.
LEMMA ReadRowStep ==
    ASSUME IInv, ReadRow
    PROVE  IInv'
<1> USE DEF ReadRow, Exit
<1>0. Len(input) \in Nat /\ row \in Nat /\ row + 1 \in 1..Len(input)
  BY InputType DEF IInv, TypeOK
<1>1. TypeOK' /\ Running' /\ ErrorLetPass'
  <2>1. last' \in BOOLEAN
    <3>1. last \in BOOLEAN
      BY DEF IInv, TypeOK
    <3>2. last' = last \/ last' = ~input[row + 1].whole
      OBVIOUS
    <3> QED
      BY <3>1, <3>2
  <2>2. row' \in 0..Len(input')
    BY <1>0
  <2>3. pc' \in {"compute", "exited"} /\ status' \in {"none", "1"} /\ Running'
    BY DEF IInv, TypeOK, Running
  <2> QED
    BY <2>1, <2>2, <2>3 DEF IInv, TypeOK, ErrorLetPass
<1>2. Gapless(out)'
  BY SameRows DEF IInv
<1>3. RowsRead'
  <2>1. \A r \in 1..(row' - 1) : Accepts(r)'
    BY <1>0, SameRows DEF IInv, RowsRead
  <2>2. pc' = "compute" => input'[row'].whole \/ main'.cutRow = "answer"
    OBVIOUS
  <2>3. ASSUME pc' = "compute", last' PROVE row' = Len(input')
    <3>1. \A r \in 1..(Len(input) - 1) : input[r].whole
      BY InputType DEF IInv, TypeOK
    <3>2. ~input[row + 1].whole
      BY <2>3
    <3>3. row + 1 \notin 1..(Len(input) - 1)
      BY <3>1, <3>2
    <3> QED
      BY <1>0, <3>3
  <2> QED
    BY <1>0, <2>1, <2>2, <2>3 DEF RowsRead
<1>4. StreamGrows'
  <2>1. Stream' = Stream /\ row' - 1 = row
    BY <1>0 DEF Stream
  <2> QED
    BY <2>1, SameRows DEF IInv, StreamGrows
<1>5. SuccessIsComplete'
  BY DEF IInv, Running, SuccessIsComplete
<1> QED
  BY <1>1, <1>2, <1>3, <1>4, <1>5 DEF IInv

\* Rejecting a row keeps the invariant: the program has ended.
LEMMA RejectRowStep ==
    ASSUME IInv, RejectRow
    PROVE  IInv'
<1> USE DEF RejectRow, Exit
<1>1. TypeOK' /\ Running' /\ ErrorLetPass'
  BY DEF IInv, TypeOK, Running, ErrorLetPass
<1>2. Gapless(out)'
  BY SameRows DEF IInv
<1>3. RowsRead' /\ StreamGrows' /\ SuccessIsComplete'
  BY DEF RowsRead, StreamGrows, SuccessIsComplete
<1> QED
  BY <1>1, <1>2, <1>3 DEF IInv

\* Answering a row keeps the invariant: its calls are the rest of its answer.
LEMMA AnswerRowStep ==
    ASSUME IInv, AnswerRow
    PROVE  IInv'
<1> USE DEF AnswerRow
<1> DEFINE size == AnswerSize(main, input, row)
<1>1. input \in Inputs /\ main \in Mains /\ Len(input) \in Nat /\ row \in 1..Len(input)
  BY InputType DEF IInv, TypeOK, RowsRead
<1>2. size \in Nat \ {0}
  BY <1>1, AnswerSizePositive
<1>3. PICK to \in 1..size : pending' = Pieces(row, 1, to)
  BY <1>1, WritesShape
<1>4. pending' \in Seq(Seq(Unit)) /\ pending' # << >>
  <2>1. Units(row, 1, to) \in Seq(Unit)
    BY <1>1, <1>2, UnitsType
  <2>2. to # size => Units(row, to + 1, size) \in Seq(Unit)
    BY <1>1, <1>2, UnitsType
  <2> QED
    BY <1>3, <2>1, <2>2 DEF Pieces
<1>5. TypeOK' /\ Running' /\ ErrorLetPass'
  BY <1>4 DEF IInv, TypeOK, Running, ErrorLetPass, Unit
<1>6. Gapless(out)'
  BY SameRows DEF IInv
<1>7. RowsRead'
  <2>1. Accepts(row) /\ \A r \in 1..(row - 1) : Accepts(r)
    BY DEF IInv, RowsRead, Accepts
  <2>2. \A r \in 1..row' : Accepts(r)'
    BY <1>1, <2>1, SameRows
  <2> QED
    BY <1>1, <1>4, <2>2 DEF IInv, RowsRead
<1>8. StreamGrows'
  <2>1. Stream' = Stream
    BY DEF Stream
  <2>2. ASSUME ~writeErr PROVE RestPending'
    <3>1. ComesNext(Stream, row, 1)
      BY <2>2 DEF IInv, StreamGrows, ComesNext
    <3>2. 1 \in 1..size /\ ComesNext(Stream, row, 1)' /\ size' = size
      BY <1>2, <2>1, <3>1, SameRows
    <3>3. \E t \in 1..size : pending' = Pieces(row, 1, t)'
      BY <1>3, SameRows
    <3> QED
      BY <3>2, <3>3 DEF RestPending
  <2> QED
    BY <2>1, <2>2, SameRows DEF IInv, StreamGrows
<1>9. SuccessIsComplete'
  BY DEF IInv, Running, SuccessIsComplete
<1> QED
  BY <1>5, <1>6, <1>7, <1>8, <1>9 DEF IInv

\* Whatever part of what the writer hands on reaches stdout, the query has a
\* stream without gaps.
LEMMA WriteSends ==
    ASSUME IInv, pc = "write", ~writeErr
    PROVE  LET given == Passed(buf, Head(pending))
               kept == Kept(buf, Head(pending))
           IN  /\ given \in Seq(Unit) /\ kept \in Seq(Unit)
               /\ (out \o given) \o kept = Stream \o Head(pending)
               /\ \A n \in 0..Len(given) : Gapless(out \o SubSeq(given, 1, n))
<1> DEFINE given == Passed(buf, Head(pending))
           kept == Kept(buf, Head(pending))
<1>1. out \in Seq(Unit) /\ buf \in Seq(Unit) /\ input \in Inputs /\ main \in Mains
  BY DEF IInv, TypeOK, Unit
<1>2. Head(pending) \in Seq(Unit) /\ Gapless(Stream \o Head(pending))
  BY HeadComesNext
<1>3. given \in Seq(Unit) /\ kept \in Seq(Unit) /\ given \o kept = buf \o Head(pending)
  BY <1>1, <1>2, PassedAndKept
<1> HIDE DEF given, kept
<1>0. \A s, t, u \in Seq(Unit) : (s \o t) \o u = s \o (t \o u)
  BY ConcatAssociative
<1>4. out \o (given \o kept) = Stream \o Head(pending)
  <2>1. (out \o buf) \o Head(pending) = out \o (buf \o Head(pending))
    BY <1>1, <1>2, <1>0
  <2> QED
    BY <1>3, <2>1 DEF Stream
<1>5. (out \o given) \o kept = Stream \o Head(pending)
  BY <1>1, <1>3, <1>4, <1>0
<1>6. ASSUME NEW n \in 0..Len(given) PROVE Gapless(out \o SubSeq(given, 1, n))
  BY <1>1, <1>2, <1>3, <1>4, GaplessSent
<1> QED
  BY <1>3, <1>5, <1>6 DEF given, kept

\* A Write that succeeds keeps the invariant: the stream grows by what it was
\* given, wherever the writer's buffer was flushed.
LEMMA WriteOKStep ==
    ASSUME IInv, WriteOK
    PROVE  IInv'
<1> DEFINE given == Passed(buf, Head(pending))
           kept == Kept(buf, Head(pending))
<1>1. pc = "write" /\ ~writeErr /\ out' = out \o given /\ buf' = kept
      /\ Continue /\ pending' = Tail(pending)
      /\ UNCHANGED <<main, input, row, last, writeErr, status, readErr>>
  BY DEF WriteOK
<1>2. /\ RowsRead'
      /\ pending' \in Seq(Seq(Unit))
      /\ Len(pending) > 1 => pc' = "write"
      /\ ~(Len(pending) > 1) => pc' \in {"read", "flush"}
  BY <1>1, ContinueSteps
<1>3. /\ given \in Seq(Unit) /\ kept \in Seq(Unit)
      /\ (out \o given) \o kept = Stream \o Head(pending)
      /\ \A n \in 0..Len(given) : Gapless(out \o SubSeq(given, 1, n))
  BY <1>1, WriteSends
<1> HIDE DEF given, kept
<1>4. Gapless(out')
  <2>1. Len(given) \in 0..Len(given) /\ SubSeq(given, 1, Len(given)) = given
    BY <1>3, LenProperties, SubSeqFull
  <2> QED
    BY <1>1, <1>3, <2>1
<1>5. out' \in Seq(Unit)
  BY <1>4 DEF Gapless
<1>6. TypeOK' /\ Running' /\ ErrorLetPass'
  <2>1. pc' \in {"read", "write", "flush"} /\ pc' # "exited"
    BY <1>2
  <2>2. row' \in 0..Len(input') /\ main' \in Mains /\ input' \in Inputs /\ last' \in BOOLEAN
        /\ writeErr' \in BOOLEAN /\ readErr' \in BOOLEAN /\ status' = "none"
    BY <1>1 DEF IInv, TypeOK, Running
  <2> QED
    BY <1>1, <1>2, <1>3, <1>5, <2>1, <2>2 DEF TypeOK, Running, ErrorLetPass, Unit
<1>7. StreamGrows'
  <2>1. Stream' = Stream \o Head(pending)
    BY <1>1, <1>3 DEF Stream
  <2>2. /\ Gapless(Stream')
        /\ Len(pending) \in {1, 2}
        /\ Len(pending) = 1 => EndsWithAnswer(Stream', row)
        /\ Len(pending) = 2 =>
              \E from \in 1..AnswerSize(main, input, row) :
                  /\ ComesNext(Stream', row, from)
                  /\ pending' = Pieces(row, from, AnswerSize(main, input, row))
    BY <1>1, <2>1, HeadComesNext
  <2>3. CASE Len(pending) = 1
    <3>1. pc' \in {"read", "flush"}
      BY <1>2, <2>3
    <3>2. EndsWithAnswer(Stream, row)' /\ Gapless(Stream)'
      BY <1>1, <2>2, <2>3, SameRows
    <3> QED
      BY <3>1, <3>2 DEF StreamGrows
  <2>4. CASE Len(pending) = 2
    <3>1. pc' = "write"
      BY <1>2, <2>4
    <3>2. PICK from \in 1..AnswerSize(main, input, row) :
             /\ ComesNext(Stream', row, from)
             /\ pending' = Pieces(row, from, AnswerSize(main, input, row))
      BY <2>2, <2>4
    <3>3. AnswerSize(main, input, row) \in from..AnswerSize(main, input, row)
      <4>1. input \in Inputs /\ main \in Mains /\ row \in 1..Len(input)
        BY <1>1, InputType DEF IInv, TypeOK, RowsRead
      <4>2. AnswerSize(main, input, row) \in Nat
        BY <4>1, AnswerSizePositive
      <4> QED
        BY <4>2
    <3>4. from \in 1..AnswerSize(main, input, row)'
          /\ ComesNext(Stream, row, from)'
          /\ \E to \in from..AnswerSize(main, input, row)' : pending' = Pieces(row, from, to)'
      BY <1>1, <3>2, <3>3, SameRows
    <3>5. RestPending'
      BY <3>4 DEF RestPending
    <3>6. Gapless(Stream)'
      BY <1>1, <2>2, SameRows
    <3> QED
      BY <3>1, <3>5, <3>6 DEF StreamGrows
  <2> QED
    BY <2>2, <2>3, <2>4
<1>8. Gapless(out)'
  BY <1>1, <1>4, SameRows
<1>9. SuccessIsComplete'
  BY <1>1 DEF IInv, Running, SuccessIsComplete
<1> QED
  BY <1>2, <1>6, <1>7, <1>8, <1>9 DEF IInv

\* A write that fails hands on a part of what it was given.
LEMMA CutShortSends ==
    ASSUME NEW given \in Seq(Unit), CutShort(given)
    PROVE  writeErr' = TRUE /\ \E n \in 0..Len(given) : out' = out \o SubSeq(given, 1, n)
<1>1. Len(given) \in Nat
  BY LenProperties
<1>2. 0..(Len(given) - 1) \subseteq 0..Len(given)
  BY <1>1
<1> QED
  BY <1>2 DEF CutShort

\* A Write that fails keeps the invariant, whether it is checked or not.
LEMMA WriteFailsStep ==
    ASSUME IInv, WriteFails
    PROVE  IInv'
<1> DEFINE given == Passed(buf, Head(pending))
<1>1. /\ pc = "write" /\ ~writeErr /\ CutShort(given) /\ buf' = << >> /\ pending' = Tail(pending)
      /\ IF main.checksWrites THEN Exit("1") ELSE Continue /\ UNCHANGED status
      /\ UNCHANGED <<main, input, row, last, readErr>>
  BY DEF WriteFails
<1>2. given \in Seq(Unit) /\ \A n \in 0..Len(given) : Gapless(out \o SubSeq(given, 1, n))
  BY <1>1, WriteSends
<1> HIDE DEF given
<1>3. writeErr' = TRUE /\ \E n \in 0..Len(given) : out' = out \o SubSeq(given, 1, n)
  BY <1>1, <1>2, CutShortSends
<1>4. Gapless(out')
  BY <1>2, <1>3
<1>5. Gapless(out)' /\ out' \in Seq(Unit)
  BY <1>1, <1>4, SameRows DEF Gapless
<1>6. main' \in Mains /\ input' \in Inputs /\ row' \in 0..Len(input') /\ last' \in BOOLEAN
      /\ readErr' \in BOOLEAN /\ buf' \in Seq(Unit) /\ main.checksWrites \in BOOLEAN
  BY <1>1, EmptySeq, MainType DEF IInv, TypeOK
<1>7. StreamGrows'
  BY <1>3 DEF StreamGrows
<1>8. CASE main.checksWrites
  <2>1. pc' = "exited" /\ status' = "1" /\ pending' \in Seq(Seq(Unit))
    <3>1. pending \in Seq(Seq(Unit)) /\ pending # << >>
      BY <1>1 DEF IInv, TypeOK, RowsRead, Unit
    <3> QED
      BY <1>1, <1>8, <3>1, HeadTailProperties DEF Exit
  <2>2. TypeOK' /\ Running' /\ ErrorLetPass' /\ RowsRead' /\ SuccessIsComplete'
    BY <1>3, <1>5, <1>6, <2>1 DEF TypeOK, Running, ErrorLetPass, RowsRead, SuccessIsComplete, Unit
  <2> QED
    BY <1>5, <1>7, <2>2 DEF IInv
<1>9. CASE ~main.checksWrites
  <2>1. Continue /\ status' = status /\ status = "none"
    BY <1>1, <1>9 DEF IInv, Running
  <2>2. RowsRead' /\ pending' \in Seq(Seq(Unit)) /\ pc' \in {"read", "write", "flush"}
    BY <1>1, <2>1, ContinueSteps
  <2>3. TypeOK' /\ Running' /\ ErrorLetPass' /\ SuccessIsComplete'
    BY <1>1, <1>3, <1>5, <1>6, <1>9, <2>1, <2>2
       DEF TypeOK, Running, ErrorLetPass, SuccessIsComplete, Unit
  <2> QED
    BY <1>5, <1>7, <2>2, <2>3 DEF IInv
<1> QED
  BY <1>8, <1>9

\* A Write after an error keeps the invariant: nothing is sent.
LEMMA WriteAfterErrorStep ==
    ASSUME IInv, WriteAfterError
    PROVE  IInv'
<1>1. /\ pc = "write" /\ writeErr /\ Continue /\ pending' = Tail(pending)
      /\ UNCHANGED <<main, input, row, last, buf, writeErr, out, status, readErr>>
  BY DEF WriteAfterError
<1>2. RowsRead' /\ pending' \in Seq(Seq(Unit)) /\ pc' \in {"read", "write", "flush"}
  BY <1>1, ContinueSteps
<1>3. TypeOK' /\ Running' /\ ErrorLetPass'
  BY <1>1, <1>2 DEF IInv, TypeOK, Running, ErrorLetPass, Unit
<1>4. Gapless(out)'
  BY <1>1, SameRows DEF IInv
<1>5. StreamGrows' /\ SuccessIsComplete'
  BY <1>1 DEF IInv, Running, StreamGrows, SuccessIsComplete
<1> QED
  BY <1>2, <1>3, <1>4, <1>5 DEF IInv

\* The last Flush keeps the invariant: all that was buffered is out.
LEMMA FlushOKStep ==
    ASSUME IInv, FlushOK
    PROVE  IInv'
<1> USE DEF FlushOK, Exit
<1>1. out' = Stream
  BY DEF Stream
<1>2. Gapless(Stream) /\ EndsWithAnswer(Stream, row) /\ \A r \in 1..row : Accepts(r)
  BY DEF IInv, StreamGrows, RowsRead
<1>3. Gapless(out)'
  BY <1>1, <1>2, SameRows
<1>4. out' \in Seq(Unit) /\ buf' \in Seq(Unit)
  BY <1>3, EmptySeq DEF Gapless
<1>5. TypeOK' /\ Running' /\ ErrorLetPass' /\ RowsRead' /\ StreamGrows'
  BY <1>4 DEF IInv, TypeOK, Running, ErrorLetPass, RowsRead, StreamGrows, Unit
<1>6. SuccessIsComplete'
  <2>1. row = Len(input) \/ (readErr /\ main.onReadError = "return")
    BY DEF IInv, RowsRead
  <2>2. EndsWithAnswer(out, row)' /\ \A r \in 1..row' : Accepts(r)'
    BY <1>1, <1>2, SameRows
  <2> QED
    BY <2>1, <2>2 DEF SuccessIsComplete
<1> QED
  BY <1>3, <1>5, <1>6 DEF IInv

\* A flush, or the program, is interrupted: part of the buffer is out.
LEMMA FlushSends ==
    ASSUME IInv, pc = "flush", ~writeErr
    PROVE  \A n \in 0..Len(buf) : Gapless(out \o SubSeq(buf, 1, n))
<1>1. out \in Seq(Unit) /\ buf \in Seq(Unit) /\ << >> \in Seq(Unit) /\ buf \o << >> = buf
  BY EmptySeq, ConcatEmptySeq DEF IInv, TypeOK, Unit
<1>2. Gapless(out \o (buf \o << >>))
  BY <1>1 DEF IInv, StreamGrows, Stream
<1> QED
  BY <1>1, <1>2, GaplessSent DEF IInv, TypeOK

\* A Flush that fails keeps the invariant.
LEMMA FlushFailsStep ==
    ASSUME IInv, FlushFails
    PROVE  IInv'
<1>1. /\ pc = "flush" /\ ~writeErr /\ CutShort(buf) /\ buf' = << >> /\ pc' = "exited"
      /\ status' = IF main.checksWrites THEN "1" ELSE "0"
      /\ UNCHANGED <<main, input, row, last, pending, readErr>>
  BY DEF FlushFails, Exit
<1>2. buf \in Seq(Unit) /\ \A n \in 0..Len(buf) : Gapless(out \o SubSeq(buf, 1, n))
  BY <1>1, FlushSends DEF IInv, TypeOK, Unit
<1>3. writeErr' = TRUE /\ \E n \in 0..Len(buf) : out' = out \o SubSeq(buf, 1, n)
  BY <1>1, <1>2, CutShortSends
<1>4. Gapless(out')
  BY <1>2, <1>3
<1>5. Gapless(out)' /\ out' \in Seq(Unit) /\ buf' \in Seq(Unit)
  BY <1>1, <1>4, SameRows, EmptySeq DEF Gapless
<1>6. TypeOK' /\ Running' /\ ErrorLetPass' /\ RowsRead' /\ StreamGrows'
  BY <1>1, <1>3, <1>5 DEF IInv, TypeOK, Running, ErrorLetPass, RowsRead, StreamGrows, Unit
<1>7. SuccessIsComplete'
  <2>1. row = Len(input) \/ (readErr /\ main.onReadError = "return")
    BY <1>1 DEF IInv, RowsRead
  <2>2. \A r \in 1..row' : Accepts(r)'
    BY <1>1, SameRows DEF IInv, RowsRead
  <2> QED
    BY <1>1, <1>3, <2>1, <2>2 DEF SuccessIsComplete
<1> QED
  BY <1>5, <1>6, <1>7 DEF IInv

\* A Flush after an error keeps the invariant: nothing is sent.
LEMMA FlushAfterErrorStep ==
    ASSUME IInv, FlushAfterError
    PROVE  IInv'
<1> USE DEF FlushAfterError, Exit
<1>1. TypeOK' /\ Running' /\ ErrorLetPass' /\ RowsRead' /\ StreamGrows'
  BY DEF IInv, TypeOK, Running, ErrorLetPass, RowsRead, StreamGrows
<1>2. Gapless(out)'
  BY SameRows DEF IInv
<1>3. SuccessIsComplete'
  <2>1. row = Len(input) \/ (readErr /\ main.onReadError = "return")
    BY DEF IInv, RowsRead
  <2>2. \A r \in 1..row' : Accepts(r)'
    BY SameRows DEF IInv, RowsRead
  <2>3. ~main.checksWrites
    BY DEF IInv, ErrorLetPass
  <2> QED
    BY <2>1, <2>2, <2>3 DEF SuccessIsComplete
<1> QED
  BY <1>1, <1>2, <1>3 DEF IInv

\* A closed pipe keeps the invariant: part of what was given is out.
LEMMA BrokenPipeStep ==
    ASSUME IInv, BrokenPipe
    PROVE  IInv'
<1> DEFINE given == IF pc = "write" THEN Passed(buf, Head(pending)) ELSE buf
<1>1. /\ pc \in {"write", "flush"} /\ ~writeErr /\ pc' = "exited" /\ status' = "signal"
      /\ \E n \in 0..(Len(given) - 1) : out' = out \o SubSeq(given, 1, n)
      /\ UNCHANGED <<main, input, row, last, pending, buf, writeErr, readErr>>
  BY DEF BrokenPipe, Exit
<1>2. given \in Seq(Unit) /\ \A n \in 0..Len(given) : Gapless(out \o SubSeq(given, 1, n))
  BY <1>1, WriteSends, FlushSends DEF IInv, TypeOK, Unit
<1> HIDE DEF given
<1>3. \E n \in 0..Len(given) : out' = out \o SubSeq(given, 1, n)
  <2>1. Len(given) \in Nat
    BY <1>2, LenProperties
  <2>2. 0..(Len(given) - 1) \subseteq 0..Len(given)
    BY <2>1
  <2> QED
    BY <1>1, <2>2
<1>4. Gapless(out')
  BY <1>2, <1>3
<1>5. Gapless(out)' /\ out' \in Seq(Unit)
  BY <1>1, <1>4, SameRows DEF Gapless
<1>6. TypeOK' /\ Running' /\ ErrorLetPass' /\ RowsRead' /\ StreamGrows' /\ SuccessIsComplete'
  BY <1>1, <1>5
     DEF IInv, TypeOK, Running, ErrorLetPass, RowsRead, StreamGrows, SuccessIsComplete, Unit
<1> QED
  BY <1>5, <1>6 DEF IInv

\* The program begins with the invariant.
LEMMA InvariantInit ==
    ASSUME Init
    PROVE  IInv
<1> USE DEF Init
<1>1. Len(input) \in Nat
  BY InputType
<1>2. << >> \in Seq(Unit) /\ << >> \in Seq(Seq(Unit)) /\ Len(<< >>) = 0
  BY EmptySeq
<1>3. TypeOK /\ Running /\ ErrorLetPass
  <2>1. 0 \in 0..Len(input)
    BY <1>1
  <2>2. pending \in Seq(Seq(Nat \X Nat)) /\ buf \in Seq(Nat \X Nat) /\ out \in Seq(Nat \X Nat)
    BY <1>2 DEF Unit
  <2> QED
    BY <2>1, <2>2 DEF TypeOK, Running, ErrorLetPass
<1>4. Gapless(<< >>)
  BY <1>2 DEF Gapless, InOrder
<1>5. RowsRead /\ SuccessIsComplete
  BY DEF RowsRead, SuccessIsComplete
<1>6. StreamGrows
  <2>1. Stream = << >>
    BY <1>2, ConcatEmptySeq DEF Stream
  <2> QED
    BY <1>4, <2>1 DEF StreamGrows, EndsWithAnswer
<1> QED
  BY <1>3, <1>4, <1>5, <1>6 DEF IInv

\* Every step of the program keeps the invariant.
LEMMA InvariantStep ==
    ASSUME IInv, [Next]_vars
    PROVE  IInv'
<1>1. CASE Next
  BY <1>1, ReadFailsStep, AtEOFStep, ReadRowStep, RejectRowStep, AnswerRowStep, WriteOKStep,
     WriteFailsStep, WriteAfterErrorStep, FlushOKStep, FlushFailsStep, FlushAfterErrorStep,
     BrokenPipeStep DEF Next
<1>2. CASE UNCHANGED vars
  <2>1. TypeOK' /\ Running' /\ ErrorLetPass'
    BY <1>2 DEF IInv, TypeOK, Running, ErrorLetPass, vars
  <2>2. SuccessIsComplete'
    BY <1>2, SameRows DEF IInv, SuccessIsComplete, vars
  <2>3. Gapless(out)' /\ RowsRead'
    BY <1>2, SameRows DEF IInv, RowsRead, vars
  <2>4. StreamGrows'
    <3>1. Stream' = Stream
      BY <1>2 DEF Stream, vars
    <3>2. ASSUME RestPending PROVE RestPending'
      BY <1>2, <3>1, <3>2, SameRows DEF RestPending, vars
    <3> QED
      BY <1>2, <3>1, <3>2, SameRows DEF IInv, StreamGrows, vars
  <2> QED
    BY <2>1, <2>2, <2>3, <2>4 DEF IInv
<1> QED
  BY <1>1, <1>2

\* The invariant holds throughout.
THEOREM Invariance == Spec => []IInv
<1>1. Init => IInv
  BY InvariantInit
<1>2. IInv /\ [Next]_vars => IInv'
  BY InvariantStep
<1> QED
  BY <1>1, <1>2, PTL DEF Spec

\* The variables keep their types: the main loops of the six programs.
THEOREM TypeCorrect == Spec => []TypeOK
<1>1. IInv => TypeOK
  BY DEF IInv
<1> QED
  BY <1>1, Invariance, PTL

\* Whatever fails and wherever the program stops, the query has received a
\* prefix of the answers, and none beyond a row the program refuses.
THEOREM AnswersInOrder == Spec => []OutputInOrder
<1>1. IInv => OutputInOrder
  BY DEF IInv, Gapless, OutputInOrder
<1> QED
  BY <1>1, Invariance, PTL

\* Exit status 0 means that every row was read and accepted and its whole answer
\* was written.  A read error that a program lets pass excuses the rows it has not
\* read, a write error the answers that did not arrive, and neither anything else.
THEOREM SuccessMeansAll == Spec => []SuccessIsComplete
<1>1. IInv => SuccessIsComplete
  BY DEF IInv
<1> QED
  BY <1>1, Invariance, PTL

-----------------------------------------------------------------------------
(* What the query sees: RowService.                                        *)

\* The units of the answers, and the rows that have one.
LEMMA ServiceUnits ==
    ASSUME input \in Inputs, main \in Mains
    PROVE  /\ Len(AnswerSizes) = Len(input)
           /\ Service!Answered = {r \in 1..Len(input) : \A q \in 1..r : Accepts(q)}
           /\ \A u : u \in Service!AnswerUnits <=>
                 \E r \in Service!Answered : \E p \in 1..AnswerSize(main, input, r) : u = <<r, p>>
<1> DEFINE n == Len(input)
           Size(r) == AnswerSize(main, input, r)
<1>1. n \in Nat /\ \A r \in 1..n : Size(r) \in Nat \ {0}
  BY InputType, AnswerSizePositive
<1> HIDE DEF n, Size
<1>2. AnswerSizes = [r \in 1..n |-> IF Accepts(r) THEN Size(r) ELSE 0]
  BY DEF AnswerSizes, n, Size
<1>3. AnswerSizes \in Seq(Nat) /\ Len(AnswerSizes) = n
  <2>1. AnswerSizes \in [1..n -> Nat]
    BY <1>1, <1>2
  <2>2. AnswerSizes \in Seq(Nat)
    BY <1>1, <2>1, SeqDef
  <2>3. DOMAIN AnswerSizes = 1..n /\ DOMAIN AnswerSizes = 1..Len(AnswerSizes)
        /\ Len(AnswerSizes) \in Nat
    BY <2>1, <2>2, LenProperties
  <2> QED
    BY <1>1, <2>2, <2>3
<1>4. \A q \in 1..n : AnswerSizes[q] > 0 <=> Accepts(q)
  BY <1>1, <1>2
<1>5. Service!Answered = {r \in 1..n : \A q \in 1..r : Accepts(q)}
  <2>1. Service!Answered = {r \in 1..n : \A q \in 1..r : AnswerSizes[q] > 0}
    BY <1>3 DEF Service!Answered
  <2>2. ASSUME NEW r \in 1..n
        PROVE  (\A q \in 1..r : AnswerSizes[q] > 0) <=> (\A q \in 1..r : Accepts(q))
    <3>1. \A q \in 1..r : q \in 1..n
      BY <1>1
    <3> QED
      BY <1>4, <3>1
  <2> QED
    BY <2>1, <2>2
<1>6. ASSUME NEW r \in Service!Answered PROVE AnswerSizes[r] = Size(r)
  <2>1. r \in 1..n /\ Accepts(r)
    BY <1>1, <1>5
  <2> QED
    BY <1>2, <2>1
<1>7. ASSUME NEW u
      PROVE  u \in Service!AnswerUnits <=>
                \E r \in Service!Answered : \E p \in 1..Size(r) : u = <<r, p>>
  BY <1>6 DEF Service!AnswerUnits
<1> QED
  BY <1>3, <1>5, <1>7 DEF n, Size

\* A stream without gaps is what a query may have received.
LEMMA GaplessIsPrefix ==
    ASSUME input \in Inputs, main \in Mains, NEW s, Gapless(s)
    PROVE  Service!IsPrefixOfAnswers(s)
<1>0. s \in Seq(Unit) /\ Len(s) \in Nat /\ Len(input) \in Nat
  BY InputType, LenProperties DEF Gapless
<1>1. ASSUME NEW k \in 1..Len(s) PROVE s[k] \in Service!AnswerUnits
  <2>1. s[k] = <<s[k][1], s[k][2]>>
    BY <1>0, ElementOfSeq DEF Unit
  <2>2. /\ s[k][1] \in 1..Len(input) /\ s[k][2] \in 1..AnswerSize(main, input, s[k][1])
        /\ \A r \in 1..s[k][1] : Accepts(r)
    BY DEF Gapless
  <2> QED
    BY <2>1, <2>2, ServiceUnits
<1>2. ASSUME NEW k \in 1..(Len(s) - 1) PROVE Service!Before(s[k], s[k + 1])
  <2>1. k \in 1..Len(s) /\ k + 1 \in 1..Len(s) /\ k < k + 1
    BY <1>0
  <2> QED
    BY <2>1 DEF Gapless
<1>3. ASSUME NEW k \in 1..Len(s), NEW u \in Service!AnswerUnits, Service!Before(u, s[k])
      PROVE  \E j \in 1..k : s[j] = u
  <2>0. PICK r \in Service!Answered : \E p \in 1..AnswerSize(main, input, r) : u = <<r, p>>
    BY ServiceUnits
  <2>1. PICK p \in 1..AnswerSize(main, input, r) : u = <<r, p>>
    BY <2>0
  <2>2. r \in 1..Len(input)
    BY ServiceUnits
  <2>3. \E j \in 1..(k - 1) : s[j] = <<r, p>>
    BY <1>3, <2>1, <2>2, GaplessOrder
  <2> QED
    BY <1>0, <2>1, <2>3
<1> QED
  BY <1>1, <1>2, <1>3 DEF Service!IsPrefixOfAnswers

\* A stream without gaps that ends with the last answer is complete.
LEMMA EndIsComplete ==
    ASSUME input \in Inputs, main \in Mains,
           NEW s, Gapless(s), EndsWithAnswer(s, Len(input))
    PROVE  Service!Complete(s)
<1> DEFINE n == Len(input)
<1>1. s \in Seq(Unit) /\ Len(s) \in Nat /\ n \in Nat
  BY InputType, LenProperties DEF Gapless
<1>2. CASE n = 0
  <2>1. Service!Answered = 1..Len(AnswerSizes)
    BY <1>2, ServiceUnits
  <2>2. Service!AnswerUnits = {}
    BY <1>2, <2>1, ServiceUnits
  <2> QED
    BY <2>1, <2>2 DEF Service!Complete
<1>3. CASE n > 0
  <2> DEFINE L == Len(s)
             size == AnswerSize(main, input, n)
  <2>1. L \in 1..L /\ s[L] = <<n, size>>
    BY <1>1, <1>3, EmptySeq DEF EndsWithAnswer
  <2>2. \A r \in 1..n : Accepts(r)
    BY <2>1 DEF Gapless
  <2>3. Service!Answered = 1..Len(AnswerSizes)
    <3>1. \A r \in 1..n : \A q \in 1..r : Accepts(q)
      BY <1>1, <2>2
    <3>2. {r \in 1..n : \A q \in 1..r : Accepts(q)} = 1..n
      BY <3>1
    <3> QED
      BY <3>2, ServiceUnits
  <2>4. ASSUME NEW u \in Service!AnswerUnits PROVE \E j \in 1..L : s[j] = u
    <3>0. PICK r \in Service!Answered : \E p \in 1..AnswerSize(main, input, r) : u = <<r, p>>
      BY ServiceUnits
    <3>1. PICK p \in 1..AnswerSize(main, input, r) : u = <<r, p>>
      BY <3>0
    <3>2. r \in 1..n /\ AnswerSize(main, input, r) \in Nat \ {0}
      BY ServiceUnits, AnswerSizePositive
    <3>3. u = s[L] \/ Service!Before(<<r, p>>, s[L])
      BY <1>1, <2>1, <3>1, <3>2 DEF Service!Before
    <3>4. CASE Service!Before(<<r, p>>, s[L])
      <4>1. PICK j \in 1..(L - 1) : s[j] = <<r, p>>
        BY <2>1, <3>2, <3>4, GaplessOrder
      <4> QED
        BY <1>1, <3>1, <4>1
    <3> QED
      BY <2>1, <3>3, <3>4
  <2> QED
    BY <2>3, <2>4 DEF Service!Complete
<1> QED
  BY <1>1, <1>2, <1>3

\* A step of the program adds to what the query has received.
LEMMA OutGrows ==
    ASSUME IInv, Next
    PROVE  Len(out') >= Len(out) /\ SubSeq(out', 1, Len(out)) = out
<1>1. out \in Seq(Unit) /\ buf \in Seq(Unit) /\ Len(out) \in Nat
  BY LenProperties DEF IInv, TypeOK, Unit
<1>2. SubSeq(out, 1, Len(out)) = out
  BY <1>1, SubSeqFull
<1>3. ASSUME NEW x \in Seq(Unit)
      PROVE  Len(out \o x) >= Len(out) /\ SubSeq(out \o x, 1, Len(out)) = out
  <2>1. Len(out \o x) = Len(out) + Len(x) /\ Len(x) \in Nat
    BY <1>1, ConcatProperties, LenProperties
  <2>2. CASE Len(out) = 0
    <3>1. out = << >> /\ SubSeq(out \o x, 1, 0) = << >>
      BY <1>1, <2>2, EmptySeq, SubSeqEmpty
    <3> QED
      BY <2>1, <2>2, <3>1
  <2>3. CASE Len(out) > 0
    <3>1. 1 \in 1..Len(out) /\ Len(out) \in 1..Len(out)
      BY <1>1, <2>3
    <3>2. SubSeq(out \o x, 1, Len(out)) = SubSeq(out, 1, Len(out))
      BY <1>1, <3>1, SubSeqOfConcat1
    <3> QED
      BY <1>1, <1>2, <2>1, <3>2
  <2> QED
    BY <1>1, <2>2, <2>3
<1>4. ASSUME NEW given \in Seq(Unit), NEW n \in 0..Len(given)
      PROVE  SubSeq(given, 1, n) \in Seq(Unit)
  <2>1. Len(given) \in Nat /\ \A k \in 1..n : given[k] \in Unit
    BY LenProperties, ElementOfSeq
  <2> QED
    BY <2>1, SubSeqProperties
<1>5. out' = out \/ \E x \in Seq(Unit) : out' = out \o x
  <2>1. CASE WriteOK
    BY <2>1, WriteSends DEF WriteOK
  <2>2. CASE WriteFails
    <3>1. pc = "write" /\ ~writeErr /\ CutShort(Passed(buf, Head(pending)))
      BY <2>2 DEF WriteFails
    <3>2. Passed(buf, Head(pending)) \in Seq(Unit)
      BY <3>1, WriteSends
    <3> QED
      BY <1>4, <3>1, <3>2, CutShortSends
  <2>3. CASE FlushOK
    BY <1>1, <2>3 DEF FlushOK
  <2>4. CASE FlushFails
    BY <1>1, <1>4, <2>4, CutShortSends DEF FlushFails
  <2>5. CASE BrokenPipe
    <3> DEFINE given == IF pc = "write" THEN Passed(buf, Head(pending)) ELSE buf
    <3>1. ~writeErr /\ \E n \in 0..(Len(given) - 1) : out' = out \o SubSeq(given, 1, n)
      BY <2>5 DEF BrokenPipe
    <3>2. given \in Seq(Unit)
      BY <1>1, <3>1, WriteSends
    <3> HIDE DEF given
    <3>3. Len(given) \in Nat
      BY <3>2, LenProperties
    <3>4. 0..(Len(given) - 1) \subseteq 0..Len(given)
      BY <3>3
    <3> QED
      BY <1>4, <3>1, <3>2, <3>4
  <2>6. CASE ReadFails \/ AtEOF \/ ReadRow \/ RejectRow \/ AnswerRow
             \/ WriteAfterError \/ FlushAfterError
    BY <2>6 DEF ReadFails, AtEOF, ReadRow, RejectRow, AnswerRow, WriteAfterError, FlushAfterError
  <2> QED
    BY <2>1, <2>2, <2>3, <2>4, <2>5, <2>6 DEF Next
<1> QED
  BY <1>1, <1>2, <1>3, <1>5

\* A program does not change the rows, forget an error or go on after its end.
LEMMA StepFrame ==
    ASSUME IInv, IInv', Next
    PROVE  /\ UNCHANGED <<main, input>>
           /\ status = "none"
           /\ writeErr => writeErr'
           /\ readErr => readErr'
<1>1. UNCHANGED <<main, input>> /\ pc # "exited" /\ (writeErr => writeErr') /\ (readErr => readErr')
  BY DEF Next, ReadFails, AtEOF, ReadRow, RejectRow, AnswerRow, WriteOK, WriteFails, CutShort,
         WriteAfterError, FlushOK, FlushFails, FlushAfterError, BrokenPipe
<1> QED
  BY <1>1 DEF IInv, Running

\* The program serves rows as a query may rely on.
THEOREM Refinement == Spec => ServesRows
<1>1. Init => Service!Init
  BY DEF Init, Service!Init, LetsPass, Outcome
<1>2. ASSUME IInv, IInv', [Next]_vars
      PROVE  [Service!Next]_(Service!vars)
  <2>1. CASE UNCHANGED vars
    BY <2>1 DEF vars, Service!vars, AnswerSizes, Accepts, LetsPass, Outcome
  <2>2. CASE Next
    <3>1. /\ UNCHANGED <<main, input>> /\ status = "none"
          /\ writeErr => writeErr'
          /\ readErr => readErr'
      BY <1>2, <2>2, StepFrame
    <3>2. AnswerSizes' = AnswerSizes
      BY <3>1 DEF AnswerSizes, Accepts
    <3>3. input \in Inputs /\ main \in Mains /\ Gapless(out')
      BY <1>2, <3>1, SameRows DEF IInv, TypeOK
    <3>4. Service!IsPrefixOfAnswers(out')
      BY <3>3, GaplessIsPrefix
    <3>5. LetsPass => LetsPass'
      BY <3>1 DEF LetsPass
    <3>6. Service!Extend
      BY <1>2, <2>2, <3>4, <3>5, OutGrows DEF Service!Extend
    <3>7. Outcome = "running"
      BY <3>1 DEF Outcome
    <3>8. CASE status' = "none"
      <4>1. Outcome' = "running"
        BY <3>8 DEF Outcome
      <4> QED
        BY <3>2, <3>6, <3>7, <4>1 DEF Service!Next, Service!Deliver
    <3>9. CASE status' = "0"
      <4>1. Outcome' = "success"
        BY <3>9 DEF Outcome
      <4>2. Service!Complete(out') \/ LetsPass'
        <5>1. EndsWithAnswer(out', Len(input)) \/ LetsPass'
          BY <1>2, <3>1, <3>9, SameRows DEF IInv, SuccessIsComplete, LetsPass
        <5> QED
          BY <3>3, <5>1, EndIsComplete
      <4> QED
        BY <3>2, <3>6, <3>7, <4>1, <4>2 DEF Service!Next, Service!Succeed
    <3>10. CASE status' \in {"1", "signal"}
      <4>1. Outcome' = "failure"
        BY <3>10 DEF Outcome
      <4> QED
        BY <3>2, <3>6, <3>7, <4>1 DEF Service!Next, Service!Fail
    <3> QED
      BY <1>2, <3>8, <3>9, <3>10 DEF IInv, TypeOK
  <2> QED
    BY <1>2, <2>1, <2>2
<1> QED
  BY <1>1, <1>2, Invariance, PTL DEF Spec, ServesRows, Service!Spec
=============================================================================
