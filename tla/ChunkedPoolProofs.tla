------------------------- MODULE ChunkedPoolProofs -------------------------
(***************************************************************************)
(* Proofs about ChunkedPool, for every number of chunks and rows and every *)
(* size of the pipes and of the worker's buffer.                           *)
(***************************************************************************)
EXTENDS ChunkedPool, SequenceTheorems, TLAPS

Answer == Nat \X Nat

Types ==
    /\ chunks \in [1..MaxChunks -> UNION {[1..n -> BOOLEAN] : n \in 0..MaxRows}]
    /\ outcomes \in Seq({"answered", "failed", "cancelled"})
    /\ busy \in BOOLEAN
    /\ toSend \in Seq(Message)
    /\ received \in Seq(Answer)
    /\ stdin \in Seq(Message)
    /\ closed \in BOOLEAN
    /\ reading \in BOOLEAN
    /\ stdout \in Seq(Answer)
    /\ pc \in {"header", "row", "write", "spill", "flush", "exited"}
    /\ left \in Nat
    /\ answer \in Answer
    /\ buf \in Seq(Answer)
    /\ status \in {"none", "0", "1", "signal"}

\* How many rows the chunk has that the server works on.
Rows == Len(chunks[Chunk])

ServerShape ==
    /\ busy => ~closed /\ Chunk <= MaxChunks
    /\ ~busy => toSend = << >> /\ received = << >>
    /\ ~closed => reading

WorkerShape ==
    /\ status = "none" <=> pc # "exited"
    /\ pc = "row" => left > 0
    /\ pc \in {"header", "flush"} => left = 0
    /\ pc = "header" => buf = << >>
    /\ pc \in {"write", "spill"} => answer # NoAnswer
    /\ pc \in {"header", "row", "flush"} => answer = NoAnswer

\* How many answers the worker has given for the chunk.
Given == Len(received) + Len(stdout) + Len(buf) + IF answer = NoAnswer THEN 0 ELSE 1

\* The answers on their way, in each of the places where they are.
AnswersInPlace ==
    /\ \A k \in 1..Len(received) : received[k] = <<Chunk, k>>
    /\ \A k \in 1..Len(stdout) : stdout[k] = <<Chunk, Len(received) + k>>
    /\ \A k \in 1..Len(buf) : buf[k] = <<Chunk, Len(received) + Len(stdout) + k>>
    /\ answer # NoAnswer => answer = <<Chunk, Given>>

\* The messages of a chunk, counted from its header.
MessageOf(c, i) == IF i = 0 THEN HeaderOf(c) ELSE RowOf(c, i)

EmptyHeader(message) == message.header /\ message.rows = 0

\* The worker has not read the header of the chunk.  It has to read those of
\* earlier chunks without rows before.
Announced ==
    LET stale == Len(stdin) - (Rows + 1 - Len(toSend))
    IN  /\ pc \in {"header", "flush"}
        /\ Given = 0
        /\ stale >= 0
        /\ \A k \in 1..Len(stdin) : IF k <= stale THEN EmptyHeader(stdin[k])
                                    ELSE stdin[k] = MessageOf(Chunk, k - stale - 1)

\* The worker has read the header and one row for every answer.
Underway ==
    /\ left = Rows - Given
    /\ Len(stdin) + Len(toSend) = left
    /\ \A k \in 1..Len(stdin) : stdin[k] = RowOf(Chunk, Given + k)

RestToSend ==
    /\ Len(toSend) <= Rows + 1
    /\ \A k \in 1..Len(toSend) : toSend[k] = MessageOf(Chunk, Rows - Len(toSend) + k)

Working ==
    busy =>
        /\ AnswersInPlace
        /\ Given <= Rows
        /\ \A r \in 1..Given : chunks[Chunk][r]
        /\ RestToSend
        /\ IF pc = "exited" THEN Given < Rows /\ ~chunks[Chunk][Given + 1]
                            ELSE Announced \/ Underway

\* Nothing of a chunk is left in a worker without one.
Clean ==
    /\ pc \in {"header", "flush"}
    /\ stdout = << >>
    /\ buf = << >>
    /\ \A k \in 1..Len(stdin) : EmptyHeader(stdin[k])

Idle ==
    /\ (~busy /\ reading /\ pc # "exited") => Clean
    /\ ~busy /\ ~closed => pc # "exited"

\* The rows of the chunk and nothing else come next; or headers of chunks
\* without rows, and the beginning of one more chunk.
Framed ==
    pc # "exited" =>
        IF left > 0
           THEN /\ Len(stdin) <= left
                /\ \A k \in 1..Len(stdin) : ~stdin[k].header
           ELSE \E stale \in 0..Len(stdin) :
                   /\ \A k \in 1..stale : EmptyHeader(stdin[k])
                   /\ Len(stdin) > stale =>
                         /\ stdin[stale + 1].header
                         /\ Len(stdin) - (stale + 1) <= stdin[stale + 1].rows
                   /\ \A k \in (stale + 2)..Len(stdin) : ~stdin[k].header

\* A worker whose query was cancelled may still read what was sent to it.
Cancelled == ~reading => Framed

IInv ==
    /\ Types
    /\ ServerShape
    /\ WorkerShape
    /\ Working
    /\ Idle
    /\ Cancelled
    /\ OutcomesFitTheRows

-----------------------------------------------------------------------------
(* Sequences and messages.                                                 *)

\* Taking the first element off a sequence.
LEMMA TakeFirst ==
    ASSUME NEW S, NEW s \in Seq(S), s # << >>
    PROVE  /\ Len(s) \in Nat \ {0}
           /\ Head(s) = s[1] /\ Head(s) \in S
           /\ Tail(s) \in Seq(S)
           /\ Len(Tail(s)) = Len(s) - 1
           /\ \A k \in 1..(Len(s) - 1) : Tail(s)[k] = s[k + 1]
<1>1. Len(s) \in Nat \ {0}
  BY EmptySeq
<1>2. Head(s) = s[1] /\ Head(s) \in S
  <2>1. 1 \in 1..Len(s)
    BY <1>1
  <2> QED
    BY <2>1, ElementOfSeq
<1> QED
  BY <1>1, <1>2, HeadTailProperties

\* The indices of an empty sequence.
LEMMA NoIndices ==
    ASSUME NEW n, n = 0
    PROVE  0 \in 0..n /\ ~(n > 0) /\ (0 + 2)..n = {} /\ 1..0 = {}
<1> QED
  OBVIOUS

\* The chunks the server has.
LEMMA ChunkType ==
    ASSUME Types
    PROVE  /\ \A c \in 1..MaxChunks : /\ Len(chunks[c]) \in 0..MaxRows
                                      /\ \A r \in 1..Len(chunks[c]) : chunks[c][r] \in BOOLEAN
           /\ Len(outcomes) \in Nat
           /\ Chunk = Len(outcomes) + 1
<1>1. ASSUME NEW c \in 1..MaxChunks
      PROVE  /\ Len(chunks[c]) \in 0..MaxRows
             /\ \A r \in 1..Len(chunks[c]) : chunks[c][r] \in BOOLEAN
  <2>1. PICK n \in 0..MaxRows : chunks[c] \in [1..n -> BOOLEAN]
    <3>1. chunks \in [1..MaxChunks -> UNION {[1..n -> BOOLEAN] : n \in 0..MaxRows}]
      BY DEF Types
    <3>2. chunks[c] \in UNION {[1..n -> BOOLEAN] : n \in 0..MaxRows}
      BY <3>1
    <3> QED
      BY <3>2
  <2>2. n \in Nat
    BY ConstantsAssumption
  <2>3. chunks[c] \in Seq(BOOLEAN)
    BY <2>1, <2>2, SeqDef
  <2>4. Len(chunks[c]) \in Nat /\ 1..Len(chunks[c]) = 1..n
    BY <2>1, <2>3, LenProperties
  <2>5. Len(chunks[c]) = n
    BY <2>2, <2>4
  <2> QED
    BY <2>3, <2>5, ElementOfSeq
<1>2. Len(outcomes) \in Nat
  BY LenProperties DEF Types
<1> QED
  BY <1>1, <1>2 DEF Chunk

\* Header and rows of a chunk are messages; a header is one, a row is not.
LEMMA MessageType ==
    ASSUME Types, NEW c \in 1..MaxChunks, NEW i \in 0..Len(chunks[c])
    PROVE  /\ MessageOf(c, i) \in Message
           /\ MessageOf(c, i).id = <<c, i>>
           /\ MessageOf(c, i).header <=> i = 0
           /\ i = 0 => MessageOf(c, i).rows = Len(chunks[c])
           /\ i # 0 => MessageOf(c, i).ok = chunks[c][i]
<1>1. Len(chunks[c]) \in 0..MaxRows /\ MaxRows \in Nat
  BY ChunkType, ConstantsAssumption
<1>2. CASE i = 0
  BY <1>1, <1>2 DEF MessageOf, HeaderOf, Message
<1>3. CASE i # 0
  <2>1. i \in 1..Len(chunks[c]) /\ i \in 0..MaxRows
    BY <1>1, <1>3
  <2>2. chunks[c][i] \in BOOLEAN
    BY <2>1, ChunkType
  <2> QED
    BY <1>1, <1>3, <2>1, <2>2 DEF MessageOf, RowOf, Message
<1> QED
  BY <1>2, <1>3

\* What the server has to send for a chunk.
LEMMA MessagesShape ==
    ASSUME Types, NEW c \in 1..MaxChunks
    PROVE  /\ Messages(c) \in Seq(Message)
           /\ Len(Messages(c)) = Len(chunks[c]) + 1
           /\ \A k \in 1..(Len(chunks[c]) + 1) : Messages(c)[k] = MessageOf(c, k - 1)
<1> DEFINE n == Len(chunks[c])
           rows == [r \in 1..n |-> RowOf(c, r)]
<1>1. n \in Nat
  BY ChunkType
<1>2. \A r \in 1..n : RowOf(c, r) = MessageOf(c, r) /\ RowOf(c, r) \in Message
  <2>1. ASSUME NEW r \in 1..n PROVE r \in 0..n /\ RowOf(c, r) = MessageOf(c, r)
    BY <1>1 DEF MessageOf
  <2> QED
    BY <2>1, MessageType
<1>3. HeaderOf(c) = MessageOf(c, 0) /\ HeaderOf(c) \in Message
  <2>1. 0 \in 0..n /\ HeaderOf(c) = MessageOf(c, 0)
    BY <1>1 DEF MessageOf
  <2> QED
    BY <2>1, MessageType
<1> HIDE DEF n
<1>4. rows \in Seq(Message) /\ Len(rows) = n /\ \A r \in 1..n : rows[r] = MessageOf(c, r)
  <2>1. rows \in [1..n -> Message]
    BY <1>2
  <2>2. rows \in Seq(Message)
    BY <1>1, <2>1, SeqDef
  <2>3. Len(rows) \in Nat /\ 1..Len(rows) = 1..n
    BY <2>1, <2>2, LenProperties
  <2>4. Len(rows) = n
    BY <1>1, <2>3
  <2> QED
    BY <1>2, <2>2, <2>4
<1>5. <<HeaderOf(c)>> \in Seq(Message) /\ Len(<<HeaderOf(c)>>) = 1
      /\ <<HeaderOf(c)>>[1] = MessageOf(c, 0)
  BY <1>3
<1>6. Messages(c) = <<HeaderOf(c)>> \o rows
  BY DEF Messages, n
<1> HIDE DEF rows
<1>7. /\ Messages(c) \in Seq(Message)
      /\ Len(Messages(c)) = 1 + n
      /\ \A k \in 1..(1 + n) : Messages(c)[k] =
            IF k <= 1 THEN <<HeaderOf(c)>>[k] ELSE rows[k - 1]
  BY <1>4, <1>5, <1>6, ConcatProperties
<1>8. ASSUME NEW k \in 1..(n + 1) PROVE Messages(c)[k] = MessageOf(c, k - 1)
  <2>1. CASE k = 1
    BY <1>1, <1>5, <1>7, <2>1
  <2>2. CASE k # 1
    <3>1. k - 1 \in 1..n /\ k \in 1..(1 + n) /\ ~(k <= 1)
      BY <1>1, <2>2
    <3> QED
      BY <1>4, <1>7, <3>1
  <2> QED
    BY <2>1, <2>2
<1> QED
  BY <1>1, <1>7, <1>8 DEF n

\* The lengths and counts of a state.
LEMMA Counts ==
    ASSUME Types
    PROVE  /\ Len(toSend) \in Nat /\ Len(received) \in Nat /\ Len(stdin) \in Nat
           /\ Len(stdout) \in Nat /\ Len(buf) \in Nat
           /\ Given \in Nat
           /\ Given = Len(received) + Len(stdout) + Len(buf) + (IF answer = NoAnswer THEN 0 ELSE 1)
           /\ Chunk \in Nat \ {0}
           /\ Chunk <= MaxChunks => Chunk \in 1..MaxChunks /\ Rows \in Nat
<1>1. /\ Len(toSend) \in Nat /\ Len(received) \in Nat /\ Len(stdin) \in Nat
      /\ Len(stdout) \in Nat /\ Len(buf) \in Nat
  BY LenProperties DEF Types
<1>2. Chunk \in Nat \ {0} /\ MaxChunks \in Nat
  BY ChunkType, ConstantsAssumption
<1>3. Chunk <= MaxChunks => Chunk \in 1..MaxChunks /\ Rows \in Nat
  BY <1>2, ChunkType DEF Rows
<1> QED
  BY <1>1, <1>2, <1>3 DEF Given

\* A step that begins or settles no chunk does not change which one it is.
LEMMA SameChunk ==
    ASSUME UNCHANGED <<chunks, outcomes>>
    PROVE  /\ Chunk' = Chunk
           /\ Rows' = Rows
           /\ \A c, i : MessageOf(c, i)' = MessageOf(c, i)
           /\ \A c, r : RowOf(c, r)' = RowOf(c, r)
<1> QED
  BY DEF Chunk, Rows, MessageOf, HeaderOf, RowOf

\* Nothing that the outcomes speak of has changed.
LEMMA SameOutcomes ==
    ASSUME OutcomesFitTheRows, UNCHANGED <<chunks, outcomes, busy, closed, reading>>,
           status' = status \/ status' \in {"none", "0"}
    PROVE  OutcomesFitTheRows'
<1> QED
  BY DEF OutcomesFitTheRows, Chunk

\* An answer has moved on; what the worker has read and what it has still to
\* read are the same.
LEMMA SameWork ==
    ASSUME Working, busy, UNCHANGED <<chunks, outcomes, busy, toSend, stdin, left>>,
           Given' = Given, AnswersInPlace => AnswersInPlace',
           pc' = "exited" <=> pc = "exited",
           pc \in {"header", "flush"} => pc' \in {"header", "flush"}
    PROVE  Working'
<1>1. Chunk' = Chunk /\ Rows' = Rows /\ (\A c, i : MessageOf(c, i)' = MessageOf(c, i))
      /\ (\A c, r : RowOf(c, r)' = RowOf(c, r))
  BY SameChunk
<1>2. /\ AnswersInPlace' /\ Given <= Rows /\ RestToSend
      /\ \A r \in 1..Given : chunks[Chunk][r]
      /\ pc = "exited" => Given < Rows /\ ~chunks[Chunk][Given + 1]
      /\ pc # "exited" => Announced \/ Underway
  BY DEF Working
<1>3. RestToSend'
  BY <1>1, <1>2 DEF RestToSend
<1>4. Announced => Announced'
  BY <1>1 DEF Announced
<1>5. Underway => Underway'
  BY <1>1 DEF Underway
<1>6. Given' <= Rows' /\ (\A r \in 1..Given' : chunks'[Chunk'][r])
      /\ (pc' = "exited" => Given' < Rows' /\ ~chunks'[Chunk'][Given' + 1])
  BY <1>1, <1>2
<1> QED
  BY <1>2, <1>3, <1>4, <1>5, <1>6 DEF Working

-----------------------------------------------------------------------------
(* The steps of the server.                                                *)

\* A chunk is started on a worker that has nothing left of an earlier one.
LEMMA StartChunkStep ==
    ASSUME IInv, StartChunk
    PROVE  IInv'
<1>1. /\ ~busy /\ ~closed /\ Chunk <= MaxChunks
      /\ busy' = TRUE /\ toSend' = Messages(Chunk) /\ received' = << >>
      /\ UNCHANGED <<chunks, outcomes, closed, reading, stdin, stdout, pc, left, answer, buf, status>>
  BY DEF StartChunk, worker
<1>2. Types /\ Clean /\ reading /\ answer = NoAnswer
  BY <1>1 DEF IInv, Types, ServerShape, Idle, WorkerShape, Clean
<1>3. Chunk \in 1..MaxChunks /\ Rows \in Nat /\ Len(stdin) \in Nat
  BY <1>1, <1>2, Counts
<1>4. /\ toSend' \in Seq(Message)
      /\ Len(toSend') = Rows + 1
      /\ \A k \in 1..(Rows + 1) : toSend'[k] = MessageOf(Chunk, k - 1)
  BY <1>1, <1>2, <1>3, MessagesShape DEF Rows
<1>5. Chunk' = Chunk /\ Rows' = Rows /\ \A c, i : MessageOf(c, i)' = MessageOf(c, i)
  BY <1>1, SameChunk
<1>6. received' \in Seq(Answer) /\ Len(received') = 0 /\ Len(stdout') = 0 /\ Len(buf') = 0
  BY <1>1, <1>2, EmptySeq DEF Clean
<1>7. Types' /\ ServerShape' /\ WorkerShape' /\ Idle' /\ Cancelled'
  BY <1>1, <1>2, <1>4, <1>5, <1>6
     DEF IInv, Types, ServerShape, WorkerShape, Idle, Cancelled
<1>8. Given' = 0
  BY <1>1, <1>2, <1>6 DEF Given
<1>9. Announced'
  BY <1>1, <1>2, <1>3, <1>4, <1>5, <1>8 DEF Announced, Clean
<1>10. AnswersInPlace'
  BY <1>1, <1>2, <1>6 DEF AnswersInPlace
<1>11. RestToSend'
  <2>1. ASSUME NEW k \in 1..Len(toSend')
        PROVE  toSend'[k] = MessageOf(Chunk, Rows - Len(toSend') + k)
    <3>1. k \in 1..(Rows + 1) /\ Rows - Len(toSend') + k = k - 1
      BY <1>3, <1>4
    <3> QED
      BY <1>4, <3>1
  <2> QED
    BY <1>3, <1>4, <1>5, <2>1 DEF RestToSend
<1>12. Working'
  BY <1>1, <1>2, <1>3, <1>4, <1>5, <1>8, <1>9, <1>10, <1>11 DEF Working, Clean
<1>13. OutcomesFitTheRows'
  <2>1. status' \notin {"1", "signal"}
    BY <1>1, <1>2 DEF IInv, WorkerShape, Clean
  <2> QED
    BY <1>1, <2>1 DEF IInv, OutcomesFitTheRows
<1> QED
  BY <1>7, <1>12, <1>13 DEF IInv

\* A message goes from the server into the pipe.
LEMMA SendStep ==
    ASSUME IInv, Send
    PROVE  IInv'
<1>1. /\ toSend # << >> /\ pc # "exited"
      /\ stdin' = Append(stdin, Head(toSend)) /\ toSend' = Tail(toSend)
      /\ UNCHANGED <<chunks, outcomes, busy, received, closed, reading, stdout,
                     pc, left, answer, buf, status>>
  BY DEF Send, worker
<1>2. Types /\ busy /\ ~closed /\ reading /\ Chunk <= MaxChunks
  BY <1>1 DEF IInv, ServerShape
<1>3. /\ Chunk \in 1..MaxChunks /\ Rows \in Nat /\ Len(stdin) \in Nat /\ Given \in Nat
      /\ Len(toSend) \in Nat \ {0}
      /\ Head(toSend) = toSend[1] /\ Head(toSend) \in Message
      /\ toSend' \in Seq(Message)
      /\ Len(toSend') = Len(toSend) - 1
      /\ \A k \in 1..(Len(toSend) - 1) : toSend'[k] = toSend[k + 1]
  BY <1>1, <1>2, Counts, TakeFirst DEF Types
<1>4. /\ stdin' \in Seq(Message)
      /\ Len(stdin') = Len(stdin) + 1
      /\ \A k \in 1..Len(stdin) : stdin'[k] = stdin[k]
      /\ stdin'[Len(stdin) + 1] = toSend[1]
  BY <1>1, <1>2, <1>3, AppendProperties DEF Types
<1>5. Chunk' = Chunk /\ Rows' = Rows /\ (\A c, i : MessageOf(c, i)' = MessageOf(c, i))
      /\ (\A c, r : RowOf(c, r)' = RowOf(c, r)) /\ Given' = Given
  BY <1>1, SameChunk DEF Given
<1>6. Types' /\ ServerShape' /\ WorkerShape' /\ Idle' /\ Cancelled'
  BY <1>1, <1>2, <1>3, <1>4, <1>5
     DEF IInv, Types, ServerShape, WorkerShape, Idle, Cancelled
<1>7. /\ AnswersInPlace /\ Given <= Rows
      /\ \A r \in 1..Given : chunks[Chunk][r]
      /\ RestToSend
      /\ Announced \/ Underway
  BY <1>1, <1>2 DEF IInv, Working
<1>8. AnswersInPlace'
  BY <1>1, <1>5, <1>7 DEF AnswersInPlace
<1>9. Len(toSend) <= Rows + 1 /\ toSend[1] = MessageOf(Chunk, Rows - Len(toSend) + 1)
  BY <1>3, <1>7 DEF RestToSend
<1>10. RestToSend'
  <2>1. ASSUME NEW k \in 1..Len(toSend')
        PROVE  toSend'[k] = MessageOf(Chunk, Rows - Len(toSend') + k)
    <3>1. k + 1 \in 1..Len(toSend) /\ k \in 1..(Len(toSend) - 1)
          /\ Rows - Len(toSend) + (k + 1) = Rows - Len(toSend') + k
      BY <1>3
    <3>2. toSend[k + 1] = MessageOf(Chunk, Rows - Len(toSend) + (k + 1))
      BY <1>7, <3>1 DEF RestToSend
    <3> QED
      BY <1>3, <3>1, <3>2
  <2> QED
    BY <1>3, <1>5, <1>9, <2>1 DEF RestToSend
<1>11. ASSUME Announced PROVE Announced'
  <2> DEFINE stale == Len(stdin) - (Rows + 1 - Len(toSend))
  <2>1. /\ pc \in {"header", "flush"} /\ Given = 0 /\ stale \in Nat
        /\ \A k \in 1..Len(stdin) : IF k <= stale THEN EmptyHeader(stdin[k])
                                    ELSE stdin[k] = MessageOf(Chunk, k - stale - 1)
    BY <1>3, <1>11 DEF Announced
  <2>2. stale = Len(stdin') - (Rows' + 1 - Len(toSend'))
    BY <1>3, <1>4, <1>5
  <2>3. Len(stdin) + 1 - stale - 1 = Rows - Len(toSend) + 1 /\ ~(Len(stdin) + 1 <= stale)
    BY <1>3, <1>9
  <2> HIDE DEF stale
  <2>4. ASSUME NEW k \in 1..Len(stdin')
        PROVE  IF k <= stale THEN EmptyHeader(stdin'[k])
                             ELSE stdin'[k] = MessageOf(Chunk, k - stale - 1)
    <3>1. CASE k \in 1..Len(stdin)
      BY <1>4, <2>1, <3>1
    <3>2. CASE k = Len(stdin) + 1
      <4>1. stale \in Nat /\ Len(stdin) \in Nat /\ k \in Nat
        BY <1>3, <2>1, <3>2
      <4>2. ~(k <= stale) /\ k - stale - 1 = Rows - Len(toSend) + 1
        BY <2>3, <3>2, <4>1
      <4> QED
        BY <1>4, <1>9, <3>2, <4>2
    <3> QED
      BY <1>3, <1>4, <3>1, <3>2
  <2> QED
    BY <1>1, <1>5, <2>1, <2>2, <2>4 DEF Announced
<1>12. ASSUME Underway PROVE Underway'
  <2>1. left = Rows - Given /\ Len(stdin) + Len(toSend) = left
    BY <1>12 DEF Underway
  <2>2. \A k \in 1..Len(stdin) : stdin[k] = RowOf(Chunk, Given + k)
    BY <1>12 DEF Underway
  <2>3. Rows - Len(toSend) + 1 = Given + (Len(stdin) + 1) /\ Given + (Len(stdin) + 1) # 0
    <3>1. Rows \in Nat /\ Given \in Nat /\ Len(stdin) \in Nat /\ Len(toSend) \in Nat
      BY <1>3
    <3>2. Len(stdin) + Len(toSend) = Rows - Given
      BY <2>1
    <3> QED
      BY <3>1, <3>2
  <2>4. toSend[1] = RowOf(Chunk, Given + (Len(stdin) + 1))
    BY <1>9, <2>3 DEF MessageOf
  <2>5. ASSUME NEW k \in 1..Len(stdin') PROVE stdin'[k] = RowOf(Chunk, Given + k)
    <3>1. CASE k \in 1..Len(stdin)
      BY <1>4, <2>2, <3>1
    <3>2. CASE k = Len(stdin) + 1
      BY <1>4, <2>4, <3>2
    <3> QED
      BY <1>3, <1>4, <3>1, <3>2
  <2>6. Len(stdin') + Len(toSend') = left
    BY <1>3, <1>4, <2>1
  <2> QED
    BY <1>1, <1>5, <2>1, <2>5, <2>6 DEF Underway
<1>13. Working'
  <2>1. Given' <= Rows' /\ \A r \in 1..Given' : chunks'[Chunk'][r]
    BY <1>1, <1>5, <1>7
  <2>2. pc' # "exited" /\ (Announced' \/ Underway')
    BY <1>1, <1>7, <1>11, <1>12
  <2> QED
    BY <1>8, <1>10, <2>1, <2>2 DEF Working
<1>14. OutcomesFitTheRows'
  BY <1>1, SameOutcomes DEF IInv
<1> QED
  BY <1>6, <1>13, <1>14 DEF IInv

\* The server reads an answer.
LEMMA ReceiveStep ==
    ASSUME IInv, Receive
    PROVE  IInv'
<1>1. /\ busy /\ stdout # << >>
      /\ received' = Append(received, Head(stdout)) /\ stdout' = Tail(stdout)
      /\ UNCHANGED <<chunks, outcomes, busy, toSend, closed, reading, stdin,
                     pc, left, answer, buf, status>>
  BY DEF Receive, worker
<1>2. Types /\ ~closed /\ reading /\ Chunk <= MaxChunks /\ Working
  BY <1>1 DEF IInv, ServerShape
<1>3. /\ Len(received) \in Nat /\ Len(buf) \in Nat
      /\ Len(stdout) \in Nat \ {0}
      /\ Head(stdout) = stdout[1] /\ Head(stdout) \in Answer
      /\ stdout' \in Seq(Answer)
      /\ Len(stdout') = Len(stdout) - 1
      /\ \A k \in 1..(Len(stdout) - 1) : stdout'[k] = stdout[k + 1]
  BY <1>1, <1>2, Counts, TakeFirst DEF Types
<1>4. /\ received' \in Seq(Answer)
      /\ Len(received') = Len(received) + 1
      /\ \A k \in 1..Len(received) : received'[k] = received[k]
      /\ received'[Len(received) + 1] = stdout[1]
  BY <1>1, <1>2, <1>3, AppendProperties DEF Types
<1>5. Chunk' = Chunk
  BY <1>1, SameChunk
<1>6. Types' /\ ServerShape' /\ WorkerShape' /\ Idle' /\ Cancelled'
  BY <1>1, <1>2, <1>3, <1>4, <1>5
     DEF IInv, Types, ServerShape, WorkerShape, Idle, Cancelled
<1>7. Given' = Given
  <2>1. Len(received') + Len(stdout') = Len(received) + Len(stdout)
    BY <1>3, <1>4
  <2> QED
    BY <1>1, <2>1 DEF Given
<1>8. ASSUME AnswersInPlace PROVE AnswersInPlace'
  <2>1. ASSUME NEW k \in 1..Len(received') PROVE received'[k] = <<Chunk, k>>
    <3>1. CASE k \in 1..Len(received)
      BY <1>4, <1>8, <3>1 DEF AnswersInPlace
    <3>2. CASE k = Len(received) + 1
      <4>1. stdout[1] = <<Chunk, Len(received) + 1>>
        BY <1>3, <1>8 DEF AnswersInPlace
      <4> QED
        BY <1>4, <3>2, <4>1
    <3> QED
      BY <1>3, <1>4, <3>1, <3>2
  <2>2. ASSUME NEW k \in 1..Len(stdout') PROVE stdout'[k] = <<Chunk, Len(received') + k>>
    <3>1. k + 1 \in 1..Len(stdout) /\ k \in 1..(Len(stdout) - 1)
          /\ Len(received) + (k + 1) = Len(received') + k
      BY <1>3, <1>4
    <3>2. stdout[k + 1] = <<Chunk, Len(received) + (k + 1)>>
      BY <1>8, <3>1 DEF AnswersInPlace
    <3> QED
      BY <1>3, <3>1, <3>2
  <2>3. Len(received') + Len(stdout') = Len(received) + Len(stdout)
    BY <1>3, <1>4
  <2> QED
    BY <1>1, <1>5, <1>7, <1>8, <2>1, <2>2, <2>3 DEF AnswersInPlace
<1>9. Working'
  BY <1>1, <1>2, <1>7, <1>8, SameWork
<1>10. OutcomesFitTheRows'
  BY <1>1, SameOutcomes DEF IInv
<1> QED
  BY <1>6, <1>9, <1>10 DEF IInv

\* The outcome of a chunk that is settled is added to the others.
LEMMA OutcomeAdded ==
    ASSUME Types, OutcomesFitTheRows,
           NEW o \in {"answered", "failed", "cancelled"}, outcomes' = Append(outcomes, o),
           UNCHANGED chunks,
           o = "answered" => \A r \in 1..Rows : chunks[Chunk][r],
           o = "failed" => \E r \in 1..Rows : ~chunks[Chunk][r]
    PROVE  /\ outcomes' \in Seq({"answered", "failed", "cancelled"})
           /\ outcomes' # << >> /\ outcomes'[Len(outcomes')] = o
           /\ \A c \in 1..Len(outcomes') :
                 /\ outcomes'[c] = "answered" => \A r \in 1..Len(chunks'[c]) : chunks'[c][r]
                 /\ outcomes'[c] = "failed" => \E r \in 1..Len(chunks'[c]) : ~chunks'[c][r]
<1>1. /\ outcomes' \in Seq({"answered", "failed", "cancelled"})
      /\ outcomes' # << >>
      /\ Len(outcomes') = Len(outcomes) + 1
      /\ \A c \in 1..Len(outcomes) : outcomes'[c] = outcomes[c]
      /\ outcomes'[Len(outcomes) + 1] = o
  BY AppendProperties DEF Types
<1>2. Len(outcomes) \in Nat /\ Chunk = Len(outcomes) + 1
  BY ChunkType
<1>3. ASSUME NEW c \in 1..Len(outcomes')
      PROVE  /\ outcomes'[c] = "answered" => \A r \in 1..Len(chunks'[c]) : chunks'[c][r]
             /\ outcomes'[c] = "failed" => \E r \in 1..Len(chunks'[c]) : ~chunks'[c][r]
  <2>1. CASE c \in 1..Len(outcomes)
    BY <1>1, <2>1 DEF OutcomesFitTheRows
  <2>2. CASE c = Chunk
    BY <1>1, <1>2, <2>2 DEF Rows
  <2> QED
    BY <1>1, <1>2, <2>1, <2>2
<1> QED
  BY <1>1, <1>2, <1>3

\* All answers are there: the worker goes back to the pool with nothing left.
LEMMA FinishChunkStep ==
    ASSUME IInv, FinishChunk
    PROVE  IInv'
<1>1. /\ busy /\ toSend = << >> /\ Len(received) = Rows
      /\ outcomes' = Append(outcomes, "answered") /\ busy' = FALSE /\ received' = << >>
      /\ UNCHANGED <<chunks, toSend, closed, reading, stdin, stdout, pc, left, answer, buf, status>>
  BY DEF FinishChunk, worker, Rows
<1>2. Types /\ ~closed /\ reading /\ Chunk <= MaxChunks /\ WorkerShape
  BY <1>1 DEF IInv, ServerShape
<1>3. /\ Rows \in Nat /\ Chunk \in 1..MaxChunks
      /\ Len(received) \in Nat /\ Len(stdin) \in Nat /\ Len(stdout) \in Nat /\ Len(buf) \in Nat
      /\ Given = Len(received) + Len(stdout) + Len(buf) + (IF answer = NoAnswer THEN 0 ELSE 1)
  BY <1>2, Counts
<1>4. /\ Given <= Rows
      /\ \A r \in 1..Given : chunks[Chunk][r]
      /\ pc = "exited" => Given < Rows
      /\ pc # "exited" => Announced \/ Underway
  BY <1>1 DEF IInv, Working
<1>5. Given = Rows /\ Len(stdout) = 0 /\ Len(buf) = 0 /\ answer = NoAnswer
  BY <1>1, <1>3, <1>4
<1>6. stdout = << >> /\ buf = << >> /\ Len(toSend) = 0
  BY <1>1, <1>2, <1>5, EmptySeq DEF Types
<1>7. pc \notin {"exited", "write", "spill"}
  BY <1>2, <1>3, <1>4, <1>5 DEF WorkerShape
<1>8. ASSUME Announced PROVE Clean
  <2>1. Rows = 0 /\ pc \in {"header", "flush"}
    BY <1>5, <1>8 DEF Announced
  <2>2. ASSUME NEW k \in 1..Len(stdin) PROVE EmptyHeader(stdin[k])
    <3> DEFINE stale == Len(stdin) - (Rows + 1 - Len(toSend))
    <3>1. stale = Len(stdin) - 1
      BY <1>3, <1>6, <2>1
    <3>2. IF k <= stale THEN EmptyHeader(stdin[k])
                        ELSE stdin[k] = MessageOf(Chunk, k - stale - 1)
      BY <1>8 DEF Announced
    <3>3. CASE k <= stale
      BY <3>2, <3>3
    <3>4. CASE ~(k <= stale)
      <4>1. k - stale - 1 = 0
        BY <1>3, <3>1, <3>4
      <4>2. stdin[k] = MessageOf(Chunk, 0)
        BY <3>2, <3>4, <4>1
      <4>3. 0 \in 0..Len(chunks[Chunk]) /\ Len(chunks[Chunk]) = 0
        BY <2>1 DEF Rows
      <4> QED
        BY <1>2, <1>3, <4>2, <4>3, MessageType DEF EmptyHeader
    <3> QED
      BY <3>3, <3>4
  <2> QED
    BY <1>6, <2>1, <2>2 DEF Clean
<1>9. ASSUME Underway PROVE Clean
  <2>1. left = 0 /\ Len(stdin) = 0
    BY <1>3, <1>5, <1>6, <1>9 DEF Underway
  <2>2. pc \in {"header", "flush"}
    BY <1>2, <1>7, <2>1 DEF WorkerShape, Types
  <2> QED
    BY <1>6, <2>1, <2>2 DEF Clean
<1>10. Clean'
  BY <1>1, <1>4, <1>7, <1>8, <1>9 DEF Clean
<1>11. /\ outcomes' \in Seq({"answered", "failed", "cancelled"})
       /\ \A c \in 1..Len(outcomes') :
             /\ outcomes'[c] = "answered" => \A r \in 1..Len(chunks'[c]) : chunks'[c][r]
             /\ outcomes'[c] = "failed" => \E r \in 1..Len(chunks'[c]) : ~chunks'[c][r]
  BY <1>1, <1>2, <1>4, <1>5, OutcomeAdded DEF IInv
<1>12. OutcomesFitTheRows'
  <2>1. status' \notin {"1", "signal"}
    BY <1>1, <1>2, <1>7 DEF WorkerShape
  <2> QED
    BY <1>11, <2>1 DEF OutcomesFitTheRows
<1>13. Types' /\ ServerShape' /\ WorkerShape' /\ Idle' /\ Cancelled' /\ Working'
  <2>1. received' \in Seq(Answer)
    BY <1>1, EmptySeq
  <2>2. Types'
    BY <1>1, <1>2, <1>11, <2>1 DEF Types
  <2>3. ServerShape' /\ WorkerShape' /\ Idle' /\ Cancelled' /\ Working'
    BY <1>1, <1>2, <1>7, <1>10 DEF ServerShape, WorkerShape, Idle, Cancelled, Working
  <2> QED
    BY <2>2, <2>3
<1> QED
  BY <1>12, <1>13 DEF IInv

\* The query fails over the worker's exit.
LEMMA FailChunkStep ==
    ASSUME IInv, FailChunk
    PROVE  IInv'
<1>1. /\ busy /\ pc = "exited"
      /\ outcomes' = Append(outcomes, "failed") /\ busy' = FALSE /\ toSend' = << >>
      /\ received' = << >> /\ closed' = TRUE
      /\ UNCHANGED <<chunks, reading, stdin, stdout, pc, left, answer, buf, status>>
  BY DEF FailChunk, worker
<1>2. Types /\ ~closed /\ reading /\ Chunk <= MaxChunks /\ WorkerShape
  BY <1>1 DEF IInv, ServerShape
<1>3. Given \in Nat /\ Rows \in Nat /\ Given < Rows /\ ~chunks[Chunk][Given + 1]
  BY <1>1, <1>2, Counts DEF IInv, Working
<1>4. \E r \in 1..Rows : ~chunks[Chunk][r]
  <2>1. Given + 1 \in 1..Rows
    BY <1>3
  <2> QED
    BY <1>3, <2>1
<1>5. /\ outcomes' \in Seq({"answered", "failed", "cancelled"})
      /\ outcomes' # << >> /\ outcomes'[Len(outcomes')] = "failed"
      /\ \A c \in 1..Len(outcomes') :
            /\ outcomes'[c] = "answered" => \A r \in 1..Len(chunks'[c]) : chunks'[c][r]
            /\ outcomes'[c] = "failed" => \E r \in 1..Len(chunks'[c]) : ~chunks'[c][r]
  BY <1>1, <1>2, <1>4, OutcomeAdded DEF IInv
<1>6. OutcomesFitTheRows'
  BY <1>1, <1>5 DEF OutcomesFitTheRows
<1>7. received' \in Seq(Answer) /\ toSend' \in Seq(Message)
  BY <1>1, EmptySeq
<1>8. Types'
  BY <1>1, <1>2, <1>5, <1>7 DEF Types
<1>9. ServerShape' /\ WorkerShape' /\ Idle' /\ Cancelled' /\ Working'
  BY <1>1, <1>2 DEF ServerShape, WorkerShape, Idle, Cancelled, Working
<1> QED
  BY <1>6, <1>8, <1>9 DEF IInv

\* What the worker reads next is as it should be, whether or not it works.
LEMMA FramedWhileReading ==
    ASSUME IInv, reading
    PROVE  Framed
<1>1. Types /\ WorkerShape /\ Len(stdin) \in Nat /\ Len(toSend) \in Nat /\ left \in Nat
  BY Counts DEF IInv, Types
<1>2. SUFFICES ASSUME pc # "exited" PROVE Framed
  BY DEF Framed
<1>3. CASE ~busy
  <2>1. Clean /\ left = 0
    BY <1>1, <1>2, <1>3 DEF IInv, Idle, Clean, WorkerShape
  <2>2. Len(stdin) \in 0..Len(stdin) /\ ~(Len(stdin) > Len(stdin))
        /\ (Len(stdin) + 2)..Len(stdin) = {}
    BY <1>1
  <2>3. ~(left > 0)
    BY <2>1
  <2>4. \A k \in 1..Len(stdin) : EmptyHeader(stdin[k])
    BY <2>1 DEF Clean
  <2> QED
    BY <2>2, <2>3, <2>4 DEF Framed
<1>4. CASE busy
  <2>1. Chunk \in 1..MaxChunks /\ Rows \in Nat /\ Given \in Nat /\ Rows = Len(chunks[Chunk])
    BY <1>1, <1>4, Counts DEF IInv, ServerShape, Rows
  <2>2. Given <= Rows /\ Len(toSend) <= Rows + 1 /\ (Announced \/ Underway)
    BY <1>2, <1>4 DEF IInv, Working, RestToSend
  <2>3. CASE Underway
    <3>1. left = Rows - Given /\ Len(stdin) <= left
      BY <1>1, <2>1, <2>3 DEF Underway
    <3>2. ASSUME NEW k \in 1..Len(stdin) PROVE ~stdin[k].header
      <4>1. stdin[k] = RowOf(Chunk, Given + k)
        BY <2>3 DEF Underway
      <4> QED
        BY <4>1 DEF RowOf
    <3>3. CASE left > 0
      BY <3>1, <3>2, <3>3 DEF Framed
    <3>4. CASE ~(left > 0)
      <4>1. Len(stdin) = 0
        BY <1>1, <3>1, <3>4
      <4>2. 0 \in 0..Len(stdin) /\ ~(Len(stdin) > 0) /\ (0 + 2)..Len(stdin) = {} /\ 1..0 = {}
        BY <4>1
      <4> QED
        BY <3>4, <4>2 DEF Framed
    <3> QED
      BY <3>3, <3>4
  <2>4. CASE Announced
    <3> DEFINE stale == Len(stdin) - (Rows + 1 - Len(toSend))
    <3>0. pc \in {"header", "flush"} /\ stale >= 0
      BY <2>4 DEF Announced
    <3>1. left = 0 /\ stale \in 0..Len(stdin)
      <4>1. left = 0
        BY <1>1, <3>0 DEF WorkerShape
      <4>2. Len(stdin) \in Nat /\ Len(toSend) \in Nat /\ Rows \in Nat /\ Len(toSend) <= Rows + 1
        BY <1>1, <2>1, <2>2
      <4> QED
        BY <3>0, <4>1, <4>2
    <3>2. Len(stdin) - stale <= Rows + 1
      <4>1. Len(stdin) \in Nat /\ Len(toSend) \in Nat /\ Rows \in Nat
        BY <1>1, <2>1
      <4> QED
        BY <4>1
    <3>3. \A k \in 1..Len(stdin) : IF k <= stale THEN EmptyHeader(stdin[k])
                                   ELSE stdin[k] = MessageOf(Chunk, k - stale - 1)
      BY <2>4 DEF Announced
    <3> HIDE DEF stale
    <3>4. \A k \in 1..stale : EmptyHeader(stdin[k])
      BY <1>1, <3>1, <3>3
    <3>5. ASSUME NEW k \in (stale + 1)..Len(stdin)
          PROVE  /\ stdin[k] = MessageOf(Chunk, k - stale - 1)
                 /\ k - stale - 1 \in 0..Rows
      BY <1>1, <2>1, <3>1, <3>2, <3>3
    <3>6. Len(stdin) > stale =>
             /\ stdin[stale + 1].header
             /\ Len(stdin) - (stale + 1) <= stdin[stale + 1].rows
      <4>1. SUFFICES ASSUME Len(stdin) > stale
                     PROVE  /\ stdin[stale + 1].header
                            /\ Len(stdin) - (stale + 1) <= stdin[stale + 1].rows
        OBVIOUS
      <4>2. stale + 1 \in (stale + 1)..Len(stdin) /\ (stale + 1) - stale - 1 = 0
        BY <1>1, <3>1, <4>1
      <4>3. stdin[stale + 1] = MessageOf(Chunk, 0) /\ 0 \in 0..Rows
        BY <3>5, <4>2
      <4>4. stdin[stale + 1].header /\ stdin[stale + 1].rows = Rows
        BY <1>1, <2>1, <4>3, MessageType
      <4> QED
        BY <1>1, <2>1, <3>1, <3>2, <4>4
    <3>7. ASSUME NEW k \in (stale + 2)..Len(stdin) PROVE ~stdin[k].header
      <4>1. k \in (stale + 1)..Len(stdin) /\ k - stale - 1 # 0
        BY <1>1, <3>1
      <4> QED
        BY <1>1, <2>1, <3>5, <4>1, MessageType
    <3> QED
      BY <3>1, <3>4, <3>6, <3>7 DEF Framed
  <2> QED
    BY <2>2, <2>3, <2>4
<1> QED
  BY <1>1, <1>3, <1>4 DEF Types

\* The query is cancelled: what has been sent stays with the worker.
LEMMA CancelChunkStep ==
    ASSUME IInv, CancelChunk
    PROVE  IInv'
<1>1. /\ busy
      /\ outcomes' = Append(outcomes, "cancelled") /\ busy' = FALSE /\ toSend' = << >>
      /\ received' = << >> /\ closed' = TRUE /\ reading' = FALSE
      /\ UNCHANGED <<chunks, stdin, stdout, pc, left, answer, buf, status>>
  BY DEF CancelChunk, worker
<1>2. Types /\ ~closed /\ reading /\ WorkerShape
  BY <1>1 DEF IInv, ServerShape
<1>3. /\ outcomes' \in Seq({"answered", "failed", "cancelled"})
      /\ \A c \in 1..Len(outcomes') :
            /\ outcomes'[c] = "answered" => \A r \in 1..Len(chunks'[c]) : chunks'[c][r]
            /\ outcomes'[c] = "failed" => \E r \in 1..Len(chunks'[c]) : ~chunks'[c][r]
  BY <1>1, <1>2, OutcomeAdded DEF IInv
<1>4. OutcomesFitTheRows'
  BY <1>1, <1>3 DEF OutcomesFitTheRows
<1>5. received' \in Seq(Answer) /\ toSend' \in Seq(Message)
  BY <1>1, EmptySeq
<1>6. Types'
  BY <1>1, <1>2, <1>3, <1>5 DEF Types
<1>7. Cancelled'
  <2>1. Framed
    BY <1>2, FramedWhileReading
  <2> QED
    BY <1>1, <2>1 DEF Cancelled, Framed
<1>8. ServerShape' /\ WorkerShape' /\ Idle' /\ Working'
  BY <1>1, <1>2 DEF ServerShape, WorkerShape, Idle, Working
<1> QED
  BY <1>4, <1>6, <1>7, <1>8 DEF IInv

\* The pool closes an idle worker.
LEMMA CloseIdleStep ==
    ASSUME IInv, CloseIdle
    PROVE  IInv'
<1>1. /\ ~busy /\ ~closed /\ closed' = TRUE
      /\ UNCHANGED <<chunks, outcomes, busy, toSend, received, reading, stdin, stdout,
                     pc, left, answer, buf, status>>
  BY DEF CloseIdle, worker
<1>2. reading /\ pc # "exited" /\ status = "none"
  BY <1>1 DEF IInv, ServerShape, Idle, WorkerShape
<1>3. Types' /\ ServerShape' /\ WorkerShape' /\ Cancelled' /\ Working'
  BY <1>1, <1>2 DEF IInv, Types, ServerShape, WorkerShape, Cancelled, Working
<1>4. Idle'
  BY <1>1 DEF IInv, Idle, Clean
<1>5. OutcomesFitTheRows'
  BY <1>1, <1>2 DEF IInv, OutcomesFitTheRows
<1> QED
  BY <1>3, <1>4, <1>5 DEF IInv

\* Another worker is started after one has gone.
LEMMA StartWorkerStep ==
    ASSUME IInv, StartWorker
    PROVE  IInv'
<1>1. /\ closed /\ closed' = FALSE /\ reading' = TRUE
      /\ stdin' = << >> /\ stdout' = << >> /\ pc' = "header" /\ left' = 0 /\ answer' = NoAnswer
      /\ buf' = << >> /\ status' = "none"
      /\ UNCHANGED <<chunks, outcomes, busy, toSend, received>>
  BY DEF StartWorker, StartedWorker
<1>2. ~busy
  BY <1>1 DEF IInv, ServerShape
<1>3. /\ stdin' \in Seq(Message) /\ Len(stdin') = 0
      /\ stdout' \in Seq(Answer) /\ buf' \in Seq(Answer) /\ answer' \in Answer
  BY <1>1, EmptySeq DEF Answer, NoAnswer
<1>4. Types' /\ ServerShape' /\ WorkerShape' /\ Cancelled' /\ Working'
  BY <1>1, <1>2, <1>3 DEF IInv, Types, ServerShape, WorkerShape, Cancelled, Working
<1>5. Idle'
  BY <1>1, <1>3 DEF Idle, Clean
<1>6. OutcomesFitTheRows'
  BY <1>1 DEF IInv, OutcomesFitTheRows
<1> QED
  BY <1>4, <1>5, <1>6 DEF IInv

-----------------------------------------------------------------------------
(* The steps of the worker.                                                *)

\* A worker that reads or writes a row works on a chunk, unless its query was
\* cancelled; one without a query whose stdout is open has nothing left.
LEMMA WhoseRow ==
    ASSUME IInv, pc # "exited"
    PROVE  /\ Framed
           /\ busy => reading /\ ~closed
           /\ pc \in {"row", "write", "spill"} => busy \/ ~reading
           /\ ~busy /\ reading => Clean
<1>1. Framed
  BY FramedWhileReading DEF IInv, Cancelled
<1> QED
  BY <1>1 DEF IInv, ServerShape, Idle, Clean

\* After its header, the rows of a chunk come next.
LEMMA FramedAfterHeader ==
    ASSUME Types, Framed, pc # "exited", left = 0, stdin # << >>, stdin' = Tail(stdin)
    PROVE  /\ Head(stdin).header
           /\ left' = Head(stdin).rows => Framed'
<1>1. /\ Len(stdin) \in Nat \ {0}
      /\ Head(stdin) = stdin[1] /\ Head(stdin) \in Message
      /\ Len(stdin') = Len(stdin) - 1
      /\ \A k \in 1..(Len(stdin) - 1) : stdin'[k] = stdin[k + 1]
  BY TakeFirst DEF Types
<1>2. stdin[1].rows \in Nat
  BY <1>1, ConstantsAssumption DEF Message
<1>3. PICK stale \in 0..Len(stdin) :
         /\ \A k \in 1..stale : EmptyHeader(stdin[k])
         /\ Len(stdin) > stale =>
               /\ stdin[stale + 1].header
               /\ Len(stdin) - (stale + 1) <= stdin[stale + 1].rows
         /\ \A k \in (stale + 2)..Len(stdin) : ~stdin[k].header
  BY DEF Framed
<1>4. CASE stale > 0
  <2>1. 1 \in 1..stale /\ stdin[1].header /\ stdin[1].rows = 0
    BY <1>3, <1>4 DEF EmptyHeader
  <2>2. SUFFICES ASSUME left' = 0 PROVE Framed'
    BY <1>1, <2>1
  <2>3. stale - 1 \in 0..Len(stdin')
    BY <1>1, <1>4
  <2>4. ASSUME NEW k \in 1..(stale - 1) PROVE EmptyHeader(stdin'[k])
    <3>1. k + 1 \in 1..stale /\ k \in 1..(Len(stdin) - 1)
      BY <1>1
    <3> QED
      BY <1>1, <1>3, <3>1
  <2>5. ASSUME Len(stdin') > stale - 1
        PROVE  /\ stdin'[(stale - 1) + 1].header
               /\ Len(stdin') - ((stale - 1) + 1) <= stdin'[(stale - 1) + 1].rows
    <3>1. (stale - 1) + 1 = stale /\ stale \in 1..(Len(stdin) - 1) /\ Len(stdin) > stale
      BY <1>1, <1>4, <2>5
    <3>2. stdin'[stale] = stdin[stale + 1]
      BY <1>1, <3>1
    <3>3. Len(stdin') - stale = Len(stdin) - (stale + 1)
      BY <1>1
    <3> QED
      BY <1>3, <3>1, <3>2, <3>3
  <2>6. ASSUME NEW k \in ((stale - 1) + 2)..Len(stdin') PROVE ~stdin'[k].header
    <3>1. k + 1 \in (stale + 2)..Len(stdin) /\ k \in 1..(Len(stdin) - 1)
      BY <1>1, <1>4
    <3> QED
      BY <1>1, <1>3, <3>1
  <2> DEFINE later == stale - 1
  <2>7. /\ later \in 0..Len(stdin')
        /\ \A k \in 1..later : EmptyHeader(stdin'[k])
        /\ Len(stdin') > later =>
              /\ stdin'[later + 1].header
              /\ Len(stdin') - (later + 1) <= stdin'[later + 1].rows
        /\ \A k \in (later + 2)..Len(stdin') : ~stdin'[k].header
    BY <2>3, <2>4, <2>5, <2>6
  <2> HIDE DEF later
  <2>8. ~(left' > 0) /\ (\A message : EmptyHeader(message)' <=> EmptyHeader(message))
    BY <2>2 DEF EmptyHeader
  <2> QED
    BY <2>7, <2>8 DEF Framed
<1>5. CASE stale = 0
  <2>1. stdin[1].header /\ Len(stdin) - 1 <= stdin[1].rows
    BY <1>1, <1>3, <1>5
  <2>2. \A k \in 1..Len(stdin') : ~stdin'[k].header
    <3>1. ASSUME NEW k \in 1..Len(stdin')
          PROVE  k + 1 \in (stale + 2)..Len(stdin) /\ k \in 1..(Len(stdin) - 1)
      BY <1>1, <1>5
    <3> QED
      BY <1>1, <1>3, <3>1
  <2>3. ASSUME left' = stdin[1].rows PROVE Framed'
    <3>1. Len(stdin') <= left'
      BY <1>1, <2>1, <2>3
    <3>2. CASE left' > 0
      BY <2>2, <3>1, <3>2 DEF Framed
    <3>3. CASE left' = 0
      <4>1. Len(stdin') = 0
        BY <1>1, <3>1, <3>3
      <4>2. 0 \in 0..Len(stdin') /\ ~(Len(stdin') > 0) /\ (0 + 2)..Len(stdin') = {} /\ 1..0 = {}
        BY <4>1, NoIndices
      <4> QED
        BY <3>3, <4>2 DEF Framed
    <3> QED
      BY <1>2, <2>3, <3>2, <3>3
  <2> QED
    BY <1>1, <2>1, <2>3
<1> QED
  BY <1>1, <1>4, <1>5

\* After a row, the rest of its chunk comes next.
LEMMA FramedAfterRow ==
    ASSUME Types, Framed, pc # "exited", left > 0, stdin # << >>, stdin' = Tail(stdin),
           left' = left - 1
    PROVE  ~Head(stdin).header /\ Framed'
<1>1. /\ Len(stdin) \in Nat \ {0} /\ left \in Nat
      /\ Head(stdin) = stdin[1]
      /\ Len(stdin') = Len(stdin) - 1
      /\ \A k \in 1..(Len(stdin) - 1) : stdin'[k] = stdin[k + 1]
  BY TakeFirst DEF Types
<1>2. Len(stdin) <= left /\ \A k \in 1..Len(stdin) : ~stdin[k].header
  BY DEF Framed
<1>3. ~stdin[1].header /\ Len(stdin') <= left'
  BY <1>1, <1>2
<1>4. ASSUME NEW k \in 1..Len(stdin') PROVE ~stdin'[k].header
  BY <1>1, <1>2
<1>5. CASE left' > 0
  BY <1>1, <1>3, <1>4, <1>5 DEF Framed
<1>6. CASE left' = 0
  <2>1. Len(stdin') = 0
    BY <1>1, <1>3, <1>6
  <2>2. 0 \in 0..Len(stdin') /\ ~(Len(stdin') > 0) /\ (0 + 2)..Len(stdin') = {} /\ 1..0 = {}
    BY <2>1, NoIndices
  <2> QED
    BY <1>1, <1>3, <1>6, <2>2 DEF Framed
<1> QED
  BY <1>1, <1>5, <1>6

\* The worker reads a header: its chunk's, or one of a chunk without rows.
LEMMA ReadHeaderStep ==
    ASSUME IInv, ReadHeader
    PROVE  IInv'
<1>1. /\ pc = "header" /\ stdin # << >> /\ stdin' = Tail(stdin)
      /\ UNCHANGED <<chunks, outcomes, busy, toSend, received, closed, reading, stdout, answer, buf>>
      /\ IF Head(stdin).header
            THEN /\ left' = Head(stdin).rows
                 /\ pc' = IF Head(stdin).rows = 0 THEN "flush" ELSE "row"
                 /\ UNCHANGED status
            ELSE Exit("1") /\ UNCHANGED left
  BY DEF ReadHeader, server
<1>2. Types /\ WorkerShape /\ left = 0 /\ buf = << >> /\ answer = NoAnswer /\ status = "none"
  BY <1>1 DEF IInv, WorkerShape
<1>3. /\ Framed
      /\ busy => reading /\ ~closed
      /\ ~busy /\ reading => Clean
  BY <1>1, WhoseRow
<1>4. Head(stdin).header /\ (left' = Head(stdin).rows => Framed')
  BY <1>1, <1>2, <1>3, FramedAfterHeader
<1>5. left' = Head(stdin).rows /\ pc' = (IF left' = 0 THEN "flush" ELSE "row") /\ status' = "none"
      /\ Framed'
  BY <1>1, <1>2, <1>4
<1>6. /\ Len(stdin) \in Nat \ {0}
      /\ Head(stdin) = stdin[1] /\ Head(stdin) \in Message
      /\ stdin' \in Seq(Message)
      /\ Len(stdin') = Len(stdin) - 1
      /\ \A k \in 1..(Len(stdin) - 1) : stdin'[k] = stdin[k + 1]
  BY <1>1, <1>2, TakeFirst DEF Types
<1>7. left' \in Nat
  BY <1>5, <1>6, ConstantsAssumption DEF Message
<1>8. Types' /\ ServerShape' /\ WorkerShape' /\ Cancelled'
  <2>1. Types'
    BY <1>1, <1>2, <1>5, <1>6, <1>7 DEF Types
  <2>2. WorkerShape'
    BY <1>1, <1>2, <1>5, <1>7 DEF WorkerShape
  <2>3. ServerShape' /\ Cancelled'
    BY <1>1, <1>5 DEF IInv, ServerShape, Cancelled, Chunk
  <2> QED
    BY <2>1, <2>2, <2>3
<1>9. Idle'
  <2>1. ASSUME ~busy, reading PROVE Clean'
    <3>1. Clean
      BY <1>3, <2>1
    <3>2. left' = 0
      BY <1>5, <1>6, <3>1 DEF Clean, EmptyHeader
    <3>3. ASSUME NEW k \in 1..Len(stdin') PROVE EmptyHeader(stdin'[k])
      BY <1>6, <3>1 DEF Clean
    <3> QED
      BY <1>1, <1>5, <3>1, <3>2, <3>3 DEF Clean
  <2> QED
    BY <1>1, <1>5, <2>1 DEF Idle
<1>10. OutcomesFitTheRows'
  BY <1>1, <1>5, SameOutcomes DEF IInv
<1>11. Working'
  <2>1. SUFFICES ASSUME busy PROVE Working'
    BY <1>1 DEF Working
  <2>2. /\ Chunk \in 1..MaxChunks /\ Rows \in Nat /\ Given \in Nat
        /\ Len(toSend) \in Nat /\ Rows = Len(chunks[Chunk])
    BY <1>2, <2>1, Counts DEF IInv, ServerShape, Rows
  <2>3. /\ AnswersInPlace /\ Given <= Rows /\ RestToSend /\ Len(toSend) <= Rows + 1
        /\ \A r \in 1..Given : chunks[Chunk][r]
        /\ Announced \/ Underway
    BY <1>1, <2>1 DEF IInv, Working, RestToSend
  <2>4. Chunk' = Chunk /\ Rows' = Rows /\ (\A c, i : MessageOf(c, i)' = MessageOf(c, i))
        /\ (\A c, r : RowOf(c, r)' = RowOf(c, r)) /\ Given' = Given
    BY <1>1, SameChunk DEF Given
  <2>5. Announced
    <3>1. ASSUME Underway PROVE FALSE
      <4>1. Len(stdin) + Len(toSend) = 0
        BY <1>2, <3>1 DEF Underway
      <4> QED
        BY <1>6, <2>2, <4>1
    <3> QED
      BY <2>3, <3>1
  <2>6. AnswersInPlace' /\ RestToSend' /\ Given' <= Rows' /\ (\A r \in 1..Given' : chunks'[Chunk'][r])
    BY <1>1, <2>3, <2>4 DEF AnswersInPlace, RestToSend
  <2> DEFINE stale == Len(stdin) - (Rows + 1 - Len(toSend))
  <2>7. /\ Given = 0 /\ stale \in Nat
        /\ \A k \in 1..Len(stdin) : IF k <= stale THEN EmptyHeader(stdin[k])
                                    ELSE stdin[k] = MessageOf(Chunk, k - stale - 1)
    <3>1. Len(stdin) \in Nat /\ Len(toSend) \in Nat /\ Rows \in Nat
      BY <1>6, <2>2
    <3>2. stale \in Int
      BY <3>1
    <3>3. stale >= 0 /\ Given = 0
      BY <2>5 DEF Announced
    <3>4. \A k \in 1..Len(stdin) : IF k <= stale THEN EmptyHeader(stdin[k])
                                    ELSE stdin[k] = MessageOf(Chunk, k - stale - 1)
      BY <2>5 DEF Announced
    <3> HIDE DEF stale
    <3>5. stale \in Nat
      BY <3>2, <3>3
    <3> QED
      BY <3>3, <3>4, <3>5
  <2>8. stale = Len(stdin) - (Rows + 1 - Len(toSend))
    OBVIOUS
  <2> HIDE DEF stale
  <2>9. CASE stale > 0
    <3>1. left' = 0
      <4>1. 1 \in 1..Len(stdin) /\ 1 <= stale
        BY <1>6, <2>7, <2>9
      <4>2. EmptyHeader(stdin[1])
        BY <2>7, <4>1
      <4> QED
        BY <1>5, <1>6, <4>2 DEF EmptyHeader
    <3>2. stale - 1 = Len(stdin') - (Rows' + 1 - Len(toSend')) /\ stale - 1 >= 0
      <4>1. Len(stdin) \in Nat /\ Len(toSend) \in Nat /\ Rows \in Nat /\ stale \in Nat
        BY <1>6, <2>2, <2>7
      <4>2. stale - 1 = (Len(stdin) - 1) - (Rows + 1 - Len(toSend)) /\ stale - 1 >= 0
        BY <2>8, <2>9, <4>1
      <4> QED
        BY <1>1, <1>6, <2>4, <4>2
    <3>3. ASSUME NEW k \in 1..Len(stdin')
          PROVE  IF k <= stale - 1 THEN EmptyHeader(stdin'[k])
                                   ELSE stdin'[k] = MessageOf(Chunk, k - (stale - 1) - 1)
      <4>1. k + 1 \in 1..Len(stdin) /\ k \in 1..(Len(stdin) - 1) /\ k \in Nat /\ stale \in Nat
        BY <1>6, <2>7
      <4>2. k <= stale - 1 <=> k + 1 <= stale
        BY <4>1
      <4>3. k - (stale - 1) - 1 = (k + 1) - stale - 1
        BY <4>1
      <4>4. IF k + 1 <= stale THEN EmptyHeader(stdin[k + 1])
                              ELSE stdin[k + 1] = MessageOf(Chunk, (k + 1) - stale - 1)
        BY <2>7, <4>1
      <4> QED
        BY <1>6, <4>1, <4>2, <4>3, <4>4
    <3>4. Announced'
      BY <1>5, <2>4, <2>7, <3>1, <3>2, <3>3 DEF Announced
    <3> QED
      BY <1>5, <2>6, <3>4 DEF Working
  <2>10. CASE stale = 0
    <3>1. stdin[1] = MessageOf(Chunk, 0)
      <4>1. 1 \in 1..Len(stdin) /\ ~(1 <= stale) /\ 1 - stale - 1 = 0
        BY <1>6, <2>10
      <4> QED
        BY <2>7, <4>1
    <3>2. left' = Rows
      <4>1. 0 \in 0..Len(chunks[Chunk])
        BY <2>2
      <4> QED
        BY <1>2, <1>5, <1>6, <2>2, <3>1, <4>1, MessageType
    <3>3. Len(stdin') + Len(toSend') = left'
      <4>1. Len(stdin) \in Nat /\ Len(toSend) \in Nat /\ Rows \in Nat
        BY <1>6, <2>2
      <4>2. (Len(stdin) - 1) + Len(toSend) = Rows
        BY <2>8, <2>10, <4>1
      <4> QED
        BY <1>1, <1>6, <3>2, <4>2
    <3>4. ASSUME NEW k \in 1..Len(stdin') PROVE stdin'[k] = RowOf(Chunk, 0 + k)
      <4>1. k + 1 \in 1..Len(stdin) /\ k \in 1..(Len(stdin) - 1) /\ k \in Nat \ {0}
        BY <1>6
      <4>2. ~(k + 1 <= stale) /\ (k + 1) - stale - 1 = k /\ 0 + k = k /\ k # 0
        BY <2>10, <4>1
      <4>3. stdin[k + 1] = MessageOf(Chunk, k)
        BY <2>7, <4>1, <4>2
      <4> QED
        BY <1>6, <4>1, <4>2, <4>3 DEF MessageOf
    <3>5. Underway'
      BY <2>2, <2>4, <2>7, <3>2, <3>3, <3>4 DEF Underway
    <3> QED
      BY <1>5, <2>6, <3>5 DEF Working
  <2> QED
    BY <2>7, <2>9, <2>10
<1> QED
  BY <1>8, <1>9, <1>10, <1>11 DEF IInv

\* The input ends between two chunks: the worker returns.
LEMMA HeaderEOFStep ==
    ASSUME IInv, HeaderEOF
    PROVE  IInv'
<1>1. /\ pc = "header" /\ closed /\ stdout' = stdout \o buf /\ buf' = << >>
      /\ pc' = "exited" /\ status' = "0"
      /\ UNCHANGED <<chunks, outcomes, busy, toSend, received, closed, reading, stdin, left, answer>>
  BY DEF HeaderEOF, Exit, server
<1>2. ~busy /\ buf = << >> /\ answer = NoAnswer
  BY <1>1 DEF IInv, ServerShape, WorkerShape
<1>3. stdout' \in Seq(Answer)
  BY <1>1, ConcatProperties DEF IInv, Types
<1>4. Types' /\ ServerShape' /\ WorkerShape' /\ Cancelled' /\ Working'
  BY <1>1, <1>2, <1>3, EmptySeq
     DEF IInv, Types, ServerShape, WorkerShape, Cancelled, Framed, Working, Chunk
<1>5. Idle'
  BY <1>1, <1>2 DEF Idle
<1>6. OutcomesFitTheRows'
  BY <1>1, SameOutcomes DEF IInv
<1> QED
  BY <1>4, <1>5, <1>6 DEF IInv

\* Between a worker that reads a row and the server that works on its chunk.
LEMMA RowOfTheChunk ==
    ASSUME IInv, busy, pc = "row", stdin # << >>
    PROVE  /\ Underway
           /\ Chunk \in 1..MaxChunks /\ Rows \in Nat /\ Rows = Len(chunks[Chunk])
           /\ Given \in Nat /\ Given + 1 \in 1..Rows
           /\ Head(stdin) = RowOf(Chunk, Given + 1)
<1>1. Types /\ WorkerShape /\ Working /\ Chunk <= MaxChunks
  BY DEF IInv, ServerShape
<1>2. /\ Chunk \in 1..MaxChunks /\ Rows \in Nat /\ Rows = Len(chunks[Chunk])
      /\ Given \in Nat /\ left \in Nat /\ left > 0
  BY <1>1, Counts DEF Rows, Types, WorkerShape
<1>3. Underway
  BY <1>1 DEF Working, Announced
<1>4. Given + 1 \in 1..Rows
  <2>1. left = Rows - Given
    BY <1>3 DEF Underway
  <2> QED
    BY <1>2, <2>1
<1>5. Head(stdin) = stdin[1] /\ 1 \in 1..Len(stdin)
  BY <1>1, TakeFirst DEF Types
<1> QED
  BY <1>2, <1>3, <1>4, <1>5 DEF Underway

\* The worker reads a row that it accepts.
LEMMA ReadRowStep ==
    ASSUME IInv, ReadRow
    PROVE  IInv'
<1>1. /\ pc = "row" /\ stdin # << >> /\ Head(stdin).ok /\ stdin' = Tail(stdin)
      /\ answer' = Head(stdin).id /\ left' = left - 1 /\ pc' = "write"
      /\ UNCHANGED <<chunks, outcomes, busy, toSend, received, closed, reading, stdout, buf, status>>
  BY DEF ReadRow, server
<1>2. Types /\ WorkerShape /\ left \in Nat /\ left > 0 /\ answer = NoAnswer /\ status = "none"
  BY <1>1 DEF IInv, WorkerShape, Types
<1>3. Framed /\ (busy => reading /\ ~closed) /\ (busy \/ ~reading)
  BY <1>1, WhoseRow
<1>4. Framed'
  BY <1>1, <1>2, <1>3, FramedAfterRow
<1>5. /\ Len(stdin) \in Nat \ {0}
      /\ Head(stdin) = stdin[1] /\ Head(stdin) \in Message
      /\ stdin' \in Seq(Message)
      /\ Len(stdin') = Len(stdin) - 1
      /\ \A k \in 1..(Len(stdin) - 1) : stdin'[k] = stdin[k + 1]
  BY <1>1, <1>2, TakeFirst DEF Types
<1>6. answer' \in Answer /\ answer' # NoAnswer
  <2>0. answer' \in (1..MaxChunks) \X (0..MaxRows)
    BY <1>1, <1>5 DEF Message
  <2>1. PICK c \in 1..MaxChunks, r \in 0..MaxRows : answer' = <<c, r>>
    BY <2>0
  <2>2. c \in Nat \ {0} /\ r \in Nat
    BY ConstantsAssumption
  <2> QED
    BY <2>1, <2>2 DEF Answer, NoAnswer
<1>7. Types' /\ ServerShape' /\ WorkerShape' /\ Cancelled' /\ Idle'
  <2>1. left' \in Nat
    BY <1>1, <1>2
  <2>2. Types'
    BY <1>1, <1>2, <1>5, <1>6, <2>1 DEF Types
  <2>3. WorkerShape'
    BY <1>1, <1>2, <1>6 DEF WorkerShape
  <2>4. ServerShape' /\ Cancelled' /\ Idle'
    BY <1>1, <1>3, <1>4 DEF IInv, ServerShape, Cancelled, Idle, Chunk
  <2> QED
    BY <2>2, <2>3, <2>4
<1>8. OutcomesFitTheRows'
  BY <1>1, SameOutcomes DEF IInv
<1>9. Working'
  <2>1. SUFFICES ASSUME busy PROVE Working'
    BY <1>1 DEF Working
  <2>2. /\ Underway
        /\ Chunk \in 1..MaxChunks /\ Rows \in Nat /\ Rows = Len(chunks[Chunk])
        /\ Given \in Nat /\ Given + 1 \in 1..Rows
        /\ Head(stdin) = RowOf(Chunk, Given + 1)
    BY <1>1, <2>1, RowOfTheChunk
  <2>3. /\ AnswersInPlace /\ RestToSend /\ \A r \in 1..Given : chunks[Chunk][r]
    BY <1>1, <2>1 DEF IInv, Working
  <2>4. Chunk' = Chunk /\ Rows' = Rows /\ (\A c, i : MessageOf(c, i)' = MessageOf(c, i))
        /\ (\A c, r : RowOf(c, r)' = RowOf(c, r))
    BY <1>1, SameChunk
  <2>5. answer' = <<Chunk, Given + 1>> /\ chunks[Chunk][Given + 1]
    BY <1>1, <2>2 DEF RowOf
  <2>6. Given' = Given + 1
    <3>1. Len(received) \in Nat /\ Len(stdout) \in Nat /\ Len(buf) \in Nat
      BY <1>2, Counts
    <3>2. Given = Len(received) + Len(stdout) + Len(buf)
      BY <1>2, <3>1 DEF Given
    <3>3. Given' = Len(received) + Len(stdout) + Len(buf) + 1
      BY <1>1, <1>6 DEF Given
    <3> QED
      BY <3>2, <3>3
  <2>7. AnswersInPlace'
    BY <1>1, <2>3, <2>4, <2>5, <2>6 DEF AnswersInPlace
  <2>8. RestToSend'
    BY <1>1, <2>3, <2>4 DEF RestToSend
  <2>9. Given' <= Rows' /\ \A r \in 1..Given' : chunks'[Chunk'][r]
    <3>1. ASSUME NEW r \in 1..(Given + 1) PROVE chunks[Chunk][r]
      <4>1. r \in 1..Given \/ r = Given + 1
        BY <2>2
      <4> QED
        BY <2>3, <2>5, <4>1
    <3> QED
      BY <1>1, <2>2, <2>4, <2>6, <3>1
  <2>10. Underway'
    <3>1. left = Rows - Given /\ Len(stdin) + Len(toSend) = left
      BY <2>2 DEF Underway
    <3>2. Len(stdin) \in Nat /\ Len(toSend) \in Nat /\ left \in Nat
      BY <1>2, Counts
    <3>3. left' = Rows' - Given' /\ Len(stdin') + Len(toSend') = left'
      <4>1. left - 1 = Rows - (Given + 1) /\ (Len(stdin) - 1) + Len(toSend) = left - 1
        BY <2>2, <3>1, <3>2
      <4> QED
        BY <1>1, <1>5, <2>4, <2>6, <4>1
    <3>4. ASSUME NEW k \in 1..Len(stdin') PROVE stdin'[k] = RowOf(Chunk, Given' + k)
      <4>1. k + 1 \in 1..Len(stdin) /\ k \in 1..(Len(stdin) - 1) /\ k \in Nat
        BY <1>5
      <4>2. Given + (k + 1) = (Given + 1) + k
        BY <2>2, <4>1
      <4>3. stdin[k + 1] = RowOf(Chunk, Given + (k + 1))
        BY <2>2, <4>1 DEF Underway
      <4> QED
        BY <1>5, <2>6, <4>1, <4>2, <4>3
    <3> QED
      BY <2>4, <3>3, <3>4 DEF Underway
  <2> QED
    BY <1>1, <2>7, <2>8, <2>9, <2>10 DEF Working
<1> QED
  BY <1>7, <1>8, <1>9 DEF IInv

\* The worker exits over a row: it is a bad row of the chunk, or the query was
\* cancelled.
LEMMA RejectRowStep ==
    ASSUME IInv, RejectRow
    PROVE  IInv'
<1>1. /\ pc = "row" /\ stdin # << >> /\ ~Head(stdin).ok /\ stdin' = Tail(stdin)
      /\ pc' = "exited" /\ status' = "1"
      /\ UNCHANGED <<chunks, outcomes, busy, toSend, received, closed, reading, stdout,
                     left, answer, buf>>
  BY DEF RejectRow, Exit, server
<1>2. Types /\ WorkerShape
  BY DEF IInv
<1>3. (busy => reading /\ ~closed) /\ (busy \/ ~reading)
  BY <1>1, WhoseRow
<1>4. stdin' \in Seq(Message)
  BY <1>1, <1>2, TakeFirst DEF Types
<1>5. Types' /\ ServerShape' /\ WorkerShape' /\ Cancelled' /\ Idle'
  BY <1>1, <1>2, <1>3, <1>4
     DEF IInv, Types, ServerShape, WorkerShape, Cancelled, Framed, Idle, Chunk
<1>6. ASSUME busy
      PROVE  /\ Given \in Nat /\ Given + 1 \in 1..Rows /\ Rows = Len(chunks[Chunk])
             /\ ~chunks[Chunk][Given + 1]
  <2>1. Given \in Nat /\ Given + 1 \in 1..Rows /\ Head(stdin) = RowOf(Chunk, Given + 1)
        /\ Rows = Len(chunks[Chunk])
    BY <1>1, <1>6, RowOfTheChunk
  <2> QED
    BY <1>1, <2>1 DEF RowOf
<1>7. Chunk' = Chunk /\ Rows' = Rows /\ (\A c, i : MessageOf(c, i)' = MessageOf(c, i))
      /\ Given' = Given
  BY <1>1, SameChunk DEF Given
<1>8. OutcomesFitTheRows'
  <2>1. ~reading \/ (busy /\ \E r \in 1..Len(chunks[Chunk]) : ~chunks[Chunk][r])
    BY <1>3, <1>6
  <2> QED
    BY <1>1, <1>7, <2>1 DEF IInv, OutcomesFitTheRows
<1>9. Working'
  <2>1. SUFFICES ASSUME busy PROVE Working'
    BY <1>1 DEF Working
  <2>2. AnswersInPlace /\ RestToSend /\ Given <= Rows /\ \A r \in 1..Given : chunks[Chunk][r]
    BY <2>1 DEF IInv, Working
  <2>3. AnswersInPlace' /\ RestToSend'
    BY <1>1, <1>7, <2>2 DEF AnswersInPlace, RestToSend
  <2>4. Given < Rows /\ ~chunks[Chunk][Given + 1]
    <3>1. Given \in Nat /\ Given + 1 \in 1..Rows /\ ~chunks[Chunk][Given + 1]
      BY <1>6, <2>1
    <3>2. Rows \in Nat
      BY <1>2, <2>1, Counts DEF IInv, ServerShape
    <3> QED
      BY <3>1, <3>2
  <2> QED
    BY <1>1, <1>7, <2>2, <2>3, <2>4 DEF Working
<1> QED
  BY <1>5, <1>8, <1>9 DEF IInv

\* The input ends inside a chunk: its query was cancelled.
LEMMA RowEOFStep ==
    ASSUME IInv, RowEOF
    PROVE  IInv'
<1>1. /\ pc = "row" /\ closed /\ pc' = "exited" /\ status' = "1"
      /\ UNCHANGED <<chunks, outcomes, busy, toSend, received, closed, reading, stdin, stdout,
                     left, answer, buf>>
  BY DEF RowEOF, Exit, server
<1>2. ~busy /\ ~reading
  BY <1>1, WhoseRow
<1>3. Types' /\ ServerShape' /\ WorkerShape' /\ Cancelled' /\ Idle' /\ Working'
  BY <1>1, <1>2
     DEF IInv, Types, ServerShape, WorkerShape, Cancelled, Framed, Idle, Working, Chunk
<1>4. OutcomesFitTheRows'
  BY <1>1, <1>2 DEF IInv, OutcomesFitTheRows
<1> QED
  BY <1>3, <1>4 DEF IInv

\* The worker puts its answer into the buffer, or has to flush it before.
LEMMA WriteStep ==
    ASSUME IInv, Write
    PROVE  IInv'
<1>1. /\ pc = "write"
      /\ UNCHANGED <<chunks, outcomes, busy, toSend, received, closed, reading, stdin, stdout,
                     left, status>>
  BY DEF Write, server
<1>2. \/ /\ buf' = Append(buf, answer) /\ answer' = NoAnswer
         /\ pc' = IF left = 0 THEN "flush" ELSE "row"
      \/ pc' = "spill" /\ UNCHANGED <<answer, buf>>
  BY DEF Write
<1>3. Types /\ WorkerShape /\ Working /\ answer # NoAnswer /\ answer \in Answer /\ left \in Nat
      /\ status = "none"
  BY <1>1 DEF IInv, WorkerShape, Types
<1>4. Framed /\ (busy \/ ~reading)
  BY <1>1, WhoseRow
<1>5. OutcomesFitTheRows'
  BY <1>1, SameOutcomes DEF IInv
<1>6. pc' \in {"flush", "row", "spill"}
  BY <1>2
<1>7. Framed' /\ ServerShape' /\ Cancelled' /\ Idle'
  <2>1. Framed'
    BY <1>1, <1>4, <1>6 DEF Framed, EmptyHeader
  <2> QED
    BY <1>1, <1>4, <1>6, <2>1 DEF IInv, ServerShape, Cancelled, Idle, Chunk
<1>8. CASE pc' = "spill" /\ UNCHANGED <<answer, buf>>
  <2>1. Types' /\ WorkerShape'
    BY <1>1, <1>3, <1>8 DEF Types, WorkerShape
  <2>2. ASSUME busy PROVE Working'
    <3>1. Given' = Given /\ Chunk' = Chunk
      BY <1>1, <1>8, SameChunk DEF Given
    <3>2. AnswersInPlace => AnswersInPlace'
      BY <1>1, <1>8, <3>1 DEF AnswersInPlace
    <3> QED
      BY <1>1, <1>3, <1>8, <2>2, <3>1, <3>2, SameWork
  <2>3. Working'
    BY <1>1, <2>2 DEF Working
  <2> QED
    BY <1>5, <1>7, <2>1, <2>3 DEF IInv
<1>9. CASE /\ buf' = Append(buf, answer) /\ answer' = NoAnswer
           /\ pc' = IF left = 0 THEN "flush" ELSE "row"
  <2>1. /\ Len(buf) \in Nat /\ Len(received) \in Nat /\ Len(stdout) \in Nat
        /\ buf' \in Seq(Answer)
        /\ Len(buf') = Len(buf) + 1
        /\ \A k \in 1..Len(buf) : buf'[k] = buf[k]
        /\ buf'[Len(buf) + 1] = answer
    BY <1>3, <1>9, Counts, AppendProperties DEF Types
  <2>2. Types' /\ WorkerShape'
    <3>1. answer' \in Answer
      BY <1>9 DEF Answer, NoAnswer
    <3> QED
      BY <1>1, <1>3, <1>9, <2>1, <3>1 DEF Types, WorkerShape
  <2>3. ASSUME busy PROVE Working'
    <3>1. Chunk' = Chunk
      BY <1>1, SameChunk
    <3>2. Given' = Given /\ Given = Len(received) + Len(stdout) + (Len(buf) + 1)
      <4>1. Given = Len(received) + Len(stdout) + Len(buf) + 1
        BY <1>3 DEF Given
      <4>2. Given' = Len(received) + Len(stdout) + (Len(buf) + 1) + 0
        BY <1>1, <1>9, <2>1 DEF Given
      <4> QED
        BY <2>1, <4>1, <4>2
    <3>3. ASSUME AnswersInPlace PROVE AnswersInPlace'
      <4>1. ASSUME NEW k \in 1..Len(buf')
            PROVE  buf'[k] = <<Chunk, Len(received) + Len(stdout) + k>>
        <5>1. CASE k \in 1..Len(buf)
          BY <2>1, <3>3, <5>1 DEF AnswersInPlace
        <5>2. CASE k = Len(buf) + 1
          BY <1>3, <2>1, <3>2, <3>3, <5>2 DEF AnswersInPlace
        <5> QED
          BY <2>1, <5>1, <5>2
      <4> QED
        BY <1>1, <1>9, <3>1, <3>3, <4>1 DEF AnswersInPlace
    <3>4. pc' # "exited"
      BY <1>6
    <3> QED
      BY <1>1, <1>3, <2>3, <3>2, <3>3, <3>4, SameWork
  <2>4. Working'
    BY <1>1, <2>3 DEF Working
  <2> QED
    BY <1>5, <1>7, <2>2, <2>4 DEF IInv
<1> QED
  BY <1>2, <1>8, <1>9

\* The pipe takes an answer from the buffer: a query is under way.
LEMMA DeliverStep ==
    ASSUME IInv, Deliver
    PROVE  IInv'
<1>1. /\ pc \in {"spill", "flush"} /\ buf # << >> /\ reading
      /\ stdout' = Append(stdout, Head(buf)) /\ buf' = Tail(buf)
      /\ UNCHANGED <<chunks, outcomes, busy, toSend, received, closed, reading, stdin,
                     pc, left, answer, status>>
  BY DEF Deliver, server
<1>2. Types /\ Working
  BY DEF IInv
<1>3. busy
  BY <1>1, WhoseRow DEF Clean
<1>4. /\ Len(received) \in Nat /\ Len(stdout) \in Nat
      /\ Len(buf) \in Nat \ {0}
      /\ Head(buf) = buf[1] /\ Head(buf) \in Answer
      /\ buf' \in Seq(Answer)
      /\ Len(buf') = Len(buf) - 1
      /\ \A k \in 1..(Len(buf) - 1) : buf'[k] = buf[k + 1]
  BY <1>1, <1>2, Counts, TakeFirst DEF Types
<1>5. /\ stdout' \in Seq(Answer)
      /\ Len(stdout') = Len(stdout) + 1
      /\ \A k \in 1..Len(stdout) : stdout'[k] = stdout[k]
      /\ stdout'[Len(stdout) + 1] = buf[1]
  BY <1>1, <1>2, <1>4, AppendProperties DEF Types
<1>6. Chunk' = Chunk
  BY <1>1, SameChunk
<1>7. Len(stdout') + Len(buf') = Len(stdout) + Len(buf)
  BY <1>4, <1>5
<1>8. Given' = Given
  <2>1. Len(received) + Len(stdout') + Len(buf') = Len(received) + Len(stdout) + Len(buf)
    BY <1>4, <1>5, <1>7
  <2> QED
    BY <1>1, <2>1 DEF Given
<1>9. ASSUME AnswersInPlace PROVE AnswersInPlace'
  <2>1. ASSUME NEW k \in 1..Len(stdout') PROVE stdout'[k] = <<Chunk, Len(received) + k>>
    <3>1. CASE k \in 1..Len(stdout)
      BY <1>5, <1>9, <3>1 DEF AnswersInPlace
    <3>2. CASE k = Len(stdout) + 1
      <4>1. buf[1] = <<Chunk, Len(received) + Len(stdout) + 1>>
        BY <1>4, <1>9 DEF AnswersInPlace
      <4>2. Len(received) + Len(stdout) + 1 = Len(received) + k
        BY <1>4, <3>2
      <4> QED
        BY <1>5, <3>2, <4>1, <4>2
    <3> QED
      BY <1>4, <1>5, <3>1, <3>2
  <2>2. ASSUME NEW k \in 1..Len(buf')
        PROVE  buf'[k] = <<Chunk, Len(received) + Len(stdout') + k>>
    <3>1. k + 1 \in 1..Len(buf) /\ k \in 1..(Len(buf) - 1)
          /\ Len(received) + Len(stdout) + (k + 1) = Len(received) + Len(stdout') + k
      BY <1>4, <1>5
    <3>2. buf[k + 1] = <<Chunk, Len(received) + Len(stdout) + (k + 1)>>
      BY <1>9, <3>1 DEF AnswersInPlace
    <3> QED
      BY <1>4, <3>1, <3>2
  <2> QED
    BY <1>1, <1>6, <1>8, <1>9, <2>1, <2>2 DEF AnswersInPlace
<1>10. Working'
  BY <1>1, <1>2, <1>3, <1>8, <1>9, SameWork
<1>11. Types' /\ ServerShape' /\ WorkerShape' /\ Cancelled' /\ Idle'
  BY <1>1, <1>2, <1>3, <1>4, <1>5, <1>6
     DEF IInv, Types, ServerShape, WorkerShape, Cancelled, Idle
<1>12. OutcomesFitTheRows'
  BY <1>1, SameOutcomes DEF IInv
<1> QED
  BY <1>10, <1>11, <1>12 DEF IInv

\* The buffer is empty: the worker goes on.
LEMMA FlushedStep ==
    ASSUME IInv, Flushed
    PROVE  IInv'
<1>1. /\ pc \in {"spill", "flush"} /\ buf = << >>
      /\ pc' = IF pc = "spill" THEN "write" ELSE "header"
      /\ UNCHANGED <<chunks, outcomes, busy, toSend, received, closed, reading, stdin, stdout,
                     left, answer, buf, status>>
  BY DEF Flushed, server
<1>2. Types /\ WorkerShape /\ Working /\ Framed
  BY <1>1, WhoseRow DEF IInv
<1>3. ~busy /\ reading => Clean
  BY <1>1, WhoseRow
<1>4. Types' /\ WorkerShape' /\ ServerShape'
  BY <1>1, <1>2 DEF IInv, Types, WorkerShape, ServerShape, Chunk
<1>5. Cancelled'
  BY <1>1, <1>2 DEF Cancelled, Framed, EmptyHeader
<1>6. Idle'
  BY <1>1, <1>3 DEF Idle, Clean, EmptyHeader
<1>7. ASSUME busy PROVE Working'
  <2>1. Given' = Given /\ Chunk' = Chunk
    BY <1>1, SameChunk DEF Given
  <2>2. AnswersInPlace => AnswersInPlace'
    BY <1>1, <2>1 DEF AnswersInPlace
  <2> QED
    BY <1>1, <1>2, <1>7, <2>1, <2>2, SameWork
<1>8. Working'
  BY <1>1, <1>7 DEF Working
<1>9. OutcomesFitTheRows'
  BY <1>1, SameOutcomes DEF IInv
<1> QED
  BY <1>4, <1>5, <1>6, <1>8, <1>9 DEF IInv

\* A signal kills the worker: its query was cancelled.
LEMMA BrokenPipeStep ==
    ASSUME IInv, BrokenPipe
    PROVE  IInv'
<1>1. /\ ~reading /\ pc' = "exited" /\ status' = "signal"
      /\ UNCHANGED <<chunks, outcomes, busy, toSend, received, closed, reading, stdin, stdout,
                     left, answer, buf>>
  BY DEF BrokenPipe, Exit, server
<1>2. ~busy /\ closed
  BY <1>1 DEF IInv, ServerShape
<1>3. Types' /\ ServerShape' /\ WorkerShape' /\ Cancelled' /\ Idle' /\ Working'
  BY <1>1, <1>2
     DEF IInv, Types, ServerShape, WorkerShape, Cancelled, Framed, Idle, Working, Chunk
<1>4. OutcomesFitTheRows'
  BY <1>1 DEF IInv, OutcomesFitTheRows
<1> QED
  BY <1>3, <1>4 DEF IInv

\* Where nothing changes, the invariant holds on.
LEMMA StutteringStep ==
    ASSUME IInv, UNCHANGED vars
    PROVE  IInv'
<1>1. UNCHANGED <<chunks, outcomes, busy, toSend, received, closed, reading, stdin, stdout,
                  pc, left, answer, buf, status>>
  BY DEF vars, server, worker
<1>2. Types' /\ ServerShape' /\ WorkerShape'
  BY <1>1 DEF IInv, Types, ServerShape, WorkerShape, Chunk
<1>3. Cancelled' /\ Idle'
  BY <1>1 DEF IInv, Cancelled, Framed, Idle, Clean, EmptyHeader
<1>4. ASSUME busy PROVE Working'
  <2>1. Given' = Given /\ Chunk' = Chunk
    BY <1>1, SameChunk DEF Given
  <2>2. AnswersInPlace => AnswersInPlace'
    BY <1>1, <2>1 DEF AnswersInPlace
  <2> QED
    BY <1>1, <1>4, <2>1, <2>2, SameWork DEF IInv
<1>5. Working'
  BY <1>1, <1>4 DEF Working
<1>6. OutcomesFitTheRows'
  BY <1>1, SameOutcomes DEF IInv
<1> QED
  BY <1>2, <1>3, <1>5, <1>6 DEF IInv

-----------------------------------------------------------------------------
(* The invariant and what it implies.                                      *)

\* Nothing is under way at the start.
LEMMA InvariantInit ==
    ASSUME Init
    PROVE  IInv
<1>1. /\ outcomes \in Seq({"answered", "failed", "cancelled"}) /\ Len(outcomes) = 0
      /\ toSend \in Seq(Message) /\ received \in Seq(Answer)
      /\ stdin \in Seq(Message) /\ Len(stdin) = 0
      /\ stdout \in Seq(Answer) /\ buf \in Seq(Answer) /\ answer \in Answer
  BY EmptySeq DEF Init, Answer, NoAnswer
<1>2. Types
  BY <1>1 DEF Init, Types
<1>3. ServerShape /\ WorkerShape /\ Working /\ Cancelled
  BY DEF Init, ServerShape, WorkerShape, Working, Cancelled
<1>4. Idle
  BY <1>1 DEF Init, Idle, Clean
<1>5. OutcomesFitTheRows
  BY <1>1 DEF Init, OutcomesFitTheRows
<1> QED
  BY <1>2, <1>3, <1>4, <1>5 DEF IInv

\* Every step preserves the invariant.
LEMMA InvariantStep ==
    ASSUME IInv, [Next]_vars
    PROVE  IInv'
<1>1. CASE StartChunk
  BY <1>1, StartChunkStep
<1>2. CASE Send
  BY <1>2, SendStep
<1>3. CASE Receive
  BY <1>3, ReceiveStep
<1>4. CASE FinishChunk
  BY <1>4, FinishChunkStep
<1>5. CASE FailChunk
  BY <1>5, FailChunkStep
<1>6. CASE CancelChunk
  BY <1>6, CancelChunkStep
<1>7. CASE CloseIdle
  BY <1>7, CloseIdleStep
<1>8. CASE StartWorker
  BY <1>8, StartWorkerStep
<1>9. CASE ReadHeader
  BY <1>9, ReadHeaderStep
<1>10. CASE HeaderEOF
  BY <1>10, HeaderEOFStep
<1>11. CASE ReadRow
  BY <1>11, ReadRowStep
<1>12. CASE RejectRow
  BY <1>12, RejectRowStep
<1>13. CASE RowEOF
  BY <1>13, RowEOFStep
<1>14. CASE Write
  BY <1>14, WriteStep
<1>15. CASE Deliver
  BY <1>15, DeliverStep
<1>16. CASE Flushed
  BY <1>16, FlushedStep
<1>17. CASE BrokenPipe
  BY <1>17, BrokenPipeStep
<1>18. CASE AtRest \/ UNCHANGED vars
  BY <1>18, StutteringStep DEF AtRest
<1> QED
  BY <1>1, <1>2, <1>3, <1>4, <1>5, <1>6, <1>7, <1>8, <1>9, <1>10, <1>11, <1>12, <1>13,
     <1>14, <1>15, <1>16, <1>17, <1>18 DEF Next, WorkerNext

\* The invariant holds throughout.
THEOREM Invariance == Spec => []IInv
<1>1. Init => IInv
  BY InvariantInit
<1>2. IInv /\ [Next]_vars => IInv'
  BY InvariantStep
<1> QED
  BY <1>1, <1>2, PTL DEF Spec

\* Answers numbered from 1, and the ones that follow them.
LEMMA Numbered ==
    ASSUME NEW c, NEW s \in Seq(Answer), NEW t \in Seq(Answer),
           \A k \in 1..Len(s) : s[k] = <<c, k>>,
           \A k \in 1..Len(t) : t[k] = <<c, Len(s) + k>>
    PROVE  /\ s \o t \in Seq(Answer)
           /\ Len(s \o t) = Len(s) + Len(t)
           /\ \A k \in 1..Len(s \o t) : (s \o t)[k] = <<c, k>>
<1>1. /\ s \o t \in Seq(Answer)
      /\ Len(s \o t) = Len(s) + Len(t)
      /\ \A k \in 1..(Len(s) + Len(t)) :
            (s \o t)[k] = IF k <= Len(s) THEN s[k] ELSE t[k - Len(s)]
  BY ConcatProperties
<1>2. Len(s) \in Nat /\ Len(t) \in Nat
  BY LenProperties
<1>3. ASSUME NEW k \in 1..(Len(s) + Len(t)) PROVE (s \o t)[k] = <<c, k>>
  <2>1. CASE k <= Len(s)
    BY <1>1, <1>2, <2>1
  <2>2. CASE ~(k <= Len(s))
    <3>1. k - Len(s) \in 1..Len(t) /\ Len(s) + (k - Len(s)) = k
      BY <1>2, <2>2
    <3> QED
      BY <1>1, <2>2, <3>1
  <2> QED
    BY <2>1, <2>2
<1> QED
  BY <1>1, <1>3

\* The answers that the server has read and will read for a chunk are those to
\* its first rows: runChunked takes exactly the rows that its header announces
\* and leaves no answer in its buffer for the next query.
THEOREM AnswersToTheirQuery == Spec => []AnswersBelongToChunk
<1>1. ASSUME IInv PROVE AnswersBelongToChunk
  <2> DEFINE last == IF answer = NoAnswer THEN << >> ELSE <<answer>>
  <2>1. SUFFICES ASSUME busy PROVE \A k \in 1..Len(OnTheWay) : OnTheWay[k] = <<Chunk, k>>
    BY DEF AnswersBelongToChunk
  <2>2. Types /\ AnswersInPlace
    BY <1>1, <2>1 DEF IInv, Working
  <2>3. /\ received \in Seq(Answer) /\ stdout \in Seq(Answer) /\ buf \in Seq(Answer)
        /\ answer \in Answer
        /\ \A k \in 1..Len(received) : received[k] = <<Chunk, k>>
        /\ \A k \in 1..Len(stdout) : stdout[k] = <<Chunk, Len(received) + k>>
        /\ \A k \in 1..Len(buf) : buf[k] = <<Chunk, Len(received) + Len(stdout) + k>>
        /\ answer # NoAnswer => answer = <<Chunk, Given>>
    BY <2>2 DEF Types, AnswersInPlace
  <2>4. /\ received \o stdout \in Seq(Answer)
        /\ Len(received \o stdout) = Len(received) + Len(stdout)
        /\ \A k \in 1..Len(received \o stdout) : (received \o stdout)[k] = <<Chunk, k>>
    BY <2>3, Numbered
  <2>5. /\ received \o stdout \o buf \in Seq(Answer)
        /\ Len(received \o stdout \o buf) = Len(received) + Len(stdout) + Len(buf)
        /\ \A k \in 1..Len(received \o stdout \o buf) :
              (received \o stdout \o buf)[k] = <<Chunk, k>>
    <3> DEFINE out == received \o stdout
    <3>1. /\ out \in Seq(Answer) /\ buf \in Seq(Answer)
          /\ Len(out) = Len(received) + Len(stdout)
          /\ \A k \in 1..Len(out) : out[k] = <<Chunk, k>>
      BY <2>3, <2>4
    <3> HIDE DEF out
    <3>2. \A k \in 1..Len(buf) : buf[k] = <<Chunk, Len(out) + k>>
      BY <2>3, <3>1
    <3>3. /\ out \o buf \in Seq(Answer)
          /\ Len(out \o buf) = Len(out) + Len(buf)
          /\ \A k \in 1..Len(out \o buf) : (out \o buf)[k] = <<Chunk, k>>
      BY <3>1, <3>2, Numbered
    <3> QED
      BY <3>1, <3>3 DEF out
  <2>6. /\ last \in Seq(Answer)
        /\ \A k \in 1..Len(last) : last[k] = <<Chunk, Len(received \o stdout \o buf) + k>>
    <3>1. CASE answer = NoAnswer
      <4>1. last = << >>
        BY <3>1
      <4> QED
        BY <4>1, EmptySeq
    <3>2. CASE answer # NoAnswer
      <4>1. last = <<answer>> /\ Len(last) = 1 /\ last[1] = answer /\ last \in Seq(Answer)
        BY <2>3, <3>2
      <4>2. answer = <<Chunk, Len(received) + Len(stdout) + Len(buf) + 1>>
        BY <2>3, <3>2 DEF Given
      <4>3. \A k \in 1..1 : k = 1
        OBVIOUS
      <4> QED
        BY <2>5, <4>1, <4>2, <4>3
    <3> QED
      BY <3>1, <3>2
  <2>7. OnTheWay = received \o stdout \o buf \o last
    BY DEF OnTheWay
  <2> HIDE DEF last
  <2> QED
    BY <2>5, <2>6, <2>7, Numbered
<1> QED
  BY <1>1, Invariance, PTL

\* Worker and server agree where a chunk begins, and a worker that goes back to
\* the pool has nothing of the query left: runChunked flushes after every chunk
\* and reads as many rows as it was told.
THEOREM WorkerInStep == Spec => []InStep
<1>1. ASSUME IInv PROVE InStep
  <2>1. Types /\ WorkerShape /\ left \in Nat
    BY <1>1 DEF IInv, Types
  <2>2. ASSUME stdin # << >> PROVE Len(stdin) \in Nat \ {0} /\ Head(stdin) = stdin[1]
    BY <2>1, <2>2, TakeFirst DEF Types
  <2>3. ASSUME pc = "header" PROVE buf = << >> /\ (stdin # << >> => Head(stdin).header)
    <3>1. buf = << >> /\ left = 0
      BY <2>1, <2>3 DEF WorkerShape
    <3>2. Framed
      BY <1>1, <2>3, WhoseRow
    <3>3. ASSUME stdin # << >> PROVE Head(stdin).header
      <4>1. PICK stale \in 0..Len(stdin) :
               /\ \A k \in 1..stale : EmptyHeader(stdin[k])
               /\ Len(stdin) > stale => stdin[stale + 1].header
        BY <2>3, <3>1, <3>2 DEF Framed
      <4>2. CASE stale = 0
        BY <2>2, <3>3, <4>1, <4>2
      <4>3. CASE stale > 0
        <5>1. 1 \in 1..stale
          BY <4>3
        <5> QED
          BY <2>2, <3>3, <4>1, <5>1 DEF EmptyHeader
      <4> QED
        BY <2>2, <3>3, <4>2, <4>3
    <3> QED
      BY <3>1, <3>3
  <2>4. ASSUME pc = "row", stdin # << >> PROVE ~Head(stdin).header
    <3>1. Framed /\ left > 0
      BY <1>1, <2>1, <2>4, WhoseRow DEF WorkerShape
    <3>2. 1 \in 1..Len(stdin)
      BY <2>2, <2>4
    <3> QED
      BY <2>2, <2>4, <3>1, <3>2 DEF Framed
  <2>5. ASSUME ~busy, ~closed
        PROVE  /\ stdout = << >> /\ buf = << >>
               /\ \A k \in 1..Len(stdin) : stdin[k].header /\ stdin[k].rows = 0
               /\ pc \in {"flush", "header"}
               /\ left = 0
    <3>1. Clean
      BY <1>1, <2>5 DEF IInv, Idle, ServerShape
    <3> QED
      BY <2>1, <3>1 DEF Clean, EmptyHeader, WorkerShape
  <2> QED
    BY <2>3, <2>4, <2>5 DEF InStep
<1> QED
  BY <1>1, Invariance, PTL

\* A query succeeds only if the worker accepts its rows and fails only over a
\* bad one, and the worker exits with an error only over a bad row or a
\* cancelled query: whatever the queries before it were.
THEOREM OutcomesAreDue == Spec => []OutcomesFitTheRows
<1>1. IInv => OutcomesFitTheRows
  BY DEF IInv
<1> QED
  BY <1>1, Invariance, PTL
=============================================================================
