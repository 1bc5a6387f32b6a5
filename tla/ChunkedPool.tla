---------------------------- MODULE ChunkedPool ----------------------------
(***************************************************************************)
(* The process pool of json_strip_empty_strings_and_nulls_udf: runChunked  *)
(* against the server that feeds it.                                       *)
(*                                                                         *)
(* ClickHouse keeps the worker alive from one query to the next.  For each *)
(* chunk of rows it writes a line with the number of rows and then the     *)
(* rows, and reads as many answers back.  Both pipes are bounded, and the  *)
(* worker answers through a bufio.Writer: unless it flushes after every    *)
(* chunk, the server waits for answers while the worker waits for the next *)
(* header; unless it takes exactly the rows that belong to the chunk, it   *)
(* mistakes a header for a row, and answers go to the wrong query.         *)
(*                                                                         *)
(* The server is external.  Of it we assume what the chunk header and the  *)
(* pool in udf/JSONStripEmptyStringsAndNulls_function.xml imply: it writes *)
(* and reads concurrently, may give up on a query, may close an idle       *)
(* worker, and starts another one when it needs one.  A message or an      *)
(* answer is one unit of a pipe or buffer; the one to row r of chunk c is  *)
(* named <<c, r>>, and a header is row 0.                                  *)
(***************************************************************************)
EXTENDS Integers, Sequences

CONSTANTS
    MaxChunks, \* the number of chunks the server has
    MaxRows,   \* the rows of a chunk
    PipeSize,  \* what a pipe holds
    BufSize    \* what the bufio.Writer holds

ASSUME ConstantsAssumption ==
    /\ MaxChunks \in Nat
    /\ MaxRows \in Nat
    /\ PipeSize \in Nat \ {0}
    /\ BufSize \in Nat \ {0}

VARIABLES
    chunks,   \* for every chunk and row, whether the worker accepts the row
    outcomes, \* what became of the chunks so far
    busy,     \* the server works on chunk Len(outcomes) + 1
    toSend,   \* what the server has still to write for it
    received, \* the answers the server has read for it
    stdin,    \* the pipe to the worker, the worker's reader included
    closed,   \* the server has closed its end of stdin
    reading,  \* the server has its end of stdout open
    stdout,   \* the pipe from the worker
    pc,       \* the worker: "header", "row", "write", "spill", "flush", "exited"
    left,     \* the rows of the chunk it has still to read
    answer,   \* the answer it is about to write
    buf,      \* what the bufio.Writer holds
    status    \* the worker's exit status, "none" while it runs

server == <<chunks, outcomes, busy, toSend, received, closed, reading>>
worker == <<pc, left, answer, buf, status>>
vars == <<server, stdin, stdout, worker>>

-----------------------------------------------------------------------------
Chunk == Len(outcomes) + 1

\* Every message could be read as a header or as a row: a header is JSON too.
Message == [header : BOOLEAN, id : (1..MaxChunks) \X (0..MaxRows),
            rows : 0..MaxRows, ok : BOOLEAN]
HeaderOf(c) == [header |-> TRUE, id |-> <<c, 0>>, rows |-> Len(chunks[c]), ok |-> TRUE]
RowOf(c, r) == [header |-> FALSE, id |-> <<c, r>>, rows |-> 0, ok |-> chunks[c][r]]

Messages(c) == <<HeaderOf(c)>> \o [r \in 1..Len(chunks[c]) |-> RowOf(c, r)]

NoAnswer == <<0, 0>>

\* A new worker has empty pipes and an empty buffer.
StartedWorker ==
    /\ stdin' = << >>
    /\ stdout' = << >>
    /\ pc' = "header"
    /\ left' = 0
    /\ answer' = NoAnswer
    /\ buf' = << >>
    /\ status' = "none"

Init ==
    /\ chunks \in [1..MaxChunks -> UNION {[1..n -> BOOLEAN] : n \in 0..MaxRows}]
    /\ outcomes = << >>
    /\ busy = FALSE
    /\ toSend = << >>
    /\ received = << >>
    /\ closed = FALSE
    /\ reading = TRUE
    /\ stdin = << >>
    /\ stdout = << >>
    /\ pc = "header"
    /\ left = 0
    /\ answer = NoAnswer
    /\ buf = << >>
    /\ status = "none"

-----------------------------------------------------------------------------
(* The server.                                                             *)

StartChunk ==
    /\ ~busy
    /\ ~closed
    /\ Chunk <= MaxChunks
    /\ busy' = TRUE
    /\ toSend' = Messages(Chunk)
    /\ received' = << >>
    /\ UNCHANGED <<chunks, outcomes, closed, reading, stdin, stdout, worker>>

Send ==
    /\ toSend # << >>
    /\ Len(stdin) < PipeSize
    /\ pc # "exited"
    /\ stdin' = Append(stdin, Head(toSend))
    /\ toSend' = Tail(toSend)
    /\ UNCHANGED <<chunks, outcomes, busy, received, closed, reading, stdout, worker>>

Receive ==
    /\ busy
    /\ Len(received) < Len(chunks[Chunk])
    /\ stdout # << >>
    /\ received' = Append(received, Head(stdout))
    /\ stdout' = Tail(stdout)
    /\ UNCHANGED <<chunks, outcomes, busy, toSend, closed, reading, stdin, worker>>

\* As many answers as rows: the worker goes back to the pool.
FinishChunk ==
    /\ busy
    /\ toSend = << >>
    /\ Len(received) = Len(chunks[Chunk])
    /\ outcomes' = Append(outcomes, "answered")
    /\ busy' = FALSE
    /\ received' = << >>
    /\ UNCHANGED <<chunks, toSend, closed, reading, stdin, stdout, worker>>

\* The worker has gone before it has given all its answers: the query fails.
FailChunk ==
    /\ busy
    /\ pc = "exited"
    /\ stdout = << >>
    /\ Len(received) < Len(chunks[Chunk])
    /\ outcomes' = Append(outcomes, "failed")
    /\ busy' = FALSE
    /\ toSend' = << >>
    /\ received' = << >>
    /\ closed' = TRUE
    /\ UNCHANGED <<chunks, reading, stdin, stdout, worker>>

\* The query is cancelled: both pipes are closed, whatever is under way.
CancelChunk ==
    /\ busy
    /\ outcomes' = Append(outcomes, "cancelled")
    /\ busy' = FALSE
    /\ toSend' = << >>
    /\ received' = << >>
    /\ closed' = TRUE
    /\ reading' = FALSE
    /\ UNCHANGED <<chunks, stdin, stdout, worker>>

\* The pool gives up an idle worker.
CloseIdle ==
    /\ ~busy
    /\ ~closed
    /\ closed' = TRUE
    /\ UNCHANGED <<chunks, outcomes, busy, toSend, received, reading, stdin, stdout, worker>>

StartWorker ==
    /\ closed
    /\ pc = "exited"
    /\ Chunk <= MaxChunks
    /\ closed' = FALSE
    /\ reading' = TRUE
    /\ StartedWorker
    /\ UNCHANGED <<chunks, outcomes, busy, toSend, received>>

-----------------------------------------------------------------------------
(* The worker: runChunked.                                                 *)

Exit(code) == pc' = "exited" /\ status' = code

\* Fault: the loop over the rows tests its count at the end.
ReadHeaderThenRow ==
    /\ pc = "header"
    /\ stdin # << >>
    /\ stdin' = Tail(stdin)
    /\ Head(stdin).header
    /\ left' = Head(stdin).rows
    /\ pc' = "row"
    /\ UNCHANGED <<server, stdout, answer, buf, status>>

\* fmt.Fscanln: a line that is no number ends the worker.
ReadHeader ==
    /\ pc = "header"
    /\ stdin # << >>
    /\ stdin' = Tail(stdin)
    /\ IF Head(stdin).header
          THEN /\ left' = Head(stdin).rows
               /\ pc' = IF Head(stdin).rows = 0 THEN "flush" ELSE "row"
               /\ UNCHANGED status
          ELSE Exit("1") /\ UNCHANGED left
    /\ UNCHANGED <<server, stdout, answer, buf>>

\* Fault: Fscanln is called again at the end of the input.
HeaderEOFAgain ==
    /\ pc = "header"
    /\ stdin = << >>
    /\ closed
    /\ UNCHANGED vars

\* Fscanln returns io.EOF: the last flush, and the worker returns.
HeaderEOF ==
    /\ pc = "header"
    /\ stdin = << >>
    /\ closed
    /\ stdout' = stdout \o buf
    /\ buf' = << >>
    /\ Exit("0")
    /\ UNCHANGED <<server, stdin, left, answer>>

\* ReadBytes and processLine; the answer is ready to be written.
ReadRow ==
    /\ pc = "row"
    /\ stdin # << >>
    /\ Head(stdin).ok
    /\ stdin' = Tail(stdin)
    /\ answer' = Head(stdin).id
    /\ left' = left - 1
    /\ pc' = "write"
    /\ UNCHANGED <<server, stdout, buf, status>>

\* Fault: a row that is not JSON is skipped.
SkipRow ==
    /\ pc = "row"
    /\ stdin # << >>
    /\ ~Head(stdin).ok
    /\ stdin' = Tail(stdin)
    /\ left' = left - 1
    /\ pc' = IF left = 1 THEN "flush" ELSE "row"
    /\ UNCHANGED <<server, stdout, answer, buf, status>>

\* Fault: a row that is not JSON is answered with null.
AnswerBadRow ==
    /\ pc = "row"
    /\ stdin # << >>
    /\ ~Head(stdin).ok
    /\ stdin' = Tail(stdin)
    /\ answer' = Head(stdin).id
    /\ left' = left - 1
    /\ pc' = "write"
    /\ UNCHANGED <<server, stdout, buf, status>>

\* processLine fails: the worker exits, and what is buffered is lost.
RejectRow ==
    /\ pc = "row"
    /\ stdin # << >>
    /\ ~Head(stdin).ok
    /\ stdin' = Tail(stdin)
    /\ Exit("1")
    /\ UNCHANGED <<server, stdout, left, answer, buf>>

\* The input ends inside a chunk.
RowEOF ==
    /\ pc = "row"
    /\ stdin = << >>
    /\ closed
    /\ Exit("1")
    /\ UNCHANGED <<server, stdin, stdout, left, answer, buf>>

\* Fault: no flush after the last row.
WriteWithoutFlush ==
    /\ pc = "write"
    /\ IF Len(buf) < BufSize
          THEN /\ buf' = Append(buf, answer)
               /\ answer' = NoAnswer
               /\ pc' = IF left = 0 THEN "header" ELSE "row"
          ELSE pc' = "spill" /\ UNCHANGED <<answer, buf>>
    /\ UNCHANGED <<server, stdin, stdout, left, status>>

\* writer.Write: a full buffer has to be flushed before the answer fits.
Write ==
    /\ pc = "write"
    /\ IF Len(buf) < BufSize
          THEN /\ buf' = Append(buf, answer)
               /\ answer' = NoAnswer
               /\ pc' = IF left = 0 THEN "flush" ELSE "row"
          ELSE pc' = "spill" /\ UNCHANGED <<answer, buf>>
    /\ UNCHANGED <<server, stdin, stdout, left, status>>

\* The pipe takes the next unit of the buffer that is being flushed.
Deliver ==
    /\ pc \in {"spill", "flush"}
    /\ buf # << >>
    /\ reading
    /\ Len(stdout) < PipeSize
    /\ stdout' = Append(stdout, Head(buf))
    /\ buf' = Tail(buf)
    /\ UNCHANGED <<server, stdin, pc, left, answer, status>>

Flushed ==
    /\ pc \in {"spill", "flush"}
    /\ buf = << >>
    /\ pc' = IF pc = "spill" THEN "write" ELSE "header"
    /\ UNCHANGED <<server, stdin, stdout, left, answer, buf, status>>

\* Nobody reads stdout any more: the write kills the worker.
BrokenPipe ==
    /\ pc \in {"spill", "flush"}
    /\ buf # << >>
    /\ ~reading
    /\ Exit("signal")
    /\ UNCHANGED <<server, stdin, stdout, left, answer, buf>>

WorkerNext ==
    \/ ReadHeader \/ HeaderEOF \/ ReadRow \/ RejectRow \/ RowEOF
    \/ Write \/ Deliver \/ Flushed \/ BrokenPipe

\* Everything is settled and the last worker has gone.
AtRest ==
    /\ pc = "exited"
    /\ ~busy
    /\ Chunk > MaxChunks
    /\ UNCHANGED vars

Next ==
    \/ StartChunk \/ Send \/ Receive \/ FinishChunk \/ FailChunk
    \/ CancelChunk \/ CloseIdle \/ StartWorker
    \/ WorkerNext
    \/ AtRest

\* The worker runs on; the server goes on with the chunk it has started.  No
\* query need arrive, be cancelled, nor a worker be closed.
Fairness ==
    /\ WF_vars(WorkerNext)
    /\ WF_vars(Send)
    /\ WF_vars(Receive)
    /\ WF_vars(FinishChunk)
    /\ WF_vars(FailChunk)

Spec == Init /\ [][Next]_vars /\ Fairness

-----------------------------------------------------------------------------
\* The answers on their way to the server, from the oldest on.
OnTheWay ==
    received \o stdout \o buf \o (IF answer = NoAnswer THEN << >> ELSE <<answer>>)

\* Whatever the pipes and the buffer hold, the answers the server has read and
\* will read for a chunk are the answers to the first rows of this chunk, each
\* once and in order; none comes from another query.
AnswersBelongToChunk ==
    busy => \A k \in 1..Len(OnTheWay) : OnTheWay[k] = <<Chunk, k>>

\* Worker and server agree where a chunk begins: when the worker waits for a
\* header, what comes next is a header and nothing is left in its buffer; when
\* it waits for a row, a row of the chunk comes next.  And a worker that goes
\* back to the pool has nothing of the query left, in the pipes or in its
\* buffer; it may only have to read the header of a chunk without rows, which
\* the server does not wait for.
InStep ==
    /\ pc = "header" => buf = << >> /\ (stdin # << >> => Head(stdin).header)
    /\ (pc = "row" /\ stdin # << >>) => ~Head(stdin).header
    /\ (~busy /\ ~closed) =>
          /\ stdout = << >> /\ buf = << >>
          /\ \A k \in 1..Len(stdin) : stdin[k].header /\ stdin[k].rows = 0
          /\ pc \in {"flush", "header"}
          /\ left = 0

\* A query succeeds only if the worker accepts every row, and fails only if it
\* does not: nothing that happened to an earlier query matters.  The worker
\* exits with an error only over a bad row or a cancelled query: a pool that
\* closes an idle worker sees it succeed.
OutcomesFitTheRows ==
    /\ \A c \in 1..Len(outcomes) :
          /\ outcomes[c] = "answered" => \A r \in 1..Len(chunks[c]) : chunks[c][r]
          /\ outcomes[c] = "failed" => \E r \in 1..Len(chunks[c]) : ~chunks[c][r]
    /\ status \in {"1", "signal"} =>
          \/ ~reading
          \/ busy /\ \E r \in 1..Len(chunks[Chunk]) : ~chunks[Chunk][r]
          \/ closed /\ outcomes # << >> /\ outcomes[Len(outcomes)] = "failed"

\* Server and worker never wait for each other: a chunk that has been started
\* is settled.
ChunksAreSettled == busy ~> ~busy

\* A worker whose input is closed goes away.
ClosedWorkerExits == closed ~> (pc = "exited" \/ ~closed)
=============================================================================
