------------------------------ MODULE RowLoop ------------------------------
(***************************************************************************)
(* The main loop of the programs ClickHouse starts for one query: read a   *)
(* row from stdin, compute its answer, write it to stdout through a        *)
(* bufio.Writer, until stdin ends.  The six programs share the shape and   *)
(* differ in what they do with errors and with a last row that is cut off; *)
(* each is a record of `Mains`.                                            *)
(*                                                                         *)
(* What a program computes is the business of other modules.  Here a row   *)
(* is whether the program accepts it, how many pieces of output its answer *)
(* has, and whether the row is complete in the input; only the last one    *)
(* may be incomplete.  A unit of output is <<row, part>>.                  *)
(*                                                                         *)
(* Stdin may fail at any read.  A write to stdout may be cut short by an   *)
(* error, or meet a closed pipe, which kills a Go program (SIGPIPE).       *)
(***************************************************************************)
EXTENDS Integers, Sequences

CONSTANTS
    Mains,    \* the programs, see the records below
    MaxRows,  \* the longest input
    MaxParts, \* the longest answer, in units of output
    BufSize,  \* the size of the bufio.Writer, in units of output
    Faults    \* the faults that may happen, of {"read", "write", "pipe"}

-----------------------------------------------------------------------------
(* onReadError: "fail" exits with status 1 and drops what is buffered;     *)
(* "return" runs the deferred Flush and exits with status 0.               *)
(* checksWrites: whether errors of Write and Flush end the program.        *)
(* newline: "echo" ends an answer with a newline if the row had one,       *)
(* "always" ends every answer with one, "never" none.                      *)
(* cutRow: a row the input ends in is still answered or is an error.       *)
CleanMain == [name |-> "json_clean_posthog_event_properties_udf",
    onReadError |-> "fail", checksWrites |-> FALSE,
    newline |-> "echo", cutRow |-> "answer"]
DedupMain == [name |-> "json_key_dedup_udf",
    onReadError |-> "return", checksWrites |-> FALSE,
    newline |-> "echo", cutRow |-> "answer"]
DropKeysMain == [name |-> "json_drop_keys_udf",
    onReadError |-> "return", checksWrites |-> FALSE,
    newline |-> "echo", cutRow |-> "answer"]
RemoveEmptyMain == [name |-> "json_remove_empty_strings_udf",
    onReadError |-> "return", checksWrites |-> FALSE,
    newline |-> "echo", cutRow |-> "answer"]
StripRun == [name |-> "json_strip_empty_strings_and_nulls_udf",
    onReadError |-> "fail", checksWrites |-> TRUE,
    newline |-> "always", cutRow |-> "answer"]
DecompressRun == [name |-> "decompress_udf",
    onReadError |-> "fail", checksWrites |-> TRUE,
    newline |-> "never", cutRow |-> "fail"]

AllMains == {CleanMain, DedupMain, DropKeysMain, RemoveEmptyMain, StripRun,
             DecompressRun}

ASSUME ConstantsAssumption ==
    /\ Mains \subseteq AllMains
    /\ MaxRows \in Nat
    /\ MaxParts \in Nat \ {0}
    /\ BufSize \in Nat \ {0}
    /\ Faults \subseteq {"read", "write", "pipe"}

VARIABLES
    main,      \* which program runs
    input,     \* the rows on stdin
    row,       \* how many rows have been read
    pc,        \* "read", "compute", "write", "flush" or "exited"
    last,      \* ReadBytes returned io.EOF together with the row
    pending,   \* the Write calls still to be made for the row
    buf,       \* what the bufio.Writer holds
    writeErr,  \* the sticky error of the bufio.Writer
    out,       \* what has reached stdout
    status,    \* the exit status, "none" while the program runs
    readErr    \* a read has failed (history)

vars == <<main, input, row, pc, last, pending, buf, writeErr, out, status, readErr>>

-----------------------------------------------------------------------------
Row == [ok : BOOLEAN, parts : 1..MaxParts, whole : BOOLEAN]

\* Only the row the input ends in can be incomplete.
Inputs == {in \in UNION {[1..n -> Row] : n \in 0..MaxRows} :
              \A r \in 1..(Len(in) - 1) : in[r].whole}

EndsInNewline(m, in, r) ==
    m.newline = "always" \/ (m.newline = "echo" /\ in[r].whole)

\* The units of the whole answer to row r, the newline counted.
AnswerSize(m, in, r) == in[r].parts + IF EndsInNewline(m, in, r) THEN 1 ELSE 0

Units(r, from, to) == [k \in 1..(to - from + 1) |-> <<r, from + k - 1>>]

\* Fault: the newline, or the length, is written on the wrong side.
WritesSwapped(m, in, r) ==
    LET size == AnswerSize(m, in, r)
    IN  IF size = 1 THEN <<Units(r, 1, 1)>>
                    ELSE <<Units(r, size, size), Units(r, 1, size - 1)>>

\* The Write calls that hand the answer to the bufio.Writer: answer and
\* newline, answer with its newline, or length and value.
Writes(m, in, r) ==
    LET size == AnswerSize(m, in, r)
        body == in[r].parts
    IN  CASE m.newline = "echo" /\ in[r].whole -> <<Units(r, 1, body), Units(r, size, size)>>
          [] m.newline = "never" /\ body > 1   -> <<Units(r, 1, 1), Units(r, 2, body)>>
          [] OTHER                             -> <<Units(r, 1, size)>>

\* bufio.Writer.Write(p) with b buffered: what it hands to stdout, and what it
\* keeps.  It fills and flushes the buffer until the rest fits; when the buffer
\* is empty, a p that does not fit is written past it.
Passed(b, p) ==
    IF Len(b \o p) <= BufSize THEN << >>
    ELSE IF b = << >> \/ Len(b \o p) > 2 * BufSize THEN b \o p
    ELSE SubSeq(b \o p, 1, BufSize)
Kept(b, p) ==
    IF Len(b \o p) <= BufSize THEN b \o p
    ELSE IF b = << >> \/ Len(b \o p) > 2 * BufSize THEN << >>
    ELSE SubSeq(b \o p, BufSize + 1, Len(b \o p))

Init ==
    /\ main \in Mains
    /\ input \in Inputs
    /\ row = 0
    /\ pc = "read"
    /\ last = FALSE
    /\ pending = << >>
    /\ buf = << >>
    /\ writeErr = FALSE
    /\ out = << >>
    /\ status = "none"
    /\ readErr = FALSE

-----------------------------------------------------------------------------
Exit(code) == pc' = "exited" /\ status' = code

\* Fault: the program exits where it should return: its Flush does not run.
ReadFailsUnflushed ==
    /\ "read" \in Faults
    /\ pc = "read"
    /\ readErr' = TRUE
    /\ Exit(IF main.onReadError = "fail" THEN "1" ELSE "0")
    /\ UNCHANGED <<main, input, row, last, pending, buf, writeErr, out>>

\* stdin fails: os.Exit(1) or an error for main, or a plain return.
ReadFails ==
    /\ "read" \in Faults
    /\ pc = "read"
    /\ readErr' = TRUE
    /\ IF main.onReadError = "fail"
          THEN Exit("1")
          ELSE pc' = "flush" /\ UNCHANGED status
    /\ UNCHANGED <<main, input, row, last, pending, buf, writeErr, out>>

\* Fault: the read that reports the end counts as a row.
AtEOFCountingRow ==
    /\ pc = "read"
    /\ row = Len(input)
    /\ row' = row + 1
    /\ pc' = "flush"
    /\ UNCHANGED <<main, input, last, pending, buf, writeErr, out, status, readErr>>

\* Fault: an empty read at the end of the input is tried again.
AtEOFReadAgain ==
    /\ pc = "read"
    /\ row = Len(input)
    /\ UNCHANGED vars

\* stdin has ended between two rows.
AtEOF ==
    /\ pc = "read"
    /\ row = Len(input)
    /\ pc' = "flush"
    /\ UNCHANGED <<main, input, row, last, pending, buf, writeErr, out, status,
                   readErr>>

ReadRow ==
    /\ pc = "read"
    /\ row < Len(input)
    /\ row' = row + 1
    /\ IF input[row + 1].whole \/ main.cutRow = "answer"
          THEN pc' = "compute" /\ last' = ~input[row + 1].whole /\ UNCHANGED status
          ELSE Exit("1") /\ UNCHANGED last
    /\ UNCHANGED <<main, input, pending, buf, writeErr, out, readErr>>

\* processLine, or decompress, rejects the row: nothing is flushed.
RejectRow ==
    /\ pc = "compute"
    /\ ~input[row].ok
    /\ Exit("1")
    /\ UNCHANGED <<main, input, row, last, pending, buf, writeErr, out, readErr>>

AnswerRow ==
    /\ pc = "compute"
    /\ input[row].ok
    /\ pending' = Writes(main, input, row)
    /\ pc' = "write"
    /\ UNCHANGED <<main, input, row, last, buf, writeErr, out, status, readErr>>

\* Where the loop goes when the Write that has been made was the last one.
Continue ==
    pc' = IF Len(pending) > 1 THEN "write" ELSE IF last THEN "flush" ELSE "read"

\* One Write call; stdout takes all it is given.
WriteOK ==
    /\ pc = "write"
    /\ ~writeErr
    /\ out' = out \o Passed(buf, Head(pending))
    /\ buf' = Kept(buf, Head(pending))
    /\ pending' = Tail(pending)
    /\ Continue
    /\ UNCHANGED <<main, input, row, last, writeErr, status, readErr>>

\* The part of `given` that stdout takes before it fails; the writer keeps the
\* error and never writes again.
CutShort(given) ==
    /\ "write" \in Faults
    /\ given # << >>
    /\ \E n \in 0..(Len(given) - 1) : out' = out \o SubSeq(given, 1, n)
    /\ writeErr' = TRUE

\* Fault: no program looks at the error of Write.
WriteFailsUnchecked ==
    /\ pc = "write"
    /\ ~writeErr
    /\ CutShort(Passed(buf, Head(pending)))
    /\ buf' = << >>
    /\ pending' = Tail(pending)
    /\ Continue
    /\ UNCHANGED <<main, input, row, last, status, readErr>>

WriteFails ==
    /\ pc = "write"
    /\ ~writeErr
    /\ CutShort(Passed(buf, Head(pending)))
    /\ buf' = << >>
    /\ pending' = Tail(pending)
    /\ IF main.checksWrites THEN Exit("1") ELSE Continue /\ UNCHANGED status
    /\ UNCHANGED <<main, input, row, last, readErr>>

\* Write on a writer that has failed before does nothing.
WriteAfterError ==
    /\ pc = "write"
    /\ writeErr
    /\ pending' = Tail(pending)
    /\ Continue
    /\ UNCHANGED <<main, input, row, last, buf, writeErr, out, status, readErr>>

FlushOK ==
    /\ pc = "flush"
    /\ ~writeErr
    /\ out' = out \o buf
    /\ buf' = << >>
    /\ Exit("0")
    /\ UNCHANGED <<main, input, row, last, pending, writeErr, readErr>>

FlushFails ==
    /\ pc = "flush"
    /\ ~writeErr
    /\ CutShort(buf)
    /\ buf' = << >>
    /\ Exit(IF main.checksWrites THEN "1" ELSE "0")
    /\ UNCHANGED <<main, input, row, last, pending, readErr>>

\* The deferred Flush of a writer that has failed before does nothing.
FlushAfterError ==
    /\ pc = "flush"
    /\ writeErr
    /\ Exit("0")
    /\ UNCHANGED <<main, input, row, last, pending, buf, writeErr, out, readErr>>

\* The query closes its end of stdout: the write that is under way, or the
\* next one, kills the program.
BrokenPipe ==
    /\ "pipe" \in Faults
    /\ ~writeErr
    /\ pc \in {"write", "flush"}
    /\ LET given == IF pc = "write" THEN Passed(buf, Head(pending)) ELSE buf
       IN  /\ given # << >>
           /\ \E n \in 0..(Len(given) - 1) : out' = out \o SubSeq(given, 1, n)
    /\ Exit("signal")
    /\ UNCHANGED <<main, input, row, last, pending, buf, writeErr, readErr>>

Next ==
    \/ ReadFails \/ AtEOF \/ ReadRow
    \/ RejectRow \/ AnswerRow
    \/ WriteOK \/ WriteFails \/ WriteAfterError
    \/ FlushOK \/ FlushFails \/ FlushAfterError
    \/ BrokenPipe

\* The program runs on: stdin delivers and stdout accepts, unless they fail,
\* which they need not.
Progress ==
    \/ AtEOF \/ ReadRow \/ RejectRow \/ AnswerRow
    \/ WriteOK \/ WriteAfterError
    \/ FlushOK \/ FlushAfterError

Spec == Init /\ [][Next]_vars /\ WF_vars(Progress)

-----------------------------------------------------------------------------
TypeOK ==
    /\ main \in Mains
    /\ input \in Inputs
    /\ row \in 0..Len(input)
    /\ pc \in {"read", "compute", "write", "flush", "exited"}
    /\ last \in BOOLEAN
    /\ pending \in Seq(Seq(Nat \X Nat))
    /\ buf \in Seq(Nat \X Nat)
    /\ writeErr \in BOOLEAN
    /\ out \in Seq(Nat \X Nat)
    /\ status \in {"none", "0", "1", "signal"}
    /\ readErr \in BOOLEAN

\* The row is one the program answers.
Accepts(r) == input[r].ok /\ (input[r].whole \/ main.cutRow = "answer")

\* The unit of the answers that comes after unit u.
Following(u) ==
    IF u[2] < AnswerSize(main, input, u[1]) THEN <<u[1], u[2] + 1>>
                                            ELSE <<u[1] + 1, 1>>

\* s begins at the first unit of the first answer and leaves none out.
InOrder(s) ==
    /\ s # << >> => s[1] = <<1, 1>>
    /\ \A k \in 1..(Len(s) - 1) : s[k + 1] = Following(s[k])

\* s ends with the last unit of the answer to row r.
EndsWithAnswer(s, r) ==
    IF r = 0 THEN s = << >>
             ELSE s # << >> /\ s[Len(s)] = <<r, AnswerSize(main, input, r)>>

\* Whatever fails and wherever the program stops, the query has received a
\* prefix of the answers: no gap, no repetition, no row out of turn, although
\* they pass through a buffer that is flushed in the middle of answers; and the
\* answers stop before the first row that is rejected or, in decompress, cut off.
OutputInOrder ==
    /\ InOrder(out)
    /\ \A k \in 1..Len(out) :
          /\ out[k][1] \in 1..Len(input)
          /\ \A r \in 1..out[k][1] : Accepts(r)

\* Exit status 0 means that every row was accepted ("the JSON UDFs ... exit
\* non-zero on malformed JSON") and that the whole answer to every row has been
\* written.  An error that a program lets pass excuses only what it must.  After
\* a read error three programs may not have read all rows, but still have
\* answered in full, through a buffer that only a deferred Flush empties, the
\* ones they have read.  After a write error the four JSON programs other than
\* strip may have lost answers, but still have read and accepted every row.
SuccessIsComplete ==
    status = "0" =>
        /\ \A r \in 1..row : Accepts(r)
        /\ row = Len(input) \/ (readErr /\ main.onReadError = "return")
        /\ EndsWithAnswer(out, row) \/ (writeErr /\ ~main.checksWrites)

-----------------------------------------------------------------------------
(* What the query sees of it, see RowService.                              *)

\* The rows a program refuses have no answer.
AnswerSizes ==
    [r \in 1..Len(input) |-> IF Accepts(r) THEN AnswerSize(main, input, r) ELSE 0]

\* Four programs let errors of stdout pass, three of these errors of stdin.
LetsPass ==
    \/ writeErr /\ ~main.checksWrites
    \/ readErr /\ main.onReadError = "return"

Outcome ==
    CASE status = "none" -> "running"
      [] status = "0" -> "success"
      [] OTHER -> "failure"

Service == INSTANCE RowService
              WITH sizes <- AnswerSizes, received <- out, lenient <- LetsPass, outcome <- Outcome

\* The query gets the answers in order and is told of success only when it has
\* them all, unless the program lets errors pass and one has happened.
ServesRows == Service!Spec

\* The program does not hang: as long as stdin delivers and stdout accepts, the
\* query is told of success or failure in the end.
Terminates == Service!Settles
=============================================================================
