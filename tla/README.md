# Verification of the ClickHouse utility UDFs

This directory holds TLA+ specifications of the executable user-defined
functions of this repository, configurations that check them with TLC, and
proofs that TLAPS checks. Paths such as `main.go:739` refer to the program
that the section is about; `clean` stands for
`cmd/json_clean_posthog_event_properties_udf`, `dedup` for
`cmd/json_key_dedup_udf`, `drop` for `cmd/json_drop_keys_udf`, `remove` for
`cmd/json_remove_empty_strings_udf`, `strip` for
`cmd/json_strip_empty_strings_and_nulls_udf` and `decompress` for
`cmd/decompress_udf`.

## 1. The system

The repository builds six independent Go programs. ClickHouse starts one of
them for a query (or takes one from a pool), writes rows to its stdin and reads
as many answers from its stdout. The programs share no state and no package:
what they have in common is repeated in each `main.go`.

| Part | State | Operations | Interacts with |
|---|---|---|---|
| Row loop (`main`, `run`) | position in stdin, `bufio.Writer`, exit status | read a row, answer it, reject it, flush at the end | ClickHouse through two pipes; calls `processLine` or `decompress` |
| Chunked pool (`strip` `runChunked`) | rows left of the chunk, `bufio.Writer` | read a header, answer its rows, flush | ClickHouse's `executable_pool`, from one query to the next |
| Event cleaning (`clean` `processLine`) | document, `mutated`, `rawSafe`, free list, maps `info` and `index` | parse, drop, gather features, expand, apply rules, quarantine, deduplicate, write | row loop |
| Deduplication loop (`clean` `deduplicateEntries`, `dedup` `Dedup`) | slice of entries, `info`, two indices | scan, compact in place, recycle | called for every object, innermost first |
| Dotted keys (`expandDottedEntries`, `insertDottedKey`, `appendEntry` in three programs) | tree under construction, index of (parent, key) | append, find or create a parent | before deduplication and key removal |
| Key removal (`drop`) | dictionary of named keys | build from the argument, remove | row loop |
| Removing and stripping (`remove`, `strip`) | a `fastjson` tree, output buffer | rewrite or copy | row loop |
| Decompression (`decompress`) | decoder, output buffer | detect the codec, decompress up to a limit, frame | row loop |
| Number range tests (`shouldStringifyNumber` and variants) | none | compare digits with the 64-bit limits | parsers |
| Value and node pools | free list, `sync.Pool`s | take, reset, give back | all JSON programs but `remove` and `strip` |
| Registration, scripts, workflows | none | configuration, builds, releases | not modelled |

The programs are sequential; concurrency comes from the server at the other end
of the pipes. What is hard about them:

* the loops work **in place**: they overwrite the slice they range over, reuse
  maps and nodes, and hand nodes to a free list while pointers to them remain
  in the slice beyond its new length;
* the cleaning of events is a **sequence of stages** that each see the document
  under other keys (before and after expansion) and that must each report a
  change, since an unchanged row is answered with its own bytes;
* output is **buffered**, so that what the query has received when something
  fails depends on where the buffer was flushed; the programs differ in what
  they do about read errors, write errors and a cut-off last row;
* a **pooled worker** outlives queries: it must take exactly the rows of a chunk
  and flush after the last, or it falls out of step with the server for good.

What makes each part correct:

* row loop: the query receives a prefix of the answers, complete if and only if
  the exit status is 0; it stops at the first bad row; it terminates;
* chunked pool: answers reach the query they belong to, an idle worker is clean,
  server and worker never wait for each other;
* deduplication: the first non-empty value of each key stays, or the last one,
  in the original order; each other value is recycled exactly once;
* dotted keys: expansion neither loses nor moves a value;
* event cleaning: the answer has no dotted, duplicate or null field, keys under
  a rule have the type of the rule, what is rejected is recorded, what is
  drop-listed is gone, everything else stays, and a second pass changes nothing;
* key removal: the argument arrives as the query names it, and exactly the
  values under named paths go;
* removing and stripping: exactly the empty values go, and the answer is JSON;
* strings: what is read is what the row means, what is written reads back, and a
  row is answered with its own bytes only if writing it would give them;
* decompression: whole answers only, a failure exactly when there is a reason;
* range tests: exactly the integers that ClickHouse would truncate are quoted;
* pools: reused values and nodes give the answers that new ones would.

## 2. The modules

| Module | Models | Proofs |
|---|---|---|
| `DedupLoop` | `clean` `deduplicateEntries` (and `dedup` `Dedup`, but for recycling and the flag) | `DedupLoopProofs` |
| `RowLoop` | `main` or `run` of all six programs | `RowLoopProofs` |
| `Deduplication` | what removing duplicate keys promises, in one step: the abstract form of `DedupLoop` | |
| `RowService` | what a query may rely on: the abstract form of `RowLoop` | |
| `ChunkedPool` | `strip` `runChunked` and the server that feeds it | `ChunkedPoolProofs` |
| `JsonTree` | documents, expansion of dotted keys, deduplication as a function | |
| `EventClean` | `clean` `processLine` on documents | |
| `ValueHeap` | the same on the values of the free list; refines `EventClean` | |
| `KeyDedup` | `dedup` `processLine` on documents | |
| `DropKeys` | `drop` `makeKeyDict` and `processLine` on documents | |
| `NodePool` | the last two on pooled nodes | |
| `EmptyValues` | `remove` `processLine`, `strip` `appendCleanJSON` | |
| `KeyList` | what `drop` is given for its argument, the keys as an array literal, and what a query may rely on | |
| `KeysArgument` | `drop` `parseSingleQuotedArray` | `KeysArgumentProofs` |
| `JsonSpelling` | strings and how a row may spell them | |
| `JsonString` | `clean` `parseString`, the writers of strings of `clean` and `strip` | `JsonStringProofs` |
| `NumberRange` | the four variants of `shouldStringifyNumber` | `NumberRangeProofs` |
| `RowBinary` | what `decompress` is given, rows, their frames and how they are sent, and what a query may rely on | |
| `Decompress` | `decompress` | `DecompressProofs` |
| `MCDedupLoop`, `MCRowLoop`, `MCChunkedPool` | instances for TLC | |
| `MCEventClean` | instances of `EventClean` and `ValueHeap` | |
| `MCDocuments` | instances of `KeyDedup`, `DropKeys`, `NodePool` and `EmptyValues` | |
| `MCParsers` | instances of `NumberRange`, `JsonString`, `KeysArgument` and `Decompress` | |
| `SequenceLemmas` | nothing of the code: facts about positions, sequences, `FlattenSeq` and recursion that proofs share | itself |

`JsonTree` is used by the modules about documents. `RowLoop` abstracts from what
a program computes, the others from how rows arrive. `DedupLoop` has the steps of
the code for what `Deduplicated` of `JsonTree` is as a function. The last three
`MC` modules put several modules side by side: each behaviour is one of the
module that the variable `level`, `machine` or `parser` names, and a property is
about the behaviours of its module. `MCParsers` extends `NumberRange`,
`JsonString`, `RowBinary` and `KeyList`, so that TLC evaluates their assumptions, and
instantiates `KeysArgument` and `Decompress`; the variables of the three modules that a
behaviour is not one of keep values for which their properties say nothing. Definitions that begin with a comment
"Fault:" are wrong on purpose: each takes the place of the definition it precedes
to confirm that a property notices.

**DedupLoop.** One action per turn of the loops: `ScanEntry` is a turn of the
loop at `clean` main.go:729, `KeepEntry` and `DropEntry` of the one at 740,
`Truncate` lines 754-758. A value is a pointer, named by the position at which
the call found it, so that overwriting, losing and recycling it twice can be
told apart. `entries` keeps its old length beyond `length`, as the slice's array
does. `info` and `mutated` belong to the processor and survive the call.
Positions are 1-based; 0 stands for Go's zero value of the map.

**Deduplication.** The same in one step, of an object of which one entry of each key
stays and the values of the others are freed. The refinement mapping shows nothing
of the object until the call is done; `RemovesDuplicatesAtOnce` is the specification
under it.

**RowLoop.** Each program is a record saying what it does on a read error, on
write errors, with newlines and with a cut-off last row (`CleanMain` ...
`DecompressRun`), read off the six loops. A row is: is it accepted, how many
pieces does the answer have, is it complete. `Writes` are the calls of
`writer.Write`; `Passed` and `Kept` are what `bufio.Writer` hands on and keeps,
including the write past an empty buffer. `WriteFails` lets stdout take any part
of what it is given and keeps the error, as `bufio.Writer` does. `BrokenPipe` is
SIGPIPE, which ends a Go program that writes to a closed stdout.

**RowService.** The abstract service: answers arrive in portions of any size, in
order; success only when all have arrived, unless an error has been let pass
(`lenient`). That one of success and failure is reported in the end is a property
of its own, `Settles`. `RowLoop` ends with the refinement mapping: `out` is what has
arrived, the exit status the outcome, and `lenient` a write or read error in a
program that lets this kind of error pass; `strip` and `decompress` let none pass.
`ServesRows` is the specification of the service under this mapping, `Terminates`
its `Settles`.

**ChunkedPool.** The worker is `runChunked`, one action per blocking call or
exit: `ReadHeader` (Fscanln), `HeaderEOF`, `ReadRow`, `RejectRow`, `RowEOF`,
`Write`, and the delivery of a full or flushed buffer unit by unit, since the
pipe may fill up in the middle. The server is external; it is modelled from what
`udf/JSONStripEmptyStringsAndNulls_function.xml` asks for (`executable_pool`,
`send_chunk_header`): it writes the header and the rows and concurrently reads
as many answers, may cancel a query at any point, may close an idle worker, and
starts a new one when it needs one. Read errors and write errors other than a
closed pipe, which end `runChunked` as they end `run`, are not taken here; `RowLoop`
has those of `run`.

**JsonTree.** A key is the sequence of its dot-separated segments, a text is a
model string or the JSON form of a document (`JsonText`). The index that the
code keeps by parent pointer and key is kept by place in the tree and key, which
is the same because entries are only appended while the index lives.

**EventClean.** `GroupFeatures` and `CleanEventProperties` are
`cleanEventProperties`, `CleanObject` with `CleanEntry` is `cleanObject`, the
`Coerce...` operators the two coercions. Each also returns whether `mutated`
would have been set, at the sites that set it. Parsing turns numbers outside
the 64-bit ranges into strings (`BigNumbers`); escapes and whitespace are the
boolean `plain` of a row (`rawSafe`). Documents inside strings are parsed and
cleaned as the code does. Errors that the code returns but that no input causes
(`retainUnprocessedEntries` and its callers) are left out.

**ValueHeap.** The steps of `EventClean` once more, on a heap: a cell is a
`jsonValue`, `NewValue`, `Recycle` and `ResetValue` are `newValue`, `recycle` and
`resetValue`, and each operator does its allocations, releases and assignments
in the order of the code. The slice of a cell is part of the heap, and the loops of
`cleanEventProperties`, `cleanObject`, `deduplicateEntries` and `coerceStringArray`
overwrite it there while they range over it (`WriteBack`, `Cut`, `Restring`): a turn
reads what the turns before it have left. Two cells never share a slice, so that
Go's capacities are left out. Cells are drawn from the free list last in, first
out, and what a cell holds when it is drawn is what the code left in it. The
text that is only half JSON (`Fragments`) makes the parser give up a value it
has begun. Two rows are served in sequence, so that the second one meets the
cells of the first. A row is cleaned in one step and answered in another:
`Abstract` maps the state between to one in which `EventClean` has still to
process the row.

**KeyDedup, DropKeys.** The recursive functions over documents. `DropKeys`
builds the dictionary key by key, as `makeKeyDict` does, overwriting included.

**NodePool.** `dedup` and `drop` build a tree of nodes from `sync.Pool`s, change
it in place and put it back after the answer. A node keeps its fields in the
pool, and between two rows a garbage collection may take any nodes out of the
pools and change their order. What the tree holds is compared with what
`KeyDedup` and `DropKeys` say of the row. The slices of a node are values here;
that compacting them in place loses nothing is `DedupLoop`.

**EmptyValues.** `RemoveEmptyStrings` rewrites the tree as `remove` does.
`AppendCleanJSON` is `appendCleanJSON` of `strip` on tokens: brace, comma, key and
value are appended to the answer, which is cut back to its earlier length when
nothing of a child stays.

**KeyList.** The argument as ClickHouse writes an array literal: keys in single
quotes, with a backslash before each quote and each backslash. Of what stands
between two keys it is assumed that it is blanks with at most one comma among
them, of what stands around the brackets that it is blanks
(`SeparatorsAssumption`). `Damaged` are the literals with the end cut off or
without one of the quotes around a key. The properties of `KeysArgument` are stated
here, of what the query sees: the keys it names and those the program has read.

**KeysArgument.** `parseSingleQuotedArray`, one action per turn of its two loops,
on whole and on damaged arguments.

**JsonString.** `parseString` with its two passes: a view of the row up to the
first backslash, then a copy through the shared buffer; every escape decides
whether `rawSafe` survives. Then one of the writers writes the string
(`writeJSONString` of `clean`, or `strconv.AppendQuote` as `strip` uses it for
keys), and the result is read again. The strings that `strip` writes are taken from
the same first reading; `fastjson`, with which it reads, also accepts some malformed
ones and keeps the escape of a lone surrogate as it is, which no property depends on.
A symbol is a byte that the code tells
apart; ordinary bytes are symbols of their own, however many there are.
`JsonSpelling` says what JSON makes of a text: a string is a sequence of pieces, and
a piece is a symbol that stands for itself, an escape of one symbol, of four
digits, of a surrogate pair, or malformed (`MeaningAssumption`). The set of pieces
is a constant; pieces whose neighbours would change what they are (`Clash`) do not
come together.

**NumberRange.** A number is read digit by digit; the four tests compare digits,
as the code does, and are compared with the value of the digits. Base and limits
are constants: of the base it is assumed that it is at least 2, of the limits that
they begin with a digit other than 0 and that those of Int64 are equally long.

**RowBinary.** A row is a length-prefixed string of data and one with the name of
the codec. The data are skippable frames and a frame of content, of which the last
units may be missing (`lost`) or the last one be `damaged`. Of the batches it is
assumed that they consist of such rows, and that the data of a row is no longer than the
largest int (`RowsAssumption`). The properties of `Decompress` are stated here, of what
the query sees: the rows, the answers and how the program ends.

**Decompress.** `ReadString` reads varint and bytes with the two errors that
`io.ReadFull` has, `DetectCodec` walks the skippable frames, `Chosen` names the
decoder, `ReadLimited` reads one unit over the limit. The decoders are external:
a sound frame gives its content, a damaged or foreign one an error other than
`io.EOF`. The two output buffers keep what earlier rows left in them.

## 3. The runs

| Run | Checks | Bounds |
|---|---|---|
| `dedup_loop` | `TypeOK`, `UnreadIntact`, `RecycledOnce`, `KeysOnceAndNotLost`, `RemovesDuplicatesAtOnce` (refinement of `Deduplication`) | two keys, up to four entries, every choice of non-empty values, calls in sequence |
| `row_loop` | `TypeOK`, `OutputInOrder`, `SuccessIsComplete`, `ServesRows` (refinement of `RowService`), `Terminates` | six programs, up to three rows of up to three units, buffer of two units, all faults |
| `chunked_pool` | `AnswersBelongToChunk`, `InStep`, `OutcomesFitTheRows`, `ChunksAreSettled`, `ClosedWorkerExits` | two chunks of up to three rows, pipes and buffer of two units |
| `event_clean` | on documents `RawIsFixedPoint`, `AnswerIsClean`, `RuleKeysAreTyped`, `RejectedAreRecordedUnlessDotted`, `EveryFeatureGroupedUnlessDotted`, `DroppedKeysAreGoneUnlessDotted`, `NoPropertyLost`, `SecondPassChangesNothing`; on cells `EveryCellInOnePlace`, `AnswersAsIfFresh` (refinement of `EventClean`) | documents: objects of two or three entries over three themes of keys, and other documents; cells: two rows in sequence of up to two entries, of two properties under rules in the first row only |
| `documents` | `AnswerIsUnique`, `NothingMoves`, `FirstNonEmptyWins`; `OthersStay`; `AnswerIsTheData`, `OnlyEmptyStringsBecomeNull`; `NodeAnswersAsIfFresh`, `NoNodeShared` | objects of up to three entries and nested documents; arguments of up to three keys, objects of up to two entries; documents of depth two and some of three; two rows in sequence |
| `parsers` | `StringifiedIffOutside`; `ReadAsMeant`, `RawIsWhatIsWritten`, `AnswerReadsBack`; `KeysWithoutBackslashesAreAsNamed`; `AnswersAreWhole`, `EndsAsItShould` | base 3, limits of 8-bit integers, up to seven digits; strings of up to three pieces; up to two keys of up to two characters; output of up to two bytes, lengths in base 4 up to 15, up to two rows |
| `event_clean_dropped`, `event_clean_flags`, `event_clean_marker`, `drop_keys_order`, `json_string_keys`, `keys_argument_backslash` | one property each, violated: see section 6 | two entries; one piece; keys of up to two characters |

Why the bounds are enough. Deduplication: two keys and four entries give every
pattern of repetition in which a kept entry moves down past a dropped one, with
further entries behind it; the proofs cover all other sizes. Row loop: the
buffer is smaller than an answer and answers are smaller and larger than it, so
that flushes fall before, inside and after answers; three rows allow a bad row
at the beginning, in the middle and at the end. Pool: three answers overflow a
buffer of two inside a chunk, a pipe of two fills up while the other side is
busy, and after the first chunk there is a second one that a worker out of step,
or its successor, would spoil. Documents: expansion needs at most two entries
that share a parent and one that interferes; rules are applied per entry, so two
entries suffice for a repeated or rejected property next to another. Reuse: what
a row leaves behind is met by the row after it, and a third one meets nothing of
another kind. Range tests: the limits differ in their last digit, in length and
in both, numbers are shorter, as long and longer than each, by two digits for
leading zeros, and the smallest base with a digit between two others shows every
order of digits. Strings: one piece to be read before an escape, the escape, and one
after it; the shared buffer matters from the first escape on. Arguments: a
character that closes, escapes or separates, before and after another one.
Decompression: contents below, at and above the limit, after a row that has filled
the buffer; lengths of one and of two bytes.

Deadlock is checked for `DedupLoop` and `ChunkedPool`. The specifications of the
other modules stop, as the programs do at the end of their input and the parsers
at the end of their text.

**Fairness.** `RowLoop`: weak fairness on the steps other than faults,
which assumes that stdin delivers and stdout accepts, unless they fail; a server that does neither
blocks the program, and nothing is claimed then. `ChunkedPool`: weak fairness on
the worker, and on the server's writing, reading and settling of a chunk it has
begun, which ClickHouse's reader and writer threads provide; none on new
queries, cancellation or closing of workers.

**What the runs show.** Apart from the findings, everything listed holds. Two
exceptions are part of `SuccessIsComplete` and, as `lenient`, of `RowService`,
because the code is written that way and nothing in the repository says otherwise
of them: the four programs other than `strip` and `decompress` ignore write errors
and may report success after a short write, and `dedup`, `drop` and `remove`
return on a read error, after a flush and with status 0, as if the input had
ended. No property can fail over these two statuses themselves. `SuccessIsComplete`
gives up no more than that: after a read error the rows that were read are still
accepted and answered in full, and after a write error all rows are still read and
accepted.
`FirstNonEmptyWins` is about documents in which no path leads through another property. When one does, as in
`{"a":{"b":{"c":1}},"a.b.d":2}`, the index does not know the object `b` that was
there already; a second `b` is created and deduplication keeps the first. That
is what "keeps the first non-empty value" says, and `NothingMoves` covers it.

## 4. The proofs

TLAPS checks the theorems below for every value of the constants that the named
assumptions allow. Each rests on an inductive invariant, which holds initially, is
preserved by every action, one lemma per action, and implies what is stated.
"No bound" means that a bound which TLC needs is an arbitrary number here.

| Module | Theorems | Assumed of the constants |
|---|---|---|
| `DedupLoopProofs` | `TypeCorrect`, `WritingNeverOvertakesReading`, `DedupIsSurvivors`, `Refinement`, `FreeListDiscipline`, `NoKeyLostOrDuplicated`, `NothingKeptBetweenCalls`, `DropsAreMarked` | any set of keys, any maximal length |
| `RowLoopProofs` | `TypeCorrect`, `AnswersInOrder`, `SuccessMeansAll`, `Refinement` | programs among the six; any number of rows and parts, any buffer of one unit or more, any set of faults |
| `ChunkedPoolProofs` | `AnswersToTheirQuery`, `WorkerInStep`, `OutcomesAreDue` | any number of chunks and rows, any pipe and buffer of one unit or more |
| `NumberRangeProofs` | `TypeCorrect`, `StringifiedExactlyOutside` | any base from 2 on, limits as above, numbers of any length |
| `JsonStringProofs` | `RawIsOnlyAShortcut`, `WrittenIsReadBack`, `StringsAreReadAsMeant` | any set of symbols with those that the code names, any set of pieces each of which is what JSON has, or malformed |
| `KeysArgumentProofs` | `KeysArriveAsNamed` | any set of characters, keys of any length and number, separators as above |
| `DecompressProofs` | `OnlyWholeAnswers`, `OutcomeIsDue` | batches of rows as above; any number of rows, skippable frames and units, any limit of the output, lengths in any base from 2 on |

**DedupLoopProofs.** Five theorems state the properties that `dedup_loop` checks.
`DedupIsSurvivors` says in the terms of the loops what the refinement says in those of
its abstract form; `NothingKeptBetweenCalls` and `DropsAreMarked`, which no run checks,
are the only ones that are inductive by themselves. The inductive invariant `IInv`
adds what the two loops have achieved so far:

* while scanning before position n, the map covers the positions before n
  (`InfoCovers`): `last` is the last of them with the key, `firstNonEmpty` the
  first one with a non-empty value, and it exists exactly if `hasNonEmpty`;
* while compacting before position n, the map covers the whole object, the
  entries from n on are untouched (`Unread`), exactly the survivors before n
  have been written back in increasing order (`WrittenBack`), and exactly the
  others have been recycled once (`RecycledLosers`).

The heart of the argument is `KeepIsSurvives`: with a complete map, the test of
the second loop on an untouched entry decides `Survives`, a definition that
looks only at the object as it was found. `writeIdx < n` follows from the strict
order of the written positions, and with it that writing does not overtake
reading. `NoKeyLostOrDuplicated` needs in addition that every key has a survivor
(`MapNamesSurvivors`, at the end of the scan) and only one (`SurvivorsDiffer`).
`Refinement` maps the step that ends a call to the one step of `Deduplication`
(`EndIsDeduplicated`) and every other one to a return or a stutter.

**RowLoopProofs.** Neither order nor completeness of `out` is inductive: what
arrives next lies in the buffer, and what comes after that in calls that are
still to be made. As long as nothing has failed on stdout (`StreamGrows`), what
has arrived and what is buffered are together a gapless prefix of the answers
(`Gapless`) that ends where the loop stands: with the answer to the last row before
the next one is read, and just before the rest of the current answer while pieces of
it are pending (`RestPending`), whichever way it is cut into calls. Once a write has
failed nothing more is handed on, and `out` remains a beginning of such a stream;
that a beginning of a gapless sequence is gapless serves buffer and short writes
alike. `RowsRead` says which rows have been found good, which is what success
claims of them. `Refinement` maps every action to a delivery, success, failure or a
stutter of `RowService`, by `AnswersInOrder` and `SuccessMeansAll`; liveness is no
part of it.

**ChunkedPoolProofs.** That an answer belongs to the chunk in progress follows
only from where everything else is. `Working` places the answers of the chunk
consecutively in `received`, `stdout`, `buf` and the one being written
(`AnswersInPlace`), and the messages in `stdin` and with the server; either the
worker has read the header and as many rows as there are answers (`Underway`), or
it has not, and headers of earlier chunks without rows may still be before it
(`Announced`), since the server settles a chunk without rows without waiting for
the worker; an invariant that leaves them out is not inductive.
`Idle` says that a worker between two queries has nothing but such headers,
`Cancelled` (`Framed`) that what a worker finds whose query was cancelled is still
framed as it was sent, so that it exits with an error only inside a chunk.

**NumberRangeProofs.** The value of a sequence of digits is defined from left to
right. The lemmas show by induction on positions that each beginning of a number has
a natural number for its value, that leading zeros count for nothing, that
a longer number without leading zeros is greater, and that of two equally long
ones the first digit that differs decides, whatever comes after it (induction is on the least element of a
set of positions, `FirstPosition` and `EveryPosition` of `SequenceLemmas`, since
the library's induction rules need an operator for a parameter). The four tests
are each shown to say this.

**JsonStringProofs.** The invariant relates the position in the text to what has
been read. `Body(s)` is the text that `writeJSONString` gives s, without the
quotes. While viewing, what has been passed is its own `Body` (`ViewIsWritten`);
while copying with `rawSafe`, the `Body` of the buffer is what has been passed
(`CopyIsWritten`). `RawIsOnlyAShortcut` follows at the closing quote. For the
second reading, `Reread` says that the parser stands after the text of the first k
runes and that these are what it has viewed or copied: next comes the spelling of
rune k + 1, or the closing quote (`Meets`), so that no step can fail. The
hypothesis of `WrittenIsReadBack`, that `writeJSONString` wrote or that the string is
`SpelledAlike`, without the characters that `strconv.AppendQuote` escapes as only Go
does, leaves out just the strings of the finding `json_string_keys`, for which the
claim is false.

`StringsAreReadAsMeant` is about the first reading, whose text is made of
pieces and not written by the program, and has an invariant of its own (`MInv`): the
parser stands after the text of
the first k pieces, whose runes are what it has viewed or copied, and none of
these is malformed (`Read`). The one exception is in `CopyIsMeant`: a lone
backslash before the closing quote is read as an escaped quote, after
which nothing is left of the text and the next step rejects it. `AtBackslash` and
`RuneOfPiece` find the piece that a backslash begins, `StandsAlone` that a high
surrogate alone has no low one after it. `FailPieces` shows that a well-formed
string is never rejected, `EndPiecesStep` that the closing quote is reached only
when all pieces have been read, and never in a text that ends too early.

**KeysArgumentProofs.** The two claims of `KeysWithoutBackslashesAreAsNamed` need
two different invariants. For a whole literal (`ReadsLiteral`) it says where the
program stands: before a key it has read the first k keys and the literal goes on
after them, but for a comma and blanks it may have passed (`AtElement`); in a key,
what it has collected is a beginning of the key and what comes next spells the rest
of it (`InString`, `KeyLeft`). No step fails there: after a key comes the next one,
or the bracket that has been stripped (`ElementBegins`, `StringContinues`,
`ElementEnds`). Of a damaged literal nothing of the kind can be said, since a
missing quote turns keys into separators and separators into keys. What remains is
a parity: quotes that are not escaped switch between inside and outside of a key,
and what is left ends inside (`Open`, `ReadsDamage`). A whole list ends outside, and
brackets occur only inside or at its ends. A literal without one of its quotes
therefore ends inside (`OpenGap`), and one that is cut short is refused at once or
was cut inside a key, after a character that passes for the last bracket (`OpenCut`,
`DamagedIsOpen`). No turn of the loops changes that, so that nothing is left only
inside a key, and `done` is never reached. Keys with backslashes are left out by the
property: for them the claim is false (`keys_argument_backslash`).

**DecompressProofs.** What has been written says little about what comes next: the
invariant has to say what is left of `input`. `Waits` does: the encoded rows that
follow the first n (`Remains`, what has to be appended to the encoding of these n),
and after them nothing, or the `TornEnd` of a torn input. `Progress` adds where the
program is with row n + 1: its codec comes next, or the string that was cut; its data
and codec have been read; or a buffer begins with its content (`Viewed`). The proof
needs two groups of lemmas, each of them about a recursive function:

* `ReadString` undoes `PutString` (`StringReadsBack`), refuses every proper
  beginning of what `PutString` gives except the empty one (`CutStringIsRefused`), and
  refuses a length over the limit (`LengthOverLimit`). `LengthReadsBack` is by
  induction on the length: its units are those of the quotient by the base, after
  one for the remainder. It follows that the input ends (`io.EOF`) only between two rows
  (`RowReadsBack`), and that a row that is cut fails at the latest with its codec
  (`CutRowIsRefused`);
* `AfterSkippable` passes the skippable frames that have arrived, one by one
  (`SkippablePassed`), and then there are three cases (`AfterSkippableOfRow`): it stands
  at the frame, at the end of the data, or at a skippable frame that is cut, which it
  reports or leaves unless the size is there. In the first one the decoder ends with
  `io.EOF` exactly if the frame is whole (`FrameOfUnits`). With the choice of the codec
  (`CodecIsRight`) and the limit (`WithinLimit`) this gives what becomes of a
  row (`StreamOutcome`, `BlockOutcome`): it is answered only if it is `Sound`, or
  has no frame at all and its codec knows skippable frames (`NoFrame`, where the
  decoder may answer with nothing), and a sound row never fails.

TLAPS knows a recursive function only as some function with an equation, if there is
one. `RecursionToSmaller` of `SequenceLemmas` provides it: a function that is given at
some arguments and elsewhere computed from its value at a smaller argument exists.
`PutUvarintUnits`, `UvarintValues` and `AfterSkippableSteps` are instances. That a
buffer holds only the content of the current row is `FrontOfBuffer`: whatever an
earlier row left lies behind it.

Only model-checked:

* liveness (`Terminates`, `ChunksAreSettled`, `ClosedWorkerExits`), since fairness
  and ENABLED are beyond the prover;
* everything about documents (`EventClean`, `ValueHeap` and its refinement,
  `KeyDedup`, `DropKeys`, `NodePool`, `EmptyValues`), whose operators are recursive,
  which the prover does not support.

## 5. Not modelled

Not modelled:

* the grammar of JSON outside strings (`parseValue`, `parseObject`, `parseArray`,
  `parseNumber` and the scanning of whitespace in `clean`): a row is a document or
  is not JSON, and says whether it has whitespace (`plain`). What a text that
  breaks off leaves behind in memory is in `ValueHeap`;
* the libraries: `fastjson`, and the decoders of gzip, zstd, lz4 and LZ4 blocks, of
  which `Decompress` assumes that they report damage with an error other than
  `io.EOF`. Streams without an end that a decoder takes for complete are not
  among the inputs;
* the allocation of a RowBinary string of up to the largest int, whose outcome is
  the allocator's, and the lifetime of strings that are views of the row, which
  the garbage collector guarantees;
* CPU profiling and debug logging, which keep no state of the programs;
  registration files, scripts and workflows.

## 6. Where documentation and code disagree

* `event_clean_dropped`: `README.md` line 58 says that `$set`, `$set_once` and
  `$unset` are dropped. The drop list is consulted before dotted keys are
  expanded (`clean` main.go:202), so that `{"$set.x":1}` is answered with
  `{"$set":{"x":1}}`. Without a dotted key below a drop-listed one,
  `DroppedKeysAreGoneUnlessDotted` holds.
* `event_clean_flags`: line 58 says that every `$feature/<name>` property is
  grouped under `$feature_flags`. With `$feature_flags.a` in the same row there
  are two such objects after expansion, and deduplication drops the gathered one
  (`clean` main.go:217).
* `event_clean_marker`: line 58 says that rejected keys are recorded in
  `$properties_unparsable`. A property `$properties_unparsable.x` is expanded to
  an object under that key in front of the record, which deduplication drops
  (`clean` main.go:639); the rejected value is nowhere in the answer.
* `drop_keys_order`: line 49 says that the named keys are removed, and a test
  (`drop` main_test.go:180) asks for it when a parent is named after a path below
  it. Named in the other order, `['a', 'a.b']`, the dictionary forgets `a`
  (`drop` main.go:491).
* `json_string_keys`: line 31 describes `strip` without a change to keys. Keys are
  written with `strconv.AppendQuote` (`strip` main.go:38), whose escapes are those of
  Go: a key with the control character U+0007 is written `"\a"`, with U+007F
  `"\x7f"`, neither of which JSON has. The run fails to read the answer back.
* `keys_argument_backslash`: a comment (`drop` main.go:436) says that a Python-style
  array is parsed. Such an array, and ClickHouse's, has two backslashes for one;
  the parser only knows the escaped quote (`drop` main.go:460), so that the
  argument `['a\\']` ends the program with "unterminated string". Without
  backslashes, `KeysWithoutBackslashesAreAsNamed` holds.
