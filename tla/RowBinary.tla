----------------------------- MODULE RowBinary -----------------------------
(***************************************************************************)
(* What decompress_udf is given, and what a query may rely on: rows framed *)
(* as RowBinary strings, each of compressed data and the name of a codec.  *)
(*                                                                         *)
(* The input is a sequence of units, each standing for one byte or for a   *)
(* few that the code reads together; a length is in base LengthBase, with  *)
(* a flag on all units but the last.                                       *)
(***************************************************************************)
EXTENDS Integers, SequencesExt

CONSTANTS
    Batches,    \* sequences of rows that may arrive
    CutBatches, \* those that may also arrive cut short
    MaxOutput,  \* the limit of the answer's size
    MaxInt,     \* the platform's largest int
    LengthBase

ASSUME LimitsOfSizes == MaxOutput \in Nat /\ MaxInt \in Nat \ {0} /\ LengthBase \in Nat \ {0, 1}

VARIABLES
    rows,   \* the rows the query sends
    torn,   \* whether stdin ends within the row after them
    stage,  \* "data", "codec", "decompress", "write", "done" or "failed"
    out     \* what has been written

-----------------------------------------------------------------------------
(* Units and what they make up.                                            *)
Unit(kind) == [kind |-> kind]
Byte(c) == [kind |-> "byte", byte |-> c]  \* a byte of content

\* What data may begin with, and what the query may name as its codec.
Magics == {"gzip", "zstd", "lz4", "block", "plain"}
CodecNames == {"gzip", "GZIP", "Zstd", "ZSTD", "lz4", "LZ4", "LZ4Block", "SNAPPY"}

Bytes == [kind : {"byte"}, byte : STRING]
LengthUnits == [kind : {"length"}, digit : 0..(LengthBase - 1), more : BOOLEAN]
Units == Bytes \union LengthUnits \union [kind : {"size"}, size : Nat]
           \union [kind : {"name"}, name : CodecNames]
           \union [kind : Magics \union {"skippable", "pad", "end", "bad"}]

PutUvarint[n \in Nat] ==
    IF n < LengthBase THEN <<[kind |-> "length", digit |-> n, more |-> FALSE]>>
    ELSE <<[kind |-> "length", digit |-> n % LengthBase, more |-> TRUE]>>
            \o PutUvarint[n \div LengthBase]

\* The last unit of a length comes first in value.
Uvarint(units) ==
    LET last[k \in 0..Len(units)] ==
            IF k = 0 THEN 0 ELSE last[k - 1] * LengthBase + units[Len(units) - k + 1].digit
    IN  last[Len(units)]

PutString(s) == PutUvarint[Len(s)] \o s

-----------------------------------------------------------------------------
(* Rows.                                                                   *)

\* A skippable frame: magic number, size, contents.
SkippableFrame(size) ==
    <<Unit("skippable"), [kind |-> "size", size |-> size]>> \o [i \in 1..size |-> Unit("pad")]

Skippable(sizes) == FlattenSeq([i \in DOMAIN sizes |-> SkippableFrame(sizes[i])])

\* Data compressed with a codec; a frame begins with the codec's magic number.
Frame(magic, content) ==
    <<Unit(magic)>> \o content \o <<Unit("end")>>

\* A row: skippable frames and a frame of content, perhaps without its last
\* units or with a bad one, and the codec that the query names.
Rows == [skips : Seq(Nat), magic : Magics, content : Seq(Bytes), damaged : BOOLEAN, lost : Nat,
         codec : CodecNames \union {""}]

WholeData(row) == Skippable(row.skips) \o Frame(row.magic, row.content)
RowData(row) ==
    LET whole == WholeData(row)
    IN  IF row.damaged THEN [whole EXCEPT ![Len(whole)] = Unit("bad")]
        ELSE SubSeq(whole, 1, Len(whole) - row.lost)

Codec(row) == IF row.codec = "" THEN << >> ELSE <<[kind |-> "name", name |-> row.codec]>>

Encoded(row) == PutString(RowData(row)) \o PutString(Codec(row))
EncodedRows(rs) == FlattenSeq([i \in DOMAIN rs |-> Encoded(rs[i])])

\* A row whose data the server can send as a string.
Fits(row) == row.lost <= Len(WholeData(row)) /\ Len(RowData(row)) <= MaxInt

ASSUME RowsAssumption ==
    \A rs \in Batches \union CutBatches :
        rs \in Seq(Rows) /\ \A i \in DOMAIN rs : Fits(rs[i])

-----------------------------------------------------------------------------
(* What a query may rely on.                                               *)

\* Codecs are named in any case.
ToUpper(name) ==
    CASE name \in {"gzip", "GZIP"} -> "GZIP" [] name \in {"Zstd", "ZSTD"} -> "ZSTD"
      [] name = "lz4" -> "LZ4" [] name = "LZ4Block" -> "LZ4BLOCK" [] OTHER -> name

Holds(row) == ~row.damaged /\ row.lost = 0 /\ Len(row.content) <= MaxOutput

\* The codec named, or recognised if none is named, is that of the data.
RightCodec(row) ==
    LET named == ToUpper(row.codec)
    IN  \/ row.magic = "gzip" /\ named \in {"", "GZIP"} /\ row.skips = << >>
        \/ row.magic = "zstd" /\ named \in {"", "ZSTD"}
        \/ row.magic = "lz4" /\ named \in {"", "LZ4"}
        \/ row.magic = "block" /\ named = "LZ4BLOCK" /\ row.skips = << >>

Sound(row) == Holds(row) /\ RightCodec(row)

\* A stream without a frame that is nevertheless to be read with a codec.
NoFrame(row) ==
    /\ ToUpper(row.codec) \in {"ZSTD", "LZ4"}
    /\ \E k \in 0..Len(row.skips) : RowData(row) = Skippable(SubSeq(row.skips, 1, k))

Answer(row) == PutString(IF NoFrame(row) THEN << >> ELSE row.content)
Answers(n) == FlattenSeq([i \in 1..n |-> Answer(rows[i])])

\* "Returns the exact decompressed bytes", and "invalid, truncated,
\* unsupported, or greater-than-64-MiB decompressed values fail the query
\* rather than returning partial data": what is written are whole answers, in
\* order, of rows that are sound, whatever earlier rows left in the buffers.
AnswersAreWhole ==
    \E n \in 0..Len(rows) :
        /\ out = Answers(n)
        /\ \A i \in 1..n : Sound(rows[i]) \/ NoFrame(rows[i])

\* The program succeeds only if every row was answered and the input ended
\* after the last one, and fails only if there is a reason to.
EndsAsItShould ==
    /\ stage = "done" => ~torn /\ out = Answers(Len(rows))
    /\ stage = "failed" => torn \/ \E i \in DOMAIN rows : ~Sound(rows[i])
=============================================================================
