----------------------------- MODULE Decompress ----------------------------
(***************************************************************************)
(* decompress_udf: rows of compressed data, answered with the decompressed *)
(* data, see RowBinary for what a row is.  The decoders are libraries:     *)
(* they give the content of a frame and then report its end, or an error   *)
(* that is not io.EOF if the frame is damaged or not theirs.               *)
(***************************************************************************)
EXTENDS RowBinary

VARIABLES
    input,  \* what is left of stdin
    data,   \* the compressed data of the current row
    codec,  \* and its codec
    output, \* p.output: the buffer of the streaming decoders
    block,  \* p.lz4Block: the buffer of LZ4Block, << >> until its first use
    view    \* the decompressed data: one of the buffers, and how much of it

vars == <<rows, torn, input, stage, data, codec, output, block, view, out>>

-----------------------------------------------------------------------------
\* All rows arrive; or they are followed by a part of another one, or by a
\* length that is none.
Init ==
    /\ \/ rows \in Batches /\ torn = FALSE /\ input = EncodedRows(rows)
       \/ /\ torn = TRUE
          /\ \/ \E rs \in CutBatches \ {<< >>} :
                   /\ rows = Front(rs)
                   /\ \E n \in 1..(Len(Encoded(Last(rs))) - 1) :
                         input = EncodedRows(rows) \o SubSeq(Encoded(Last(rs)), 1, n)
             \/ rows \in CutBatches /\ input = EncodedRows(rows) \o PutUvarint[MaxInt + 1]
    /\ stage = "data"
    /\ data = << >>
    /\ codec = << >>
    /\ output = << >>
    /\ block = << >>
    /\ view = [buffer |-> "none", size |-> 0]
    /\ out = << >>

\* Fault: a string of which nothing arrives is taken for the end of the rows.
CutShortLoosely(received) == IF received = 0 THEN "EOF" ELSE "ErrUnexpectedEOF"

\* io.ReadFull reports a string of which nothing arrives with EOF.
CutShort(received) == "ErrUnexpectedEOF"

\* readString: EOF only before the first byte of a length.
ReadString(units) ==
    LET last == SelectInSeq(units, LAMBDA u : u.kind = "length" /\ ~u.more)
        length == Uvarint(SubSeq(units, 1, last))
        rest == SubSeq(units, last + 1, Len(units))
        failed(err) == [err |-> err, value |-> << >>, rest |-> rest]
    IN  IF units = << >> THEN failed("EOF")
        ELSE IF last = 0 THEN failed("ErrUnexpectedEOF")
        ELSE IF length > MaxInt THEN failed("limit")
        ELSE IF length > Len(rest) THEN failed(CutShort(Len(rest)))
        ELSE [err |-> "none", value |-> SubSeq(rest, 1, length),
              rest |-> SubSeq(rest, length + 1, Len(rest))]

EndOfInput ==
    /\ stage = "data"
    /\ ReadString(input).err = "EOF"
    /\ stage' = "done"
    /\ UNCHANGED <<rows, torn, input, data, codec, output, block, view, out>>

ReadData ==
    /\ stage = "data"
    /\ LET read == ReadString(input)
       IN  /\ read.err = "none"
           /\ data' = read.value
           /\ input' = read.rest
    /\ stage' = "codec"
    /\ UNCHANGED <<rows, torn, codec, output, block, view, out>>

ReadCodec ==
    /\ stage = "codec"
    /\ LET read == ReadString(input)
       IN  /\ read.err = "none"
           /\ codec' = read.value
           /\ input' = read.rest
    /\ stage' = "decompress"
    /\ UNCHANGED <<rows, torn, data, output, block, view, out>>

ReadFails ==
    /\ \/ stage = "data" /\ ReadString(input).err \notin {"none", "EOF"}
       \/ stage = "codec" /\ ReadString(input).err # "none"
    /\ stage' = "failed"
    /\ UNCHANGED <<rows, torn, input, data, codec, output, block, view, out>>

-----------------------------------------------------------------------------
Kind(units, i) == IF i <= Len(units) THEN units[i].kind ELSE "none"

\* What follows the skippable frames, or that one of them is cut short.
AfterSkippable ==
    LET after[left \in 0..Len(data)] ==
            LET from == Len(data) - left + 1
            IN  IF Kind(data, from) = "skippable" /\ Kind(data, from + 1) = "size"
                THEN IF data[from + 1].size + 2 > left THEN [cut |-> TRUE]
                     ELSE after[left - (data[from + 1].size + 2)]
                ELSE [cut |-> FALSE, rest |-> SubSeq(data, from, Len(data))]
    IN  after[Len(data)]

Unsupported == "unsupported"

DetectCodec ==
    LET magic == Kind(AfterSkippable.rest, 1)
    IN  IF AfterSkippable.cut THEN Unsupported
        ELSE CASE magic = "gzip" -> "GZIP" [] magic = "zstd" -> "ZSTD" [] magic = "lz4" -> "LZ4"
               [] OTHER -> Unsupported

Chosen == IF codec = << >> THEN DetectCodec ELSE ToUpper(codec[1].name)

\* The decoders: the content they deliver and how they end.  Only those of
\* ZSTD and LZ4 know skippable frames.  What they make of a stream without any
\* frame is not the code's to say.
Delivered(units) ==
    LET last == Last(units).kind
    IN  [content |-> SubSeq(units, 2, Len(units) - IF last \in {"end", "bad"} THEN 1 ELSE 0),
         end |-> IF last = "end" THEN "EOF" ELSE "error"]
NothingBut(end) == [content |-> << >>, end |-> end]

Readers(magic) ==
    LET units == IF magic = "gzip" \/ AfterSkippable.cut THEN data ELSE AfterSkippable.rest
    IN  CASE Kind(units, 1) = magic -> {Delivered(units)}
          [] units = << >> /\ magic # "gzip" -> {NothingBut("EOF"), NothingBut("error")}
          [] OTHER -> {NothingBut("error")}

AtMost(content, n) == IF Len(content) <= n THEN content ELSE SubSeq(content, 1, n)

\* Fault: what is over the limit is left unread.
ReadLimitedExactly(reader) ==
    LET copied == AtMost(reader.content, MaxOutput)
        err == IF Len(copied) = MaxOutput THEN "none" ELSE reader.end
    IN  [ok |-> err # "error", output |-> copied]

\* readLimited: at most one byte over the limit is read.
ReadLimited(reader) ==
    LET copied == AtMost(reader.content, MaxOutput + 1)
        err == IF Len(copied) = MaxOutput + 1 THEN "none" ELSE reader.end
    IN  [ok |-> Len(copied) <= MaxOutput /\ err # "error", output |-> copied]

MagicOf == [c \in {"GZIP", "ZSTD", "LZ4"} |->
               CASE c = "GZIP" -> "gzip" [] c = "ZSTD" -> "zstd" [] c = "LZ4" -> "lz4"]

\* gzip.NewReader fails before readLimited resets the buffer.
DecompressStream ==
    /\ stage = "decompress"
    /\ Chosen \in DOMAIN MagicOf
    /\ \E reader \in Readers(MagicOf[Chosen]) :
          LET read == ReadLimited(reader)
              opens == Chosen = "GZIP" => Kind(data, 1) = "gzip"
          IN  /\ output' = IF opens THEN read.output ELSE output
              /\ view' = [buffer |-> "output", size |-> Len(output')]
              /\ stage' = IF opens /\ read.ok THEN "write" ELSE "failed"
    /\ UNCHANGED <<rows, torn, input, data, codec, block, out>>

\* UncompressBlock fills the front of a buffer that is never cleared.
DecompressBlock ==
    /\ stage = "decompress"
    /\ Chosen = "LZ4BLOCK"
    /\ LET read == IF Kind(data, 1) = "block" THEN Delivered(data) ELSE NothingBut("error")
           fits == read.end = "EOF" /\ Len(read.content) <= MaxOutput
           old == IF block = << >> THEN [i \in 1..MaxOutput |-> Byte("0")] ELSE block
       IN  /\ block' = IF fits THEN [i \in 1..MaxOutput |->
                                        IF i <= Len(read.content) THEN read.content[i] ELSE old[i]]
                       ELSE old
           /\ view' = [buffer |-> "block", size |-> Len(read.content)]
           /\ stage' = IF fits THEN "write" ELSE "failed"
    /\ UNCHANGED <<rows, torn, input, data, codec, output, out>>

DecompressUnsupported ==
    /\ stage = "decompress"
    /\ Chosen \notin DOMAIN MagicOf \union {"LZ4BLOCK"}
    /\ stage' = "failed"
    /\ UNCHANGED <<rows, torn, input, data, codec, output, block, view, out>>

Write ==
    /\ stage = "write"
    /\ out' = out \o PutString(SubSeq(IF view.buffer = "output" THEN output ELSE block,
                                      1, view.size))
    /\ stage' = "data"
    /\ UNCHANGED <<rows, torn, input, data, codec, output, block, view>>

Next ==
    \/ EndOfInput \/ ReadData \/ ReadCodec \/ ReadFails
    \/ DecompressStream \/ DecompressBlock \/ DecompressUnsupported
    \/ Write

Spec == Init /\ [][Next]_vars
=============================================================================
