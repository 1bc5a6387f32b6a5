----------------------------- MODULE MCParsers -----------------------------
(***************************************************************************)
(* Instances for TLC of the four modules about what arrives as bytes: the  *)
(* numbers and strings of a row, the argument of json_drop_keys_udf, and   *)
(* the rows of decompress_udf.  They have nothing to do with each other:   *)
(* a behaviour is one of the module that `parser` names, and the variables *)
(* of the others keep a value for which their properties say nothing.      *)
(***************************************************************************)
EXTENDS NumberRange, JsonString, RowBinary, KeyList

CONSTANTS
    Parsers  \* of "numbers", "strings", "argument" and "rows"

VARIABLES
    parser,
    arg, s, sb,
    input, data, codec, output, block, view

Argument == INSTANCE KeysArgument
Frames == INSTANCE Decompress

Absent == "absent"

NoNumber == num = [neg |-> FALSE, digits |-> << >>, float |-> FALSE]
NoString ==
    /\ pieces = Absent /\ text = Absent /\ pc = Absent /\ pos = Absent /\ buf = Absent
    /\ rawSafe = FALSE /\ decoded = Absent /\ first = Absent /\ reading = 0 /\ writer = Absent
NoArgument ==
    /\ meant = << >> /\ whole = TRUE /\ phase = Absent /\ result = << >>
    /\ arg = Absent /\ s = Absent /\ sb = Absent
NoFrames ==
    /\ rows = << >> /\ torn = FALSE /\ stage = Absent /\ out = << >>
    /\ input = Absent /\ data = Absent /\ codec = Absent
    /\ output = Absent /\ block = Absent /\ view = Absent

stringVars == <<pieces, text, pc, pos, buf, rawSafe, decoded, first, reading, writer>>
argumentVars == <<meant, whole, arg, phase, s, sb, result>>
frameVars == <<rows, torn, input, stage, data, codec, output, block, view, out>>
parserVars == <<parser, num, stringVars, argumentVars, frameVars>>

ParserInit ==
    /\ parser \in Parsers
    /\ \/ parser = "numbers" /\ BeginNumber /\ NoString /\ NoArgument /\ NoFrames
       \/ parser = "strings" /\ Init /\ NoNumber /\ NoArgument /\ NoFrames
       \/ parser = "argument" /\ Argument!Init /\ NoNumber /\ NoString /\ NoFrames
       \/ parser = "rows" /\ Frames!Init /\ NoNumber /\ NoString /\ NoArgument

ParserNext ==
    \/ /\ parser = "numbers"
       /\ ReadNumber
       /\ UNCHANGED <<parser, stringVars, argumentVars, frameVars>>
    \/ /\ parser = "strings"
       /\ Next
       /\ UNCHANGED <<parser, num, argumentVars, frameVars>>
    \/ /\ parser = "argument"
       /\ Argument!Next
       /\ UNCHANGED <<parser, num, stringVars, frameVars>>
    \/ /\ parser = "rows"
       /\ Frames!Next
       /\ UNCHANGED <<parser, num, stringVars, argumentVars>>

ParserSpec == ParserInit /\ [][ParserNext]_parserVars

-----------------------------------------------------------------------------
(* Numbers: 8-bit integers, written in base 3.                             *)
Ternary127 == <<1, 1, 2, 0, 1>>
Ternary128 == <<1, 1, 2, 0, 2>>
Ternary255 == <<1, 0, 0, 1, 1, 0>>

(* Strings: every spelling of the runes the code tells apart.              *)
Means(rune, texts) == {[text |-> t, means |-> rune] : t \in texts}
TextSymbols == Known \union {"DEL", "0061", "000a", "d83d", "de00", "none"}

AllSpellings ==
    UNION {Means("a", {<<"a">>, <<Backslash, "u", "0061">>}),
           Means("/", {<<"/">>, <<Backslash, "/">>}),
           Means("LF", {<<Backslash, "n">>, <<Backslash, "u", "000a">>}),
           Means("BEL", {<<Backslash, "u", "0007">>}),
           Means("DEL", {<<"DEL">>}),
           Means(Quote, {<<Backslash, Quote>>}),
           Means(Backslash, {<<Backslash, Backslash>>}),
           Means("U+1F600", {<<"U+1F600">>, <<Backslash, "u", "d83d", Backslash, "u", "de00">>}),
           Means("U+FFFD", {<<Backslash, "u", "de00">>}),
           Means(Malformed, {<<"LF">>, <<Backslash>>, <<Backslash, "x">>,
                                     <<Backslash, "u", "d83d">>, <<Backslash, "u", "none">>})}

(* The argument.                                                           *)
PlainChars == {"a", "'", ",", "]", " "}
CharsWithBackslash == {"a", "'", Backslash}
Separators == {<<",">>, <<" ", ",", " ">>}
Margins == {<< >>, <<" ">>}

(* Compressed rows: the limit is two bytes.                                *)
Content(n, c) == [i \in 1..n |-> [kind |-> "byte", byte |-> c]]
Row(skips, magic, content, damaged, lost, name) ==
    [skips |-> skips, magic |-> magic, content |-> content, damaged |-> damaged, lost |-> lost,
     codec |-> name]

Names == {"", "gzip", "Zstd", "ZSTD", "lz4", "LZ4Block", "SNAPPY"}

\* Earlier rows, whose content fills the buffers.
FirstRows == {Row(<< >>, m, Content(2, "x"), FALSE, 0, c) :
                 m \in {"zstd", "block"}, c \in {"", "LZ4Block"}}

WholeRows == {Row(k, m, Content(n, "y"), d, 0, c) :
                 k \in {<< >>, <<1>>, <<0, 1>>}, m \in Magics, n \in 0..3, d \in BOOLEAN, c \in Names}
\* Of a row of three units, or of six with a skippable frame, the last are lost.
CutRows == {Row(<< >>, m, Content(1, "y"), FALSE, n, c) : m \in Magics, n \in 1..3, c \in Names}
    \union {Row(<<1>>, m, Content(1, "y"), FALSE, n, c) : m \in Magics, n \in 1..6, c \in Names}
SecondRows == WholeRows \union CutRows

AllBatches == {<<r>> : r \in SecondRows} \union {<<f, r>> : f \in FirstRows, r \in SecondRows}
TornBatches == {<<f, Row(<<1>>, "zstd", Content(2, "y"), FALSE, 0, "ZSTD")>> : f \in FirstRows}

=============================================================================
