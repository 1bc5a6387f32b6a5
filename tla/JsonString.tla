----------------------------- MODULE JsonString ----------------------------
(***************************************************************************)
(* Strings of a row, read and written.                                     *)
(*                                                                         *)
(* parseString of json_clean_posthog_event_properties_udf returns a view   *)
(* of the row when the string has no escapes.  At the first backslash it   *)
(* starts over, copying into a buffer that all strings share.  An escape   *)
(* that the writer would spell differently clears rawSafe, without which   *)
(* an unchanged row is answered as it came.  The answer is then read as a  *)
(* row of its own, as it is when programs are chained.                     *)
(***************************************************************************)
EXTENDS JsonSpelling

CONSTANT Writers  \* the programs that write the answer, of "clean" and "strip"

VARIABLES
    pieces,  \* what the text was made of
    text,    \* the bytes being parsed, from the quote on
    pc,      \* "view", "copy", "done" or "error"
    pos, buf, rawSafe,
    decoded, \* the string that was read
    first,   \* the string of the first reading, when its answer is read again
    reading, \* 1 or 2
    writer   \* the program that writes the answer

vars == <<pieces, text, pc, pos, buf, rawSafe, decoded, first, reading, writer>>

Control == {"LF", "BEL"}  \* a control character with a short escape and one without
Replacement == "U+FFFD"

\* What follows a backslash, but for "u", and the rune it stands for.
ShortEscapes == [c \in {Quote, Backslash, "/", "n"} |-> IF c = "n" THEN "LF" ELSE c]

\* hexRune of the groups: the code unit, here named by the rune that it is.
High == "high surrogate"
Low == "low surrogate"
HexRune == [c \in {"0061", "000a", "0007", "d83d", "de00"} |->
               CASE c = "0061" -> "a" [] c = "000a" -> "LF" [] c = "0007" -> "BEL"
                 [] c = "d83d" -> High [] c = "de00" -> Low]
Joined == "U+1F600"  \* the rune that the two surrogates are

Start(bytes) ==
    /\ text = bytes
    /\ pc = "view"
    /\ pos = 2
    /\ rawSafe = TRUE
    /\ decoded = << >>

Init ==
    /\ pieces \in {ps \in BoundedSeq(Spellings, MaxPieces) : ~Clash(ps)}
    /\ \/ Start(TextOf(pieces))
       \/ Start(Front(TextOf(pieces)))  \* the row ends within the string
    /\ buf \in {<< >>, <<"a">>}         \* left from an earlier string
    /\ first = << >>
    /\ reading = 1
    /\ writer \in Writers

At(c) == pos <= Len(text) /\ text[pos] = c
AtOrdinary == pos <= Len(text) /\ text[pos] \notin {Quote, Backslash} \union Control

-----------------------------------------------------------------------------
ParserStep(pcNow) == pc = pcNow /\ UNCHANGED <<pieces, text, first, reading, writer>>

ViewByte ==
    /\ ParserStep("view")
    /\ AtOrdinary
    /\ pos' = pos + 1
    /\ UNCHANGED <<pc, buf, rawSafe, decoded>>

EndView ==
    /\ ParserStep("view")
    /\ At(Quote)
    /\ decoded' = SubSeq(text, 2, pos - 1)
    /\ pos' = pos + 1
    /\ pc' = "done"
    /\ UNCHANGED <<buf, rawSafe>>

\* Fault: what an earlier string left in the buffer stays.
StartOverUnreset ==
    /\ ParserStep("view")
    /\ At(Backslash)
    /\ pos' = 2
    /\ pc' = "copy"
    /\ UNCHANGED <<buf, rawSafe, decoded>>

StartOver ==
    /\ ParserStep("view")
    /\ At(Backslash)
    /\ pos' = 2
    /\ buf' = << >>
    /\ pc' = "copy"
    /\ UNCHANGED <<rawSafe, decoded>>

CopyByte ==
    /\ ParserStep("copy")
    /\ AtOrdinary
    /\ buf' = Append(buf, text[pos])
    /\ pos' = pos + 1
    /\ UNCHANGED <<pc, rawSafe, decoded>>

EndCopy ==
    /\ ParserStep("copy")
    /\ At(Quote)
    /\ decoded' = buf
    /\ pos' = pos + 1
    /\ pc' = "done"
    /\ UNCHANGED <<buf, rawSafe>>

Escape == pos < Len(text) /\ At(Backslash)

\* Fault: an escaped slash keeps the row fit to be returned.
ShortEscapeKeepingRaw ==
    /\ ParserStep("copy")
    /\ Escape
    /\ text[pos + 1] \in DOMAIN ShortEscapes
    /\ buf' = Append(buf, ShortEscapes[text[pos + 1]])
    /\ pos' = pos + 2
    /\ UNCHANGED <<pc, rawSafe, decoded>>

ShortEscape ==
    /\ ParserStep("copy")
    /\ Escape
    /\ text[pos + 1] \in DOMAIN ShortEscapes
    /\ buf' = Append(buf, ShortEscapes[text[pos + 1]])
    /\ rawSafe' = (rawSafe /\ text[pos + 1] # "/")
    /\ pos' = pos + 2
    /\ UNCHANGED <<pc, decoded>>

\* parseUnicodeEscape: the rune and the number of symbols it takes from the
\* "u" on; none if it is not one.  WriteRune replaces a low surrogate that
\* stands alone.
UnicodeEscapeAt(p) ==
    LET unit(i) == i <= Len(text) /\ text[i - 1] = "u" /\ text[i] \in DOMAIN HexRune
        pair == p + 4 <= Len(text) /\ text[p + 2] = Backslash /\ unit(p + 4)
                  /\ HexRune[text[p + 4]] = Low
    IN  IF ~unit(p + 1) THEN << >>
        ELSE CASE HexRune[text[p + 1]] = High -> IF pair THEN <<Joined, 5>> ELSE << >>
               [] HexRune[text[p + 1]] = Low -> <<Replacement, 2>>
               [] OTHER -> <<HexRune[text[p + 1]], 2>>

UnicodeEscape ==
    /\ ParserStep("copy")
    /\ Escape
    /\ text[pos + 1] = "u"
    /\ LET rune == UnicodeEscapeAt(pos + 1)
       IN  /\ rune # << >>
           /\ buf' = Append(buf, rune[1])
           /\ pos' = pos + 1 + rune[2]
    /\ rawSafe' = FALSE
    /\ UNCHANGED <<pc, decoded>>

\* A control character, the end of the row, or an escape that is none.
Fail ==
    /\ \/ ParserStep("view")
       \/ ParserStep("copy")
    /\ \/ pos > Len(text)
       \/ \E c \in Control : At(c)
       \/ /\ pc = "copy"
          /\ At(Backslash)
          /\ Escape => text[pos + 1] \notin DOMAIN ShortEscapes
          /\ Escape /\ text[pos + 1] = "u" => UnicodeEscapeAt(pos + 1) = << >>
    /\ pc' = "error"
    /\ UNCHANGED <<pos, buf, rawSafe, decoded>>

-----------------------------------------------------------------------------
\* How writeJSONString spells a rune.
Escaped(c) ==
    CASE c \in {Quote, Backslash} -> <<Backslash, c>>
      [] c = "LF" -> <<Backslash, "n">>
      [] c = "BEL" -> <<Backslash, "u", "0007">>
      [] OTHER -> <<c>>

\* Fault: only control characters with a short escape are escaped.
WriteJSONStringRaw(s) ==
    Enclosed(FlattenSeq([i \in DOMAIN s |->
        CASE s[i] \in {Quote, Backslash} -> <<Backslash, s[i]>>
          [] s[i] = "LF" -> <<Backslash, "n">>
          [] OTHER -> <<s[i]>>]))

WriteJSONString(s) == Enclosed(FlattenSeq([i \in DOMAIN s |-> Escaped(s[i])]))

\* json_strip_empty_strings_and_nulls_udf writes keys with strconv.AppendQuote,
\* the syntax of Go.
AppendQuote(s) ==
    Enclosed(FlattenSeq([i \in DOMAIN s |->
        CASE s[i] \in {Quote, Backslash} -> <<Backslash, s[i]>>
          [] s[i] = "LF" -> <<Backslash, "n">>
          [] s[i] = "BEL" -> <<Backslash, "a">>
          [] s[i] = "DEL" -> <<Backslash, "x", "7f">>
          [] OTHER -> <<s[i]>>]))

\* The next program reads the answer, with a parser of its own.  strip reads
\* with fastjson, a library; its strings are taken to be those that parseString
\* gives, although fastjson also lets malformed ones pass.
ReadAnswer ==
    /\ pc = "done"
    /\ reading = 1
    /\ reading' = 2
    /\ first' = decoded
    /\ text' = IF writer = "clean" THEN WriteJSONString(decoded) ELSE AppendQuote(decoded)
    /\ pc' = "view"
    /\ pos' = 2
    /\ buf' \in {<< >>, <<"a">>}
    /\ rawSafe' = TRUE
    /\ decoded' = << >>
    /\ UNCHANGED <<pieces, writer>>

Next ==
    \/ ViewByte \/ EndView \/ StartOver \/ CopyByte \/ EndCopy
    \/ ShortEscape \/ UnicodeEscape \/ Fail
    \/ ReadAnswer

Spec == Init /\ [][Next]_vars

-----------------------------------------------------------------------------
WellFormed == text = TextOf(pieces) /\ \A i \in DOMAIN pieces : pieces[i].means # Malformed

\* A string is read as JSON means it, whichever way its runes are spelled,
\* wherever the first backslash is and whatever the buffer held before; a
\* malformed one is rejected.
ReadAsMeant ==
    reading = 1 => /\ pc = "done" => WellFormed /\ decoded = MeaningOf(pieces)
                   /\ pc = "error" => ~WellFormed

\* When the row may be answered as it came, writing it would give the bytes
\* that were read: to return them is only a shortcut.
RawIsWhatIsWritten ==
    pc = "done" /\ rawSafe => WriteJSONString(decoded) = SubSeq(text, 1, pos - 1)

\* The answer reads back as the string that was written: escapes are undone
\* by the next program and nothing in a string breaks the row.
AnswerReadsBack ==
    reading = 2 => /\ pc # "error"
                   /\ pc = "done" => decoded = first
=============================================================================
