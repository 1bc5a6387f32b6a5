----------------------------- MODULE EmptyValues ---------------------------
(***************************************************************************)
(* What json_remove_empty_strings_udf and                                  *)
(* json_strip_empty_strings_and_nulls_udf make of one row.  The former     *)
(* replaces empty strings where they are.  The latter writes the answer    *)
(* while it walks the document and takes back what turns out to be empty:  *)
(* the answer is a sequence of tokens, cut back to where a child began.    *)
(* Recursive operators: this module is for TLC only.                       *)
(***************************************************************************)
EXTENDS JsonTree

CONSTANTS
    Documents,  \* the documents that may arrive
    BigNumbers  \* numbers outside the range of Int64

VARIABLES
    pc,    \* "idle", "answered" or "failed"
    row,   \* the document being processed
    reply  \* the answers: [removed, stripped], see ProcessLine

vars == <<pc, row, reply>>

-----------------------------------------------------------------------------
StringifyLargeInteger(v) ==
    IF v.kind = "number" /\ v.text \in BigNumbers THEN Str(v.text) ELSE v

RECURSIVE RemoveEmptyStrings(_)
\* Fault: the values of arrays are not visited.
RemoveEmptyStringsFromFields(v) ==
    CASE v.kind = "object" ->
            Object([i \in DOMAIN v.entries |-> [v.entries[i] EXCEPT !.value = RemoveEmptyStrings(@)]])
      [] v = Str("") -> Null
      [] OTHER -> StringifyLargeInteger(v)

RemoveEmptyStrings(v) ==
    CASE v.kind = "object" ->
            Object([i \in DOMAIN v.entries |-> [v.entries[i] EXCEPT !.value = RemoveEmptyStrings(@)]])
      [] v.kind = "array" -> Array([i \in DOMAIN v.values |-> RemoveEmptyStrings(v.values[i])])
      [] v = Str("") -> Null
      [] OTHER -> StringifyLargeInteger(v)

-----------------------------------------------------------------------------
\* The tokens of the answer besides the scalars.
Mark(c) == [mark |-> c]
Key(k) == [key |-> k]

RECURSIVE AppendCleanJSON(_, _)

\* One child of an object or array: what stands before it, then the child,
\* both taken back if the child has nothing to keep.
\* Fault: only the child is taken back, not what stands before it.
AppendChildOnly(acc, before, child) ==
    LET written == AppendCleanJSON(acc.dst \o (IF acc.kept > 0 THEN <<Mark(",")>> ELSE << >>) \o before,
                                   child)
    IN  [dst |-> written.dst, kept |-> acc.kept + (IF written.keep THEN 1 ELSE 0)]

AppendChild(acc, before, child) ==
    LET written == AppendCleanJSON(acc.dst \o (IF acc.kept > 0 THEN <<Mark(",")>> ELSE << >>) \o before,
                                   child)
    IN  IF written.keep THEN [dst |-> written.dst, kept |-> acc.kept + 1] ELSE acc

Kept(dst) == [dst |-> dst, keep |-> TRUE]
Skipped(dst) == [dst |-> dst, keep |-> FALSE]

\* The children written between brackets, or nothing if none is kept.
Enclose(dst, acc, close) ==
    IF acc.kept = 0 THEN Skipped(dst) ELSE Kept(Append(acc.dst, close))

AppendCleanJSON(dst, v) ==
    CASE v \in {Null, Str("")} -> Skipped(dst)
      [] v.kind = "object" ->
            Enclose(dst, FoldLeft(LAMBDA acc, e : AppendChild(acc, <<Key(e.key), Mark(":")>>, e.value),
                                  [dst |-> Append(dst, Mark("{")), kept |-> 0], v.entries), Mark("}"))
      [] v.kind = "array" ->
            Enclose(dst, FoldLeft(LAMBDA acc, child : AppendChild(acc, << >>, child),
                                  [dst |-> Append(dst, Mark("[")), kept |-> 0], v.values), Mark("]"))
      [] OTHER -> Kept(Append(dst, StringifyLargeInteger(v)))

\* A row without anything to keep is answered with null.
Strip(v) ==
    LET output == AppendCleanJSON(<< >>, v)
    IN  IF output.keep THEN output.dst ELSE Append(output.dst, Null)

-----------------------------------------------------------------------------
Init ==
    /\ pc = "idle"
    /\ row = Null
    /\ reply = Null

\* Each program gives its own answer.
ProcessLine(v) ==
    /\ pc = "idle"
    /\ row' = v
    /\ reply' = [removed |-> RemoveEmptyStrings(v), stripped |-> Strip(v)]
    /\ pc' = "answered"

\* The row is not JSON: the programs fail.
RejectLine ==
    /\ pc = "idle"
    /\ pc' = "failed"
    /\ UNCHANGED <<row, reply>>

NextRow ==
    /\ pc = "answered"
    /\ pc' = "idle"
    /\ row' = Null
    /\ reply' = Null

Next ==
    \/ pc = "idle" /\ \E v \in Documents : ProcessLine(v)
    \/ RejectLine
    \/ NextRow

Spec == Init /\ [][Next]_vars

-----------------------------------------------------------------------------
\* A value holds data when something other than null and "" is in it.
HoldsData(v) == \E l \in Leaves(v) : l.value \notin {Null, Str("")}

\* The JSON of the data in a value, said without reference to the buffer.
RECURSIVE DataJSON(_)
Separated(parts) ==
    FlattenSeq([i \in DOMAIN parts |-> IF i = 1 THEN parts[i] ELSE <<Mark(",")>> \o parts[i]])
DataJSON(v) ==
    CASE v.kind = "object" ->
            LET held == SelectSeq(v.entries, LAMBDA e : HoldsData(e.value))
                field(e) == <<Key(e.key), Mark(":")>> \o DataJSON(e.value)
            IN  <<Mark("{")>> \o Separated([i \in DOMAIN held |-> field(held[i])]) \o <<Mark("}")>>
      [] v.kind = "array" ->
            LET held == SelectSeq(v.values, HoldsData)
            IN  <<Mark("[")>> \o Separated([i \in DOMAIN held |-> DataJSON(held[i])]) \o <<Mark("]")>>
      [] OTHER -> <<StringifyLargeInteger(v)>>

\* "Recursively removes JSON nulls, empty strings, empty arrays, and objects or
\* arrays left empty after cleaning": the answer is the JSON of the data and
\* nothing else, no comma or key of what was taken back included.
AnswerIsTheData ==
    pc = "answered" => reply.stripped = IF HoldsData(row) THEN DataJSON(row) ELSE <<Null>>

\* "Recursively replaces empty string values with JSON null in objects and
\* arrays": everything else stays at its place and in its order, and the two
\* programs agree on what an empty string is, so that stripping gives the same
\* before and after.
OnlyEmptyStringsBecomeNull ==
    pc = "answered" =>
        /\ LeafSeq(reply.removed) =
              [k \in DOMAIN LeafSeq(row) |-> [LeafSeq(row)[k] EXCEPT
                  !.value = IF @ = Str("") THEN Null ELSE StringifyLargeInteger(@)]]
        /\ Strip(reply.removed) = reply.stripped
=============================================================================
