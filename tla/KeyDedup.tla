------------------------------ MODULE KeyDedup -----------------------------
(***************************************************************************)
(* json_key_dedup_udf: what processLine makes of one row.  Every object,   *)
(* from the innermost, loses its duplicate keys after its dotted keys have *)
(* been expanded.  Other than in json_clean_posthog_event_properties_udf,  *)
(* objects and arrays always count as non-empty and nulls stay.            *)
(***************************************************************************)
EXTENDS JsonTree

CONSTANTS
    Keys,       \* the keys of the objects that may arrive
    Values,     \* the values under these keys
    Size,       \* how many entries such an object has at most
    Documents,  \* other documents that may arrive
    BigNumbers  \* numbers outside the signed 64-bit range

VARIABLES
    pc,    \* "idle", "answered" or "failed"
    row,   \* the document being processed
    reply  \* the answer

vars == <<pc, row, reply>>

-----------------------------------------------------------------------------
\* convertFastJSON
RECURSIVE Converted(_)
Converted(v) ==
    CASE v.kind = "number" -> IF v.text \in BigNumbers THEN Str(v.text) ELSE v
      [] v.kind = "array" -> Array([i \in DOMAIN v.values |-> Converted(v.values[i])])
      [] v.kind = "object" ->
            Object([i \in DOMAIN v.entries |->
                       [v.entries[i] EXCEPT !.value = Converted(@)]])
      [] OTHER -> v

\* Fault: empty strings count.
IsNonNullValue(v) == v # Null

IsNonEmptyValue(v) == v # Null /\ v # Str("")
NonEmptyPositions(es) == {i \in DOMAIN es : IsNonEmptyValue(es[i].value)}

RECURSIVE Dedup(_)
\* Fault: duplicates are removed before dotted keys are expanded.
DedupObjectFirst(es) ==
    LET once == Deduplicated(es, NonEmptyPositions(es))
    IN  Object(ExpandDottedEntries(
            [i \in DOMAIN once |-> [once[i] EXCEPT !.value = Dedup(@)]]))

DedupObject(es) ==
    LET expanded == ExpandDottedEntries(es)
        done == [i \in DOMAIN expanded |->
                    [expanded[i] EXCEPT !.value = Dedup(@)]]
    IN  Object(Deduplicated(done, NonEmptyPositions(done)))

Dedup(v) ==
    CASE v.kind = "object" -> DedupObject(v.entries)
      [] v.kind = "array" -> Array([i \in DOMAIN v.values |-> Dedup(v.values[i])])
      [] OTHER -> v

Init == pc = "idle" /\ row = Null /\ reply = Null

ProcessLine(v) ==
    /\ pc = "idle"
    /\ row' = v
    /\ reply' = Dedup(Converted(v))
    /\ pc' = "answered"

\* The row is not JSON: main exits.
RejectLine ==
    /\ pc = "idle"
    /\ pc' = "failed"
    /\ UNCHANGED <<row, reply>>

NextRow ==
    /\ pc = "answered"
    /\ pc' = "idle"
    /\ row' = Null
    /\ reply' = Null

Next ==
    \/ pc = "idle" /\ \E n \in 0..Size : \E es \in [1..n -> [key : Keys, value : Values]] :
          ProcessLine(Object(es))
    \/ pc = "idle" /\ \E v \in Documents : ProcessLine(v)
    \/ RejectLine
    \/ NextRow

Spec == Init /\ [][Next]_vars

-----------------------------------------------------------------------------
\* No object of the answer, however deep and however it came about, has a
\* dotted key or a key twice.
AnswerIsUnique ==
    pc = "answered" => NoDottedKeys(reply) /\ NoDuplicateKeys(reply)

\* No value appears under a path it was not given under: expansion and merging
\* never put a value into the wrong object.
NothingMoves ==
    pc = "answered" => Leaves(reply) \subseteq Leaves(Converted(row))

\* "It keeps the first non-empty value, or the last value when every duplicate
\* is empty", whether the duplicates are dotted or not: for an object of
\* scalars no path of which leads through another, that is the value under
\* each path, read off the row.
Winner(es, i) ==
    LET same == {j \in DOMAIN es : es[j].key = es[i].key}
        full == {j \in same : es[j].value \notin {Null, Str("")}}
    IN  es[IF full = {} THEN Max(same) ELSE Min(full)].value

Flat(v) ==
    /\ v.kind = "object"
    /\ \A i \in DOMAIN v.entries :
          /\ v.entries[i].value.kind \notin {"object", "array"}
          /\ \A j \in DOMAIN v.entries :
                IsPrefix(v.entries[i].key, v.entries[j].key) =>
                    v.entries[i].key = v.entries[j].key

FirstNonEmptyWins ==
    (pc = "answered" /\ Flat(row)) =>
        LET es == Converted(row).entries
        IN  Leaves(reply) =
                {[path |-> es[i].key, places |-> << >>, value |-> Winner(es, i)] :
                    i \in DOMAIN es}
=============================================================================
