----------------------------- MODULE EventClean ----------------------------
(***************************************************************************)
(* json_clean_posthog_event_properties_udf: what processLine makes of one  *)
(* row.                                                                    *)
(*                                                                         *)
(* The document is parsed; drop-listed properties are removed and the      *)
(* $feature/<name> properties gathered under $feature_flags; then every    *)
(* object is cleaned: dotted keys expanded, the array rules applied, nulls *)
(* removed, what a rule rejects quarantined in $properties_unparsable, and *)
(* duplicate keys removed.  If nothing of this changed the document, and   *)
(* the row has no whitespace or escapes, the answer is the row itself.     *)
(***************************************************************************)
EXTENDS JsonTree

CONSTANTS
    Themes,      \* objects that may arrive: [keys, values, size], see Arrives
    Documents,   \* other documents that may arrive
    FeatureName, \* for a first segment "$feature/<name>", that name
    BigNumbers   \* numbers outside the 64-bit ranges

VARIABLES
    pc,    \* "idle", "answered" or "failed"
    row,   \* the row being processed: [ok, plain, value]
    reply  \* the answer: [raw, value]

vars == <<pc, row, reply>>

-----------------------------------------------------------------------------
(* The rules.                                                              *)
StringArrayKeys == {"$exception_functions", "$exception_sources", "$exception_types",
                    "$exception_values", "$mcp_listed_tool_names"}
ObjectArrayKeys == {"$exception_list"}

UnparsablePropertiesKey == <<"$properties_unparsable">>
FeatureFlagsKey == <<"$feature_flags">>

DroppedEventPropertyKeys ==
    {<<"$ai_input">>, <<"$ai_output">>, <<"$ai_output_choices">>, <<"$ai_input_state">>,
     <<"$ai_output_state">>, <<"$ai_tools">>, <<"ph_product_tours">>,
     <<"$session_recording_remote_config">>, <<"$product_tours_activated">>,
     <<"$product_tours_enabled_server_side">>, <<"$surveys_activated">>,
     <<"$active_feature_flags">>, <<"$feature_flag_payload">>,
     <<"$feature_flag_bootstrapped_payload">>, <<"$feature_flag_original_payload">>,
     <<"$feature_flag_payloads">>, <<"$set">>, <<"$set_once">>, <<"$unset">>,
     <<"$transformations_succeeded">>, <<"$transformations_skipped">>,
     UnparsablePropertiesKey}

\* A path rule: what to do with the value at this path, and the rules below.
NoRule == [normalization |-> "none", children |-> << >>]
EventPropertyRules ==
    [normalization |-> "none",
     children |-> [k \in StringArrayKeys \union ObjectArrayKeys |->
                      [NoRule EXCEPT !.normalization =
                          IF k \in StringArrayKeys THEN "strings" ELSE "objects"]]]
Child(rules, key) ==
    IF key[1] \in DOMAIN rules.children THEN rules.children[key[1]] ELSE NoRule

-----------------------------------------------------------------------------
\* parseValue: numbers ClickHouse could not hold become strings.
RECURSIVE Parsed(_)
Parsed(v) ==
    CASE v.kind = "number" -> IF v.text \in BigNumbers THEN Str(v.text) ELSE v
      [] v.kind = "array" -> Array([i \in DOMAIN v.values |-> Parsed(v.values[i])])
      [] v.kind = "object" ->
            Object([i \in DOMAIN v.entries |->
                       [v.entries[i] EXCEPT !.value = Parsed(@)]])
      [] OTHER -> v

\* Fault: empty strings count.
IsNonNullValue(v) == v # Null

IsNonEmptyValue(v) ==
    CASE v.kind = "null" -> FALSE
      [] v.kind = "string" -> v # Str("")
      [] v.kind = "array" -> v.values # << >>
      [] v.kind = "object" -> v.entries # << >>
      [] OTHER -> TRUE

NonEmptyPositions(es) == {i \in DOMAIN es : IsNonEmptyValue(es[i].value)}

\* The texts that count as absent, blanks around them trimmed.
IsNullishString(v) == v \in {Str(""), Str(" "), Str("null"), Str("undefined")}

\* Fault: scalars are left as they are.
NodeStringOfContainer(v) ==
    IF v.kind \in {"array", "object"} THEN JsonText(v) ELSE v

\* Fault: strings are encoded once more.
NodeStringEncoded(v) == JsonText(v)

\* The text of a value: itself, or its JSON form.
NodeString(v) ==
    CASE v.kind = "string" -> v
      [] v.kind \in {"number", "bool"} -> Str(v.text)
      [] v.kind = "null" -> Str("")
      [] OTHER -> JsonText(v)

Coerced(v) == [ok |-> TRUE, value |-> v]
\* Fault: a value that cannot be coerced is silently replaced.
Discarded == Coerced(Array(<< >>))

Incompatible == [ok |-> FALSE]

RECURSIVE CleanNode(_, _)

\* Fault: the document in a string is not cleaned.
ParseOnly(v) == Parsed(v.json)

\* The document in a string, cleaned without rules.
ParseStringified(v) == CleanNode(NoRule, Parsed(v.json)).value

CoerceObjects(v) ==
    CASE v.kind = "array" /\ (\A i \in DOMAIN v.values : v.values[i].kind = "object") -> Coerced(v)
      [] v.kind = "object" -> Coerced(Array(<<v>>))
      [] v.kind = "null" -> Coerced(Array(<< >>))
      [] IsNullishString(v) -> Coerced(Array(<< >>))
      [] OTHER -> Incompatible

CoerceObjectArray(v) ==
    IF IsJsonText(v) THEN CoerceObjects(ParseStringified(v)) ELSE CoerceObjects(v)

CoerceStrings(v) ==
    CASE v.kind = "array" -> Array([i \in DOMAIN v.values |-> NodeString(v.values[i])])
      [] v.kind = "object" /\ v.entries = << >> -> Array(<< >>)
      [] v.kind = "null" -> Array(<< >>)
      [] IsNullishString(v) -> Array(<< >>)
      [] OTHER -> Array(<<NodeString(v)>>)

CoerceStringArray(v) ==
    IF IsJsonText(v) /\ v.json.kind = "array"
    THEN Coerced(CoerceStrings(ParseStringified(v)))
    ELSE Coerced(CoerceStrings(v))

NormalizeValue(normalization, v) ==
    IF normalization = "strings" THEN CoerceStringArray(v) ELSE CoerceObjectArray(v)

\* One turn of the loop of cleanObject: the entry as it may go back into the
\* object, and what goes into quarantine.
Placed(key, value, coerced) ==
    IF coerced.ok
    THEN [entry |-> Pair(key, coerced.value), mutated |-> TRUE, rejected |-> << >>]
    ELSE [entry |-> Pair(key, Array(<< >>)), mutated |-> TRUE,
          rejected |-> <<Pair(key, value)>>]

Normalized(normalization, key, cleaned) ==
    IF normalization = "none"
    THEN [entry |-> Pair(key, cleaned.value), mutated |-> cleaned.mutated,
          rejected |-> << >>]
    ELSE Placed(key, cleaned.value, NormalizeValue(normalization, cleaned.value))

CleanEntry(rule, e) == Normalized(rule.normalization, e.key, CleanNode(rule, e.value))

Turns(rules, es) == [i \in DOMAIN es |-> CleanEntry(Child(rules, es[i].key), es[i])]

\* What is left of the entries, the record of the rejected ones at the end.
WithoutNulls(turns) ==
    ConcatMap(LAMBDA i : IF turns[i].entry.value = Null THEN << >> ELSE <<turns[i].entry>>,
              turns)
Rejected(turns) == ConcatMap(LAMBDA i : turns[i].rejected, turns)
Marked(kept, rejected) ==
    IF rejected = << >> THEN kept
    ELSE Append(kept, Pair(UnparsablePropertiesKey, JsonText(Object(rejected))))

\* The object and the flag, after the last step.
Finished(dotted, turns, marked, result) ==
    [value   |-> Object(result),
     mutated |-> \/ dotted
                 \/ \E i \in DOMAIN turns :
                       turns[i].mutated \/ turns[i].entry.value = Null
                 \/ Len(result) < Len(marked)]
WithoutDuplicates(dotted, turns, marked) ==
    Finished(dotted, turns, marked, Deduplicated(marked, NonEmptyPositions(marked)))
AfterLoop(dotted, turns) ==
    WithoutDuplicates(dotted, turns, Marked(WithoutNulls(turns), Rejected(turns)))

CleanObject(rules, es) == AfterLoop(Dotted(es), Turns(rules, ExpandDottedEntries(es)))

\* The cleaned values of an array.
Gathered(cleaned) ==
    [value   |-> Array([i \in DOMAIN cleaned |-> cleaned[i].value]),
     mutated |-> \E i \in DOMAIN cleaned : cleaned[i].mutated]

CleanNode(rules, v) ==
    CASE v.kind = "object" -> CleanObject(rules, v.entries)
      [] v.kind = "array" ->
            Gathered([i \in DOMAIN v.values |-> CleanNode(rules, v.values[i])])
      [] OTHER -> [value |-> v, mutated |-> FALSE]

-----------------------------------------------------------------------------
\* Fault: a feature property with a dot in its name is not recognised.
IsUndottedFeature(key) == Len(key) = 1 /\ key[1] \in DOMAIN FeatureName

IsFeature(key) == key[1] \in DOMAIN FeatureName

\* The object that receives the feature properties, as a position; 0 if there
\* is none yet.
FlagsHome(es) ==
    SelectInSeq(es, LAMBDA e : e.key = FeatureFlagsKey /\ e.value.kind = "object")

HasFeatures(es) == \E i \in DOMAIN es : IsFeature(es[i].key)

\* Fault: without feature properties nothing is removed.
RemovedWithFeatures(es, i) ==
    /\ HasFeatures(es)
    /\ \/ es[i].key \in DroppedEventPropertyKeys
       \/ es[i].key = FeatureFlagsKey /\ i # FlagsHome(es)

\* The entries the loop of cleanEventProperties removes from the document.
Removed(es, i) ==
    \/ es[i].key \in DroppedEventPropertyKeys
    \/ HasFeatures(es) /\ es[i].key = FeatureFlagsKey /\ i # FlagsHome(es)

Moved(es) ==
    ConcatMap(LAMBDA i :
        IF IsFeature(es[i].key)
        THEN <<Pair(<<FeatureName[es[i].key[1]]>> \o Tail(es[i].key), es[i].value)>>
        ELSE << >>, es)

GroupFeatures(es) ==
    LET home == FlagsHome(es)
        stays == ConcatMap(LAMBDA i :
                    CASE Removed(es, i) \/ IsFeature(es[i].key) -> << >>
                      [] i = home -> <<Pair(FeatureFlagsKey,
                                            Object(es[i].value.entries \o Moved(es)))>>
                      [] OTHER -> <<es[i]>>, es)
    IN  IF HasFeatures(es) /\ home = 0
        THEN Append(stays, Pair(FeatureFlagsKey, Object(Moved(es))))
        ELSE stays

\* Fault: dropping and gathering properties does not mark the row.
CleanEventPropertiesUnmarked(v) ==
    CleanNode(EventPropertyRules,
              IF v.kind = "object" THEN Object(GroupFeatures(v.entries)) ELSE v)

CleanEventProperties(v) ==
    IF v.kind # "object" THEN CleanNode(EventPropertyRules, v)
    ELSE LET cleaned == CleanNode(EventPropertyRules, Object(GroupFeatures(v.entries)))
         IN  [cleaned EXCEPT !.mutated =
                 \/ @
                 \/ \E i \in DOMAIN v.entries :
                       Removed(v.entries, i) \/ IsFeature(v.entries[i].key)]

-----------------------------------------------------------------------------
NoRow == [ok |-> TRUE, plain |-> TRUE, value |-> Null]
NoReply == [raw |-> TRUE, value |-> Null]

Init ==
    /\ pc = "idle"
    /\ row = NoRow
    /\ reply = NoReply

\* p.mutated and p.rawSafe are reset when processLine begins, so that they are
\* local to the call.
ProcessLine(r) ==
    /\ pc = "idle"
    /\ r.ok
    /\ row' = r
    /\ LET parsed == Parsed(r.value)
           cleaned == CleanEventProperties(parsed)
           mutated == parsed # r.value \/ cleaned.mutated
           rawSafe == r.plain
       IN  reply' = IF ~mutated /\ rawSafe THEN [raw |-> TRUE, value |-> r.value]
                    ELSE [raw |-> FALSE, value |-> cleaned.value]
    /\ pc' = "answered"

\* The row is not JSON: main exits.
RejectLine(r) ==
    /\ pc = "idle"
    /\ ~r.ok
    /\ row' = r
    /\ pc' = "failed"
    /\ UNCHANGED reply

\* The answer has been written; the next row may come.
NextRow ==
    /\ pc = "answered"
    /\ pc' = "idle"
    /\ row' = NoRow
    /\ reply' = NoReply

\* Rows are the objects of up to size entries over the keys and values of a
\* theme, and the other documents; without whitespace and escapes or with.
Arrives(ok, plain, v) ==
    LET r == [ok |-> ok, plain |-> plain, value |-> v]
    IN  ProcessLine(r) \/ RejectLine(r)

Next ==
    \/ pc = "idle" /\ \E t \in Themes : \E n \in 0..t.size :
          \E es \in [1..n -> [key : t.keys, value : t.values]] :
             Arrives(TRUE, TRUE, Object(es))
    \/ pc = "idle" /\ \E v \in Documents : \E plain \in BOOLEAN : Arrives(TRUE, plain, v)
    \/ Arrives(FALSE, TRUE, Null)
    \/ NextRow

Spec == Init /\ [][Next]_vars

-----------------------------------------------------------------------------
(* Properties of the answer.                                               *)

Answered == pc = "answered"
AnsweredObject == Answered /\ row.value.kind = "object"
Given == row.value.entries

\* A dotted key whose first segment is the given key: expansion will create an
\* entry under that key after cleanEventProperties has looked for it.
DottedUnder(key) == \E i \in DOMAIN Given : Len(Given[i].key) > 1 /\ <<Given[i].key[1]>> = key

\* Every site that changes the document reports it: a row that is answered with
\* itself is one that cleaning would have left exactly as it is.
RawIsFixedPoint ==
    (Answered /\ reply.raw) =>
        /\ Parsed(row.value) = row.value
        /\ CleanEventProperties(row.value).value = row.value

\* No object of the answer, however deep and however it came about (parsed,
\* expanded, gathered, unpacked from a string), has a dotted key, a key twice
\* or a null field.
AnswerIsClean ==
    Answered =>
        /\ NoDottedKeys(reply.value)
        /\ NoDuplicateKeys(reply.value)
        /\ NoNullFields(reply.value)

\* What ClickHouse reads as Array(String) or Array(JSON) has that type in every
\* answer, whatever arrived under its key.
OfRuleType(v) ==
    \A i \in DOMAIN v.entries :
        LET e == v.entries[i]
            key == e.key[1]
        IN  key \in StringArrayKeys \union ObjectArrayKeys =>
                /\ e.value.kind = "array"
                /\ \A j \in DOMAIN e.value.values :
                      e.value.values[j].kind =
                          IF key \in StringArrayKeys THEN "string" ELSE "object"
RuleKeysAreTyped ==
    Answered =>
        CASE reply.value.kind = "object" -> OfRuleType(reply.value)
          [] reply.value.kind = "array" ->
                \A i \in DOMAIN reply.value.values :
                    reply.value.values[i].kind = "object" => OfRuleType(reply.value.values[i])
          [] OTHER -> TRUE

\* The values that are no list of objects: booleans, numbers, texts that say
\* something but are no JSON, and lists, given as such or as text, with
\* something else than an object in them.
NoObjectList(v) ==
    CASE v.kind \in {"bool", "number"} -> TRUE
      [] v.kind = "array" -> \E i \in DOMAIN v.values : v.values[i].kind # "object"
      [] IsJsonText(v) -> /\ v.json.kind = "array"
                          /\ \E i \in DOMAIN v.json.values : v.json.values[i].kind # "object"
      [] v.kind = "string" -> ~IsNullishString(v)
      [] OTHER -> FALSE
RejectedValues ==
    ConcatMap(LAMBDA i : IF Given[i].key = <<"$exception_list">> /\ NoObjectList(Given[i].value)
                         THEN <<Given[i].value>> ELSE << >>, Given)

\* "rejected keys use empty arrays and are recorded as stringified JSON in
\* $properties_unparsable": each rejected value is recorded there, even when
\* its key occurs again with a good value; nothing else is, and a document
\* cannot bring its own record.
RejectedAreRecorded ==
    AnsweredObject =>
        LET rejected == RejectedValues
            marker == At(reply.value, UnparsablePropertiesKey)
        IN  IF rejected = << >> THEN ~Has(reply.value, UnparsablePropertiesKey)
            ELSE /\ Has(reply.value, UnparsablePropertiesKey)
                 /\ IsJsonText(marker)
                 /\ Len(marker.json.entries) = Len(rejected)
                 /\ \A i \in DOMAIN rejected :
                       LET e == marker.json.entries[i]
                       IN  /\ e.key = <<"$exception_list">>
                           /\ e.value.kind = Parsed(rejected[i]).kind
                           /\ rejected[i].kind # "array" => e.value = Parsed(rejected[i])
RejectedAreRecordedUnlessDotted ==
    (AnsweredObject /\ ~DottedUnder(UnparsablePropertiesKey)) => RejectedAreRecorded

\* The same of documents with a rejected property, dotted keys or not: what is
\* rejected is recorded.
NothingRejectedIsLost ==
    (AnsweredObject /\ RejectedValues # << >>) => RejectedAreRecorded

\* "It groups every $feature/<name> property under $feature_flags": none stays
\* where it was, and each with a value is found under its name, next to those
\* that were there.
EveryFeatureGrouped ==
    AnsweredObject =>
        /\ \A i \in DOMAIN reply.value.entries : ~IsFeature(reply.value.entries[i].key)
        /\ \A i \in DOMAIN Given :
              (IsFeature(Given[i].key) /\ (Len(Given[i].key) > 1 \/ Given[i].value # Null)) =>
                  /\ Has(reply.value, FeatureFlagsKey)
                  /\ Has(At(reply.value, FeatureFlagsKey), <<FeatureName[Given[i].key[1]]>>)
EveryFeatureGroupedUnlessDotted ==
    (AnsweredObject /\ ~DottedUnder(FeatureFlagsKey)) => EveryFeatureGrouped

\* "drops ... $set, $set_once, and $unset" and the high-volume metadata.
DroppedKeysAreGone ==
    AnsweredObject =>
        \A key \in DroppedEventPropertyKeys \ {UnparsablePropertiesKey} : ~Has(reply.value, key)
DroppedKeysAreGoneUnlessDotted ==
    (AnsweredObject /\ \A key \in DroppedEventPropertyKeys : ~DottedUnder(key)) =>
        DroppedKeysAreGone

Void(v) == v \in {Null, Str(""), Array(<< >>), Object(<< >>)}

\* Every other property with a value is in the answer under its key, the first
\* segment of a dotted one, and a non-empty scalar is never displaced by an
\* empty value.
NoPropertyLost ==
    AnsweredObject =>
        \A i \in DOMAIN Given :
            LET e == Given[i]
                top == <<e.key[1]>>
            IN  (~IsFeature(e.key) /\ e.key \notin DroppedEventPropertyKeys
                    /\ top # FeatureFlagsKey /\ (Len(e.key) > 1 \/ e.value # Null)) =>
                /\ Has(reply.value, top)
                /\ (/\ e.value.kind \in {"string", "number", "bool"}
                    /\ ~Void(e.value)
                    /\ Len(e.key) = 1
                    /\ Child(EventPropertyRules, top) = NoRule) =>
                        ~Void(At(reply.value, top))

\* Cleaning an answer again changes nothing, but that the record of rejected
\* properties, which is drop-listed, goes; and if there is no property under an
\* array rule either, the answer comes back as the raw row.
WithoutRecord(v) ==
    IF v.kind # "object" THEN v
    ELSE Object(SelectSeq(v.entries, LAMBDA e : e.key # UnparsablePropertiesKey))
SecondPassChangesNothing ==
    (Answered /\ (AnsweredObject => \A key \in DroppedEventPropertyKeys : ~DottedUnder(key))) =>
        LET again == CleanEventProperties(reply.value)
        IN  /\ again.value = WithoutRecord(reply.value)
            /\ (/\ WithoutRecord(reply.value) = reply.value
                /\ \A es \in EntriesIn(reply.value) : \A i \in DOMAIN es :
                      Child(EventPropertyRules, es[i].key) = NoRule) => ~again.mutated
=============================================================================
