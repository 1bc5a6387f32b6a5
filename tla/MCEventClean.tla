--------------------------- MODULE MCEventClean ----------------------------
(***************************************************************************)
(* Instances of EventClean and ValueHeap for TLC: rows are cleaned on      *)
(* documents or on cells, as `level` says.  The rows are all objects of a  *)
(* bounded number of entries over a few keys and values, by theme, and     *)
(* some other documents; on cells there are two in sequence.               *)
(***************************************************************************)
EXTENDS JsonTree

CONSTANTS
    Levels,  \* of "documents" and "cells"
    Themes, Documents,          \* the rows on documents
    CellThemes, CellDocuments,  \* the rows on cells
    FeatureName, BigNumbers, Fragments, MaxRows

VARIABLES level, pc, row, reply, heap, root, served

OnDocuments == INSTANCE EventClean
OnCells == INSTANCE ValueHeap WITH Themes <- CellThemes, Documents <- CellDocuments

rowVars == <<pc, row, reply>>
cellVars == <<heap, root, served>>

CleanInit ==
    /\ level \in Levels
    /\ OnCells!Init

CleanNext ==
    \/ /\ level = "documents"
       /\ OnDocuments!Next
       /\ UNCHANGED <<level, cellVars>>
    \/ /\ level = "cells"
       /\ OnCells!Next
       /\ UNCHANGED level

CleanSpec == CleanInit /\ [][CleanNext]_<<level, rowVars, cellVars>>

-----------------------------------------------------------------------------
(* The rows.                                                               *)
Features == ("$feature/a" :> "a") @@ ("$feature/b" :> "b")
Bigs == {"18446744073709551616"}

Big == Number("18446744073709551616")
Word == Str("word")
Field(key, value) == Object(<<Pair(<<key>>, value)>>)

\* Keys that repeat, that are dotted, and that lead through each other.
DottedKeys ==
    [keys |-> {<<"k">>, <<"k", "x">>, <<"k", "y">>, <<"k", "x", "z">>},
     values |-> {Null, Str(""), Word, Object(<< >>), Field("x", Word)},
     size |-> 3]

\* Features, flags that exist already, drop-listed keys.
FeatureKeys ==
    [keys |-> {<<"$feature/a">>, <<"$feature/b">>, <<"$feature/a", "x">>,
               <<"$feature_flags">>, <<"$set">>, <<"k">>},
     values |-> {Null, Word, Field("a", Number("1"))},
     size |-> 3]

\* Properties under array rules, in every form they arrive in.
ArrayValues ==
    {Null, Str(""), Word, Number("1"), Big, Field("x", Null),
     Array(<<Field("x", Word), Field("x", Big)>>), Array(<<Bool("true"), Null>>),
     JsonText(Array(<<Object(<<Pair(<<"x", "y">>, Big), Pair(<<"z">>, Null)>>)>>)),
     JsonText(Array(<<Number("1"), Field("x", Null)>>)),
     JsonText(Field("x", Null))}
RuleKeys ==
    [keys |-> {<<"$exception_list">>, <<"$exception_types">>,
               <<"$properties_unparsable">>, <<"k">>},
     values |-> ArrayValues,
     size |-> 2]

EveryTheme == {DottedKeys, FeatureKeys, RuleKeys}

\* On cells: keys that repeat or are dotted, features, drop-listed keys.
MixedKeys ==
    [keys |-> {<<"k">>, <<"k", "x">>, <<"$feature/a">>, <<"$feature_flags">>, <<"$set">>},
     values |-> {Null, Field("x", Word)},
     size |-> 2, rows |-> 2]

\* A list whose second element is no JSON.
Torn == Str("[{},x")
Begun == (Torn :> Array(<<Object(<< >>)>>))

\* Every way into a coercion; two at once only in the first row.
CoercedKeys(size, rows) ==
    [keys |-> {<<"$exception_list">>, <<"$exception_types">>},
     values |-> {Null, Str(""), Word, Field("x", Null), Array(<<Field("x", Big)>>),
                 Array(<<Bool("true"), Array(<<Word>>)>>),
                 JsonText(Array(<<Object(<<Pair(<<"x", "y">>, Big), Pair(<<"z">>, Null)>>)>>)),
                 JsonText(Array(<<Number("1"), Field("x", Null)>>)),
                 JsonText(Field("x", Word)), Torn},
     size |-> size, rows |-> rows]

EveryCellTheme == {MixedKeys, CoercedKeys(2, 1), CoercedKeys(1, 2)}
OtherCellDocuments == {Word, Array(<<Field("k", Null), Big>>)}

\* Documents that are no objects, and objects inside arrays; with and without
\* whitespace.
OtherDocuments ==
    ArrayValues \union
    {Array(<<Object(<<Pair(k, v)>>), w>>) :
        k \in {<<"$exception_list">>, <<"$set">>, <<"k">>, <<"k", "x">>},
        v \in ArrayValues, w \in {Null, Word, Field("k", Big)}}

\* Dotted keys under the keys that cleanEventProperties treats by name.
DottedDropped ==
    {[keys |-> {<<"$set", "x">>, <<"$set">>, <<"k">>},
      values |-> {Word, Field("x", Word)}, size |-> 2]}
DottedFlags ==
    {[keys |-> {<<"$feature_flags", "a">>, <<"$feature/b">>, <<"k">>},
      values |-> {Word, Field("x", Word)}, size |-> 2]}
DottedMarker ==
    {[keys |-> {<<"$properties_unparsable", "x">>, <<"$exception_list">>, <<"k">>},
      values |-> {Word, Number("1"), Field("x", Word)}, size |-> 2]}

-----------------------------------------------------------------------------
(* The properties of the two modules, each of the behaviours of its own.   *)

\* A row is returned raw only if cleaning it would give the same document.
RawIsFixedPoint == level = "documents" => OnDocuments!RawIsFixedPoint
\* Nowhere in an answer is a null, a repeated key or a dotted one left.
AnswerIsClean == level = "documents" => OnDocuments!AnswerIsClean
\* What is left under an array rule has the type of the rule.
RuleKeysAreTyped == level = "documents" => OnDocuments!RuleKeysAreTyped
\* A value that a rule rejects is in the record, dotted marker keys excepted.
RejectedAreRecordedUnlessDotted == level = "documents" => OnDocuments!RejectedAreRecordedUnlessDotted
\* Every feature is grouped, unless the row has dotted flag keys.
EveryFeatureGroupedUnlessDotted == level = "documents" => OnDocuments!EveryFeatureGroupedUnlessDotted
\* Drop-listed keys are gone, unless a dotted key leads through them.
DroppedKeysAreGoneUnlessDotted == level = "documents" => OnDocuments!DroppedKeysAreGoneUnlessDotted
\* A property with a non-empty value keeps one.
NoPropertyLost == level = "documents" => OnDocuments!NoPropertyLost
\* Cleaning an answer again changes nothing.
SecondPassChangesNothing == level = "documents" => OnDocuments!SecondPassChangesNothing
\* Drop-listed keys are gone, as README.md:58 has it.
DroppedKeysAreGone == level = "documents" => OnDocuments!DroppedKeysAreGone
\* Every feature is grouped, as README.md:58 has it.
EveryFeatureGrouped == level = "documents" => OnDocuments!EveryFeatureGrouped
\* A value that a rule rejects is in the record, as README.md:58 has it.
NothingRejectedIsLost == level = "documents" => OnDocuments!NothingRejectedIsLost

\* Every cell is in one place of the row or once on the free list.
EveryCellInOnePlace == OnCells!EveryCellInOnePlace

\* Cleaning on cells implements cleaning of documents: reused cells give the
\* answers that new ones would give (OnCells!AnswersAsIfFresh).
AnswersAsIfFresh ==
    /\ OnCells!Abstract!Init
    /\ [][level = "cells" => [OnCells!Abstract!Next]_(OnCells!Abstract!vars)]_<<level, rowVars, cellVars>>
=============================================================================
