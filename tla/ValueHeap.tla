----------------------------- MODULE ValueHeap -----------------------------
(***************************************************************************)
(* The memory of json_clean_posthog_event_properties_udf.  The values of a *)
(* document are cells that point to each other; cells that are dropped go  *)
(* to a free list, from which the next ones are taken, in this row and the *)
(* ones that follow.  The steps of EventClean are done here on the cells,  *)
(* in the order of the code, and shown to have the same outcome.           *)
(* Recursive operators: this module is for TLC only.                       *)
(***************************************************************************)
EXTENDS JsonTree

CONSTANTS
    Themes, Documents, FeatureName, BigNumbers,  \* as in EventClean; a theme has a
             \* bound of its own, rows, for the rows before which it arrives
    Fragments,  \* texts that begin like JSON and are not: what is parsed of each
    MaxRows  \* bound: rows served by one process

VARIABLES
    pc,    \* "idle", "cleaned", "answered" or "failed"
    row, reply,
    heap,  \* [cell, free, mutated]: cells are numbered from 1
    root,  \* the cleaned document
    served \* rows so far

vars == <<pc, row, reply, heap, root, served>>

NoRow == [ok |-> TRUE, plain |-> TRUE, value |-> Null]
NoReply == [raw |-> TRUE, value |-> Null]

\* What is abstracted: the row counts as processed when its answer is written.
Abstract == INSTANCE EventClean WITH
                pc <- IF pc = "cleaned" THEN "idle" ELSE pc,
                row <- IF pc = "cleaned" THEN NoRow ELSE row

-----------------------------------------------------------------------------
\* A cell: s is the text of a string, number or literal, as a document.
Blank(kind) == [kind |-> kind, s |-> Null, entries |-> << >>, values |-> << >>]

NewValue(h, kind) ==
    IF h.free = << >> THEN [h |-> [h EXCEPT !.cell = Append(@, Blank(kind))], v |-> Len(h.cell) + 1]
    ELSE [h |-> [h EXCEPT !.cell[Last(h.free)] = Blank(kind), !.free = Front(@)], v |-> Last(h.free)]

Children(c) == [i \in DOMAIN c.entries |-> c.entries[i].value] \o c.values

RECURSIVE Recycle(_, _)
Recycle(h, v) ==
    [FoldLeft(Recycle, h, Children(h.cell[v])) EXCEPT
        !.cell[v] = Blank(@.kind), !.free = Append(@, v)]

\* Fault: the children of a reused value are forgotten.
ResetValueOnly(h, v, kind) == [h EXCEPT !.cell[v] = Blank(kind)]

ResetValue(h, v, kind) ==
    [FoldLeft(Recycle, h, Children(h.cell[v])) EXCEPT !.cell[v] = Blank(kind)]

Mutated(h) == [h EXCEPT !.mutated = TRUE]

\* appends a child to an object, under a key, or to an array.
Attach(h, parent, key, child) ==
    IF h.cell[parent].kind = "object"
    THEN [h EXCEPT !.cell[parent].entries = Append(@, Pair(key, child))]
    ELSE [h EXCEPT !.cell[parent].values = Append(@, child)]

\* The loops over the entries of an object overwrite the slice they range over.
\* x holds the heap, the object, and how many entries have been written back.
InPlace(h, obj) == [h |-> h, obj |-> obj, written |-> 0]
EntryAt(x, i) == x.h.cell[x.obj].entries[i]
WriteBack(x, e) ==
    [x EXCEPT !.h.cell[x.obj].entries[x.written + 1] = e, !.written = @ + 1]
Cut(x) == [x.h EXCEPT !.cell[x.obj].entries = SubSeq(@, 1, x.written)]
Positions(x) == [i \in DOMAIN x.h.cell[x.obj].entries |-> i]

WithText(new, s) == [new EXCEPT !.h.cell[new.v].s = s]

\* A new string at the end of an array.
AppendString(h, arr, s) ==
    LET new == WithText(NewValue(h, "string"), s) IN Attach(new.h, arr, << >>, new.v)

\* writeValue: the document that a cell holds.
RECURSIVE Read(_, _)
Read(h, v) ==
    LET c == h.cell[v]
    IN  CASE c.kind = "object" ->
                Object([i \in DOMAIN c.entries |-> Pair(c.entries[i].key, Read(h, c.entries[i].value))])
          [] c.kind = "array" -> Array([i \in DOMAIN c.values |-> Read(h, c.values[i])])
          [] OTHER -> c.s

-----------------------------------------------------------------------------
RECURSIVE ParseValue(_, _)
ParseChild(parent, e) ==
    LET child == ParseValue(parent.h, e.value)
    IN  [parent EXCEPT !.h = Attach(child.h, parent.v, e.key, child.v)]

ParseValue(h, d) ==
    CASE d.kind = "object" -> FoldLeft(ParseChild, NewValue(h, "object"), d.entries)
      [] d.kind = "array" ->
            FoldLeft(ParseChild, NewValue(h, "array"),
                     [i \in DOMAIN d.values |-> Pair(<< >>, d.values[i])])
      [] d.kind = "number" /\ d.text \in BigNumbers ->
            WithText(NewValue(Mutated(h), "string"), Str(d.text))
      [] OTHER -> WithText(NewValue(h, d.kind), d)

-----------------------------------------------------------------------------
\* Expansion of dotted keys: x holds the heap, the entries of the object and
\* the index; parent 0 is the object itself.
AppendCell(x, parent, key, child) ==
    [h     |-> IF parent = 0 THEN x.h ELSE Attach(x.h, parent, <<key>>, child),
     es    |-> IF parent = 0 THEN Append(x.es, Pair(<<key>>, child)) ELSE x.es,
     index |-> IF x.h.cell[child].kind = "object" THEN (<<parent, key>> :> child) @@ x.index
               ELSE [k \in DOMAIN x.index \ {<<parent, key>>} |-> x.index[k]]]

RECURSIVE InsertCell(_, _, _, _)
DescendInto(x, parent, key, child) ==
    InsertCell(x, x.index[<<parent, key[1]>>], Tail(key), child)
NewObjectAt(x, parent, key, new) == AppendCell([x EXCEPT !.h = new.h], parent, key, new.v)
InsertCell(x, parent, key, child) ==
    IF Len(key) = 1 THEN AppendCell(x, parent, key[1], child)
    ELSE DescendInto(IF <<parent, key[1]>> \in DOMAIN x.index THEN x
                     ELSE NewObjectAt(x, parent, key[1], NewValue(x.h, "object")),
                     parent, key, child)

Expanded(x, obj) == [x.h EXCEPT !.cell[obj].entries = x.es]
ExpandCells(h, obj) ==
    LET es == h.cell[obj].entries
    IN  IF ~Dotted(es) THEN h
        ELSE Expanded(FoldLeft(LAMBDA x, e : InsertCell(x, 0, e.key, e.value),
                               [h |-> Mutated(h), es |-> << >>, index |-> << >>], es), obj)

\* What EventClean asks of a value can be asked of its cell.
Shallow(h, es) ==
    [i \in DOMAIN es |->
        LET c == h.cell[es[i].value]
        IN  Pair(es[i].key, IF c.kind \in {"object", "array"} THEN c ELSE c.s)]

DeduplicateEntries(h, obj) ==
    LET es == h.cell[obj].entries
        nonEmpty == Abstract!NonEmptyPositions(Shallow(h, es))
        turn(x, i) == IF Keeps(es, nonEmpty, i) THEN WriteBack(x, EntryAt(x, i))
                      ELSE [x EXCEPT !.h = Mutated(Recycle(@, EntryAt(x, i).value))]
    IN  Cut(FoldLeft(turn, InPlace(h, obj), Positions(InPlace(h, obj))))

-----------------------------------------------------------------------------
RECURSIVE CleanNode(_, _, _)
Coerced(h, v) == [ok |-> TRUE, h |-> h, v |-> v]
Incompatible(h) == [ok |-> FALSE, h |-> h]

ReuseAsEmptyArray(h, v) == Coerced(ResetValue(h, v, "array"), v)
ReuseAsStringArray(h, v, s) == Coerced(AppendString(ResetValue(h, v, "array"), v, s), v)

\* parseStringifiedJSON
Cleaned(parsed) == [parsed EXCEPT !.h = CleanNode(parsed.h, Abstract!NoRule, parsed.v)]
ParseStringified(h, json) == Cleaned(ParseValue(h, json))

\* A text that turns out not to be JSON: what has been parsed of it goes.
Discard(parsed) == Recycle(parsed.h, parsed.v)
Attempt(h, text, kinds) ==
    IF text \in DOMAIN Fragments /\ Fragments[text].kind \in kinds
    THEN Discard(ParseValue(h, Fragments[text])) ELSE h

RECURSIVE CoerceObjectArray(_, _)
\* The unpacked value takes the place of the string, or goes.
Unpacked(v, parsed, normalized) ==
    IF normalized.ok THEN Coerced(Recycle(normalized.h, v), normalized.v)
    ELSE Incompatible(Recycle(normalized.h, parsed))
Unpack(v, parsed) == Unpacked(v, parsed.v, CoerceObjectArray(parsed.h, parsed.v))
Wrapped(new, v) == Coerced(Attach(new.h, new.v, << >>, v), new.v)

CoerceObjectArray(h, v) ==
    LET c == h.cell[v]
    IN  CASE c.kind = "array" /\ (\A i \in DOMAIN c.values : h.cell[c.values[i]].kind = "object") ->
                Coerced(h, v)
          [] c.kind = "object" -> Wrapped(NewValue(h, "array"), v)
          [] c.kind = "null" \/ (c.kind = "string" /\ Abstract!IsNullishString(c.s)) ->
                ReuseAsEmptyArray(h, v)
          [] c.kind = "string" /\ IsJsonText(c.s) -> Unpack(v, ParseStringified(h, c.s.json))
          [] OTHER -> Incompatible(Attempt(h, c.s, {"array", "object"}))

RECURSIVE CoerceStringArray(_, _)
\* Fault: the text is taken from the cell after it was given back.
RestringAfterRecycle(h, arr, i) ==
    LET child == h.cell[arr].values[i]
        left == Recycle(h, child)
        str == WithText(NewValue(left, "string"), Abstract!NodeString(Read(left, child)))
    IN  [str.h EXCEPT !.cell[arr].values[i] = str.v]

\* One turn of the loop over the old values: the text of the element is taken,
\* then its cell given back, then a string made.  Each turn appends one to the
\* values, which were cut to none, and so overwrites what it has just read.
Restring(h, arr, i) ==
    LET child == h.cell[arr].values[i]
        str == WithText(NewValue(Recycle(h, child), "string"), Abstract!NodeString(Read(h, child)))
    IN  [str.h EXCEPT !.cell[arr].values[i] = str.v]
Restrung(v, parsed) == CoerceStringArray(Recycle(parsed.h, v), parsed.v)

CoerceStringArray(h, v) ==
    LET c == h.cell[v]
    IN  CASE c.kind = "array" ->
                Coerced(FoldLeft(LAMBDA g, i : Restring(g, v, i), h, [i \in DOMAIN c.values |-> i]), v)
          [] \/ c.kind = "null"
             \/ c.kind = "object" /\ c.entries = << >>
             \/ c.kind = "string" /\ Abstract!IsNullishString(c.s) -> ReuseAsEmptyArray(h, v)
          [] c.kind = "string" /\ IsJsonText(c.s) /\ c.s.json.kind = "array" ->
                Restrung(v, ParseStringified(h, c.s.json))
          [] OTHER -> ReuseAsStringArray(Attempt(h, c.s, {"array"}), v, Abstract!NodeString(Read(h, v)))

NormalizeValue(normalization, h, v) ==
    IF normalization = "strings" THEN CoerceStringArray(h, v) ELSE CoerceObjectArray(h, v)

-----------------------------------------------------------------------------
\* One turn of the loop of cleanObject; x holds the rejected entries as well.
Placed(x, h, key, v) ==
    IF h.cell[v].kind = "null" THEN [x EXCEPT !.h = Recycle(Mutated(h), v)]
    ELSE WriteBack([x EXCEPT !.h = h], Pair(key, v))
Normalized(x, key, v, coerced) ==
    IF coerced.ok THEN Placed(x, coerced.h, key, coerced.v)
    ELSE Placed([x EXCEPT !.rejected = Append(@, Pair(key, Read(coerced.h, v)))],
                ResetValue(coerced.h, v, "array"), key, v)
Turn(x, rule, e, h) ==
    IF rule.normalization = "none" THEN Placed(x, h, e.key, e.value)
    ELSE Normalized(x, e.key, e.value, NormalizeValue(rule.normalization, Mutated(h), e.value))

Marker(x) == WithText(NewValue(Cut(x), "string"), JsonText(Object(x.rejected)))
Marked(obj, marker) == Attach(marker.h, obj, Abstract!UnparsablePropertiesKey, marker.v)
AfterLoop(x) == IF x.rejected = << >> THEN Cut(x) ELSE Marked(x.obj, Marker(x))

CleanEntry(x, rule, e) == Turn(x, rule, e, CleanNode(x.h, rule, e.value))
Loop(rules, x) ==
    FoldLeft(LAMBDA y, i : CleanEntry(y, Abstract!Child(rules, EntryAt(y, i).key), EntryAt(y, i)),
             x @@ [rejected |-> << >>], Positions(x))

CleanNode(h, rules, v) ==
    CASE h.cell[v].kind = "object" ->
            DeduplicateEntries(AfterLoop(Loop(rules, InPlace(ExpandCells(h, v), v))), v)
      [] h.cell[v].kind = "array" ->
            FoldLeft(LAMBDA g, child : CleanNode(g, rules, child), h, h.cell[v].values)
      [] OTHER -> h

\* The loop of cleanEventProperties: flags receives the feature properties.
Group(x, shallow, flags, i) ==
    LET e == EntryAt(x, i)
    IN  CASE Abstract!Removed(shallow, i) -> [x EXCEPT !.h = Mutated(Recycle(@, e.value))]
          [] Abstract!IsFeature(e.key) ->
                [x EXCEPT !.h = Attach(Mutated(@), flags,
                                       <<FeatureName[e.key[1]]>> \o Tail(e.key), e.value)]
          [] OTHER -> WriteBack(x, e)
Grouped(h, v, shallow, flags) ==
    Cut(FoldLeft(LAMBDA x, i : Group(x, shallow, flags, i), InPlace(h, v), Positions(InPlace(h, v))))

GroupFeatures(h, v) ==
    LET es == h.cell[v].entries
        shallow == Shallow(h, es)
        home == Abstract!FlagsHome(shallow)
        created == NewValue(h, "object")
    IN  CASE Abstract!HasFeatures(shallow) /\ home = 0 ->
                Attach(Grouped(created.h, v, shallow, created.v), v, Abstract!FeatureFlagsKey, created.v)
          [] home # 0 -> Grouped(h, v, shallow, es[home].value)
          [] OTHER -> Grouped(h, v, shallow, 0)

CleanEventProperties(h, v) ==
    CleanNode(IF h.cell[v].kind = "object" THEN GroupFeatures(h, v) ELSE h,
              Abstract!EventPropertyRules, v)

-----------------------------------------------------------------------------
Init ==
    /\ pc = "idle"
    /\ row = NoRow
    /\ reply = NoReply
    /\ heap = [cell |-> << >>, free |-> << >>, mutated |-> FALSE]
    /\ root = 0
    /\ served = 0

\* processLine up to the answer.
Clean(r) ==
    /\ pc = "idle"
    /\ served < MaxRows
    /\ r.ok
    /\ row' = r
    /\ LET parsed == ParseValue([heap EXCEPT !.mutated = FALSE], r.value)
       IN  /\ heap' = CleanEventProperties(parsed.h, parsed.v)
           /\ root' = parsed.v
    /\ pc' = "cleaned"
    /\ UNCHANGED <<reply, served>>

\* The answer is written and all its values go to the free list.
WriteAndRecycle ==
    /\ pc = "cleaned"
    /\ reply' = IF ~heap.mutated /\ row.plain THEN [raw |-> TRUE, value |-> row.value]
                ELSE [raw |-> FALSE, value |-> Read(heap, root)]
    /\ heap' = Recycle(heap, root)
    /\ root' = 0
    /\ pc' = "answered"
    /\ served' = served + 1
    /\ UNCHANGED row

RejectLine(r) ==
    /\ pc = "idle"
    /\ ~r.ok
    /\ row' = r
    /\ pc' = "failed"
    /\ UNCHANGED <<reply, heap, root, served>>

NextRow ==
    /\ pc = "answered"
    /\ pc' = "idle"
    /\ row' = NoRow
    /\ reply' = NoReply
    /\ UNCHANGED <<heap, root, served>>

Arrives(ok, plain, v) ==
    LET r == [ok |-> ok, plain |-> plain, value |-> v] IN Clean(r) \/ RejectLine(r)

Next ==
    \/ pc = "idle" /\ \E t \in {u \in Themes : served < u.rows} : \E n \in 0..t.size :
          \E es \in [1..n -> [key : t.keys, value : t.values]] :
             Arrives(TRUE, TRUE, Object(es))
    \/ pc = "idle" /\ \E v \in Documents : \E plain \in BOOLEAN : Arrives(TRUE, plain, v)
    \/ Arrives(FALSE, TRUE, Null)
    \/ WriteAndRecycle
    \/ NextRow

Spec == Init /\ [][Next]_vars

-----------------------------------------------------------------------------
\* Every answer is the one EventClean gives for the row, from whatever cells
\* of earlier rows the document is built.
AnswersAsIfFresh == Abstract!Spec

\* The cells of the document from v down, once for each way that leads there.
RECURSIVE Reached(_, _)
Reached(h, v) ==
    <<v>> \o FlattenSeq([i \in DOMAIN Children(h.cell[v]) |-> Reached(h, Children(h.cell[v])[i])])

\* At the two moments at which a row is cleaned and at which it is answered,
\* every cell is in one place: at one point of the document or once in the
\* free list.  Then no value of an answer can be handed out again while it is
\* in use, none is freed twice, and none is lost.
EveryCellInOnePlace ==
    LET places == heap.free \o (IF root = 0 THEN << >> ELSE Reached(heap, root))
    IN  /\ Len(places) = Len(heap.cell)
        /\ ToSet(places) = DOMAIN heap.cell
=============================================================================
