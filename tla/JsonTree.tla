------------------------------ MODULE JsonTree -----------------------------
(***************************************************************************)
(* JSON documents as the programs hold them after parsing, and the two     *)
(* algorithms three of the programs share: the expansion of dotted keys    *)
(* into nested objects and the removal of duplicate keys.                  *)
(*                                                                         *)
(* An object is a sequence of entries: keys may repeat and their order     *)
(* matters.  A key is the sequence of its dot-separated segments, so that  *)
(* <<"a", "b">> is the key "a.b".  The text of a string is either a plain  *)
(* text or the JSON form of an array or object.  Recursive operators: this *)
(* module is for TLC only.                                                 *)
(***************************************************************************)
EXTENDS Integers, SequencesExt, FiniteSetsExt, TLC

Null == [kind |-> "null"]
Bool(text) == [kind |-> "bool", text |-> text]
Number(text) == [kind |-> "number", text |-> text]
Str(text) == [kind |-> "string", text |-> text]
JsonText(value) == [kind |-> "string", json |-> value]
Array(values) == [kind |-> "array", values |-> values]
Object(entries) == [kind |-> "object", entries |-> entries]
Pair(key, value) == [key |-> key, value |-> value]

IsJsonText(v) == v.kind = "string" /\ "json" \in DOMAIN v

\* The concatenation of op applied to the positions of s.
ConcatMap(op(_), s) == FlattenSeq([i \in DOMAIN s |-> op(i)])

Dotted(es) == \E i \in DOMAIN es : Len(es[i].key) > 1

-----------------------------------------------------------------------------
(* Expansion of dotted keys.  The code keeps an index from (parent object, *)
(* key) to the object that the key holds there.  An object is named by its *)
(* place in the tree under construction: the positions of the entries that *)
(* lead to it, << >> being the root.  Entries are only ever appended, so   *)
(* that places do not move.                                                *)

RECURSIVE EntriesAt(_, _)
EntriesAt(es, place) ==
    IF place = << >> THEN es
    ELSE EntriesAt(es[Head(place)].value.entries, Tail(place))

RECURSIVE AppendAt(_, _, _)
AppendAt(es, place, e) ==
    IF place = << >> THEN Append(es, e)
    ELSE [es EXCEPT ![Head(place)].value.entries = AppendAt(@, Tail(place), e)]

\* Only an object that is appended under a key is found again under that key;
\* any other value hides the object that was there.
AppendEntry(tree, parent, key, child) ==
    LET position == Len(EntriesAt(tree.entries, parent)) + 1
        mergeKey == <<parent, key>>
    IN  [entries |-> AppendAt(tree.entries, parent, Pair(<<key>>, child)),
         index   |-> IF child.kind = "object"
                     THEN (mergeKey :> Append(parent, position)) @@ tree.index
                     ELSE [k \in DOMAIN tree.index \ {mergeKey} |-> tree.index[k]]]

RECURSIVE InsertDottedKey(_, _, _, _)
\* Fault: the rest of the path is followed from the same object.
InsertWithoutDescent(tree, parent, key, child) ==
    IF Len(key) = 1 THEN AppendEntry(tree, parent, key[1], child)
    ELSE InsertDottedKey(AppendEntry(tree, parent, key[1], Object(<< >>)),
                         parent, Tail(key), child)

InsertDottedKey(tree, parent, key, child) ==
    IF Len(key) = 1 THEN AppendEntry(tree, parent, key[1], child)
    ELSE LET grown == IF <<parent, key[1]>> \in DOMAIN tree.index THEN tree
                      ELSE AppendEntry(tree, parent, key[1], Object(<< >>))
         IN  InsertDottedKey(grown, grown.index[<<parent, key[1]>>], Tail(key), child)

ExpandDottedEntries(es) ==
    IF ~Dotted(es) THEN es
    ELSE FoldLeft(LAMBDA tree, e : InsertDottedKey(tree, << >>, e.key, e.value),
                  [entries |-> << >>, index |-> << >>], es).entries

-----------------------------------------------------------------------------
\* Of the entries with one key the first non-empty one is kept, and the last
\* one when all are empty.  What counts as empty differs between programs:
\* nonEmpty is the set of the positions with a non-empty value.
Keeps(es, nonEmpty, i) ==
    LET same == {j \in DOMAIN es : es[j].key = es[i].key}
        full == same \intersect nonEmpty
    IN  i = IF full = {} THEN Max(same) ELSE Min(full)

Deduplicated(es, nonEmpty) ==
    ConcatMap(LAMBDA i : IF Keeps(es, nonEmpty, i) THEN <<es[i]>> ELSE << >>, es)

-----------------------------------------------------------------------------
(* Questions about a whole document.                                       *)

\* The entry sequences of all objects in v, at any depth.
RECURSIVE EntriesIn(_)
EntriesIn(v) ==
    CASE v.kind = "object" ->
            {v.entries} \union UNION {EntriesIn(v.entries[i].value) : i \in DOMAIN v.entries}
      [] v.kind = "array" -> UNION {EntriesIn(v.values[i]) : i \in DOMAIN v.values}
      [] OTHER -> {}

NoDottedKeys(v) == \A es \in EntriesIn(v) : ~Dotted(es)

NoDuplicateKeys(v) ==
    \A es \in EntriesIn(v) : \A i, j \in DOMAIN es : es[i].key = es[j].key => i = j

NoNullFields(v) == \A es \in EntriesIn(v) : \A i \in DOMAIN es : es[i].value # Null

\* The values at the ends of a document in their order, each with the keys that
\* lead to it, a dotted key contributing all its segments, and the places it has
\* in the arrays on the way.
RECURSIVE LeafSeq(_)
LeafSeq(v) ==
    LET below(child, at(_)) == [k \in DOMAIN LeafSeq(child) |-> at(LeafSeq(child)[k])]
        inField(i, l) == [l EXCEPT !.path = v.entries[i].key \o @]
        inArray(i, l) == [l EXCEPT !.places = <<i>> \o @]
    IN  CASE v.kind = "object" ->
                ConcatMap(LAMBDA i : below(v.entries[i].value, LAMBDA l : inField(i, l)), v.entries)
          [] v.kind = "array" ->
                ConcatMap(LAMBDA i : below(v.values[i], LAMBDA l : inArray(i, l)), v.values)
          [] OTHER -> <<[path |-> << >>, places |-> << >>, value |-> v]>>

Leaves(v) == ToSet(LeafSeq(v))

\* The value an object has under a key, if the key is there.
Has(v, key) == \E i \in DOMAIN v.entries : v.entries[i].key = key
At(v, key) == v.entries[Min({i \in DOMAIN v.entries : v.entries[i].key = key})].value
=============================================================================
