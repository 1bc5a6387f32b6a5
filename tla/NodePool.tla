------------------------------ MODULE NodePool -----------------------------
(***************************************************************************)
(* The memory of json_drop_keys_udf and json_key_dedup_udf.  Both build a  *)
(* tree of nodes from the parsed row, change it in place, write it and put *)
(* its nodes into pools, one for each type.  A node comes back from its    *)
(* pool with the fields it had when it was put there; a garbage collection *)
(* may take nodes away and change their order at any time between rows.    *)
(* What the nodes hold is compared with what DropKeys and KeyDedup say of  *)
(* the row.  Recursive operators: this module is for TLC only.             *)
(***************************************************************************)
EXTENDS JsonTree

CONSTANTS
    Programs,    \* of "drop" and "dedup"
    KeyLists,    \* arguments of json_drop_keys_udf
    Keys, Values, Size, Documents,  \* the rows, as in KeyDedup
    BigNumbers,  \* numbers outside the signed 64-bit range
    MaxRows      \* bound: rows served by one process

VARIABLES
    program, keys,
    pc,    \* "idle", "built" or "answered"
    row, reply,
    heap,  \* [node, pool]: nodes are numbered from 1, a pool is a sequence
    root,  \* the tree of the current row, already changed
    served \* rows so far

vars == <<program, keys, pc, row, reply, heap, root, served>>

DropOf == INSTANCE DropKeys
DedupOf == INSTANCE KeyDedup

-----------------------------------------------------------------------------
\* The Go types and the nodes New makes; a valueNode holds a string, a number,
\* a bool or null, according to its kind.
NewNode(type) ==
    CASE type = "value" -> [type |-> type, kind |-> "string", str |-> "", num |-> "", b |-> "false"]
      [] type = "object" -> [type |-> type, entries |-> << >>]
      [] type = "array" -> [type |-> type, values |-> << >>]

Get(h, type) ==
    IF h.pool[type] = << >>
    THEN [h |-> [h EXCEPT !.node = Append(@, NewNode(type))], n |-> Len(h.node) + 1]
    ELSE [h |-> [h EXCEPT !.pool[type] = Front(@)], n |-> Last(h.pool[type])]

\* Only the named fields are assigned.
Assign(got, fields) == [got EXCEPT !.h.node[got.n] = fields @@ @]

GetObject(h) == Assign(Get(h, "object"), [entries |-> << >>])

RECURSIVE RecycleNode(_, _)
RecycleNode(h, n) ==
    LET node == h.node[n]
    IN  CASE node.type = "value" ->
                [h EXCEPT !.node[n].str = "", !.node[n].num = "", !.pool["value"] = Append(@, n)]
          [] node.type = "object" ->
                [FoldLeft(LAMBDA g, e : RecycleNode(g, e.value), h, node.entries) EXCEPT
                    !.node[n].entries = << >>, !.pool["object"] = Append(@, n)]
          [] node.type = "array" ->
                [FoldLeft(RecycleNode, h, node.values) EXCEPT
                    !.node[n].values = << >>, !.pool["array"] = Append(@, n)]

\* Write: the JSON of a node.
RECURSIVE Write(_, _)
Write(h, n) ==
    LET node == h.node[n]
    IN  CASE node.type = "object" ->
                Object([i \in DOMAIN node.entries |-> Pair(node.entries[i].key, Write(h, node.entries[i].value))])
          [] node.type = "array" -> Array([i \in DOMAIN node.values |-> Write(h, node.values[i])])
          [] node.type = "value" /\ node.kind = "string" -> Str(node.str)
          [] node.type = "value" /\ node.kind = "number" -> Number(node.num)
          [] node.type = "value" /\ node.kind = "bool" -> Bool(node.b)
          [] OTHER -> Null

-----------------------------------------------------------------------------
ConvertString(h, text) ==
    Assign(Get(h, "value"), [kind |-> "string", str |-> text, num |-> ""])
ConvertNumber(h, text) ==
    IF program = "dedup" /\ text \in BigNumbers THEN ConvertString(h, text)
    ELSE Assign(Get(h, "value"), [kind |-> "number", num |-> text, str |-> ""])
\* Fault: a null is recognised by its empty texts.
ConvertNullUnassigned(h) == Assign(Get(h, "value"), [str |-> "", num |-> ""])

ConvertNull(h) == Assign(Get(h, "value"), [kind |-> "null", str |-> "", num |-> ""])

RECURSIVE ConvertFastJSON(_, _)
AddEntry(h, obj, key, child) == [h EXCEPT !.node[obj].entries = Append(@, Pair(key, child))]
AddValue(h, arr, child) == [h EXCEPT !.node[arr].values = Append(@, child)]
WithEntry(parent, key, child) == [parent EXCEPT !.h = AddEntry(child.h, parent.n, key, child.n)]
WithValue(parent, child) == [parent EXCEPT !.h = AddValue(child.h, parent.n, child.n)]

ConvertFastJSON(h, v) ==
    CASE v.kind = "object" ->
            FoldLeft(LAMBDA obj, e : WithEntry(obj, e.key, ConvertFastJSON(obj.h, e.value)),
                     GetObject(h), v.entries)
      [] v.kind = "array" ->
            FoldLeft(LAMBDA arr, item : WithValue(arr, ConvertFastJSON(arr.h, item)),
                     Assign(Get(h, "array"), [values |-> << >>]), v.values)
      [] v.kind = "string" -> ConvertString(h, v.text)
      [] v.kind = "number" -> ConvertNumber(h, v.text)
      [] v.kind = "bool" ->
            Assign(Get(h, "value"), [kind |-> "bool", b |-> v.text, str |-> "", num |-> ""])
      [] OTHER -> ConvertNull(h)

-----------------------------------------------------------------------------
\* expandDottedEntries on nodes: x holds the heap, the new entries and the
\* index; parent 0 is the object that is expanded.
AppendNode(x, parent, key, child) ==
    [h     |-> IF parent = 0 THEN x.h ELSE AddEntry(x.h, parent, <<key>>, child),
     es    |-> IF parent = 0 THEN Append(x.es, Pair(<<key>>, child)) ELSE x.es,
     index |-> IF x.h.node[child].type = "object" THEN (<<parent, key>> :> child) @@ x.index
               ELSE [k \in DOMAIN x.index \ {<<parent, key>>} |-> x.index[k]]]

RECURSIVE InsertNode(_, _, _, _)
Descend(x, parent, key, child) == InsertNode(x, x.index[<<parent, key[1]>>], Tail(key), child)
WithTarget(x, parent, key, got) == AppendNode([x EXCEPT !.h = got.h], parent, key, got.n)
InsertNode(x, parent, key, child) ==
    IF Len(key) = 1 THEN AppendNode(x, parent, key[1], child)
    ELSE Descend(IF <<parent, key[1]>> \in DOMAIN x.index THEN x
                 ELSE WithTarget(x, parent, key[1], GetObject(x.h)), parent, key, child)

SetEntries(h, obj, es) == [h EXCEPT !.node[obj].entries = es]
Expanded(x, obj) == SetEntries(x.h, obj, x.es)
ExpandObject(h, obj) ==
    LET es == h.node[obj].entries
    IN  IF ~Dotted(es) THEN h
        ELSE Expanded(FoldLeft(LAMBDA x, e : InsertNode(x, 0, e.key, e.value),
                               [h |-> h, es |-> << >>, index |-> << >>], es), obj)

\* isNonEmptyValue of json_key_dedup_udf, asked of nodes.
NonEmptyNodes(h, es) ==
    {i \in DOMAIN es :
        LET node == h.node[es[i].value]
        IN  node.type = "value" => /\ node.kind # "null"
                                   /\ node.kind = "string" => node.str # ""}

RECURSIVE DedupNode(_, _)
\* Fault: what is left beyond the survivors, some moved down, is recycled.
KeepFirstRecyclingTail(h, obj) ==
    LET es == h.node[obj].entries
        kept == Deduplicated(es, NonEmptyNodes(h, es))
        tail == SubSeq(es, Len(kept) + 1, Len(es))
    IN  SetEntries(FoldLeft(LAMBDA g, e : RecycleNode(g, e.value), h, tail), obj, kept)

KeepFirst(h, obj) ==
    LET es == h.node[obj].entries
        kept == Deduplicated(es, NonEmptyNodes(h, es))
    IN  SetEntries(h, obj, kept)
DedupEntries(h, obj) ==
    KeepFirst(FoldLeft(LAMBDA g, e : DedupNode(g, e.value), h, h.node[obj].entries), obj)

DedupNode(h, n) ==
    CASE h.node[n].type = "object" -> DedupEntries(ExpandObject(h, n), n)
      [] h.node[n].type = "array" -> FoldLeft(DedupNode, h, h.node[n].values)
      [] OTHER -> h

RECURSIVE DropFromNode(_, _, _)
DropEntry(dict, e) == e.key[1] \in DOMAIN dict /\ dict[e.key[1]] = DropOf!Nil
DropBelow(h, dict, e) ==
    IF e.key[1] \in DOMAIN dict /\ ~DropEntry(dict, e)
    THEN DropFromNode(h, dict[e.key[1]].below, e.value) ELSE h
DropEntries(h, dict, obj) ==
    SetEntries(FoldLeft(LAMBDA g, e : DropBelow(g, dict, e), h, h.node[obj].entries), obj,
               SelectSeq(h.node[obj].entries, LAMBDA e : ~DropEntry(dict, e)))

DropFromNode(h, dict, n) ==
    CASE h.node[n].type = "object" -> DropEntries(ExpandObject(h, n), dict, n)
      [] h.node[n].type = "array" -> FoldLeft(LAMBDA g, m : DropFromNode(g, dict, m), h, h.node[n].values)
      [] OTHER -> h

-----------------------------------------------------------------------------
Init ==
    /\ program \in Programs
    /\ keys \in KeyLists
    /\ pc = "idle"
    /\ row = Null
    /\ reply = Null
    /\ heap = [node |-> << >>, pool |-> [value |-> << >>, object |-> << >>, array |-> << >>]]
    /\ root = 0
    /\ served = 0

\* processLine up to the answer.
Build(v) ==
    /\ pc = "idle"
    /\ served < MaxRows
    /\ row' = v
    /\ LET parsed == ConvertFastJSON(heap, v)
       IN  /\ heap' = IF program = "dedup" THEN DedupNode(parsed.h, parsed.n)
                      ELSE DropFromNode(parsed.h, DropOf!MakeKeyDict(keys), parsed.n)
           /\ root' = parsed.n
    /\ pc' = "built"
    /\ UNCHANGED <<program, keys, reply, served>>

WriteAndRecycle ==
    /\ pc = "built"
    /\ reply' = Write(heap, root)
    /\ heap' = RecycleNode(heap, root)
    /\ root' = 0
    /\ served' = served + 1
    /\ pc' = "answered"
    /\ UNCHANGED <<program, keys, row>>

\* Between rows the pools may lose nodes, and the goroutine may move to
\* another processor, whose pools have them in another order.
NextRow ==
    /\ pc = "answered"
    /\ \E change \in {"none", "reversed", "emptied"} :
          heap' = [heap EXCEPT !.pool = [type \in DOMAIN @ |->
                      CASE change = "none" -> @[type] [] change = "reversed" -> Reverse(@[type])
                        [] change = "emptied" -> << >>]]
    /\ pc' = "idle"
    /\ row' = Null
    /\ reply' = Null
    /\ UNCHANGED <<program, keys, root, served>>

Next ==
    \/ pc = "idle" /\ \E n \in 0..Size : \E es \in [1..n -> [key : Keys, value : Values]] : Build(Object(es))
    \/ pc = "idle" /\ \E v \in Documents : Build(v)
    \/ WriteAndRecycle
    \/ NextRow

Spec == Init /\ [][Next]_vars

-----------------------------------------------------------------------------
\* The answer depends on the row alone, not on the nodes it was built from.
AnswersAsIfFresh ==
    pc = "answered" =>
        reply = IF program = "dedup" THEN DedupOf!Dedup(DedupOf!Converted(row))
                ELSE DropOf!Drop(row, DropOf!MakeKeyDict(keys))

\* The nodes of the tree from n down, once for each way that leads there.
RECURSIVE Reached(_, _)
Below(node) ==
    CASE node.type = "object" -> [i \in DOMAIN node.entries |-> node.entries[i].value]
      [] node.type = "array" -> node.values
      [] OTHER -> << >>
Reached(h, n) ==
    <<n>> \o FlattenSeq([i \in DOMAIN Below(h.node[n]) |-> Reached(h, Below(h.node[n])[i])])

\* No node is in the tree twice, in the pool twice, or in both: a node that is
\* taken from a pool is in use nowhere else.
NoNodeShared ==
    IsInjective(heap.pool["value"] \o heap.pool["object"] \o heap.pool["array"]
                   \o (IF root = 0 THEN << >> ELSE Reached(heap, root)))
=============================================================================
