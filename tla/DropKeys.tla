------------------------------ MODULE DropKeys -----------------------------
(***************************************************************************)
(* json_drop_keys_udf: the key dictionary main builds from its argument,   *)
(* and what processLine makes of one row with it.  Dotted keys of the row  *)
(* are expanded, but only in the objects the dictionary reaches.           *)
(***************************************************************************)
EXTENDS JsonTree

CONSTANTS
    KeyLists,  \* the arguments the program may be started with
    Keys,      \* the keys of the objects that may arrive
    Values,    \* the values under these keys
    Size,      \* how many entries such an object has at most
    Documents  \* other documents that may arrive

VARIABLES
    keys,  \* the argument: a sequence of keys
    pc,    \* "idle", "answered" or "failed"
    row,   \* the document being processed
    reply  \* the answer

vars == <<keys, pc, row, reply>>

-----------------------------------------------------------------------------
\* The dictionary: a key maps to nil, it is to be dropped, or to a dictionary
\* for the object below it.
Nil == [nil |-> TRUE]
Below(dict) == [below |-> dict]

RECURSIVE AddKey(_, _)
\* Fault: a path replaces the others that begin with the same segment.
AddKeyAfresh(dict, key) ==
    (key[1] :> IF Len(key) = 1 THEN Nil ELSE Below(AddKey(<< >>, Tail(key)))) @@ dict

AddKey(dict, key) ==
    LET part == key[1]
        sub == IF part \in DOMAIN dict /\ dict[part] # Nil THEN dict[part].below ELSE << >>
    IN  IF Len(key) = 1 THEN (part :> Nil) @@ dict
        ELSE (part :> Below(AddKey(sub, Tail(key)))) @@ dict

MakeKeyDict(list) == FoldLeft(AddKey, << >>, list)

RECURSIVE Drop(_, _)
DropFromObject(es, dict) ==
    LET expanded == ExpandDottedEntries(es)
        dropped(e) == e.key[1] \in DOMAIN dict /\ dict[e.key[1]] = Nil
        reached(e) == e.key[1] \in DOMAIN dict /\ dict[e.key[1]] # Nil
    IN  Object(ConcatMap(LAMBDA i :
            CASE dropped(expanded[i]) -> << >>
              [] reached(expanded[i]) ->
                    <<[expanded[i] EXCEPT !.value = Drop(@, dict[expanded[i].key[1]].below)]>>
              [] OTHER -> <<expanded[i]>>, expanded))

Drop(v, dict) ==
    CASE v.kind = "object" -> DropFromObject(v.entries, dict)
      [] v.kind = "array" -> Array([i \in DOMAIN v.values |-> Drop(v.values[i], dict)])
      [] OTHER -> v

Init ==
    /\ keys \in KeyLists
    /\ pc = "idle"
    /\ row = Null
    /\ reply = Null

ProcessLine(v) ==
    /\ pc = "idle"
    /\ row' = v
    /\ reply' = Drop(v, MakeKeyDict(keys))
    /\ pc' = "answered"
    /\ UNCHANGED keys

\* The row is not JSON: main exits.
RejectLine ==
    /\ pc = "idle"
    /\ pc' = "failed"
    /\ UNCHANGED <<keys, row, reply>>

NextRow ==
    /\ pc = "answered"
    /\ pc' = "idle"
    /\ row' = Null
    /\ reply' = Null
    /\ UNCHANGED keys

Next ==
    \/ pc = "idle" /\ \E n \in 0..Size : \E es \in [1..n -> [key : Keys, value : Values]] :
          ProcessLine(Object(es))
    \/ pc = "idle" /\ \E v \in Documents : ProcessLine(v)
    \/ RejectLine
    \/ NextRow

Spec == Init /\ [][Next]_vars

-----------------------------------------------------------------------------
Named(path) == \E i \in DOMAIN keys : IsPrefix(keys[i], path)

\* A key that is named before a path below it: the dictionary forgets it.
NamedBeforePathBelow == \E i, j \in DOMAIN keys : i < j /\ IsStrictPrefix(keys[i], keys[j])

\* "Removes the named keys from JSON objects ... paths also apply to objects
\* inside arrays": no value is left under a named path.
NamedKeysAreGone ==
    pc = "answered" => \A l \in Leaves(reply) : ~Named(l.path)

\* Unless a key is named before a path below it: what is left is the row
\* without the values under named paths.  Nothing else is removed or moved, and
\* a value that is there twice stays twice.
OthersStay ==
    (pc = "answered" /\ ~NamedBeforePathBelow) =>
        ToBag(LeafSeq(reply)) = ToBag(SelectSeq(LeafSeq(row), LAMBDA l : ~Named(l.path)))
=============================================================================
