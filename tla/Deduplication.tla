--------------------------- MODULE Deduplication ---------------------------
(***************************************************************************)
(* What the removal of duplicate keys promises to the caller: in one step, *)
(* one entry of each key stays in the object, and the values of the others *)
(* are free.  No loop, map or index is visible.                            *)
(***************************************************************************)
EXTENDS Integers, Sequences

CONSTANTS
    Keys,      \* the keys of the objects
    MaxLen     \* the longest object

VARIABLES
    object,    \* the keys of the object, << >> while none is at hand
    filled,    \* the positions of its non-empty values
    kept,      \* the entries that stay, each with its key and its value
    freed      \* the values that have gone to the free list

vars == <<object, filled, kept, freed>>

Entries == [key : Keys, value : 1..MaxLen]

\* The first of the positions of a key with a non-empty value stays; without
\* such a value, the last position of the key.
Same(j) == {m \in DOMAIN object : object[m] = object[j]}
Stays(j) ==
    IF Same(j) \cap filled # {}
       THEN j \in filled /\ \A m \in Same(j) \cap filled : j <= m
       ELSE \A m \in Same(j) : m <= j

\* These entries, in the order of the object, and no others.
Deduplicated ==
    /\ kept \in Seq(Entries)
    /\ \A w \in DOMAIN kept : kept[w].key = object[kept[w].value]
    /\ \A w1, w2 \in DOMAIN kept : w1 < w2 => kept[w1].value < kept[w2].value
    /\ {kept[w].value : w \in DOMAIN kept} = {j \in DOMAIN object : Stays(j)}
    /\ freed = {j \in DOMAIN object : ~Stays(j)}

Nothing == object = << >> /\ filled = {} /\ kept = << >> /\ freed = {}

Init == Nothing

Deduplicate ==
    /\ object = << >>
    /\ object' \in Seq(Keys)
    /\ Len(object') <= MaxLen
    /\ filled' \subseteq DOMAIN object'
    /\ Deduplicated'

\* The caller goes on with what was kept.
Return == Nothing'

Next == Deduplicate \/ Return

Spec == Init /\ [][Next]_vars
=============================================================================
