---------------------------- MODULE MCDocuments ----------------------------
(***************************************************************************)
(* Instances for TLC of what the programs other than                       *)
(* json_clean_posthog_event_properties_udf make of a document: KeyDedup,   *)
(* DropKeys and EmptyValues, and the first two on pooled nodes, NodePool.  *)
(* A behaviour is one of the module that `machine` stands for.             *)
(***************************************************************************)
EXTENDS JsonTree

CONSTANTS
    Machines,  \* of "dedup", "drop", "empty" and "nodes"
    MaxRows

VARIABLES machine, program, keys, pc, row, reply, heap, root, served

-----------------------------------------------------------------------------
Big == Number("9223372036854775808")
Bigs == {Big.text}
One == Number("1")
Word == Str("word")
Field(key, value) == Object(<<Pair(key, value)>>)

A == <<"a">>
B == <<"b">>
AB == <<"a", "b">>
ABC == <<"a", "b", "c">>

(* KeyDedup: keys that repeat, that are dotted, and that lead through each *)
(* other.                                                                  *)
DedupKeys == {A, AB, ABC, B}
DedupValues == {Null, Str(""), One, Big, Object(<< >>), Object(<<Pair(B, Str("")), Pair(B, One)>>)}

\* Documents that are no objects, and objects inside arrays and objects.
Inner == {Object(<<Pair(k, Null), Pair(l, Big)>>) : k, l \in DedupKeys}
DedupDocuments ==
    DedupValues \union {Array(<<o, Null>>) : o \in Inner}
                \union {Field(B, Array(<<o>>)) : o \in Inner}
                \union {Field(A, o) : o \in Inner}

(* DropKeys: arguments in which a key may occur together with paths below  *)
(* it.                                                                     *)
DropKeyLists == SeqOf({A, B, AB, ABC}, 2) \union {<<ABC, AB, A>>, <<ABC, <<"a", "c">>, B>>}
DropRowKeys == {A, AB, B}
DropValues == {One, Object(<< >>), Field(B, One), Field(<<"b", "c">>, One),
               Array(<<Field(B, Field(<<"c">>, One)), One>>)}
DropDocuments ==
    DropValues \union {Array(<<Field(k, v), Field(A, v)>>) : k \in {A, AB}, v \in DropValues}

(* EmptyValues: documents of depth two with two children at each level,    *)
(* and wider or deeper ones.                                               *)
EmptyScalars == {Null, Str(""), Str(" "), Big}
AtMost(n, values) == UNION {[1..k -> values] : k \in 0..n}
Arrays(n, values) == {Array(vs) : vs \in AtMost(n, values)}
Objects(n, values) ==
    {Object([i \in DOMAIN vs |-> Pair(IF i = 1 THEN A ELSE B, vs[i])]) : vs \in AtMost(n, values)}
Flat == EmptyScalars \union Arrays(2, EmptyScalars) \union Objects(2, EmptyScalars)
Deep == {Array(<<v, w>>) : v \in Objects(1, Arrays(1, Flat)), w \in {Null, Bool("false")}}
EmptyDocuments ==
    UNION {Arrays(2, Flat), Objects(2, Flat), Arrays(4, EmptyScalars), Objects(3, EmptyScalars),
           Deep, EmptyScalars}

(* NodePool: two rows served by one process.                               *)
NodeKeys == {A, AB, B}
NodeValues == {Null, Word, Bool("true"), Field(B, Big)}
NodeDocuments == {Array(<<Field(A, Array(<<Null, Big>>)), Word, Bool("false")>>), Word}

-----------------------------------------------------------------------------
Dedup == INSTANCE KeyDedup WITH
            Keys <- DedupKeys, Values <- DedupValues, Size <- 3,
            Documents <- DedupDocuments, BigNumbers <- Bigs
Drop == INSTANCE DropKeys WITH
            KeyLists <- DropKeyLists, Keys <- DropRowKeys, Values <- DropValues, Size <- 2,
            Documents <- DropDocuments
Empty == INSTANCE EmptyValues WITH Documents <- EmptyDocuments, BigNumbers <- Bigs
Nodes == INSTANCE NodePool WITH
            Programs <- {"drop", "dedup"}, KeyLists <- {<<AB, B>>},
            Keys <- NodeKeys, Values <- NodeValues, Size <- 2,
            Documents <- NodeDocuments, BigNumbers <- Bigs

Absent == "absent"
NoNodes == heap = Absent /\ root = Absent /\ served = Absent /\ program = Absent
nodeVars == <<program, heap, root, served>>
documentVars == <<machine, keys, pc, row, reply, nodeVars>>

DocumentInit ==
    /\ machine \in Machines
    /\ \/ machine = "dedup" /\ Dedup!Init /\ keys = Absent /\ NoNodes
       \/ machine = "drop" /\ Drop!Init /\ NoNodes
       \/ machine = "empty" /\ Empty!Init /\ keys = Absent /\ NoNodes
       \/ machine = "nodes" /\ Nodes!Init

DocumentNext ==
    \/ machine = "dedup" /\ Dedup!Next /\ UNCHANGED <<machine, keys, nodeVars>>
    \/ machine = "drop" /\ Drop!Next /\ UNCHANGED <<machine, nodeVars>>
    \/ machine = "empty" /\ Empty!Next /\ UNCHANGED <<machine, keys, nodeVars>>
    \/ machine = "nodes" /\ Nodes!Next /\ UNCHANGED machine

DocumentSpec == DocumentInit /\ [][DocumentNext]_documentVars

-----------------------------------------------------------------------------
(* The properties of the four modules, each of the behaviours of its own.  *)

\* No object of a deduplicated answer has a key twice.
AnswerIsUnique == machine = "dedup" => Dedup!AnswerIsUnique
\* Expansion and deduplication leave every value under its path.
NothingMoves == machine = "dedup" => Dedup!NothingMoves
\* Of values with the same path, the first non-empty one is in the answer.
FirstNonEmptyWins == machine = "dedup" => Dedup!FirstNonEmptyWins

\* Values that no named key or path leads to stay.
OthersStay == machine = "drop" => Drop!OthersStay
\* Nothing is left under a named key or path.
NamedKeysAreGone == machine = "drop" => Drop!NamedKeysAreGone

\* The stripped answer is the JSON of the data that stays.
AnswerIsTheData == machine = "empty" => Empty!AnswerIsTheData
\* Replacing empty strings by null changes nothing else.
OnlyEmptyStringsBecomeNull == machine = "empty" => Empty!OnlyEmptyStringsBecomeNull

\* Pooled nodes give the answers that new ones would give.
NodeAnswersAsIfFresh == machine = "nodes" => Nodes!AnswersAsIfFresh
\* No node is in use twice, or in use and in the pool.
NoNodeShared == machine = "nodes" => Nodes!NoNodeShared
=============================================================================
