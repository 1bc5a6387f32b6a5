----------------------------- MODULE DedupLoop -----------------------------
(***************************************************************************)
(* The in-place removal of duplicate keys from one JSON object:            *)
(* deduplicateEntries of json_clean_posthog_event_properties_udf (and, but *)
(* for recycling and the mutated flag, objectNode.Dedup of                 *)
(* json_key_dedup_udf).                                                    *)
(*                                                                         *)
(* A first loop over the entries records in the map `info`, for every key, *)
(* the first non-empty occurrence and the last one.  A second loop reads   *)
(* the same slice again and writes the survivors back to its beginning, so *)
(* that it overwrites the slice it is still reading; every other value     *)
(* goes to the free list.  `info` belongs to the processor and outlives    *)
(* the call: the code empties it before and after.                         *)
(*                                                                         *)
(* A value is a pointer.  The caller's pointers are distinct, so the one   *)
(* found at position j of the object is named j.  Positions start at 1     *)
(* and 0 is the zero value of the code's int fields.                       *)
(***************************************************************************)
EXTENDS Integers, Sequences

CONSTANTS
    Keys,      \* the keys of the objects
    MaxLen     \* the longest object

ASSUME MaxLenAssumption == MaxLen \in Nat

VARIABLES
    pc,        \* "idle", "scan", "compact" or "done"
    original,  \* the keys of the object as the call found it (history)
    nonEmpty,  \* the values for which isNonEmptyValue answers true
    entries,   \* obj.entries[:length], and beyond it what is left over
    length,    \* len(obj.entries)
    i,         \* the position the running loop is about to read
    writeIdx,  \* how many survivors have been written back
    info,      \* p.info
    recycled,  \* how often each value has gone to the free list (history)
    mutated    \* p.mutated

vars == <<pc, original, nonEmpty, entries, length, i, writeIdx, info,
          recycled, mutated>>

-----------------------------------------------------------------------------
Size == Len(original)

Entry == [key : Keys, value : 1..MaxLen]
EntryInfo == [firstNonEmpty : 0..MaxLen, last : 0..MaxLen, hasNonEmpty : BOOLEAN]

\* A map without keys: reading it yields the zero value.
NoInfo == [k \in Keys |->
              [firstNonEmpty |-> 0, last |-> 0, hasNonEmpty |-> FALSE]]

Init ==
    /\ pc = "idle"
    /\ original = << >>
    /\ nonEmpty = {}
    /\ entries = << >>
    /\ length = 0
    /\ i = 1
    /\ writeIdx = 0
    /\ info = NoInfo
    /\ recycled = << >>
    /\ mutated = FALSE

\* cleanObject calls deduplicateEntries on the next object of the row.
Begin(n, keys, filled) ==
    /\ pc = "idle"
    /\ original' = keys
    /\ nonEmpty' = filled
    /\ entries' = [j \in 1..n |-> [key |-> keys[j], value |-> j]]
    /\ length' = n
    /\ recycled' = [j \in 1..n |-> 0]
    /\ i' = 1
    /\ writeIdx' = 0
    /\ IF n = 0
          THEN pc' = "done" /\ UNCHANGED info
          ELSE pc' = "scan" /\ info' = NoInfo
    /\ UNCHANGED mutated

\* Fault: an empty occurrence overwrites the record of a non-empty one.
NoteForgettingNonEmpty(j) ==
    LET filled == entries[j].value \in nonEmpty
    IN  info' = [info EXCEPT ![entries[j].key] =
                    [firstNonEmpty |-> IF filled THEN j ELSE 0,
                     last          |-> j,
                     hasNonEmpty   |-> filled]]

\* One turn of the first loop.
Note(j) ==
    LET key == entries[j].key
        old == info[key]
        first == ~old.hasNonEmpty /\ entries[j].value \in nonEmpty
    IN  info' = [info EXCEPT ![key] =
                    [firstNonEmpty |-> IF first THEN j ELSE old.firstNonEmpty,
                     last          |-> j,
                     hasNonEmpty   |-> old.hasNonEmpty \/ first]]

ScanEntry ==
    /\ pc = "scan"
    /\ i <= length
    /\ Note(i)
    /\ i' = i + 1
    /\ UNCHANGED <<pc, original, nonEmpty, entries, length, writeIdx,
                   recycled, mutated>>

\* Fault: the second loop starts one position early.
EndScanAtZero ==
    /\ pc = "scan"
    /\ i > length
    /\ pc' = "compact"
    /\ i' = 0
    /\ UNCHANGED <<original, nonEmpty, entries, length, writeIdx, info,
                   recycled, mutated>>

EndScan ==
    /\ pc = "scan"
    /\ i > length
    /\ pc' = "compact"
    /\ i' = 1
    /\ UNCHANGED <<original, nonEmpty, entries, length, writeIdx, info,
                   recycled, mutated>>

\* Fault: the last occurrence is kept, non-empty ones or not.
KeepLast(j) == info[entries[j].key].last = j

\* The verdict of the second loop on the entry it has just read.
Keep(j) ==
    LET known == info[entries[j].key]
    IN  IF known.hasNonEmpty THEN known.firstNonEmpty = j ELSE known.last = j

\* Fault: the write index is advanced before it is used.
KeepEntryOneAhead ==
    /\ pc = "compact"
    /\ i <= length
    /\ Keep(i)
    /\ entries' = [entries EXCEPT ![writeIdx + 2] = entries[i]]
    /\ writeIdx' = writeIdx + 1
    /\ i' = i + 1
    /\ UNCHANGED <<pc, original, nonEmpty, length, info, recycled, mutated>>

KeepEntry ==
    /\ pc = "compact"
    /\ i <= length
    /\ Keep(i)
    /\ entries' = [entries EXCEPT ![writeIdx + 1] = entries[i]]
    /\ writeIdx' = writeIdx + 1
    /\ i' = i + 1
    /\ UNCHANGED <<pc, original, nonEmpty, length, info, recycled, mutated>>

\* Fault: the value recycled is the one at the write index.
DropEntryAtWriteIdx ==
    /\ pc = "compact"
    /\ i <= length
    /\ ~Keep(i)
    /\ mutated' = TRUE
    /\ recycled' = [recycled EXCEPT ![entries[writeIdx + 1].value] = @ + 1]
    /\ i' = i + 1
    /\ UNCHANGED <<pc, original, nonEmpty, entries, length, writeIdx, info>>

DropEntry ==
    /\ pc = "compact"
    /\ i <= length
    /\ ~Keep(i)
    /\ mutated' = TRUE
    /\ recycled' = [recycled EXCEPT ![entries[i].value] = @ + 1]
    /\ i' = i + 1
    /\ UNCHANGED <<pc, original, nonEmpty, entries, length, writeIdx, info>>

\* obj.entries = obj.entries[:writeIdx], and p.info is emptied.
Truncate ==
    /\ pc = "compact"
    /\ i > length
    /\ pc' = "done"
    /\ length' = writeIdx
    /\ info' = NoInfo
    /\ UNCHANGED <<original, nonEmpty, entries, i, writeIdx, recycled, mutated>>

\* The caller goes on with the object; the row, and its flag, may end here.
Return ==
    /\ pc = "done"
    /\ pc' = "idle"
    /\ mutated' \in {mutated, FALSE}
    /\ original' = << >>
    /\ nonEmpty' = {}
    /\ entries' = << >>
    /\ length' = 0
    /\ i' = 1
    /\ writeIdx' = 0
    /\ recycled' = << >>
    /\ UNCHANGED info

Next ==
    \/ \E n \in 0..MaxLen : \E keys \in [1..n -> Keys], filled \in SUBSET (1..n) :
          Begin(n, keys, filled)
    \/ ScanEntry
    \/ EndScan
    \/ KeepEntry
    \/ DropEntry
    \/ Truncate
    \/ Return

Spec == Init /\ [][Next]_vars

-----------------------------------------------------------------------------
(* What removing duplicate keys means, read off the object as it was found. *)

\* Position j is the first non-empty one of its key.
FirstNonEmpty(j) ==
    /\ j \in nonEmpty
    /\ \A m \in 1..(j - 1) : original[m] = original[j] => m \notin nonEmpty

\* Position j is the last of its key, and every occurrence of it is empty.
LastOfEmpty(j) ==
    /\ \A m \in 1..Size : original[m] = original[j] => m \notin nonEmpty
    /\ \A m \in (j + 1)..Size : original[m] # original[j]

Survives(j) == FirstNonEmpty(j) \/ LastOfEmpty(j)

TypeOK ==
    /\ pc \in {"idle", "scan", "compact", "done"}
    /\ original \in [1..Size -> Keys]
    /\ Size \in 0..MaxLen
    /\ nonEmpty \subseteq 1..Size
    /\ entries \in [1..Size -> Entry]
    /\ length \in 0..Size
    /\ i \in 1..(Size + 1)
    /\ writeIdx \in 0..Size
    /\ info \in [Keys -> EntryInfo]
    /\ recycled \in [1..Size -> Nat]
    /\ mutated \in BOOLEAN

\* While the second loop overwrites the slice it reads, the part it has not
\* read yet is what the caller passed in: writing never overtakes reading.
UnreadIntact ==
    pc \in {"scan", "compact"} =>
        \A j \in i..Size : entries[j] = [key |-> original[j], value |-> j]

\* The object that is returned holds the surviving entries, in the order they
\* came in and each under its own key.
ResultIsSurvivors ==
    pc = "done" =>
        /\ \A w \in 1..length : entries[w].key = original[entries[w].value]
        /\ \A w1, w2 \in 1..length : w1 < w2 => entries[w1].value < entries[w2].value
        /\ {entries[w].value : w \in 1..length} = {j \in 1..Size : Survives(j)}

\* Every key the object had is in the result exactly once, with a non-empty
\* value if any of its values was non-empty.
KeysOnceAndNotLost ==
    pc = "done" =>
        \A j \in 1..Size :
            \E w \in 1..length :
                /\ entries[w].key = original[j]
                /\ j \in nonEmpty => entries[w].value \in nonEmpty
                /\ \A x \in 1..length : entries[x].key = original[j] => x = w

\* The free list never receives a value that stays in the object, nor the same
\* value twice: at the end it has received each dropped value once.
RecycledOnce ==
    /\ \A j \in 1..Size : recycled[j] <= 1
    /\ pc = "done" => \A j \in 1..Size : (recycled[j] = 1) <=> ~Survives(j)

\* If the call dropped anything, the row is marked as changed, so that the
\* caller does not answer with the raw row (processLine tests the flag).
DropMarksRow ==
    (\E j \in 1..Size : recycled[j] > 0) => mutated

\* Nothing learnt about the keys of one object is left for the next one.
InfoEmptyBetweenCalls ==
    pc \in {"idle", "done"} => info = NoInfo

-----------------------------------------------------------------------------
(* What the caller sees of it, see Deduplication: nothing before it is done. *)
AtEnd(value, otherwise) == IF pc = "done" THEN value ELSE otherwise

OneStep == INSTANCE Deduplication
              WITH object <- AtEnd(original, << >>),
                   filled <- AtEnd(nonEmpty, {}),
                   kept   <- AtEnd(SubSeq(entries, 1, length), << >>),
                   freed  <- AtEnd({j \in 1..Size : recycled[j] > 0}, {})

\* The two loops, the map they share, the slice they overwrite while reading it
\* and the free list amount to one step: the caller gets exactly the entries
\* that stay, and exactly the values of the others are free.
RemovesDuplicatesAtOnce == OneStep!Spec
=============================================================================
