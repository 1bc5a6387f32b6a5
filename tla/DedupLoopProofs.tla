-------------------------- MODULE DedupLoopProofs --------------------------
(***************************************************************************)
(* Proofs about DedupLoop, for every set of keys and every length of       *)
(* object.                                                                 *)
(***************************************************************************)
EXTENDS DedupLoop, TLAPS

\* The map describes the positions before n: the last one of every key, and
\* the first one with a non-empty value if there is one.
InfoCovers(n) ==
    \A k \in Keys :
        /\ \A j \in 1..(n - 1) : original[j] = k => j <= info[k].last
        /\ info[k].last # 0 => /\ info[k].last < n
                               /\ original[info[k].last] = k
        /\ info[k].hasNonEmpty =>
              /\ info[k].firstNonEmpty \in 1..(n - 1)
              /\ original[info[k].firstNonEmpty] = k
              /\ FirstNonEmpty(info[k].firstNonEmpty)
        /\ ~info[k].hasNonEmpty =>
              \A j \in 1..(n - 1) : original[j] = k => j \notin nonEmpty

\* The survivors among the positions before n, and only they, have been
\* written back, in order.
WrittenBack(n) ==
    /\ writeIdx < n
    /\ \A w \in 1..writeIdx :
          /\ entries[w].value \in 1..(n - 1)
          /\ entries[w].key = original[entries[w].value]
          /\ Survives(entries[w].value)
    /\ \A w1, w2 \in 1..writeIdx : w1 < w2 => entries[w1].value < entries[w2].value
    /\ \A j \in 1..(n - 1) : Survives(j) => \E w \in 1..writeIdx : entries[w].value = j

\* The other positions before n, and only they, have been recycled, once.
RecycledLosers(n) ==
    \A j \in 1..Size :
        recycled[j] = IF j < n /\ ~Survives(j) THEN 1 ELSE 0

Unread(n) == \A j \in n..Size : entries[j] = [key |-> original[j], value |-> j]

\* A key of the object has a survivor, non-empty if the key has a non-empty value.
EveryKeySurvives ==
    \A j \in 1..Size : \E s \in 1..Size :
        /\ original[s] = original[j]
        /\ Survives(s)
        /\ j \in nonEmpty => s \in nonEmpty

Scanning ==
    pc = "scan" =>
        /\ length = Size
        /\ writeIdx = 0
        /\ InfoCovers(i)
        /\ Unread(1)
        /\ RecycledLosers(1)

Compacting ==
    pc = "compact" =>
        /\ length = Size
        /\ InfoCovers(Size + 1)
        /\ Unread(i)
        /\ WrittenBack(i)
        /\ RecycledLosers(i)

Done ==
    pc = "done" =>
        /\ length = writeIdx
        /\ WrittenBack(Size + 1)
        /\ RecycledLosers(Size + 1)
        /\ EveryKeySurvives

Idle == pc = "idle" => Size = 0

IInv ==
    /\ TypeOK
    /\ Scanning
    /\ Compacting
    /\ Done
    /\ Idle
    /\ DropMarksRow
    /\ InfoEmptyBetweenCalls

-----------------------------------------------------------------------------
\* A key occurs at most once among the survivors.
LEMMA SurvivorsDiffer ==
    ASSUME TypeOK, NEW j \in 1..Size, NEW m \in 1..Size,
           original[j] = original[m], Survives(j), Survives(m)
    PROVE  j = m
<1>1. Size \in Nat
  BY MaxLenAssumption DEF TypeOK
<1>2. CASE FirstNonEmpty(j)
  <2>1. ~LastOfEmpty(m)
    BY <1>2 DEF FirstNonEmpty, LastOfEmpty
  <2>2. FirstNonEmpty(m)
    BY <2>1 DEF Survives
  <2> QED
    BY <1>1, <1>2, <2>2 DEF FirstNonEmpty
<1>3. CASE LastOfEmpty(j)
  <2>1. ~FirstNonEmpty(m)
    BY <1>3 DEF FirstNonEmpty, LastOfEmpty
  <2>2. LastOfEmpty(m)
    BY <2>1 DEF Survives
  <2> QED
    BY <1>1, <1>3, <2>2 DEF LastOfEmpty
<1> QED
  BY <1>2, <1>3 DEF Survives

\* Once the whole object is in the map, the second loop's test of an unread
\* entry decides whether its position survives.
LEMMA KeepIsSurvives ==
    ASSUME TypeOK, InfoCovers(Size + 1), NEW j \in 1..Size,
           entries[j] = [key |-> original[j], value |-> j]
    PROVE  Keep(j) <=> Survives(j)
<1> DEFINE k == original[j]
<1>0. k \in Keys /\ Size \in Nat
  BY MaxLenAssumption DEF TypeOK
<1>1. Keep(j) <=> IF info[k].hasNonEmpty THEN info[k].firstNonEmpty = j
                                         ELSE info[k].last = j
  BY DEF Keep
<1>2. info[k].last \in Nat /\ info[k].firstNonEmpty \in Nat
  BY <1>0 DEF TypeOK, EntryInfo
<1>3. CASE info[k].hasNonEmpty
  <2> DEFINE f == info[k].firstNonEmpty
  <2>1. f \in 1..Size /\ original[f] = k /\ FirstNonEmpty(f)
    BY <1>0, <1>3 DEF InfoCovers
  <2>2. ASSUME f = j PROVE Survives(j)
    BY <2>1, <2>2 DEF Survives
  <2>3. ASSUME Survives(j) PROVE f = j
    BY <2>1, <2>3, SurvivorsDiffer DEF Survives
  <2> QED
    BY <1>1, <1>3, <2>2, <2>3
<1>4. CASE ~info[k].hasNonEmpty
  <2> DEFINE l == info[k].last
  <2>1. \A m \in 1..Size : original[m] = k => m \notin nonEmpty /\ m <= l
    BY <1>0, <1>4 DEF InfoCovers
  <2>2. j <= l /\ l # 0
    BY <1>0, <1>2, <2>1
  <2>3. l \in 1..Size /\ original[l] = k
    BY <1>0, <1>2, <2>2 DEF InfoCovers
  <2>4. ASSUME l = j PROVE Survives(j)
    BY <1>0, <2>1, <2>4 DEF Survives, LastOfEmpty
  <2>5. ASSUME Survives(j) PROVE l = j
    <3>1. LastOfEmpty(j)
      BY <2>1, <2>5 DEF Survives, FirstNonEmpty
    <3> QED
      BY <1>0, <1>2, <2>2, <2>3, <3>1 DEF LastOfEmpty
  <2> QED
    BY <1>1, <1>4, <2>4, <2>5
<1> QED
  BY <1>3, <1>4

\* The complete map names a survivor for every key.
LEMMA MapNamesSurvivors ==
    ASSUME TypeOK, InfoCovers(Size + 1)
    PROVE  EveryKeySurvives
<1> SUFFICES ASSUME NEW j \in 1..Size
             PROVE  \E s \in 1..Size : /\ original[s] = original[j]
                                       /\ Survives(s)
                                       /\ j \in nonEmpty => s \in nonEmpty
  BY DEF EveryKeySurvives
<1> DEFINE k == original[j]
<1>0. k \in Keys /\ Size \in Nat
  BY MaxLenAssumption DEF TypeOK
<1>1. CASE info[k].hasNonEmpty
  <2> DEFINE f == info[k].firstNonEmpty
  <2>1. f \in 1..Size /\ original[f] = k /\ FirstNonEmpty(f)
    BY <1>0, <1>1 DEF InfoCovers
  <2> QED
    BY <2>1 DEF Survives, FirstNonEmpty
<1>2. CASE ~info[k].hasNonEmpty
  <2> DEFINE l == info[k].last
  <2>1. \A m \in 1..Size : original[m] = k => m \notin nonEmpty /\ m <= l
    BY <1>0, <1>2 DEF InfoCovers
  <2>2. l \in Nat
    BY <1>0 DEF TypeOK, EntryInfo
  <2>3. l \in 1..Size /\ original[l] = k
    BY <1>0, <2>1, <2>2 DEF InfoCovers
  <2>4. LastOfEmpty(l)
    BY <1>0, <2>1, <2>2, <2>3 DEF LastOfEmpty
  <2> QED
    BY <2>1, <2>3, <2>4 DEF Survives
<1> QED
  BY <1>1, <1>2

-----------------------------------------------------------------------------
\* Facts that only mention the object as it was found are not disturbed by
\* the loops.
LEMMA SurvivesStable ==
    ASSUME UNCHANGED <<original, nonEmpty>>
    PROVE  /\ Size' = Size
           /\ \A j : FirstNonEmpty(j)' <=> FirstNonEmpty(j)
           /\ \A j : Survives(j)' <=> Survives(j)
BY DEF Size, Survives, FirstNonEmpty, LastOfEmpty

\* The object without entries is a sequence over anything.
LEMMA EmptyObject == ASSUME NEW S PROVE << >> \in [1..0 -> S]
OBVIOUS

\* The call starts with a clean map and a fresh list of pointers.
LEMMA BeginInductive ==
    ASSUME IInv,
           NEW n \in 0..MaxLen, NEW keys \in [1..n -> Keys],
           NEW filled \in SUBSET (1..n), Begin(n, keys, filled)
    PROVE  IInv'
<1> USE MaxLenAssumption
<1>1. Size' = n
  BY DEF Begin, Size
<1>2. TypeOK'
  <2>1. original' \in [1..Size' -> Keys] /\ Size' \in 0..MaxLen
    BY <1>1 DEF Begin
  <2>2. entries' \in [1..Size' -> Entry]
    BY <1>1 DEF Begin, Entry
  <2>3. info' \in [Keys -> EntryInfo]
    <3>1. [firstNonEmpty |-> 0, last |-> 0, hasNonEmpty |-> FALSE] \in EntryInfo
      BY DEF EntryInfo
    <3>2. NoInfo \in [Keys -> EntryInfo]
      BY <3>1 DEF NoInfo
    <3>3. info' = NoInfo \/ info' = info
      BY DEF Begin
    <3> QED
      BY <3>2, <3>3 DEF IInv, TypeOK
  <2>4. recycled' \in [1..Size' -> Nat]
    BY <1>1 DEF Begin
  <2>5. /\ pc' \in {"idle", "scan", "compact", "done"}
        /\ nonEmpty' \subseteq 1..Size'
        /\ length' \in 0..Size'
        /\ i' \in 1..(Size' + 1)
        /\ writeIdx' \in 0..Size'
        /\ mutated' \in BOOLEAN
    BY <1>1 DEF IInv, TypeOK, Begin
  <2> QED
    BY <2>1, <2>2, <2>3, <2>4, <2>5 DEF TypeOK
<1>3. Scanning'
  BY <1>1 DEF Begin, Scanning, InfoCovers, Unread, RecycledLosers, NoInfo
<1>4. Compacting' /\ Idle'
  BY DEF Begin, Compacting, Idle
<1>5. Done'
  BY <1>1 DEF Begin, Done, WrittenBack, RecycledLosers, EveryKeySurvives
<1>6. DropMarksRow'
  BY <1>1 DEF Begin, DropMarksRow
<1>7. InfoEmptyBetweenCalls'
  BY DEF IInv, InfoEmptyBetweenCalls, Begin
<1> QED
  BY <1>2, <1>3, <1>4, <1>5, <1>6, <1>7 DEF IInv

\* One turn of the first loop brings the map up to date with one more entry.
LEMMA ScanEntryInductive ==
    ASSUME IInv, ScanEntry
    PROVE  IInv'
<1> DEFINE key == entries[i].key
           old == info[key]
           first == ~old.hasNonEmpty /\ entries[i].value \in nonEmpty
           new == [firstNonEmpty |-> IF first THEN i ELSE old.firstNonEmpty,
                   last          |-> i,
                   hasNonEmpty   |-> old.hasNonEmpty \/ first]
<1>0. /\ Size \in 0..MaxLen /\ MaxLen \in Nat
      /\ i \in 1..Size /\ length = Size
      /\ entries[i] = [key |-> original[i], value |-> i]
      /\ key = original[i] /\ key \in Keys
      /\ pc' = "scan" /\ i' = i + 1
      /\ info \in [Keys -> EntryInfo]
      /\ InfoCovers(i)
  BY MaxLenAssumption DEF IInv, TypeOK, Scanning, Unread, ScanEntry
<1>1. info' = [info EXCEPT ![key] = new]
  BY DEF ScanEntry, Note
<1>2. UNCHANGED <<original, nonEmpty>>
  BY DEF ScanEntry
<1>3. old \in EntryInfo /\ new \in EntryInfo
  BY <1>0 DEF EntryInfo
<1>4. TypeOK'
  BY <1>0, <1>1, <1>3, SurvivesStable, <1>2 DEF IInv, TypeOK, ScanEntry
<1>6. InfoCovers(i)'
  <2> SUFFICES ASSUME NEW k \in Keys
               PROVE  /\ \A j \in 1..i : original[j] = k => j <= info'[k].last
                      /\ info'[k].last # 0 => /\ info'[k].last < i + 1
                                              /\ original[info'[k].last] = k
                      /\ info'[k].hasNonEmpty =>
                            /\ info'[k].firstNonEmpty \in 1..i
                            /\ original[info'[k].firstNonEmpty] = k
                            /\ FirstNonEmpty(info'[k].firstNonEmpty)
                      /\ ~info'[k].hasNonEmpty =>
                            \A j \in 1..i : original[j] = k => j \notin nonEmpty
    BY <1>0, <1>2 DEF InfoCovers, FirstNonEmpty
  <2>1. CASE k # key
    <3>1. info'[k] = info[k]
      BY <1>1, <1>0, <2>1
    <3>2. info[k].last \in Nat /\ info[k].firstNonEmpty \in Nat
      BY <1>0 DEF EntryInfo
    <3> QED
      BY <1>0, <2>1, <3>1, <3>2 DEF InfoCovers
  <2>2. CASE k = key
    <3>1. info'[k] = new
      BY <1>0, <1>1, <2>2
    <3>2. info'[k].last = i
      BY <3>1
    <3>3. info[k].last \in Nat /\ info[k].firstNonEmpty \in Nat
      BY <1>0 DEF EntryInfo
    <3>4. CASE first
      <4>1. info'[k].firstNonEmpty = i /\ info'[k].hasNonEmpty
        <5>1. new.firstNonEmpty = i
          BY <3>4
        <5>2. new.hasNonEmpty
          BY <3>4
        <5> QED
          BY <3>1, <5>1, <5>2
      <4>2. FirstNonEmpty(i)
        BY <1>0, <2>2, <3>4 DEF InfoCovers, FirstNonEmpty
      <4> QED
        BY <1>0, <2>2, <3>2, <4>1, <4>2
    <3>5. CASE ~first
      <4>1. /\ info'[k].firstNonEmpty = info[k].firstNonEmpty
            /\ info'[k].hasNonEmpty = info[k].hasNonEmpty
        BY <2>2, <3>1, <3>5, <1>3 DEF EntryInfo
      <4>2. ~info[k].hasNonEmpty => i \notin nonEmpty
        BY <1>0, <2>2, <3>5
      <4> QED
        BY <1>0, <2>2, <3>2, <3>3, <4>1, <4>2 DEF InfoCovers
    <3> QED
      BY <3>4, <3>5
  <2> QED
    BY <2>1, <2>2
<1>7. Scanning'
  BY <1>0, <1>2, <1>6, SurvivesStable
  DEF IInv, Scanning, Unread, RecycledLosers, ScanEntry
<1>8. Compacting' /\ Done' /\ Idle' /\ InfoEmptyBetweenCalls'
  BY <1>0 DEF Compacting, Done, Idle, InfoEmptyBetweenCalls
<1>9. DropMarksRow'
  BY SurvivesStable, <1>2 DEF IInv, DropMarksRow, ScanEntry
<1> QED
  BY <1>4, <1>7, <1>8, <1>9 DEF IInv

\* When the first loop ends, the map describes the whole object.
LEMMA EndScanInductive ==
    ASSUME IInv, EndScan
    PROVE  IInv'
<1>0. /\ Size \in Nat /\ length = Size /\ i = Size + 1
      /\ InfoCovers(Size + 1) /\ Unread(1) /\ RecycledLosers(1) /\ writeIdx = 0
  BY MaxLenAssumption DEF IInv, TypeOK, Scanning, EndScan
<1>1. UNCHANGED <<original, nonEmpty>>
  BY DEF EndScan
<1>2. TypeOK'
  BY <1>0, <1>1, SurvivesStable DEF IInv, TypeOK, EndScan
<1>3. InfoCovers(Size + 1)'
  BY <1>0, <1>1, SurvivesStable DEF InfoCovers, EndScan
<1>4. Unread(1)' /\ RecycledLosers(1)'
  BY <1>0, <1>1, SurvivesStable DEF Unread, RecycledLosers, EndScan
<1>5. WrittenBack(1)'
  BY <1>0 DEF WrittenBack, EndScan
<1>6. Compacting'
  BY <1>0, <1>1, <1>3, <1>4, <1>5, SurvivesStable DEF Compacting, EndScan
<1>7. Scanning' /\ Done' /\ Idle' /\ InfoEmptyBetweenCalls'
  BY DEF EndScan, Scanning, Done, Idle, InfoEmptyBetweenCalls
<1>8. DropMarksRow'
  BY <1>1, SurvivesStable DEF IInv, DropMarksRow, EndScan
<1> QED
  BY <1>2, <1>6, <1>7, <1>8 DEF IInv

\* A survivor is written back behind the earlier ones and before the reads.
LEMMA KeepEntryInductive ==
    ASSUME IInv, KeepEntry
    PROVE  IInv'
<1>0. /\ Size \in 0..MaxLen /\ MaxLen \in Nat
      /\ i \in 1..Size /\ length = Size /\ writeIdx \in Nat
      /\ InfoCovers(Size + 1) /\ Unread(i) /\ WrittenBack(i) /\ RecycledLosers(i)
      /\ writeIdx < i
      /\ entries[i] = [key |-> original[i], value |-> i]
      /\ TypeOK
  <2>1. TypeOK /\ Compacting /\ pc = "compact" /\ i <= length
    BY DEF IInv, KeepEntry
  <2>2. Size \in 0..MaxLen /\ MaxLen \in Nat /\ writeIdx \in Nat
    BY <2>1, MaxLenAssumption DEF TypeOK
  <2>3. /\ length = Size /\ InfoCovers(Size + 1) /\ Unread(i) /\ WrittenBack(i)
        /\ RecycledLosers(i)
    BY <2>1 DEF Compacting
  <2>4. i \in 1..Size
    BY <2>1, <2>2, <2>3 DEF TypeOK
  <2> QED
    BY <2>1, <2>2, <2>3, <2>4 DEF Unread, WrittenBack
<1>1. Survives(i)
  BY <1>0, KeepIsSurvives DEF KeepEntry
<1>2. UNCHANGED <<original, nonEmpty>>
  BY DEF KeepEntry
<1>3. /\ entries' = [entries EXCEPT ![writeIdx + 1] = entries[i]]
      /\ writeIdx' = writeIdx + 1 /\ i' = i + 1
      /\ writeIdx + 1 \in 1..i
  BY <1>0 DEF KeepEntry
<1>4. TypeOK'
  BY <1>0, <1>2, <1>3, SurvivesStable DEF TypeOK, KeepEntry
<1>5. /\ entries'[writeIdx + 1] = entries[i]
      /\ \A j \in 1..Size : j # writeIdx + 1 => entries'[j] = entries[j]
  BY <1>0, <1>3 DEF TypeOK
<1>6. Unread(i)'
  BY <1>0, <1>2, <1>3, <1>5, SurvivesStable DEF Unread
<1>7. WrittenBack(i)'
  <2>1. \A w \in 1..writeIdx : entries'[w] = entries[w]
    BY <1>0, <1>5
  <2>2. \A w \in 1..(writeIdx + 1) :
            /\ entries'[w].value \in 1..i
            /\ entries'[w].key = original[entries'[w].value]
            /\ Survives(entries'[w].value)
    BY <1>0, <1>1, <1>5, <2>1 DEF WrittenBack
  <2>3. \A w1, w2 \in 1..(writeIdx + 1) :
            w1 < w2 => entries'[w1].value < entries'[w2].value
    BY <1>0, <1>5, <2>1 DEF WrittenBack
  <2>4. \A j \in 1..i : Survives(j) =>
            \E w \in 1..(writeIdx + 1) : entries'[w].value = j
    BY <1>0, <1>5, <2>1 DEF WrittenBack
  <2>5. \A w \in 1..(writeIdx + 1) : Survives(entries[w].value)'
    BY <1>2, <2>2 DEF Survives, FirstNonEmpty, LastOfEmpty, Size
  <2>6. \A j : Survives(j)' <=> Survives(j)
    BY <1>2, SurvivesStable
  <2> QED
    BY <1>0, <1>2, <1>3, <2>2, <2>3, <2>4, <2>5, <2>6 DEF WrittenBack
<1>8. RecycledLosers(i)'
  BY <1>0, <1>1, <1>2, <1>3, SurvivesStable DEF RecycledLosers, KeepEntry
<1>9. InfoCovers(Size + 1)'
  BY <1>0, <1>2, SurvivesStable DEF InfoCovers, KeepEntry
<1>10. Compacting'
  BY <1>0, <1>2, <1>6, <1>7, <1>8, <1>9, SurvivesStable DEF Compacting, KeepEntry
<1>11. Scanning' /\ Done' /\ Idle' /\ InfoEmptyBetweenCalls'
  BY DEF KeepEntry, Scanning, Done, Idle, InfoEmptyBetweenCalls
<1>12. DropMarksRow'
  BY <1>2, SurvivesStable DEF IInv, DropMarksRow, KeepEntry
<1> QED
  BY <1>4, <1>10, <1>11, <1>12 DEF IInv

\* A dropped entry goes to the free list, for the first time, and marks the row.
LEMMA DropEntryInductive ==
    ASSUME IInv, DropEntry
    PROVE  IInv'
<1>0. /\ Size \in 0..MaxLen /\ MaxLen \in Nat
      /\ i \in 1..Size /\ length = Size /\ writeIdx \in Nat
      /\ InfoCovers(Size + 1) /\ Unread(i) /\ WrittenBack(i) /\ RecycledLosers(i)
      /\ entries[i] = [key |-> original[i], value |-> i]
      /\ TypeOK
  <2>1. TypeOK /\ Compacting /\ pc = "compact" /\ i <= length
    BY DEF IInv, DropEntry
  <2>2. Size \in 0..MaxLen /\ MaxLen \in Nat /\ writeIdx \in Nat
    BY <2>1, MaxLenAssumption DEF TypeOK
  <2>3. /\ length = Size /\ InfoCovers(Size + 1) /\ Unread(i) /\ WrittenBack(i)
        /\ RecycledLosers(i)
    BY <2>1 DEF Compacting
  <2>4. i \in 1..Size
    BY <2>1, <2>2, <2>3 DEF TypeOK
  <2> QED
    BY <2>1, <2>2, <2>3, <2>4 DEF Unread, WrittenBack
<1>1. ~Survives(i)
  BY <1>0, KeepIsSurvives DEF DropEntry
<1>2. UNCHANGED <<original, nonEmpty, entries, writeIdx>> /\ i' = i + 1
  BY DEF DropEntry
<1>3. recycled' = [recycled EXCEPT ![i] = @ + 1]
  BY <1>0 DEF DropEntry
<1>4. TypeOK'
  BY <1>0, <1>2, <1>3, SurvivesStable DEF TypeOK, DropEntry
<1>5. Unread(i)'
  BY <1>0, <1>2, SurvivesStable DEF Unread
<1>6. WrittenBack(i)'
  <2>1. \A w \in 1..writeIdx : entries[w].value \in 1..i
    BY <1>0 DEF WrittenBack
  <2>2. \A j \in 1..i : Survives(j) => \E w \in 1..writeIdx : entries[w].value = j
    BY <1>0, <1>1 DEF WrittenBack
  <2>3. \A w \in 1..writeIdx : Survives(entries[w].value)'
    BY <1>0, <1>2 DEF WrittenBack, Survives, FirstNonEmpty, LastOfEmpty, Size
  <2>4. \A j : Survives(j)' <=> Survives(j)
    BY <1>2, SurvivesStable
  <2> QED
    BY <1>0, <1>2, <2>1, <2>2, <2>3, <2>4 DEF WrittenBack
<1>7. RecycledLosers(i)'
  BY <1>0, <1>1, <1>2, <1>3, SurvivesStable DEF RecycledLosers, TypeOK
<1>8. InfoCovers(Size + 1)'
  BY <1>0, <1>2, SurvivesStable DEF InfoCovers, DropEntry
<1>9. Compacting'
  BY <1>0, <1>2, <1>5, <1>6, <1>7, <1>8, SurvivesStable DEF Compacting, DropEntry
<1>10. Scanning' /\ Done' /\ Idle' /\ InfoEmptyBetweenCalls'
  BY DEF DropEntry, Scanning, Done, Idle, InfoEmptyBetweenCalls
<1>11. DropMarksRow'
  BY DEF DropMarksRow, DropEntry
<1> QED
  BY <1>4, <1>9, <1>10, <1>11 DEF IInv

\* Cutting the slice off after the survivors ends the call and empties the map.
LEMMA TruncateInductive ==
    ASSUME IInv, Truncate
    PROVE  IInv'
<1>0. /\ Size \in 0..MaxLen /\ MaxLen \in Nat /\ i = Size + 1 /\ TypeOK
      /\ InfoCovers(Size + 1) /\ WrittenBack(Size + 1) /\ RecycledLosers(Size + 1)
  BY MaxLenAssumption DEF IInv, TypeOK, Compacting, Truncate
<1>1. UNCHANGED <<original, nonEmpty, entries, writeIdx, recycled>>
  BY DEF Truncate
<1>2. TypeOK'
  <2>1. [firstNonEmpty |-> 0, last |-> 0, hasNonEmpty |-> FALSE] \in EntryInfo
    BY <1>0 DEF EntryInfo
  <2>2. NoInfo \in [Keys -> EntryInfo]
    BY <2>1 DEF NoInfo
  <2> QED
    BY <1>0, <1>1, <2>2, SurvivesStable DEF TypeOK, Truncate
<1>3. WrittenBack(Size + 1)'
  <2>1. \A w \in 1..writeIdx : Survives(entries[w].value)'
    BY <1>0, <1>1 DEF WrittenBack, Survives, FirstNonEmpty, LastOfEmpty, Size
  <2>2. \A j : Survives(j)' <=> Survives(j)
    BY <1>1, SurvivesStable
  <2>3. Size' = Size
    BY <1>1, SurvivesStable
  <2> QED
    BY <1>0, <1>1, <2>1, <2>2, <2>3 DEF WrittenBack
<1>4. RecycledLosers(Size + 1)'
  BY <1>0, <1>1, SurvivesStable DEF RecycledLosers
<1>5. EveryKeySurvives'
  BY <1>0, <1>1, SurvivesStable, MapNamesSurvivors DEF EveryKeySurvives
<1>6. Done'
  BY <1>3, <1>4, <1>5 DEF Done, Truncate
<1>7. Scanning' /\ Compacting' /\ Idle' /\ InfoEmptyBetweenCalls'
  BY DEF Truncate, Scanning, Compacting, Idle, InfoEmptyBetweenCalls
<1>8. DropMarksRow'
  BY <1>1, SurvivesStable DEF IInv, DropMarksRow, Truncate
<1> QED
  BY <1>2, <1>6, <1>7, <1>8 DEF IInv

\* Going back to the caller leaves nothing behind.
LEMMA ReturnInductive ==
    ASSUME IInv, Return
    PROVE  IInv'
<1>1. Size' = 0
  BY DEF Return, Size
<1>2. TypeOK'
  <2>1. /\ original' \in [1..0 -> Keys]
        /\ entries' \in [1..0 -> Entry]
        /\ recycled' \in [1..0 -> Nat]
    BY EmptyObject DEF Return
  <2>2. info' \in [Keys -> EntryInfo] /\ mutated' \in BOOLEAN
    BY DEF IInv, TypeOK, Return
  <2> QED
    BY <1>1, <2>1, <2>2, MaxLenAssumption DEF TypeOK, Return
<1>3. Scanning' /\ Compacting' /\ Done' /\ Idle'
  BY <1>1 DEF Return, Scanning, Compacting, Done, Idle
<1>4. DropMarksRow' /\ InfoEmptyBetweenCalls'
  BY <1>1 DEF IInv, DropMarksRow, InfoEmptyBetweenCalls, Return
<1> QED
  BY <1>2, <1>3, <1>4 DEF IInv

\* A step that changes nothing keeps the invariant.
LEMMA StutterInductive ==
    ASSUME IInv, UNCHANGED vars
    PROVE  IInv'
<1>1. /\ UNCHANGED <<pc, original, nonEmpty, entries, length, i, writeIdx>>
      /\ UNCHANGED <<info, recycled, mutated>>
  BY DEF vars
<1>2. TypeOK' /\ Idle'
  BY <1>1 DEF IInv, TypeOK, Idle, Size
<1>3. Scanning'
  BY <1>1 DEF IInv, Scanning, InfoCovers, Unread, RecycledLosers, Survives,
              FirstNonEmpty, LastOfEmpty, Size
<1>4. Compacting'
  BY <1>1 DEF IInv, Compacting, InfoCovers, Unread, WrittenBack, RecycledLosers,
              Survives, FirstNonEmpty, LastOfEmpty, Size
<1>5. Done'
  <2>1. EveryKeySurvives => EveryKeySurvives'
    BY <1>1, SurvivesStable DEF EveryKeySurvives
  <2>2. WrittenBack(Size + 1) => WrittenBack(Size + 1)'
    BY <1>1 DEF WrittenBack, Survives, FirstNonEmpty, LastOfEmpty, Size
  <2>3. RecycledLosers(Size + 1) => RecycledLosers(Size + 1)'
    BY <1>1 DEF RecycledLosers, Survives, FirstNonEmpty, LastOfEmpty, Size
  <2> QED
    BY <1>1, <2>1, <2>2, <2>3 DEF IInv, Done
<1>6. DropMarksRow' /\ InfoEmptyBetweenCalls'
  BY <1>1 DEF IInv, DropMarksRow, InfoEmptyBetweenCalls, Size
<1> QED
  BY <1>2, <1>3, <1>4, <1>5, <1>6 DEF IInv

\* The processor starts with an empty map and no object.
LEMMA InitIInv == Init => IInv
<1> SUFFICES ASSUME Init PROVE IInv
  OBVIOUS
<1>1. Size = 0
  BY DEF Init, Size
<1>2. TypeOK
  <2>1. [firstNonEmpty |-> 0, last |-> 0, hasNonEmpty |-> FALSE] \in EntryInfo
    BY MaxLenAssumption DEF EntryInfo
  <2>2. info \in [Keys -> EntryInfo]
    BY <2>1 DEF Init, NoInfo
  <2>3. /\ original \in [1..0 -> Keys]
        /\ entries \in [1..0 -> Entry]
        /\ recycled \in [1..0 -> Nat]
    BY EmptyObject DEF Init
  <2>4. /\ Size \in 0..MaxLen /\ length \in 0..Size /\ writeIdx \in 0..Size
        /\ i \in 1..(Size + 1) /\ nonEmpty \subseteq 1..Size
    BY <1>1, MaxLenAssumption DEF Init
  <2>5. pc \in {"idle", "scan", "compact", "done"} /\ mutated \in BOOLEAN
    BY DEF Init
  <2> QED
    BY <1>1, <2>2, <2>3, <2>4, <2>5 DEF TypeOK
<1>3. Scanning /\ Compacting /\ Done /\ Idle
  BY <1>1 DEF Init, Scanning, Compacting, Done, Idle
<1>4. DropMarksRow /\ InfoEmptyBetweenCalls
  BY <1>1 DEF Init, DropMarksRow, InfoEmptyBetweenCalls
<1> QED
  BY <1>2, <1>3, <1>4 DEF IInv

-----------------------------------------------------------------------------
\* The inductive invariant holds in every reachable state.
LEMMA Inductive == Spec => []IInv
<1>1. IInv /\ [Next]_vars => IInv'
  <2> SUFFICES ASSUME IInv, [Next]_vars PROVE IInv'
    OBVIOUS
  <2>1. CASE \E n \in 0..MaxLen :
               \E keys \in [1..n -> Keys], filled \in SUBSET (1..n) :
                  Begin(n, keys, filled)
    BY <2>1, BeginInductive
  <2>2. CASE ScanEntry
    BY <2>2, ScanEntryInductive
  <2>3. CASE EndScan
    BY <2>3, EndScanInductive
  <2>4. CASE KeepEntry
    BY <2>4, KeepEntryInductive
  <2>5. CASE DropEntry
    BY <2>5, DropEntryInductive
  <2>6. CASE Truncate
    BY <2>6, TruncateInductive
  <2>7. CASE Return
    BY <2>7, ReturnInductive
  <2>8. CASE UNCHANGED vars
    BY <2>8, StutterInductive
  <2> QED
    BY <2>1, <2>2, <2>3, <2>4, <2>5, <2>6, <2>7, <2>8 DEF Next
<1> QED
  BY InitIInv, <1>1, PTL DEF Spec

\* The types hold for any set of keys and any length of object.
THEOREM TypeCorrect == Spec => []TypeOK
<1>1. IInv => TypeOK
  BY DEF IInv
<1> QED
  BY Inductive, <1>1, PTL

\* The loop that compacts a slice in place never overwrites what it has still
\* to read.
THEOREM WritingNeverOvertakesReading == Spec => []UnreadIntact
<1>1. IInv => UnreadIntact
  BY MaxLenAssumption DEF IInv, TypeOK, Scanning, Compacting, Unread, UnreadIntact
<1> QED
  BY Inductive, <1>1, PTL

\* The two loops compute what the declarative definition Survives says, in the
\* order of the input, whatever the object.
THEOREM DedupIsSurvivors == Spec => []ResultIsSurvivors
<1>1. IInv => ResultIsSurvivors
  <2> SUFFICES ASSUME IInv, pc = "done" PROVE ResultIsSurvivors
    BY DEF ResultIsSurvivors
  <2>1. Size \in Nat /\ length = writeIdx /\ WrittenBack(Size + 1)
    BY MaxLenAssumption DEF IInv, TypeOK, Done
  <2>2. /\ \A w \in 1..length : /\ entries[w].value \in 1..Size
                               /\ entries[w].key = original[entries[w].value]
                               /\ Survives(entries[w].value)
        /\ \A w1, w2 \in 1..length : w1 < w2 => entries[w1].value < entries[w2].value
        /\ \A j \in 1..Size : Survives(j) => \E w \in 1..length : entries[w].value = j
    <3>1. (Size + 1) - 1 = Size
      BY <2>1
    <3> QED
      BY <2>1, <3>1 DEF WrittenBack
  <2>3. {entries[w].value : w \in 1..length} = {j \in 1..Size : Survives(j)}
    BY <2>2
  <2> QED
    BY <2>2, <2>3 DEF ResultIsSurvivors
<1> QED
  BY Inductive, <1>1, PTL

\* No key is lost, none stays twice, and a key that had a non-empty value
\* keeps one.
THEOREM NoKeyLostOrDuplicated == Spec => []KeysOnceAndNotLost
<1>1. IInv => KeysOnceAndNotLost
  <2> SUFFICES ASSUME IInv, pc = "done", NEW j \in 1..Size
               PROVE  \E w \in 1..length :
                         /\ entries[w].key = original[j]
                         /\ j \in nonEmpty => entries[w].value \in nonEmpty
                         /\ \A x \in 1..length : entries[x].key = original[j] => x = w
    BY DEF KeysOnceAndNotLost
  <2>1. /\ Size \in Nat /\ writeIdx \in Nat /\ length = writeIdx
        /\ WrittenBack(Size + 1) /\ EveryKeySurvives /\ TypeOK
    BY MaxLenAssumption DEF IInv, TypeOK, Done
  <2>2. PICK s \in 1..Size : /\ original[s] = original[j]
                             /\ Survives(s)
                             /\ j \in nonEmpty => s \in nonEmpty
    BY <2>1 DEF EveryKeySurvives
  <2>3. PICK w \in 1..writeIdx : entries[w].value = s
    BY <2>1, <2>2 DEF WrittenBack
  <2>4. entries[w].key = original[j]
    BY <2>1, <2>2, <2>3 DEF WrittenBack
  <2>5. ASSUME NEW x \in 1..writeIdx, entries[x].key = original[j]
        PROVE  x = w
    <3>1. /\ entries[x].value \in 1..Size
          /\ original[entries[x].value] = original[s]
          /\ Survives(entries[x].value)
      BY <2>1, <2>2, <2>5 DEF WrittenBack
    <3>2. entries[x].value = s
      BY <2>1, <2>2, <3>1, SurvivorsDiffer
    <3> QED
      BY <2>1, <2>3, <3>2 DEF WrittenBack
  <2> QED
    BY <2>1, <2>2, <2>3, <2>4, <2>5
<1> QED
  BY Inductive, <1>1, PTL

\* The free list gets every dropped value once and no value that is kept.
THEOREM FreeListDiscipline == Spec => []RecycledOnce
<1>1. IInv => RecycledOnce
  <2> SUFFICES ASSUME IInv PROVE RecycledOnce
    OBVIOUS
  <2>0. Size \in Nat /\ i \in Nat
    BY MaxLenAssumption DEF IInv, TypeOK
  <2>1. CASE pc = "idle"
    BY <2>0, <2>1 DEF IInv, Idle, RecycledOnce
  <2>2. CASE pc = "scan"
    BY <2>0, <2>2 DEF IInv, Scanning, RecycledLosers, RecycledOnce
  <2>3. CASE pc = "compact"
    BY <2>0, <2>3 DEF IInv, Compacting, RecycledLosers, RecycledOnce
  <2>4. CASE pc = "done"
    BY <2>0, <2>4 DEF IInv, Done, RecycledLosers, RecycledOnce
  <2> QED
    BY <2>1, <2>2, <2>3, <2>4 DEF IInv, TypeOK
<1> QED
  BY Inductive, <1>1, PTL

\* A call that drops an entry forbids answering with the raw row.
THEOREM DropsAreMarked == Spec => []DropMarksRow
<1>1. IInv => DropMarksRow
  BY DEF IInv
<1> QED
  BY Inductive, <1>1, PTL

\* What was learnt about the keys of one object does not reach the next one.
THEOREM NothingKeptBetweenCalls == Spec => []InfoEmptyBetweenCalls
<1>1. IInv => InfoEmptyBetweenCalls
  BY DEF IInv
<1> QED
  BY Inductive, <1>1, PTL

-----------------------------------------------------------------------------
(* One step, see Deduplication.                                            *)

\* Deduplication and Survives speak of the same positions.
LEMMA StaysIsSurvives ==
    ASSUME TypeOK, pc = "done", NEW j \in 1..Size
    PROVE  OneStep!Stays(j) <=> Survives(j)
<1>1. Size \in Nat
  BY MaxLenAssumption DEF TypeOK
<1>2. AtEnd(original, << >>) = original /\ AtEnd(nonEmpty, {}) = nonEmpty
  BY DEF AtEnd
<1>3. DOMAIN original = 1..Size /\ nonEmpty \subseteq 1..Size
  BY DEF TypeOK
<1> DEFINE same == {m \in 1..Size : original[m] = original[j]}
<1>4. OneStep!Same(j) = same
  BY <1>2, <1>3 DEF OneStep!Same
<1>5. j \in same /\ same \subseteq 1..Size
  OBVIOUS
<1>6. CASE same \cap nonEmpty # {}
  <2>1. OneStep!Stays(j) <=> j \in nonEmpty /\ \A m \in same \cap nonEmpty : j <= m
    BY <1>2, <1>4, <1>6 DEF OneStep!Stays
  <2>2. ~LastOfEmpty(j)
    BY <1>6 DEF LastOfEmpty
  <2>3. FirstNonEmpty(j) <=> j \in nonEmpty /\ \A m \in same \cap nonEmpty : j <= m
    BY <1>1, <1>3 DEF FirstNonEmpty
  <2> QED
    BY <2>1, <2>2, <2>3 DEF Survives
<1>7. CASE same \cap nonEmpty = {}
  <2>1. OneStep!Stays(j) <=> \A m \in same : m <= j
    BY <1>2, <1>4, <1>7 DEF OneStep!Stays
  <2>2. ~FirstNonEmpty(j)
    BY <1>5, <1>7 DEF FirstNonEmpty
  <2>3. LastOfEmpty(j) <=> \A m \in same : m <= j
    BY <1>1, <1>7 DEF LastOfEmpty
  <2> QED
    BY <2>1, <2>2, <2>3 DEF Survives
<1> QED
  BY <1>6, <1>7

\* What the caller sees when the call is done.
Answered ==
    pc = "done" =>
        /\ AtEnd(original, << >>) \in Seq(Keys)
        /\ Len(AtEnd(original, << >>)) <= MaxLen
        /\ AtEnd(nonEmpty, {}) \subseteq DOMAIN AtEnd(original, << >>)
        /\ OneStep!Deduplicated

LEMMA EndIsDeduplicated == IInv => Answered
<1> SUFFICES ASSUME IInv, pc = "done" PROVE Answered
  BY DEF Answered
<1>1. /\ TypeOK /\ Size \in Nat /\ MaxLen \in Nat /\ length = writeIdx
      /\ WrittenBack(Size + 1) /\ RecycledLosers(Size + 1)
  BY MaxLenAssumption DEF IInv, TypeOK, Done
<1> DEFINE k == SubSeq(entries, 1, length)
           gone == {j \in 1..Size : recycled[j] > 0}
<1>2. /\ AtEnd(original, << >>) = original /\ AtEnd(nonEmpty, {}) = nonEmpty
      /\ AtEnd(k, << >>) = k /\ AtEnd(gone, {}) = gone
  BY DEF AtEnd
<1>3. original \in Seq(Keys) /\ Len(original) <= MaxLen /\ DOMAIN original = 1..Size
  BY <1>1 DEF TypeOK, Size
<1>4. nonEmpty \subseteq 1..Size
  BY <1>1 DEF TypeOK
<1>5. /\ k \in Seq(OneStep!Entries) /\ DOMAIN k = 1..length
      /\ \A w \in 1..length : k[w] = entries[w]
  <2>1. length \in 0..Size /\ entries \in [1..Size -> OneStep!Entries]
    BY <1>1 DEF TypeOK, Entry, OneStep!Entries
  <2>2. k = [w \in 1..length |-> entries[w]]
    BY <1>1, <2>1
  <2>3. \A w \in 1..length : entries[w] \in OneStep!Entries
    BY <1>1, <2>1
  <2> HIDE DEF k
  <2> QED
    BY <1>1, <2>1, <2>2, <2>3
<1>6. /\ \A w \in 1..length : entries[w].value \in 1..Size
      /\ \A w \in 1..length : entries[w].key = original[entries[w].value]
      /\ \A w \in 1..length : Survives(entries[w].value)
      /\ \A w1, w2 \in 1..length : w1 < w2 => entries[w1].value < entries[w2].value
      /\ \A j \in 1..Size : Survives(j) => \E w \in 1..length : entries[w].value = j
  <2>1. (Size + 1) - 1 = Size
    BY <1>1
  <2> QED
    BY <1>1, <2>1 DEF WrittenBack
<1>7. \A j \in 1..Size : OneStep!Stays(j) <=> Survives(j)
  BY <1>1, StaysIsSurvives
<1> HIDE DEF k
<1>8. {k[w].value : w \in DOMAIN k} = {j \in 1..Size : OneStep!Stays(j)}
  <2>1. {k[w].value : w \in DOMAIN k} = {entries[w].value : w \in 1..length}
    BY <1>5
  <2>2. {entries[w].value : w \in 1..length} = {j \in 1..Size : Survives(j)}
    BY <1>6
  <2> QED
    BY <1>7, <2>1, <2>2
<1>9. gone = {j \in 1..Size : ~OneStep!Stays(j)}
  <2>1. \A j \in 1..Size : recycled[j] > 0 <=> ~Survives(j)
    BY <1>1 DEF RecycledLosers
  <2> QED
    BY <1>7, <2>1
<1> HIDE DEF gone
<1>10. /\ \A w \in DOMAIN k : k[w].key = original[k[w].value]
       /\ \A w1, w2 \in DOMAIN k : w1 < w2 => k[w1].value < k[w2].value
  BY <1>5, <1>6
<1>11. OneStep!Deduplicated
  <2>1. /\ AtEnd(SubSeq(entries, 1, length), << >>) = k
        /\ AtEnd({j \in 1..Size : recycled[j] > 0}, {}) = gone
    BY <1>2 DEF k, gone
  <2> DEFINE kk == AtEnd(SubSeq(entries, 1, length), << >>)
             o == AtEnd(original, << >>)
             f == AtEnd({j \in 1..Size : recycled[j] > 0}, {})
  <2>2. kk = k /\ o = original /\ f = gone
    BY <1>2, <2>1
  <2> HIDE DEF kk, o, f
  <2>3. /\ kk \in Seq(OneStep!Entries)
        /\ \A w \in DOMAIN kk : kk[w].key = o[kk[w].value]
        /\ \A w1, w2 \in DOMAIN kk : w1 < w2 => kk[w1].value < kk[w2].value
    BY <1>5, <1>10, <2>2
  <2>4. {kk[w].value : w \in DOMAIN kk} = {j \in DOMAIN o : OneStep!Stays(j)}
    BY <1>3, <1>8, <2>2
  <2>5. f = {j \in DOMAIN o : ~OneStep!Stays(j)}
    BY <1>3, <1>9, <2>2
  <2> QED
    BY <2>3, <2>4, <2>5 DEF OneStep!Deduplicated, kk, o, f
<1> QED
  BY <1>2, <1>3, <1>4, <1>11 DEF Answered

\* The call is done in one step, of which nothing is seen before.
THEOREM Refinement == Spec => RemovesDuplicatesAtOnce
<1>1. Init => OneStep!Init
  BY DEF Init, OneStep!Init, OneStep!Nothing, AtEnd
<1>2. ASSUME Answered', [Next]_vars
      PROVE  [OneStep!Next]_(OneStep!vars)
  <2>1. CASE UNCHANGED vars
    BY <2>1 DEF vars, OneStep!vars, AtEnd, Size
  <2>2. CASE pc' # "done"
    BY <2>2 DEF OneStep!Next, OneStep!Return, OneStep!Nothing, AtEnd
  <2>3. CASE Next /\ pc' = "done"
    <3>1. pc # "done"
      BY <2>3 DEF Next, Begin, ScanEntry, EndScan, KeepEntry, DropEntry, Truncate, Return
    <3>2. AtEnd(original, << >>) = << >>
      BY <3>1 DEF AtEnd
    <3>3. /\ AtEnd(original, << >>)' \in Seq(Keys)
          /\ Len(AtEnd(original, << >>)') <= MaxLen
          /\ AtEnd(nonEmpty, {})' \subseteq DOMAIN AtEnd(original, << >>)'
          /\ OneStep!Deduplicated'
      BY <1>2, <2>3 DEF Answered
    <3> QED
      BY <3>2, <3>3 DEF OneStep!Next, OneStep!Deduplicate
  <2> QED
    BY <1>2, <2>1, <2>2, <2>3
<1> QED
  BY <1>1, <1>2, Inductive, EndIsDeduplicated, PTL DEF Spec, RemovesDuplicatesAtOnce, OneStep!Spec
=============================================================================
