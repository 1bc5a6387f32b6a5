------------------------------ MODULE KeyList ------------------------------
(***************************************************************************)
(* What json_drop_keys_udf is given as its argument: the keys of the query *)
(* as an array literal, in single quotes, with a backslash before each     *)
(* quote and each backslash.  A text is a sequence of characters.          *)
(***************************************************************************)
EXTENDS Integers, SequencesExt

CONSTANTS
    KeyChars,   \* characters of keys
    KeySize,    \* bound: characters in a key
    MaxKeys,    \* bound: keys in an argument
    Commas,     \* what may stand between two keys
    Blanks      \* what may stand before and after the array

SingleQuote == "'"
EscapeChar == "\\"
Blank == " "

VARIABLES
    meant,  \* the keys of the query
    whole,  \* whether the argument arrives as it was written
    phase,  \* "trim", "element", "string", "done" or "error"
    result  \* the keys that have been read

ASSUME KeyBounds == KeySize \in Nat /\ MaxKeys \in Nat

\* Blanks, with at most one comma between two keys.
ASSUME SeparatorsAssumption ==
    /\ \A comma \in Commas :
          /\ comma \in Seq({Blank, ","})
          /\ \A i, j \in DOMAIN comma : comma[i] = "," /\ comma[j] = "," => i = j
    /\ Blanks \subseteq Seq({Blank})

-----------------------------------------------------------------------------
EscapedChar(c) == IF c \in {SingleQuote, EscapeChar} THEN <<EscapeChar, c>> ELSE <<c>>
EscapedKey(key) == FlattenSeq([i \in DOMAIN key |-> EscapedChar(key[i])])

Quoted(key) == <<SingleQuote>> \o EscapedKey(key) \o <<SingleQuote>>

\* The keys between the brackets.
Listed(keys, comma) ==
    FlattenSeq([i \in DOMAIN keys |-> (IF i = 1 THEN << >> ELSE comma) \o Quoted(keys[i])])

Literal(keys, comma, blanks) == blanks \o <<"[">> \o Listed(keys, comma) \o <<"]">> \o blanks

\* An argument may also be cut short, or lack a quote around a key.
Damaged(literal) ==
    LET around(i) == literal[i] = SingleQuote /\ literal[i - 1] # EscapeChar
    IN  {SubSeq(literal, 1, n) : n \in 0..(Len(literal) - 1)}
           \union {RemoveAt(literal, i) : i \in {j \in DOMAIN literal : around(j)}}

-----------------------------------------------------------------------------
NoBackslashes == \A i \in DOMAIN meant : ~Contains(meant[i], EscapeChar)

\* "parses a Python-style array like ['a', 'b\'c']": the program is given the
\* keys that the query names.
KeysAreAsNamed ==
    whole => phase # "error" /\ (phase = "done" => result = meant)

\* It is for keys with quotes, commas, brackets and blanks, whatever stands
\* around them; and what is left of a damaged argument is never taken for
\* another list, which would drop other keys than the query names.
KeysWithoutBackslashesAreAsNamed ==
    NoBackslashes => KeysAreAsNamed /\ (phase = "done" => whole)
=============================================================================
