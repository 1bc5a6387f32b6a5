---------------------------- MODULE JsonSpelling ---------------------------
(***************************************************************************)
(* Strings and how a row may spell them: a text is made of pieces, each of *)
(* which stands for a rune, or is malformed.                               *)
(*                                                                         *)
(* A symbol is a byte of the text that the code tells apart, a longer run  *)
(* of ordinary bytes, or a group of four bytes after a "u".                *)
(***************************************************************************)
EXTENDS Integers, SequencesExt

CONSTANTS
    Symbols,    \* the symbols of texts and the runes
    Spellings,  \* pieces of text: [text, means], means being a rune or Malformed
    MaxPieces   \* bound: the longest string, in pieces

Quote == "\""
Backslash == "\\"
Malformed == "malformed"

\* Symbols and runes that the code names.
Known == {Quote, Backslash, "/", "n", "u", "a", "x", "0007", "7f", "LF", "BEL", "U+FFFD",
          "U+1F600"}

ASSUME SpellingsAssumption ==
    /\ Known \subseteq Symbols
    /\ Spellings \subseteq [text : Seq(Symbols), means : Symbols \union {Malformed}]
    /\ MaxPieces \in Nat

\* What JSON makes of a piece: a symbol that stands for itself, an escape of
\* one symbol, of four digits or of a pair of these, or none of them.
PlainPiece(p) ==
    p.means \in Symbols \ {Quote, Backslash, "LF", "BEL"} /\ p.text = <<p.means>>
ShortPiece(p) ==
    \/ p.means \in {Quote, Backslash, "/"} /\ p.text = <<Backslash, p.means>>
    \/ p.means = "LF" /\ p.text = <<Backslash, "n">>
Digits == [g \in {"0061", "000a", "0007", "de00"} |->
              CASE g = "0061" -> "a" [] g = "000a" -> "LF" [] g = "0007" -> "BEL"
                [] g = "de00" -> "U+FFFD"]
DigitsPiece(p) == \E g \in DOMAIN Digits : p.text = <<Backslash, "u", g>> /\ p.means = Digits[g]
PairPiece(p) ==
    p.means = "U+1F600" /\ p.text = <<Backslash, "u", "d83d", Backslash, "u", "de00">>
MalformedPiece(p) ==
    /\ p.means = Malformed
    /\ \/ p.text \in {<<"LF">>, <<"BEL">>, <<Backslash>>}
       \/ \E c \in Symbols \ {Quote, Backslash, "/", "n", "u"} : p.text = <<Backslash, c>>
       \/ \E g \in Symbols \ DOMAIN Digits : p.text = <<Backslash, "u", g>>

ASSUME MeaningAssumption ==
    /\ Malformed \notin Symbols
    /\ \A p \in Spellings : PlainPiece(p) \/ ShortPiece(p) \/ DigitsPiece(p) \/ PairPiece(p)
                              \/ MalformedPiece(p)

Enclosed(s) == <<Quote>> \o s \o <<Quote>>
TextOf(ps) == Enclosed(FlattenSeq([i \in DOMAIN ps |-> ps[i].text]))
MeaningOf(ps) == [i \in DOMAIN ps |-> ps[i].means]

\* Pieces that would make something else of their neighbours.
Clash(ps) ==
    \E i \in 1..(Len(ps) - 1) :
        \/ ps[i].text = <<Backslash>>
        \/ ps[i].text = <<Backslash, "u", "d83d">> /\ ps[i + 1].text = <<Backslash, "u", "de00">>
=============================================================================
