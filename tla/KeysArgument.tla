---------------------------- MODULE KeysArgument ---------------------------
(***************************************************************************)
(* The argument of json_drop_keys_udf: parseSingleQuotedArray, one action  *)
(* for each turn of its two loops.                                         *)
(***************************************************************************)
EXTENDS KeyList

VARIABLES
    arg,    \* the argument
    s,      \* what is left to parse
    sb      \* the key being read

vars == <<meant, whole, arg, phase, s, sb, result>>

Init ==
    /\ meant \in BoundedSeq(BoundedSeq(KeyChars, KeySize), MaxKeys)
    /\ whole \in BOOLEAN
    /\ \E comma \in Commas, blanks \in Blanks :
          IF whole THEN arg = Literal(meant, comma, blanks)
                   ELSE arg \in Damaged(Literal(meant, comma, << >>))
    /\ phase = "trim"
    /\ s = arg
    /\ sb = << >>
    /\ result = << >>

TrimLeft(t) == LET first == SelectInSeq(t, LAMBDA c : c # Blank)
               IN  IF first = 0 THEN << >> ELSE SubSeq(t, first, Len(t))
TrimSpace(t) == Reverse(TrimLeft(Reverse(TrimLeft(t))))

Starts(c) == s # << >> /\ s[1] = c

-----------------------------------------------------------------------------
StripBrackets ==
    /\ phase = "trim"
    /\ LET t == TrimSpace(s)
           wrapped == Len(t) >= 2 /\ t[1] = "[" /\ t[Len(t)] = "]"
       IN  /\ phase' = IF wrapped THEN "element" ELSE "error"
           /\ s' = IF wrapped THEN SubSeq(t, 2, Len(t) - 1) ELSE t
    /\ UNCHANGED <<meant, whole, arg, sb, result>>

\* One turn of the outer loop begins: the end, or a quote, or an error.
BeginElement ==
    /\ phase = "element"
    /\ LET t == TrimLeft(s)
       IN  /\ phase' = CASE t = << >> -> "done"
                      [] t # << >> /\ t[1] = SingleQuote -> "string"
                      [] OTHER -> "error"
           /\ s' = IF t # << >> /\ t[1] = SingleQuote THEN Tail(t) ELSE t
    /\ sb' = << >>
    /\ UNCHANGED <<meant, whole, arg, result>>

AtEscapedQuote == Len(s) > 1 /\ s[1] = EscapeChar /\ s[2] = SingleQuote

\* Fault: the backslash is read and the quote after it ends the key.
AppendEscapedQuoteUnread ==
    /\ phase = "string"
    /\ AtEscapedQuote
    /\ sb' = Append(sb, EscapeChar)
    /\ s' = Tail(s)
    /\ UNCHANGED <<meant, whole, arg, phase, result>>

AppendEscapedQuote ==
    /\ phase = "string"
    /\ AtEscapedQuote
    /\ sb' = Append(sb, SingleQuote)
    /\ s' = SubSeq(s, 3, Len(s))
    /\ UNCHANGED <<meant, whole, arg, phase, result>>

AppendChar ==
    /\ phase = "string"
    /\ s # << >>
    /\ ~AtEscapedQuote
    /\ ~Starts(SingleQuote)
    /\ sb' = Append(sb, s[1])
    /\ s' = Tail(s)
    /\ UNCHANGED <<meant, whole, arg, phase, result>>

EndString ==
    /\ phase = "string"
    /\ Starts(SingleQuote)
    /\ result' = Append(result, sb)
    /\ LET t == TrimLeft(Tail(s))
       IN  s' = IF t # << >> /\ t[1] = "," THEN Tail(t) ELSE t
    /\ phase' = "element"
    /\ UNCHANGED <<meant, whole, arg, sb>>

Unterminated ==
    /\ phase = "string"
    /\ s = << >>
    /\ phase' = "error"
    /\ UNCHANGED <<meant, whole, arg, s, sb, result>>

Next == StripBrackets \/ BeginElement \/ AppendEscapedQuote \/ AppendChar
           \/ EndString \/ Unterminated

Spec == Init /\ [][Next]_vars
=============================================================================
