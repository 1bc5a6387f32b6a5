---------------------------- MODULE NumberRange ----------------------------
(***************************************************************************)
(* Which numbers of a row become strings.  ClickHouse would truncate an    *)
(* integer that its 64-bit types cannot hold, so four of the programs      *)
(* write such a number in quotes; they decide by comparing its digits with *)
(* those of the limits.  json_clean_posthog_event_properties_udf keeps     *)
(* what fits Int64 or UInt64, the three others what fits Int64.            *)
(*                                                                         *)
(* Base and limits are parameters; the code has base 10 and the limits     *)
(* 9223372036854775807, 9223372036854775808 and 18446744073709551615.      *)
(***************************************************************************)
EXTENDS Integers, SequencesExt

CONSTANTS
    Base,
    MaxInt64,     \* the digits of the limits
    MinInt64Abs,
    MaxUint64,
    MaxDigits     \* bound: the longest number that is read

-----------------------------------------------------------------------------
Digit == 0..(Base - 1)

\* The values of the beginnings of a sequence of digits.
PlaceValues(digits) ==
    LET upTo[k \in 0..Len(digits)] ==
            IF k = 0 THEN 0 ELSE upTo[k - 1] * Base + digits[k]
    IN  upTo

Value(digits) == PlaceValues(digits)[Len(digits)]

ASSUME BaseAssumption == Base \in Nat \ {0, 1}

\* The limits are written without leading zeros, those of Int64 equally long.
ASSUME LimitsAssumption ==
    /\ \A limit \in {MaxInt64, MinInt64Abs, MaxUint64} :
          limit \in Seq(Digit) /\ limit # << >> /\ limit[1] # 0
    /\ Len(MinInt64Abs) = Len(MaxInt64)

VARIABLE num  \* the number as read so far: its sign, its digits before and
              \* after a point or an exponent sign, and whether there was one

BeginNumber == num \in [neg : BOOLEAN, digits : {<< >>}, float : {FALSE}]

ReadDigit(d) ==
    /\ Len(num.digits) < MaxDigits
    /\ num' = [num EXCEPT !.digits = Append(@, d)]

ReadPointOrExponent ==
    /\ num.digits # << >>
    /\ ~num.float
    /\ num' = [num EXCEPT !.float = TRUE]

ReadNumber == (\E d \in Digit : ReadDigit(d)) \/ ReadPointOrExponent

NumberSpec == BeginNumber /\ [][ReadNumber]_num

-----------------------------------------------------------------------------
\* The digits without leading zeros.
Significant(digits) ==
    LET first == SelectInSeq(digits, LAMBDA d : d # 0)
    IN  IF first = 0 THEN << >> ELSE SubSeq(digits, first, Len(digits))

\* Fault: equal texts, the limit itself, compare as greater.
GreaterOrEqual(a, b) ==
    \A k \in DOMAIN a : a[k] < b[k] => \E j \in 1..(k - 1) : a[j] > b[j]

\* Comparison of equally long texts, byte by byte from the left.
GreaterThan(a, b) ==
    \E k \in DOMAIN a : a[k] > b[k] /\ \A j \in 1..(k - 1) : a[j] = b[j]

\* json_clean_posthog_event_properties_udf
CleanShouldStringify(n) ==
    LET digits == Significant(n.digits)
        limit == IF n.neg THEN MinInt64Abs ELSE MaxUint64
    IN  /\ ~n.float
        /\ \/ Len(digits) > Len(limit)
           \/ Len(digits) = Len(limit) /\ GreaterThan(digits, limit)

\* json_key_dedup_udf
DedupShouldStringify(n) ==
    LET digits == Significant(n.digits)
    IN  /\ ~n.float
        /\ digits # << >>
        /\ Len(digits) >= Len(MaxInt64)
        /\ \/ Len(digits) > Len(MaxInt64)
           \/ n.neg /\ GreaterThan(digits, MinInt64Abs)
           \/ ~n.neg /\ GreaterThan(digits, MaxInt64)

\* json_remove_empty_strings_udf: the first byte that differs decides.
BytesGreaterThanString(b, s) ==
    LET differ == {i \in DOMAIN b : b[i] # s[i]}
    IN  differ # {} /\ LET i == CHOOSE i \in differ : \A j \in differ : i <= j
                       IN  b[i] > s[i]

RemoveShouldStringify(n) ==
    LET digits == Significant(n.digits)
    IN  /\ ~n.float
        /\ digits # << >>
        /\ Len(digits) >= Len(MaxInt64)
        /\ Len(digits) = Len(MaxInt64) =>
              BytesGreaterThanString(digits, IF n.neg THEN MinInt64Abs ELSE MaxInt64)

\* json_strip_empty_strings_and_nulls_udf
StripShouldStringify(n) ==
    LET digits == Significant(n.digits)
        limit == IF n.neg THEN MinInt64Abs ELSE MaxInt64
    IN  /\ ~n.float
        /\ IF Len(digits) # Len(limit) THEN Len(digits) > Len(limit)
                                       ELSE GreaterThan(digits, limit)

-----------------------------------------------------------------------------
Outside(n, max) == IF n.neg THEN Value(n.digits) > Value(MinInt64Abs)
                            ELSE Value(n.digits) > Value(max)

\* "Integers outside the signed 64-bit range become strings so they are not
\* truncated", and in json_clean_posthog_event_properties_udf those "outside
\* ClickHouse's signed/unsigned 64-bit ranges": exactly those, whatever the
\* sign and the leading zeros, and no number with a fraction or an exponent.
StringifiedIffOutside ==
    num.digits # << >> =>
        /\ CleanShouldStringify(num) <=> ~num.float /\ Outside(num, MaxUint64)
        /\ \A should \in {DedupShouldStringify(num), RemoveShouldStringify(num),
                          StripShouldStringify(num)} :
              should <=> ~num.float /\ Outside(num, MaxInt64)
=============================================================================
