---------------------------- MODULE RowService -----------------------------
(***************************************************************************)
(* What a query may rely on when it hands rows to an executable function:  *)
(* it receives the answers in order, in portions of any size, and success  *)
(* is reported only when all of them have arrived.                         *)
(*                                                                         *)
(* The rows and the sizes of their answers are given; no buffer, loop or   *)
(* error handling is visible, but that some programs let an error pass and *)
(* then claim more than they know.                                         *)
(***************************************************************************)
EXTENDS Integers, Sequences

VARIABLES
    sizes,    \* for every row, how many units its answer has; 0 if it is refused
    received, \* the units that have arrived, each <<row, part>>
    lenient,  \* an error of a read or write has been let pass
    outcome   \* "running", "success" or "failure"

vars == <<sizes, received, lenient, outcome>>

\* The answers end before the first row that is refused.
Answered == {r \in 1..Len(sizes) : \A q \in 1..r : sizes[q] > 0}

\* The units of the answers, in the order of rows and parts.
Before(u, v) == u[1] < v[1] \/ (u[1] = v[1] /\ u[2] < v[2])
AnswerUnits == UNION {{<<r, p>> : p \in 1..sizes[r]} : r \in Answered}

\* s lists answer units in order and misses none that comes before one it has.
IsPrefixOfAnswers(s) ==
    /\ \A k \in 1..Len(s) : s[k] \in AnswerUnits
    /\ \A k \in 1..(Len(s) - 1) : Before(s[k], s[k + 1])
    /\ \A k \in 1..Len(s) : \A u \in AnswerUnits :
           Before(u, s[k]) => \E j \in 1..k : s[j] = u

Complete(s) ==
    /\ Answered = 1..Len(sizes)
    /\ \A u \in AnswerUnits : \E j \in 1..Len(s) : s[j] = u

Init ==
    /\ received = << >>
    /\ lenient = FALSE
    /\ outcome = "running"

\* Some more of the answers arrive, and an error may be let pass.
Extend ==
    /\ lenient => lenient'
    /\ Len(received') >= Len(received)
    /\ SubSeq(received', 1, Len(received)) = received
    /\ IsPrefixOfAnswers(received')

Deliver ==
    /\ outcome = "running"
    /\ Extend
    /\ UNCHANGED <<sizes, outcome>>

Succeed ==
    /\ outcome = "running"
    /\ Extend
    /\ Complete(received') \/ lenient'
    /\ outcome' = "success"
    /\ UNCHANGED sizes

Fail ==
    /\ outcome = "running"
    /\ Extend
    /\ outcome' = "failure"
    /\ UNCHANGED sizes

Next == Deliver \/ Succeed \/ Fail

Spec == Init /\ [][Next]_vars

\* The query is told of success or failure in the end.
Settles == <>(outcome # "running")
=============================================================================
