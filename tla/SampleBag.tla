------------------------------ MODULE SampleBag ------------------------------
(***************************************************************************)
(* What the statistics promise: a bag of samples, and questions whose      *)
(* answers depend on nothing but the bag.  The smallest, the largest and   *)
(* the ranks in between are defined by counting, without any order of the  *)
(* samples in memory.                                                      *)
(***************************************************************************)
EXTENDS Integers, FiniteSets

CONSTANTS
    Values,      \* the samples there can be
    Fractions,   \* what percentiles are asked for: pairs <<num, den>>, num/den in 0..1
    Unknown      \* the answer to a question about no samples, and before the first

VARIABLES
    bag,         \* how often each value was recorded
    answer       \* the answer to the last question

vars == <<bag, answer>>

\* How many samples the bag has of the values in S.
Total(b, S) == Cardinality(UNION {{v} \X (1..b[v]) : v \in S})

Size(b) == Total(b, Values)

\* The k-th smallest sample, counted from 0.
Ranked(b, k) ==
    CHOOSE v \in Values :
      /\ Total(b, {u \in Values : u < v}) <= k
      /\ k < Total(b, {u \in Values : u <= v})

\* The percentile f: at f of the way from the smallest to the largest sample,
\* between two samples in proportion, rounded down.
AtFraction(b, f) ==
    LET place == f[1] * (Size(b) - 1)
        lower == Ranked(b, place \div f[2])
        upper == IF place % f[2] = 0 THEN lower ELSE Ranked(b, place \div f[2] + 1)
    IN  (lower * f[2] + (place % f[2]) * (upper - lower)) \div f[2]

Init ==
    /\ bag = [v \in Values |-> 0]
    /\ answer = Unknown

\* There may be no room for a sample.
Record(v) ==
    /\ bag' \in {bag, [bag EXCEPT ![v] = @ + 1]}
    /\ UNCHANGED answer

Ask(f) ==
    /\ answer' = IF Size(bag) = 0 THEN Unknown ELSE AtFraction(bag, f)
    /\ UNCHANGED bag

Clear ==
    /\ bag' = [v \in Values |-> 0]
    /\ UNCHANGED answer

Next ==
    \/ \E v \in Values : Record(v)
    \/ \E f \in Fractions : Ask(f)
    \/ Clear

Spec == Init /\ [][Next]_vars
=============================================================================
