-------------------------------- MODULE Stats --------------------------------
(***************************************************************************)
(* struct gb_stats and the functions on it (src/stats.c): samples in an    *)
(* array that grows, sorted when a question needs it.  The functions may   *)
(* be called in any order; every allocation may fail.                      *)
(*                                                                         *)
(* Numbers are exact here.  The code computes an index and an interpolated *)
(* sample as a double, which is exact for samples below 2^53 ns (104 days) *)
(* but for the rounding of the fraction, and halves the 64-bit sum of the  *)
(* two middle samples, which does not wrap for samples below 2^63; above   *)
(* that nothing here is said of the code.  median_double, which does not   *)
(* round down, and the mean and the deviation, which depend on no order,   *)
(* are left out.                                                           *)
(***************************************************************************)
EXTENDS Integers, Sequences, SequencesExt, FiniteSets

CONSTANTS
    Values,        \* the samples looked at
    Fractions,     \* the percentiles asked for, as pairs <<num, den>>
    Capacities,    \* the initial capacities given to gb_stats_init
    FirstCapacity, \* the capacity an empty array gets when it must grow: 16
    MaxSamples,    \* bound of the model: no more samples than this are added
    Unknown

ASSUME ValuesAssumption == Values \subseteq Nat
ASSUME FractionsAssumption ==
    \A f \in Fractions : f[2] \in Nat \ {0} /\ f[1] \in 0..f[2]
ASSUME CapacityAssumption == FirstCapacity \in Nat \ {0} /\ Capacities \subseteq Nat

VARIABLES
    values,     \* the first count elements of the array
    capacity,   \* how many the array has room for, 0 without an array
    sorted,     \* the flag
    answer,     \* what the last percentile, minimum or maximum gave
    summary     \* what the last gb_stats_calculate gave, in the order of its arguments

vars == <<values, capacity, sorted, answer, summary>>

\* After a failed allocation the array is as empty as with no capacity.
Init ==
    /\ values = <<>>
    /\ capacity \in Capacities \cup {0}
    /\ sorted = FALSE
    /\ answer = Unknown
    /\ summary = <<>>

\* gb_stats_free; gb_stats_init for the next samples.
Renew ==
    /\ values' = <<>>
    /\ capacity' \in Capacities \cup {0}
    /\ sorted' = FALSE
    /\ UNCHANGED <<answer, summary>>

FullTooLate == Len(values) > capacity
Full == Len(values) >= capacity
Grown == IF capacity = 0 THEN FirstCapacity ELSE 2 * capacity

StoreKeepsFlag(v) ==
    /\ values' = Append(values, v)
    /\ UNCHANGED <<sorted, answer, summary>>

Store(v) ==
    /\ values' = Append(values, v)
    /\ sorted' = FALSE
    /\ UNCHANGED <<answer, summary>>

Add(v) ==
    /\ Len(values) < MaxSamples
    /\ IF ~Full
         THEN Store(v) /\ UNCHANGED capacity
         ELSE \/ Store(v) /\ capacity' = Grown
              \/ UNCHANGED vars      \* no memory: the array is kept as it is

Count(s, v) == Cardinality({i \in 1..Len(s) : s[i] = v})
IsAscending(s) == \A i \in 1..Len(s) - 1 : s[i] <= s[i + 1]

\* qsort: the same samples in ascending order.
Ascending(s) ==
    CHOOSE t \in [1..Len(s) -> ToSet(s)] :
      IsAscending(t) /\ \A v \in ToSet(s) : Count(t, v) = Count(s, v)

\* The array as the functions that sort it first leave it.
InOrder == IF sorted THEN values ELSE Ascending(values)

Sort ==
    /\ values # <<>>
    /\ values' = InOrder
    /\ sorted' = TRUE
    /\ UNCHANGED capacity

BetweenBeyond(s, f) ==
    LET place == f[1] * (Len(s) - 1)
        lo == s[place \div f[2] + 1]
        hi == s[place \div f[2] + 2]
    IN  IF place % f[2] = 0 THEN lo ELSE lo + ((place % f[2]) * hi) \div f[2]

\* gb_stats_percentile on the array s, whose elements are counted from 1 here.
Between(s, f) ==
    LET place == f[1] * (Len(s) - 1)
        lo == s[place \div f[2] + 1]
        hi == s[place \div f[2] + 2]
    IN  IF place % f[2] = 0
          THEN lo
          ELSE lo + ((place % f[2]) * (hi - lo)) \div f[2]

Smallest(s) == s[1]
Largest(s) == s[Len(s)]

PercentileOf(s, f) ==
    CASE f[1] = 0    -> Smallest(s)
      [] f[1] = f[2] -> Largest(s)
      [] OTHER       -> Between(s, f)

\* Without samples the question fails.
Percentile(f) ==
    IF values = <<>>
      THEN answer' = Unknown /\ UNCHANGED <<values, capacity, sorted, summary>>
      ELSE /\ Sort
           /\ answer' = PercentileOf(InOrder, f)
           /\ UNCHANGED summary

\* gb_stats_min, gb_stats_max
Extreme(end) ==
    IF values = <<>>
      THEN answer' = Unknown /\ UNCHANGED <<values, capacity, sorted, summary>>
      ELSE Sort /\ answer' = end /\ UNCHANGED summary

\* The percentiles every result has.
Quantiles == <<<<1, 2>>, <<95, 100>>, <<99, 100>>, <<999, 1000>>>>

\* Without samples nothing is given.
Calculate ==
    /\ Sort
    /\ summary' = <<Smallest(InOrder)>>
                  \o [k \in 1..4 |-> PercentileOf(InOrder, Quantiles[k])]
                  \o <<Largest(InOrder)>>
    /\ UNCHANGED answer

MedianUpper(s) == Ascending(s)[Len(s) \div 2 + 1]

\* gb_stats_median_uint64 and gb_stats_median_double, of any array.
Median(s) ==
    LET copy == Ascending(s)
        half == Len(s) \div 2
    IN  IF Len(s) % 2 = 0 THEN (copy[half] + copy[half + 1]) \div 2 ELSE copy[half + 1]

\* Without memory for a copy nothing is answered.
AskMedian ==
    /\ answer' \in IF values = <<>> THEN {Unknown} ELSE {Median(values), answer}
    /\ UNCHANGED <<values, capacity, sorted, summary>>

Next ==
    \/ Renew
    \/ \E v \in Values : Add(v)
    \/ Sort /\ UNCHANGED <<answer, summary>>
    \/ \E f \in Fractions : Percentile(f)
    \/ Extreme(Smallest(InOrder)) \/ Extreme(Largest(InOrder))
    \/ Calculate
    \/ AskMedian

Spec == Init /\ [][Next]_vars

-----------------------------------------------------------------------------
(* Properties *)

\* No sample is stored beyond the array, whatever it was made for and however
\* often it could not grow.
TypeOK ==
    /\ values \in Seq(Values)
    /\ capacity \in Nat /\ Len(values) <= capacity
    /\ sorted \in BOOLEAN
    /\ answer \in Nat \cup {Unknown}
    /\ summary = <<>> \/ summary \in [1..6 -> Nat]

\* The functions that find the flag set do not sort again: it is never set on an
\* array to which a sample was added since.
FlagIsTrue == sorted => IsAscending(values)

\* The six figures of a result are in order.
SummaryOrdered == IsAscending(summary)

\* Adding, growing, sorting and asking, in any order, is recording into a bag and
\* asking about it: no sample is lost or made up, and every percentile, minimum,
\* maximum and median is the one found by counting.  The ends and the middle may be
\* asked for whatever percentiles are.
Bag == INSTANCE SampleBag WITH
    bag <- [v \in Values |-> Count(values, v)],
    Fractions <- Fractions \cup {<<0, 1>>, <<1, 1>>, <<1, 2>>}

ImplementsBag == Bag!Spec
=============================================================================
