\* Up to five samples of three values; arrays that start empty, full or too small.
SPECIFICATION Spec
CONSTANTS
    Unknown = Unknown
    Values = {0, 3, 10}
    Fractions <- MCFractions
    Capacities = {1, 4}
    FirstCapacity = 2
    MaxSamples = 5
INVARIANTS
    TypeOK
    FlagIsTrue
    SummaryOrdered
PROPERTY ImplementsBag
CHECK_DEADLOCK FALSE
