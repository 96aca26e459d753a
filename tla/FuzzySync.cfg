SPECIFICATION FairSpec
CONSTANTS
    MaxC = 3
    MaxSpins = 1
INVARIANTS
    Inv
    NobodyLeavesEarly
    RacesOverlap
    ResetOnlyWhenBothArrived
    CounterNeverOverflows
PROPERTIES
    PartnerReleased
    EveryWaitEnds
    PhaseFinishes
    RendezvousFairSpec
