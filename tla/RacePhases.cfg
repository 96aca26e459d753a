SPECIFICATION FairSpec
CONSTANTS
    N = 4
    P = 2
    Phases = 2
INVARIANTS
    PhaseInv
    QuietBetweenPhases
    LeavesForAReason
PROPERTY RunReturns
