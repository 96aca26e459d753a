SPECIFICATION Spec
CONSTANTS
    MaxC = 3
    MaxSpins = 2
INVARIANT
    SpinsOfThisRace
