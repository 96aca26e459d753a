SPECIFICATION Spec
INVARIANTS
    Inv
    EverySlotIsAPair
    ContentionCovered
