SPECIFICATION FairSpec
CONSTANTS
    SeqRange = 4
    Timeout = 1
    MaxPending = 2
INVARIANTS
    Inv
PROPERTIES
    AnswersOwnRequest
    EveryCallReturns
