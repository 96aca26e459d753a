SPECIFICATION Spec
CONSTANTS
    SeqRange = 4
    Timeout = 2
    MaxPending = 2
INVARIANT TimeoutPerRequest
