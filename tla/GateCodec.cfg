\* Schedules as the benchmark makes them up to GB_MAX_ENTRIES, and all short ones.
SPECIFICATION Spec
CONSTANTS
    SocketBuffer = 4096
    MaxEntries = 64
    Counts = {1, 2, 9, 10, 64}
    Intervals = {1, 3}
    interval_ns = 3
    ShortLists = 2
INVARIANTS
    TypeOK
    MessagesFit
    RoundTrip
PROPERTY SendBackKeepsEntries
CHECK_DEADLOCK FALSE
