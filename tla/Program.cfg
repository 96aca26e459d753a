\* The whole program with one or two runs of one or three iterations.
SPECIFICATION FairSpec
CONSTANTS
    Absent = Absent
    MaxEntries = 3
    MaxInterval = 1
    RunChoices = {1, 2}
    StableTests = 2
    SafeEntries = 2
    DumpMessages = 2
INVARIANTS
    TypeOK
    MeasuresOnlyTested
    EntriesStaySafe
    StartsFromNothing
    LeavesWithDelete
    NothingLeaks
    CaptureCoversDump
    ReportIsTrue
PROPERTY ProgramEnds
CHECK_DEADLOCK FALSE
