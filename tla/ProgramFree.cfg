\* No runs at all are accepted by the command line.
SPECIFICATION Spec
CONSTANTS
    Absent = Absent
    MaxEntries = 3
    MaxInterval = 1
    RunChoices = {0, 1}
    StableTests = 2
    SafeEntries = 2
    DumpMessages = 2
INVARIANT SummaryFreedOnce
CHECK_DEADLOCK FALSE
