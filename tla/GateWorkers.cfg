\* Two cases of junk with one request, and the case with two.
SPECIFICATION Spec
CONSTANTS
    Absent = Absent
    Schedules = {s1, s2}
    Junk = Junk
    IndexRange = 8
    ScratchOffset = 4
    Cases = 3
    Index = 1
VIEW Requests
INVARIANTS
    TypeOK
    ScratchClean
    LiveIsASchedule
    MissingOnlyInWindow
CHECK_DEADLOCK FALSE
