\* A case of junk with one request, and the case with two.
SPECIFICATION Spec
CONSTANTS
    Absent = Absent
    Schedules = {s1}
    Junk = Junk
    IndexRange = 8
    ScratchOffset = 4
    Cases = 2
    Index = 1
INVARIANT ExtackOfThisError
