SPECIFICATION Spec
CONSTANTS
    Ids = {a}
    Fallback = fallback
    Absent = absent
    NotInt = notInt
    IntRange = 64
    Counts = {0, 1, 8, 9}
    ForeignCounts <- EdgeCounts
INVARIANTS
    RoundTrip
    LongResumeEnds
CHECK_DEADLOCK FALSE
