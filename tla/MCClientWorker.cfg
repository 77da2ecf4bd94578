SPECIFICATION Spec
CONSTANTS
    limited = limited
    free = free
    Name <- Names
    Limited <- LimitedNames
    Limit = 2
    SessionGap = 2
    FlushInterval = 1
    IdleTimeout = 2
    Day = 4
    MaxLate = 2
    MaxSent = 2
    MaxTs = 6
INVARIANTS TypeOK EachSecondOnce BlockedUntilMidnight FlushFirst
