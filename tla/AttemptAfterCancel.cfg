SPECIFICATION Spec
CONSTANTS
    Millisecond = 1
    MaxDuration = 31
    Floats = {0, 1, 2, 3, 4, 5, 6, 7, 8, 10, 12, 14, 16, 20, 24, 28, 32, 40, 48, 56}
    Overflowed <- LeastDuration
    FromNaN <- LeastDuration
    JitterUnit = 2
    CallConfigs <- SmallConfigs
    Deadlines <- SmallDeadlines
    Responses <- SmallResponses
    MaxLag = 0
    MaxNow = 10
PROPERTY
    NoAttemptAfterContextEnds
