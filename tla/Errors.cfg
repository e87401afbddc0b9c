SPECIFICATION Spec
CONSTANTS
    Millisecond = 2
    MaxDuration = 31
    Floats = {0, 1, 2, 3, 4, 5, 6, 7, 8, 10, 12, 14, 16, 20, 24, 28, 32, 40, 48, 56}
    Overflowed <- LeastDuration
    FromNaN <- LeastDuration
    JitterUnit = 4
    MaxBodyEcho = 2
    Words <- AllWords
    Values <- AllValues
    Responses <- AllResponses
    Attempts = 3
    Now = 6
INVARIANTS
    MessageAsDocumented
    SaysSomethingShort
    SentinelsTellRetries
CHECK_DEADLOCK FALSE
