SPECIFICATION Spec
CONSTANTS
    LevelTypes <- SmallTypes
    IntBits = 3
    LongBits = 4
    MinLevels = 2
    MaxLevels = 4
    ScaleSizes = {0, 1, 2, 3, 4, 5}
    WireKeys <- SomeKeys
    Scores <- SomeScores
    WireSizes = {0, 1, 2}
INVARIANT
    NearestNeverNegative
CHECK_DEADLOCK FALSE
