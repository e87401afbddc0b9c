SPECIFICATION Spec
CONSTANTS
    Names = {"", "a", "b"}
    Questions <- SomeQuestions
    States = {"text", "null"}
    Extras <- SomeExtras
    MaxOptions = 2
    MinLevels = 2
    MaxLevels = 3
    Calls = {c1}
    Replies <- SomeReplies
    MaxEdits = 3
    MaxAttempts = 2
INVARIANTS
    KeyReadsWhatWasAsked
    OnlySoundBodiesSent
    BatchParsesOrFails
    LocalErrorsSendNothing
PROPERTY
    CallsKeepContract
CHECK_DEADLOCK FALSE
