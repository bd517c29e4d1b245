CONSTANTS
    none = none
    NoText = none
    MinBody = 1
    MinHoldback = 1
    MaxSpan = 5
    MaxTokenLen = 4
    MaxLen = 6
    MaxChunk = 2
    PlainOnly = TRUE
SPECIFICATION Spec
INVARIANTS
    TypeOK
    NoLeakPassed
    ReplayIsTheSame
PROPERTY ImplementsWholeAnswer
CHECK_DEADLOCK FALSE
