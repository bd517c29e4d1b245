CONSTANTS
    none = none
    NoText = none
    MinBody = 1
    MinHoldback = 1
    MaxSpan = 5
    MaxTokenLen = 4
    MaxLen = 3
    MaxChunk = 2
    PlainOnly = TRUE
SPECIFICATION Spec
CHECK_DEADLOCK FALSE
INVARIANT SentIsBilled
