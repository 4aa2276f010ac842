SPECIFICATION Spec
CONSTANTS
    SeqSpan = 32
    Isn = 29
    MaxBuffer = 7
    MaxGap = 8
    Segments <- MCSegments
    MaxCaptures = 6
INVARIANTS
    NothingStranded
CHECK_DEADLOCK FALSE
