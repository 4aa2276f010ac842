SPECIFICATION Http2Spec
CONSTANTS
    Static <- StaticHere
    Fields <- PlainFieldsHere
    Length <- LengthHere
    Placeholder = "<h>"
    Lossy <- LossyHere
    Limits = {0, 70}
    MaxFrames = 3
    MaxReps = 4
INVARIANTS
    DecodesFully
CHECK_DEADLOCK FALSE
