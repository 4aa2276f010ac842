SPECIFICATION DissectionSpec
CONSTANTS
    d1 = d1
    d2 = d2
    SeqSpan = 32
    Isn = 29
    MaxUnacked = 2
    MaxBuffer = 7
    MaxGap = 8
    Segments <- MCSegments
    MaxCaptures = 6
    Sendings <- MCSendings
    Acks = {2, 4, 30, 44, 70}
    MaxTracked = 7
    Frames <- FramesHere
    Junk <- JunkHere
    Contents = {"dns", "quic", "hello", "handshake", "http2", "http", "opaque"}
    LocalIps = {d1}
    PrivateIps = {}
    Base = 2
    DomainNames <- NamesHere
    RecordTypes = {1, 6}
    Noise = {0, 1, 192, 255}
    MaxDepth = 4
    MaxRecords = 2
    MaxChanged = 1
    Prelude = 3
    Hellos <- HellosHere
    Extensions <- ExtensionsHere
    MaxExtensions = 3
    Tails <- TailsHere
    Garble = {0, 1, 255}
    Static <- StaticHere
    Lossy <- LossyHere
    Fields <- FieldsHere
    Length <- LengthHere
    Placeholder = "<h>"
    Limits = {0, 70}
    MaxFrames = 3
    MaxReps = 4
    Capacity = 2
    Height = 1
    Page = 2
    Texts <- TwoTexts
    Kinds <- TwoKinds
    MaxPackets = 4
INVARIANTS
    ViewInv
    SelectionExact
    BufferInv
    StreamExact
    CleanStreamFlows
    DecodeExact
    MessagesExact
    HelloExact
    HeadersExact
PROPERTIES
    TrackingExact
CHECK_DEADLOCK FALSE
