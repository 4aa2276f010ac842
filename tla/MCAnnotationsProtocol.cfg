SPECIFICATION Spec
CONSTANTS
    p1 = p1
    p2 = p2
    e1 = e1
    s1 = s1
    s2 = s2
    d1 = d1
    d2 = d2
    Procs = {p1, p2}
    Ends = {e1}
    Family <- FamilyHere
    Interval = 1
    MaxSockets = 3
    MaxTime = 5
    Paths = {p1, p2}
    Versions = {1, 2}
    MaxChanges = 3
    Sources = {s1, s2}
    Targets <- TargetsHere
    Public = {d1}
    CommonPorts = {22}
    Window = 1
    MinPorts = 3
    MinHosts = 2
    Times = {0, 1, 2}
    MaxProbes = 4
    n1 = n1
    n2 = n2
    unnamed = unnamed
    Ids = {1, 2, 3}
    Names = {n1, n2}
    NoName = unnamed
    Hosts = {d1}
    Answers <- AnswersHere
    Capacity = 2
    MaxHeard = 5
    VolumeInterval = 2
    AlphaNum = 1
    AlphaDen = 2
    Unit = 16
    Z = 4
    Floor = 3
    MinSamples = 3
    Sizes = {0, 1, 4}
    Clock = {0, 1, 2, 3, 5, 7, 9}
    MaxPackets = 7
    MaxSamples = 4
    Lexicons <- LexiconsHere
    Protos <- ProtosHere
    LayersOf <- LayersHere
    Dotted <- DottedHere
    Addresses = {"10.0.0.1"}
    Numbers = {"443"}
    Within <- WithinHere
    Packets <- PacketsHere
INVARIANT
    ProtocolExact
CHECK_DEADLOCK FALSE
