SPECIFICATION Spec
CONSTANTS
    k1 = k1
    k2 = k2
    k3 = k3
    Keys = {k1, k2}
    TcpKeys = {k1}
    LocalSide <- MCLocalSide
    MaxFlows = 1
    Sizes = {1}
    Flags = {"none", "rst"}
    MaxPackets = 3
    Procs = {}
    NoProc = NoProc
    StoreOutcomes = {TRUE, FALSE}
INVARIANTS
    TotalsNeverLost
CHECK_DEADLOCK FALSE
