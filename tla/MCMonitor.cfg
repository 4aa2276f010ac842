SPECIFICATION FairSpec
CONSTANTS
    k1 = k1
    k2 = k2
    k3 = k3
    Keys = {k1, k2, k3}
    TcpKeys = {k1}
    LocalSide <- MCLocalSide
    MaxFlows = 2
    Sizes = {1}
    Flags = {"none", "fin", "rst"}
    MaxPackets = 4
    Procs = {}
    NoProc = NoProc
    StoreOutcomes = {TRUE, FALSE}
INVARIANTS
    IInv
    TablesAgree
    HistoryExact
    NothingForgotten
    LiveAgrees
    FeedExact
PROPERTIES
    EndIsObeyed
    KeepsBook
CHECK_DEADLOCK FALSE
