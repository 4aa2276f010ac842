SPECIFICATION ThreadsSpec
CONSTANTS
    Supply = 6
    Cap = 2
    Options <- CommandLines
    d1 = d1
    d2 = d2
    Daemons = {d1, d2}
    NoDaemon = NoDaemon
    Faults = {"capture", "device", "accept", "crash"}
    h1 = h1
    h2 = h2
    h3 = h3
    Handlers = {h1, h2, h3}
    NoThread = NoThread
    MaxRequests = 4
INVARIANTS
    PipelineInv
    OutputComplete
    LifecycleInv
    NoCircle
PROPERTIES
    LeavingEnds
    EndsWhenTold
    WorkerReturns
CHECK_DEADLOCK FALSE
