SPECIFICATION FairSpec
CONSTANTS
    i1 = i1
    i2 = i2
    Inspectors = {i1, i2}
    Suspended = {i2}
    Cap = 2
    FeedCap = 4
    QueryLimit = 2
    MaxAlerts = 2
    Times = {1, 2}
    MaxIds = 2
    MaxEvents = 3
INVARIANTS
    SyncInv
    StreamExact
    ViewConverges
PROPERTIES
    EventuallyShown
CHECK_DEADLOCK FALSE
