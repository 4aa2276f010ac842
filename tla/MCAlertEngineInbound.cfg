SPECIFICATION EngineSpec
CONSTANTS
    p1 = p1
    Procs = {p1}
    NoProc = NoProc
    Dests = {"d1", "d2"}
    Labels = {"owner", "address"}
    GeoOf <- MCGeoOf
    Idents <- MCIdents
    NoIdent = NoIdent
    FlagUpdates = FALSE
    Flows <- MCFlows
    Cooldown = 2
    Windows = {0, 1}
    Times = {1, 2, 3}
    MaxEvents = 2
    MaxFaults = 0
INVARIANTS
    FirstEgressAlerts
CHECK_DEADLOCK FALSE
