\* Two connections, two requests, two restored channels, a record, the shutdown.
CONSTANTS
    m1 = m1
    e1 = e1
    l1 = l1
    p1 = p1
    Markets <- MCMarkets
    Events = {e1}
    Leagues = {l1}
    Payloads = {p1}
    MaxObs = 1
    Routes <- MCRoutes
    Absent = Absent
    Conns = {c1, c2}
    Capacity = 3
    MaxChannels = 1
    WireCap = 0
    MaxFolds = 1
    MaxAsked = 2
    Records <- MCRecords
    Restorable <- MCChannels
SPECIFICATION GatewaySpec
INVARIANTS
    GatewayTypeOK
    RoutesMatchHeld
    NobodyAdmittedLate
SYMMETRY MCSymmetry
CHECK_DEADLOCK FALSE
