\* Two connections, one request, a restored channel, and the shutdown.
CONSTANTS
    m1 = m1
    e1 = e1
    l1 = l1
    p1 = p1
    Markets <- MCMarkets
    Events = {e1}
    Leagues = {l1}
    Payloads = {p1}
    MaxObs = 1
    Routes <- MCRoutes
    Absent = Absent
    Conns = {c1, c2}
    Capacity = 3
    MaxChannels = 1
    WireCap = 1
    MaxFolds = 0
    MaxAsked = 1
    Records <- MCRecords
    Restorable <- MCOneChannel
SPECIFICATION FairGatewaySpec
PROPERTIES
    ShutdownEmptiesHub
CHECK_DEADLOCK FALSE
