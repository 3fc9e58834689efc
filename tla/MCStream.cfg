\* Two connections, one after the other; a buffer of two events; two callers.
CONSTANTS
    m1 = m1
    e1 = e1
    l1 = l1
    Markets <- MCMarkets
    Events = {e1}
    Leagues = {l1}
    Payloads <- MCPayloads
    MaxObs = 1
    Routes <- MCRoutes
    Absent = Absent
    None = None
    Conns = {c1, c2}
    Capacity = 1
    MaxChannels = 2
    WireCap = 1
    MaxFolds = 0
    MaxAsked = 2
    Records <- MCRecords
    Restorable <- MCLeagueChannel
    Buffer = 2
    Callers = {g1, g2}
    MaxAttempts = 2
    Reconnects = TRUE
SPECIFICATION MCStreamSpec
INVARIANTS
    StreamCorrect
PROPERTIES
    CloseReturns
CHECK_DEADLOCK FALSE
