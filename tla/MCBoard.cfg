\* One connection: a market that appears, changes and goes; overflow at three frames.
CONSTANTS
    m1 = m1
    e1 = e1
    l1 = l1
    l2 = l2
    Markets <- MCMarkets
    Events = {e1}
    Leagues = {l1}
    Payloads <- MCPayloads
    MaxObs = 1
    Routes <- MCRoutes
    Absent = Absent
    None = None
    Conns = {c1, c2}
    Capacity = 3
    MaxChannels = 2
    WireCap = 1
    MaxFolds = 3
    MaxAsked = 1
    Records <- MCRecords
    Restorable <- MCLeagueChannel
SPECIFICATION MCBoardSpec
INVARIANTS
    BoardCorrect
    WantedHeld
PROPERTIES
    NeverBackwards
    ResyncEnds
CHECK_DEADLOCK FALSE
