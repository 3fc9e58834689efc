\* Overflow at three frames, one heartbeat round. One credit a sweep, one in the
\* bucket, one a period; two slots.
CONSTANTS
    Capacity = 2
    MaxSeq = 5
    MaxPings = 1
    l1 = l1
    e1 = e1
    m1 = m1
    x = x
    y = y
    Leagues = {l1}
    Events = {e1}
    LeagueOf <- MCLeagueOf
    Markets = {m1}
    Contents = {x, y}
    Answers <- MCAnswers
    Readings <- MCReadings
    MaxConcurrentPolls = 2
    CreditsPerSweep = 1
    Burst = 1
    Limit = 1
    MaxSpent = 2
    MaxGenerations = 2
    g1 = g1
    g2 = g2
    Callers = {g1, g2}
    Attempts = 2
    MaxRotations = 2
    Free = Free
    None = None
    Nothing = Nothing
SPECIFICATION GoroutinesSpec
SYMMETRY MCSymmetry
INVARIANTS
    InNumberOrder
    NoSilentHole
    GapCountExact
    DrainedBeforeClose
    TornDownOnce
    SweepsTypeOK
    SuppressedIsOnTheBus
    BudgetKept
    KeeperCorrect
PROPERTIES
    ImplementsFrameStream
    FlushIsLast
CHECK_DEADLOCK FALSE
