\* Two markets; two connections; one straight bet in two hands; words of five bits.
CONSTANTS
    m1 = m1
    m2 = m2
    e1 = e1
    e2 = e2
    l1 = l1
    l2 = l2
    p1 = p1
    c1 = c1
    c2 = c2
    s1 = s1
    s2 = s2
    r1 = r1
    r2 = r2
    h1 = h1
    h2 = h2
    x = x
    y = y
    bad = bad
    pa = pa
    pb = pb
    Absent = Absent
    Nobody = Nobody
    Overflow = Overflow
    NoTicket = NoTicket
    Markets = {m1, m2}
    Events = {e1, e2}
    Leagues = {l1, l2}
    Payloads = {p1}
    MaxObs = 3
    Routes <- MCRoutes
    Conns = {c1, c2}
    Sessions = {s1, s2}
    Replicas = {r1, r2}
    ChannelNames = {x, y}
    Setups <- MCSetups
    PerCall = 1
    TTL = 2
    MaxCount = 2
    Half = 16
    MaxSafe = 7
    Hands = {h1, h2}
    Slips <- MCSlips
    Played <- MCPlayed
    Gradings = {"won"}
    Endings = {"won", "lost"}
    Amounts = {0, 2, 3, 4}
    Corrections <- MCCorrections
    MaxLegs = 2
    MaxTime = 1
    MaxPosts = 2
    Partitions = {pa, pb}
    Topics <- MCTopics
    Fresh <- MCFresh
    Keys = {"a", "b", "c"}
    MaxLog = 3
    MaxPoll = 2
    Swept = Swept
    Pricers = {h1, h2}
    Revisions = {1, 2}
    Inputs <- MCInputs
    Unpriceable = {bad}
    MaxWarmTries = 3
    MaxMishaps = 2
    Gone = Gone
    Untracked = Untracked
    Writers = {h1, h2}
    Feed <- MCLines
    MaxAgain = 1
    NoRow = NoRow
    Changers = {h1, h2}
    Caps = {1, 2}
    Removed = Removed
    Cooling = 2
    MaxClock = 1
    MaxChanges = 4
    Fixtures = {1, 2, 3}
    StartTimes = {1, 2}
    Listings <- MCListings
    Default = Default
    Endless = Endless
    Horizon = 2
    Sizes = {1, 2}
    MaxInstant = 1
    MaxEdits = 1
    NoCursor = NoCursor
SPECIFICATION StoresSpec
INVARIANTS
    IndexExact
    SnapshotIsWhatIsPublished
    PresenceCorrect
    TicketsCorrect
    ReplayCorrect
    ArithmeticExact
    WriterCorrect
    PricerCorrect
    LimitsCorrect
    PagesCorrect
PROPERTIES
    NeverRegresses
    EveryChangeAnnounced
SYMMETRY MCSymmetry
CHECK_DEADLOCK FALSE
