CONSTANTS
    p1 = p1
    k1 = k1
    x = x
    y = y
    a = a
    b = b
    Members = {a, b}
    Parts = {p1}
    LogLen = 4
    MaxPoll = 2
    Undecodable <- MCOneUndecodable
    MaxTrouble = 2
    Nobody = Nobody
    MarketsOf <- MCMarketsOf
    Contents = {x, y}
    Raw <- MCRaw
    MaxWarm = 2
SPECIFICATION FairNormalizerSpec
INVARIANTS
    FeedCorrect
PROPERTIES
    FeedSteps
    EveryRecordCommitted
CHECK_DEADLOCK FALSE
