\* Two overflows, so that a resync frame may itself be discarded.
CONSTANTS
    Capacity = 1
    MaxSeq = 5
    MaxPings = 1
    None = None
SPECIFICATION FairSpec
PROPERTIES
    Ends
    LossReachesClient
CHECK_DEADLOCK FALSE
