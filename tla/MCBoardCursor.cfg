\* The board of a client that leaves starting_before out.
CONSTANTS
    Fixtures = {1, 2, 3}
    StartTimes = {1, 2}
    Listings <- MCPlainBoard
    Default = Default
    Endless = Endless
    Horizon = 2
    Sizes = {1, 2}
    MaxInstant = 1
    MaxEdits = 0
    NoCursor = NoCursor
SPECIFICATION PagesSpec
INVARIANTS
    CursorAccepted
CHECK_DEADLOCK FALSE
