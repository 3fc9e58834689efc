\* One request at a time is enough: a limit is set, then removed.
CONSTANTS
    Removed = Removed
    Changers = {1}
    Caps = {1, 2}
    Cooling = 2
    MaxClock = 1
    MaxChanges = 3
SPECIFICATION LimitsSpec
PROPERTIES
    LooseningWaits
CHECK_DEADLOCK FALSE
