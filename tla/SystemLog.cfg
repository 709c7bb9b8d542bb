SPECIFICATION LogSpec
CONSTANTS
    systemLogMaxEntries = 4
    MaxAdded = 12
    Tails = {0, 1, 2, 3, 4, 5}
INVARIANTS
    LogTypeOK
    LogIsNewest
PROPERTY PollMissesNothing
CHECK_DEADLOCK FALSE
