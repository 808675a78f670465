SPECIFICATION FairSpec
CONSTANTS
    Hooks = {h1}
    Heads = {x, y}
    NoHead = NoHead
    Ttl = 2
    LockTtl = 0
    MaxClock = 2
    MaxRuns = 2
    MaxKills = 1
    SearchUp = TRUE
CHECK_DEADLOCK FALSE
PROPERTY LockReleased
