SPECIFICATION Spec
CONSTANTS
    Hooks = {h1}
    Heads = {x}
    NoHead = NoHead
    Ttl = 1
    LockTtl = 1
    MaxClock = 3
    MaxRuns = 1
    MaxKills = 0
    SearchUp = TRUE
CHECK_DEADLOCK FALSE
PROPERTY RetriedAfterTtl
