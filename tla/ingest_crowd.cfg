SPECIFICATION Spec
CONSTANTS
    Hooks = {h1, h2}
    Heads = {x}
    NoHead = NoHead
    Ttl = 1
    LockTtl = 0
    MaxClock = 2
    MaxRuns = 2
    MaxKills = 1
    SearchUp = TRUE
CHECK_DEADLOCK FALSE
INVARIANT TypeOK
INVARIANT OneIngest
INVARIANT NoRepeatedRun
INVARIANT OkStampIsTrue
SYMMETRY Symmetry
