SPECIFICATION Spec
CONSTANTS
    Threshold <- MCThreshold
    Torn = Torn
    Gates = {g1, g2}
    Payers = {p1, p2}
    Classes = {"high"}
    MaxRuns = 3
    MaxDirect = 1
    MaxCrashes = 1
    MaxSecond = 0
    Exclusive = FALSE
CHECK_DEADLOCK FALSE
INVARIANT OvershootBounded
INVARIANT PacketsMatchDebt
INVARIANT StoreIsAccountable
