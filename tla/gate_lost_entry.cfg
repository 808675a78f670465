SPECIFICATION Spec
CONSTANTS
    Threshold <- MCThreshold
    Torn = Torn
    Gates = {g1}
    Payers = {p1}
    Classes = {"medium"}
    MaxRuns = 2
    MaxDirect = 0
    MaxCrashes = 0
    MaxSecond = 0
    Exclusive = FALSE
CHECK_DEADLOCK FALSE
INVARIANT EntriesSurvive
