SPECIFICATION FairSpec
CONSTANTS
    Threshold <- MCThreshold
    Torn = Torn
    Gates = {g1}
    Payers = {p1, p2}
    Classes = {"high", "medium"}
    MaxRuns = 3
    MaxDirect = 1
    MaxCrashes = 0
    MaxSecond = 1
    Exclusive = TRUE
CHECK_DEADLOCK FALSE
INVARIANT TypeOK
INVARIANT EntriesSurvive
INVARIANT PaidStaysPaid
PROPERTY BudgetKept
PROPERTY RunsEnd
