SPECIFICATION MCSpec
CONSTANTS
    Items = {"a", "b"}
    Works <- MCWorks
    Verifiers = {v1}
    Benches = {b1}
    MaxEdits = 1
    Seconds = {0}
    FirstIds = {0}
    MaxRequests = 3
    Delegates = {"d"}
    Capabilities = {"c"}
    Durations = {1, 3}
    MaxTime = 2
    MaxLeases = 3
    MaxTorn = 2
    Kinds = {"mcp", "rules", "toml", "hooks", "settings", "pro", "rulefile"}
    Settings = {"line", "table", "switch"}
    Tables = {"table"}
    Switches = {"switch"}
    Installers = {p1, p2}
    MaxInstalls = 3
    Checkers = {k1}
    Programs = {"daily", "doctor_all", "install", "codex", "pro"}
    MaxChecks = 2
    MaxTurns = 2
    Distractors = {"lexical"}
    RankedProbes = {"dim1", "dim2"}
    Docs = {"d1", "d2", "d3"}
    Cutoff = 3
    Unit = 6
    Weights <- MCWeights
    Outputs = {0, 1, 2}
    MaxFixtures = 2
    Cases = 2
    SmokeCases = 1
    Dims = {"dim1", "dim2"}
    Tries = 2
    MaxMisses = 2
    Budgets = {4, 6}
    NoVerdict = NoVerdict
    Adapters = {"stale", "sleeper", "kernel"}
    Samples = {s1, s2}
    Poison = {s2}
    Interpreters <- MCInterpreters
    NumCases = 2
    NumProbes = 2
    TicksPerSecond = 2
    MaxTicks = 4
    Never = Never
    Lanes = {"longmemeval", "beir", "luna"}
    Questions = {q1, q2}
    MaxPasses = 3
    TornLine = TornLine
CHECK_DEADLOCK FALSE
INVARIANT MCTypeOK
INVARIANT PromotionIsEarned
INVARIANT VerificationIsClean
INVARIANT AnswersArrive
INVARIANT VerdictsAreRight
INVARIANT InstallsAreRepeatable
INVARIANT GreenIsEarned
INVARIANT GradesAreEarned
INVARIANT ReportIsReal
INVARIANT RivalsAreReal
INVARIANT ResumeIsExact
INVARIANT ScoresAreRight
