SPECIFICATION MCSpec
CONSTANTS
    Items = {"a", "b"}
    Works <- MCWorks
    Verifiers = {v1}
    Benches = {b1}
    MaxEdits = 0
    Seconds = {0}
    FirstIds = {0}
    MaxRequests = 1
    Delegates = {"d"}
    Capabilities = {"c"}
    Durations = {1, 3}
    MaxTime = 1
    MaxLeases = 1
    MaxTorn = 0
    Kinds = {"mcp", "rules", "toml", "hooks", "settings", "pro", "rulefile"}
    Settings = {"line", "table", "switch"}
    Tables = {"table"}
    Switches = {"switch"}
    Installers = {p1, p2}
    MaxInstalls = 1
    Checkers = {k1}
    Programs = {"daily", "doctor_all", "install", "codex", "pro"}
    MaxChecks = 1
    MaxTurns = 0
    Distractors = {"lexical"}
    RankedProbes = {"dim1", "dim2"}
    Docs = {"d1"}
    Cutoff = 3
    Unit = 6
    Weights <- MCWeights
    Outputs = {0, 1, 2}
    MaxFixtures = 2
    Cases = 2
    SmokeCases = 1
    Dims = {"dim1", "dim2"}
    Tries = 2
    MaxMisses = 0
    Budgets = {4, 6}
    NoVerdict = NoVerdict
    Adapters = {"stale", "sleeper", "kernel"}
    Samples = {s1, s2}
    Poison = {s2}
    Interpreters <- MCInterpreters
    NumCases = 1
    NumProbes = 1
    TicksPerSecond = 2
    MaxTicks = 1
    Never = Never
    Lanes = {"longmemeval", "beir", "luna"}
    Questions = {q1, q2}
    MaxPasses = 3
    TornLine = TornLine
CHECK_DEADLOCK FALSE
PROPERTY MeasuredIsKept
