SPECIFICATION MCSpec
CONSTANTS
    Facts <- MCFacts
    MaxHits = 1
    Manifests <- MCManifests
    Near <- MCNear
    Texts = {"old", "new"}
    MaxComponents = 2
    MaxEdits = 1
    MaxAttempts = 2
    MaxRuns = 2
    MaxLost = 1
    MaxRefused = 1
    Holders = {h1, h2}
    Results = {"r"}
    HubThreshold = 1
    MaxLines = 3
    MaxTornLines = 1
    NotLoaded = NotLoaded
    Torn = Torn
    Garbled = Garbled
    Recorders = {h1, h2}
    Window = 2
    MaxRecords = 4
    MaxTornSaves = 1
    NoHistory = NoHistory
    TornFile = TornFile
    Compactions = {c1, c2}
    Scripts = {"shared", "codex_hook", "codex_script"}
    Refs = {i1, i2}
    Entries = {f1, f2, f3}
    PageSize = 1
    FewHits = 2
    MaxUpkeep = 2
    NoFact = NoFact
CHECK_DEADLOCK FALSE
INVARIANT MCTypeOK
INVARIANT RepositoryIsolation
INVARIANT SupersededStaysOut
INVARIANT DuplicatesHaveAReason
INVARIANT EdgesAreTrue
INVARIANT HubsStayOut
INVARIANT PostureFollowsTheLoops
INVARIANT RecoverySaysTheTruth
INVARIANT ReportsAreTrue
PROPERTY EveryRunEnds
