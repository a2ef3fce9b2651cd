SPECIFICATION MCSpec
CONSTANTS
    Nil = Nil
    Torn = Torn
    empty = empty
    note = note
    essay = essay
    p2 = p2
    spare = p2
    MaxChunks = 2
    Paths = {p1, p2}
    Contents <- MCContents
    Chunks <- MCChunks
    Runs = {r1, r2}
    Kinds = {"ingest", "watch", "compact", "forget"}
    Concurrency = 2
    MayFail = TRUE
    MaxEdits = 2
    Members = {u1, u2}
    QuotaCalls = {r1, r2}
    Puts = {o1}
    BatchSizes = {1, 2}
    Limits = {1}
    DefaultLimit = 2
    MaxMonth = 1
    MaxUnits = 4
    Unlimited = Unlimited
    Keep = Keep
    Truncated = Truncated
    NoCall = NoCall
    Providers = 2
    MaxDeltas = 2
    Passages <- MCPassages
    OriginOf <- MCOriginOf
    LexScores = {0, 1, 2}
    DenseScores <- MCDense
    Alphas = {3}
    Boosts = {1, 2}
    Bonuses = {0, 10}
    Alike <- MCAlike
    Lambda = 5
    TopK = 2
    Size <- MCSize
    Budgets = {1, 3}
SYMMETRY Symmetry
INVARIANTS SkipIsSound LegsAgree SkipIsSoundInLance
INVARIANTS MetersAreBounded OneVoice BothLegsCount ExplainAgrees CitationsResolve
\* After a crash that left a file torn the process does not start again.
CHECK_DEADLOCK FALSE
