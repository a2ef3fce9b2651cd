SPECIFICATION CrashSpec
CONSTANTS
    Nil = Nil
    Torn = Torn
    empty = empty
    note = note
    essay = essay
    MaxChunks = 2
    Paths = {p1}
    Contents <- MCTwoContents
    Chunks <- MCTwoChunks
    Runs = {r1}
    Kinds = {"ingest"}
    Concurrency = 1
    MayFail = FALSE
    MaxEdits = 1
INVARIANT IngestReconcilesBm
CHECK_DEADLOCK FALSE
