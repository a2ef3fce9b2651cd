SPECIFICATION MCFairSpec
CONSTANTS
    Nil = Nil
    Torn = Torn
    empty = empty
    note = note
    essay = essay
    MaxChunks = 2
    Paths = {p1, p2}
    Contents <- MCTwoContents
    Chunks <- MCTwoChunks
    Runs = {r1, r2}
    Kinds = {"watch"}
    Concurrency = 1
    MayFail = FALSE
    MaxEdits = 2
    Drains = {d1}
    Ticks = {t1}
    Admins = {a1}
    MaxEvents = 2
    Ts <- MCOwnMs
    DeadAfter = 2
    MaxBatch = 1
    MaxDead = 1
    MaxSecrets = 1
    MaxCrashes = 1
    Ops = {"create", "disable", "enable", "delete"}
    Absent = Absent
PROPERTIES WatcherCatchesUp  
\* The user of the watched files stops after MaxEdits writes.
CHECK_DEADLOCK FALSE
