SPECIFICATION MCSpec
CONSTANTS
    Writers = {w1, w2}
    KeepFiles = 1
    RotateAt = 2
    MaxRecords = 6
    MayTear = TRUE
    Open = Open
    Bad = Bad
    Purposes = {"verify", "anchor", "check", "prove"}
    MaxAnchors = 1
    Drains = {d1}
    Ticks = {t1, t2}
    t2 = t2
    second = t2
    Admins = {a1}
    MaxEvents = 2
    Ts <- MCOwnMs
    DeadAfter = 2
    MaxBatch = 1
    MaxDead = 1
    MaxSecrets = 2
    MaxCrashes = 1
    Ops = {"create", "disable", "delete", "enable", "rotate"}
    Absent = Absent
INVARIANTS
    
    ChainIsContiguous
    
    AnchorsAreTrue
    CertificateIsTrue
    
    
PROPERTIES
    DropsOnlyPastKeepFiles
    OwnerChangesStick
    ImplementsChain
\* No more records are built once MaxRecords is reached.
CHECK_DEADLOCK FALSE
