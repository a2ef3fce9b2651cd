SPECIFICATION TrailSpec
CONSTANTS
    Writers = {w1, w2}
    KeepFiles = 1
    RotateAt = 0
    MaxRecords = 2
    MayTear = FALSE
    Open = Open
    Bad = Bad
    Purposes = {"verify"}
    MaxAnchors = 0
INVARIANTS
    VerifyAccepts
\* No more records are built once MaxRecords is reached.
CHECK_DEADLOCK FALSE
