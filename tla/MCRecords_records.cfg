SPECIFICATION MCSpec
CONSTANTS
    Users = {u1, u2}
    Nil = Nil
    MaxClock = 2
    ElevCalls = {c1, c2}
    Windows = {1}
    MaxRecords = 2
    MaxElevations = 3
    Hooks = {h1}
    Couriers = {c1, c2}
    RotationGrace = 0
    AutoDisable = 2
    MaxAttempts = 2
    MaxSecret = 2
    Lines = {l1}
    Convs = {v1, v2}
    Rows = {q1}
    Purgers = {c1, c2}
    RetentionAge = 0
    ListLimit = 1
SYMMETRY Symmetry
INVARIANTS OneWindow ElevationEndsAsPromised
INVARIANTS PausedByItsFailures SecretsSignInTime
INVARIANTS OthersKeepTheirs ErasedUnlessCut
