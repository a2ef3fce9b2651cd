SPECIFICATION MCSpec
CONSTANTS
    Owners = {o1, o2}
    Ids = {i1}
    Purposes = {del, key}
    DeletionPurpose = del
    Calls = {c1, c2}
    Ttls = {2}
    MaxTime = 2
    Nil = Nil
    Graces = {1}
    CacheTtl = 1
    FreezeTtl = 1
SYMMETRY Symmetry
INVARIANTS FourEyes ConsumedOnce WipeAfterDue
PROPERTIES GateIsCurrent FreezeIsCurrent
