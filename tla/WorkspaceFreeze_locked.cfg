SPECIFICATION LockSpec
CONSTANTS
    Owners = {o1, o2}
    Ids = {i1}
    Purposes = {del}
    DeletionPurpose = del
    Calls = {c1, c2}
    Ttls = {1}
    MaxTime = 0
    Nil = Nil
    Graces = {1}
    CacheTtl = 1
    FreezeTtl = 1
INVARIANT SomeLockOpens
