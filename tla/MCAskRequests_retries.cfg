SPECIFICATION Spec
CONSTANTS
    Calls = {c1, c2}
    Keys = {k1, k2}
    Filters = {f1, f2}
    Queries <- Bodies
    CacheMax = 1
    AnswerTtl = 1
    MaxEntries = 1
    KeyTtl = 2
    MaxTime = 2
    MaxCorpus = 1
    Nil = Nil
SYMMETRY Symmetry
INVARIANTS
    TypeOK
    CacheIsCurrent
PROPERTIES
    KeyHasOneAnswer
CONSTRAINT UntilClobbered
