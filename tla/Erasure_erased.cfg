SPECIFICATION ErasureSpec
CONSTANTS
    Users = {u1}
    Nil = Nil
    MaxClock = 1
    Lines = {l1}
    Convs = {v1, v2}
    Rows = {q1}
    Purgers = {c1, c2}
    RetentionAge = 0
    ListLimit = 1
INVARIANT ErasedIsGone
