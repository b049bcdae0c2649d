CONSTANTS
    p1 = p1
    p2 = p2
    v10 = v10
    v11 = v11
    v20 = v20
    Nil = Nil
    Plans = {p1, p2}
    Versions = {v10, v11, v20}
    Lists <- MCLists
    MaxCalls = 3

SPECIFICATION Spec

INVARIANT TypeOK


CHECK_DEADLOCK FALSE
