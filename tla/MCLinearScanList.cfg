SPECIFICATION Spec
CONSTANTS
    t3 = t3
    s1 = s1
    s2 = s2
    Value = {v1, v2, v3, v4}
    CallerPool <- OneCaller
    CalleePool <- TwoCallee
    MaxIndex = 3
SYMMETRY ValueSymmetry
CHECK_DEADLOCK FALSE
INVARIANT ListsSound
PROPERTY ImplementsLinearScan
