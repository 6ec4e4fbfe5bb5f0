SPECIFICATION FairSpec
CONSTANTS
    Value = {v1, v2, v3, v4}
    CallerSaved = {t3}
    CalleeSaved = {s1}
    MaxIndex = 3
CHECK_DEADLOCK FALSE
INVARIANTS
    TypeOK
    NoSharing
    PoolConserved
    CallSafe
    CalleeSavedRecorded
    SlotsDisjoint
PROPERTIES
    SpillNeedsPressure
    SpillsFurthestEnd
    PlacementOnlyDegrades
    AllPlaced
