SPECIFICATION FairSpec
CONSTANT Program <- Generated
CHECK_DEADLOCK FALSE
INVARIANTS
    FixpointIsLiveness
    ClobberIsOverlap
PROPERTIES
    SetsOnlyGrow
    Terminates
