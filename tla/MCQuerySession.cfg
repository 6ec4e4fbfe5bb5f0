SPECIFICATION FairSpec
CONSTANTS
    f = f
    g = g
    Fn = {f, g}
    Source <- Texts
    Garbage <- BadText
    Tie = {t1, t2}
    MaxRevision = 3
CHECK_DEADLOCK FALSE
INVARIANTS
    TypeOK
    ReplyIsFresh
    OneCodePerFunction
PROPERTIES
    RequestsEnd
    CodegenIsolated
    BytesStable
    LinkNeverPanics
    RepeatIsSilent
