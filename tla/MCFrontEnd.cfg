SPECIFICATION Spec
CONSTANTS
    Letter <- Letters
    Keyword <- Keywords
    Digit <- Digits
    Huge = {"9big"}
    TypeName = {"i32", "void"}
    CmpOp = {"eq"}
    Source <- Texts
CHECK_DEADLOCK FALSE
INVARIANTS
    TokensAreLexemes
    NamesResolve
    OnlyUndeclaredNamesFail
    RoundTrip
PROPERTY EveryTurnAdvances
