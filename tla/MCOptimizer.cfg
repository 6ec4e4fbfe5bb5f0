SPECIFICATION FairSpec
CONSTANTS
    Program <- Functions
    Argument <- Arguments
    ByteBits = 2
    ImmBits = 3
CHECK_DEADLOCK FALSE
INVARIANTS
    Preserves
    NothingDangles
    Exhausted
PROPERTY Terminates
