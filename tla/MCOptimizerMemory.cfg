SPECIFICATION Spec
CONSTANTS
    Program <- LoadsAroundStore
    Argument <- Arguments
    ByteBits = 2
    ImmBits = 3
CHECK_DEADLOCK FALSE
INVARIANT Preserves
