SPECIFICATION FairSpec
CONSTANTS
    Program <- Lists
    ByteBits = 2
    ImmBits = 3
CHECK_DEADLOCK FALSE
INVARIANTS
    TypeOK
    PanicsExactly
PROPERTIES
    ImplementsAssembly
    Ends
