SPECIFICATION Spec
CONSTANTS
    Program <- UnusedParam
    CallerPool <- MCCallerPool
    CalleePool <- MCCalleePool
    ArgRegs <- MCArgRegs
    ReachWords = 6
    MinBackup = 1
    BufferWords = 2
INVARIANTS
    OperandsInPlace
CHECK_DEADLOCK FALSE
