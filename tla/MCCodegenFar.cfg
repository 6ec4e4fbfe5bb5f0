SPECIFICATION Spec
CONSTANTS
    Program <- FarOperands
    CallerPool <- MCCallerPool
    CalleePool <- MCCalleePool
    ArgRegs <- MCArgRegs
    ReachWords = 4
    MinBackup = 1
    BufferWords = 2
INVARIANTS
    OperandsInPlace
CHECK_DEADLOCK FALSE
