SPECIFICATION Spec
CONSTANTS
    Program <- Functions
    CallerPool <- MCCallerPool
    CalleePool <- MCCalleePool
    ArgRegs <- MCArgRegs
    ReachWords = 6
    MinBackup = 1
    BufferWords = 2
INVARIANTS
    OperandsInPlace
    CallerStatePreserved
    BuffersUntouched
CHECK_DEADLOCK FALSE
