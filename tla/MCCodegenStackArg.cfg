SPECIFICATION Spec
CONSTANTS
    Program <- StackArgAndBuffer
    CallerPool <- MCCallerPool
    CalleePool <- MCCalleePool
    ArgRegs <- MCArgRegs
    ReachWords = 6
    MinBackup = 1
    BufferWords = 2
INVARIANTS
    BuffersUntouched
CHECK_DEADLOCK FALSE
