CONSTANTS
    Length = 5
    Programs <- AllPrograms
    FirstLine = 100
    ByteSize = 8
    MaxExecuted = 10
SPECIFICATION Spec
CHECK_DEADLOCK FALSE
INVARIANTS
    TypeOK
    CyclesAddUp
    UntouchedCellsAreZero
PROPERTY IsByteMachine
