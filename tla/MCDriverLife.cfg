CONSTANT Drivers <- AllDrivers
SPECIFICATION Spec
INVARIANTS
    TypeOK
    CrashHasCause
PROPERTY NothingLeftBehind
