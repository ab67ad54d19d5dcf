CONSTANTS
    MAXFIFO = 13
    Rounds = 10
    Garbage = 7
SPECIFICATION Spec
\* main ends, or an assertion ends it.
CHECK_DEADLOCK FALSE
INVARIANTS
    TypeOK
    AssertionNeedsGarbage
PROPERTY MainIsDataflow
