CONSTANTS
    Width = 5
    Numbers <- SomeNumbers
    ArraySize = 4
SPECIFICATION FairSpec
\* The program ends.
CHECK_DEADLOCK FALSE
INVARIANTS
    TypeOK
    ListOrdered
    EveryNodeOnce
    OutputIsSortedInput
PROPERTY Ends
