CONSTANTS
    u1 = u1
    u2 = u2
    u3 = u3
    a = a
    b = b
    Users = {u1, u2, u3}
    Bytes = {a, b}
    Texts <- SomeTexts
    Capacity = 3
    Bite = 2
    Zero = Zero
    Outside = Outside
SPECIFICATION FairSpec
\* Every process runs once.
CHECK_DEADLOCK FALSE
INVARIANTS
    TypeOK
    QuietReaderGetsMessage
    QuietWriterSetsMessage
PROPERTY EverySessionEnds
