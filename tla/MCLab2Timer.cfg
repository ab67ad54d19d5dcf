CONSTANTS
    w1 = w1
    w2 = w2
    Writers = {w1, w2}
    Packets <- AllPackets
    NumSlots = 3
SPECIFICATION Spec
INVARIANTS
    TypeOK
    LoneTimerSaysItsText
PROPERTIES
    AloneAddsBelowMaximum
    AloneAddsNewText
