CONSTANTS
    w1 = w1
    w2 = w2
    r1 = r1
    Writers = {}
    Readers = {}
    Buttons <- Btn0Only
    Values <- ZeroOne
SPECIFICATION Spec
PROPERTY ModeChangeRestartsPattern
