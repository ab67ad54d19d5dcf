CONSTANTS
    w1 = w1
    w2 = w2
    r1 = r1
    Writers = {w1, w2}
    Readers = {}
    Buttons <- BothButtons
    Values <- ZeroOne
SPECIFICATION FairSpec
PROPERTIES
    KeepsTicking
    CallAnswered
