CONSTANTS
    w1 = w1
    w2 = w2
    r1 = r1
    Writers = {w1}
    Readers = {r1}
    Buttons <- BothButtons
    Values <- AllValues
SPECIFICATION Spec
INVARIANTS
    TypeOK
    TimerNeverLost
    PinsFollowLights
    PatternGoesOnFromLights
    CallNotForgotten
    UndisturbedReport
PROPERTIES
    RedAfterYellow
    KeepsPromise
