CONSTANTS
    p1 = p1
    p2 = p2
    p3 = p3
    p4 = p4
    tea = tea
    egg = egg
    Clients = {p1, p2, p3}
    Messages = {tea, egg}
    NoClient = NoClient
    NoMessage = NoMessage
    Commands <- AllCommands
    OneAtATime = FALSE
    UserKills = TRUE
SPECIFICATION Spec
CHECK_DEADLOCK FALSE
SYMMETRY Symmetric
INVARIANTS
    TypeOK
    OwnerListens
    StaleEntryIsSuperseded
