CONSTANTS
    p1 = p1
    p2 = p2
    p3 = p3
    p4 = p4
    tea = tea
    egg = egg
    Clients = {p1, p2, p3, p4}
    Messages = {tea, egg}
    NoClient = NoClient
    NoMessage = NoMessage
    Commands <- SerialCommands
    OneAtATime = TRUE
    UserKills = FALSE
SPECIFICATION Spec
SYMMETRY Symmetric
CHECK_DEADLOCK FALSE
PROPERTY IsReminderTable
