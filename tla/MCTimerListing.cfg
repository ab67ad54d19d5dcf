CONSTANTS
    p1 = p1
    p2 = p2
    p3 = p3
    tea = tea
    egg = egg
    l1 = l1
    Clients = {p1, p2}
    Messages = {tea, egg}
    NoClient = NoClient
    NoMessage = NoMessage
    Commands <- SetOrAllowTwo
    OneAtATime = FALSE
    UserKills = FALSE
    Listers = {l1}
SPECIFICATION FairListSpec
CHECK_DEADLOCK FALSE
INVARIANT CalmListing
PROPERTY ListenersAreWoken
