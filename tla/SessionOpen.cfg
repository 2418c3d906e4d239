SPECIFICATION FairSpec
CONSTANTS
    c1 = c1
    c2 = c2
    Server = Server
    Junk = Junk
    Clients = {c1, c2}
    RecvNums = 2
    MaxData <- CallsOf
INVARIANTS ServerReadyFirst KeysOfPeer ClientLosesNothing IdleIsDrained
PROPERTY SessionOpens
CHECK_DEADLOCK FALSE
