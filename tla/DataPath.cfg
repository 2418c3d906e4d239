SPECIFICATION FairSpec
CONSTANTS
    client = client
    server = server
    Ends = {client, server}
    Peer <- Opposite
    ChunkSize = 2
    RxNum = 2
    Lengths <- Sizes
    Lens <- Requests
    MaxEmpty = 1
    MaxFaults = 1
INVARIANTS StreamIntact NothingLost ReceivesSuffice
PROPERTIES MessagesRead
CHECK_DEADLOCK FALSE
