SPECIFICATION FairSpec
CONSTANTS
    w1 = w1
    w2 = w2
    s1 = s1
    s2 = s2
    Workers = {w1, w2}
    Sockets = {s1, s2}
    Owner <- EachOwner
    TxCq <- EachOwner
    ChunkSize = 2
    RxNum = 2
    TxNum = 0
    MAX_COMPLETIONS = 2
    MAX_ACK_EVENT = 2
    Lengths = {2, 3}
    MaxEmpty = 0
    ReadLens = {1}
    MaxReads = 1
INVARIANTS TypeOK ReapsFilledEntries NoLostWakeup NotifyInv ChunkConservation PostedBytesMatch NeverPastEnd
PROPERTIES SentChunksComeBack WakeupRefined
