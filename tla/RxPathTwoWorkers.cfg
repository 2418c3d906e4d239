SPECIFICATION FairSpec
CONSTANTS
    w1 = w1
    w2 = w2
    s1 = s1
    s2 = s2
    Workers = {w1, w2}
    Sockets = {s1, s2}
    Owner <- EachOwner
    ChunkSize = 2
    RxNum = 2
    MAX_COMPLETIONS = 2
    MAX_ACK_EVENT = 2
    Lens = {1, 3}
    WriteLens = {1}
    MaxUsed = 1
INVARIANTS TypeOK StreamExact NoByteDropped TakesFilledEntries NoLostWakeup
PROPERTIES MessagesTaken WakeupRefined
CHECK_DEADLOCK FALSE
