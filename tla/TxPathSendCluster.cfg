SPECIFICATION Spec
CONSTANTS
    w1 = w1
    w2 = w2
    s1 = s1
    s2 = s2
    Workers = {w1}
    Sockets = {s1, s2}
    Owner <- OneOwner
    TxCq <- OneOwner
    ChunkSize = 2
    RxNum = 3
    TxNum = 1
    MAX_COMPLETIONS = 2
    MAX_ACK_EVENT = 2
    Lengths = {1, 2, 3, 4}
    MaxEmpty = 0
    ReadLens = {}
    MaxReads = 0
INVARIANT SendClusterServesSends
