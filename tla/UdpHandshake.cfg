SPECIFICATION FairSpec
CONSTANTS
    w1 = w1
    w2 = w2
    Junk = Junk
    Threads = {w1, w2}
    Callers = {w1, w2}
    Interrupted = {3}
    MaxRetry = 1
    MaxConnect = 2
INVARIANTS Paired BoundedDuplicates
PROPERTIES ConnectReturns PeerComesUp
CHECK_DEADLOCK FALSE
