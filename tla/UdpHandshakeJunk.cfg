SPECIFICATION Spec
CONSTANTS
    w1 = w1
    w2 = w2
    Junk = Junk
    Threads = {w1, w2}
    Callers = {w1}
    Interrupted = {1, 2}
    MaxRetry = 1
    MaxConnect = 1
INVARIANT NoJunkPeer
CHECK_DEADLOCK FALSE
