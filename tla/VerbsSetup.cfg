SPECIFICATION Spec
CONSTANTS
    w1 = w1
    w2 = w2
    Workers = {w1, w2}
    MaxSockets = 2
    MaxPort = 2
    DeviceLists <- SmallLists
INVARIANT SocketsComplete
CHECK_DEADLOCK FALSE
