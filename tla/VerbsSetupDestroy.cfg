SPECIFICATION Spec
CONSTANTS
    w1 = w1
    w2 = w2
    Workers = {w1, w2}
    MaxSockets = 2
    MaxPort = 2
    DeviceLists <- OneDevice
INVARIANT DestroyedOnce
