SPECIFICATION FairSpec
CONSTANTS
    RdmaGap = 2
    Slices = 2
    RecvNums = 2
    RecvPosts = 4
    MaxCqe = 2
    Gap = 2
    Sizes <- BulkSizes
    MsgSize = 2
    Iter = 4
    MaxCalls = 2
    MaxPosts = 1
INVARIANTS BulkLanded InFlightRegistered IdleIsClean StreamLands ReadInOrder OnlyLastLost
PROPERTIES CallsReturn
CHECK_DEADLOCK FALSE
