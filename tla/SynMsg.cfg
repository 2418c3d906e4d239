SPECIFICATION Spec
CONSTANTS
    Byte <- Bits
    GidWords = 2
    Msgs <- SmallMsgs
    Stale <- Bits
INVARIANT RoundTrip
