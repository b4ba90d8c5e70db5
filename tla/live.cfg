SPECIFICATION FairSpec
CONSTANTS
    NBlocks = 2
    Start <- TwoStart
    Len_ <- TwoLen
    Coil = {2}
    Readable = {1}
    Writeable = {11}
    Throttled = {}
    Values = {v1}
    NoValue = NoValue
    MaxMessages = 3
    MaxRequests = 1
PROPERTIES
    RoundsEnd
    MainGetsThrough
    PendingWritesDrain
    DueBlocksPolled
