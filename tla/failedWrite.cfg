SPECIFICATION Spec
CONSTANTS
    NBlocks = 1
    Start <- OneStart
    Len_ <- OneLen
    Coil = {}
    Readable = {1, 2}
    Writeable = {2}
    Throttled = {1}
    Values = {v1, v2}
    NoValue = NoValue
    MaxMessages = 2
    MaxRequests = 2
SYMMETRY Symmetry
INVARIANT FailureEndsRound
