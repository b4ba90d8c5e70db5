SPECIFICATION PassSpec
CONSTANTS
    NBlocks = 2
    Len_ <- MCLen
    Throttled <- MCThrottled
    Writeable <- MCWriteable
    MaxMessages = 3
PROPERTIES
    FirstOfBlockExported
    ExportDrains
