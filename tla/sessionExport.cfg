SPECIFICATION SessionExportSpec
CONSTANTS
    a = a
    b = b
    Configs <- MCConfigs
    NoHost = NoHost
    NoRecord = NoRecord
    None = None
    ShortRetry = 1
    LongRetry = 1
    NBlocks = 2
    Len_ <- MCLen
    Throttled <- MCThrottled
    Writeable <- MCWriteable
    MaxMessages = 1
PROPERTIES
    KeepsSession
    KeepsExport
    SentAsConfigured
    UpdateReachesBroker
