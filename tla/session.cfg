SPECIFICATION SessionSpec
CONSTANTS
    a = a
    b = b
    Configs <- MCConfigs
    NoHost = NoHost
    NoRecord = NoRecord
    None = None
    ShortRetry <- MCShortRetry
    LongRetry <- MCLongRetry
INVARIANTS
    TypeOK
    SessionIsConfigured
PROPERTY SessionSettles
