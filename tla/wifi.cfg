SPECIFICATION WifiSpec
CONSTANTS
    Timeout = 3
    LongPress = 1
    MaxSaves = 2
INVARIANTS
    TypeOK
    DnsWithAccessPoint
    UnconfiguredIsReachable
PROPERTIES
    ModeSettles
    ReconnectsOrAccessPoint
    NoSsidLeadsToAccessPoint
