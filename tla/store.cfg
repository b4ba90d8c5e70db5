SPECIFICATION StoreSpec
CONSTANTS
    Values <- MCValues
    Unset = Unset
    Off = Off
    Blank = Blank
    Damaged = Damaged
    None = None
    Starts <- MCAnyStart
    MaxForms = 1
    MaxRequests = 3
    MaxResets = 1
    MaxFailures = 1
CHECK_DEADLOCK FALSE
INVARIANTS
    TypeOK
    UsedOrDue
PROPERTIES
    KeepsPromise
    SetupIsWhole
