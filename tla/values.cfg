SPECIFICATION Spec
CONSTANTS
    UnitValues <- MCUnitValues
    PanelValues <- MCPanelValues
    Words <- MCWords
    Numbers <- MCNumbers
    Rejected = Rejected
INVARIANTS
    FoundOwnsAddress
    
PROPERTY EchoKeepsValue
