\* Two of everything: an ambiguous name, a dangling parent and a full array.
SPECIFICATION Spec
CONSTANTS
    MAX_RC = 2
    MAX_PORTS = 2
    MAX_SWITCHES = 2
    MAX_DEVICES = 3
    PortName <- MCPortName
    SwitchName <- MCSwitchName
    Parent <- MCParent
INVARIANTS
    TypeOK
    NothingShownTwice
    DefaultsMakeOneTree
    ParentsCompleted
    DefaultsAreSpread
CHECK_DEADLOCK FALSE
