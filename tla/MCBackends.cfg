\* Devices with two capabilities; a clock of four ticks.
SPECIFICATION FairSpec
CONSTANTS
    Device <- MCDevice
    SpaceEnd = 13
    HeaderEnd = 5
    Part = {1, 2}
    Writable = {1, 3}
    LinkWord <- MCLinkWord
    Request <- MCRequest
    MaxHops = 3
    DefaultLength = 2
    MaxLength = 4
    Env <- MCEnv
    Target <- MCTarget
    Second = 3
    RecvLimit = 1
    MaxClock = 4
    Case <- MCCase
    Name = {"dummy", "pci", "unknown"}
INVARIANTS
    TypeOK
    TransfersInPlace
    CapabilityIsThere
    VerdictWasTrue
    ProfileDecidesLink
    AtMostTwoPerPeriod
    MatrixIsConsistent
PROPERTIES
    CallsReturn
CHECK_DEADLOCK FALSE
