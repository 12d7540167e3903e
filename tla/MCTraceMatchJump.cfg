SPECIFICATION Spec
CONSTANTS
    Gui = "python"
    Row <- MCCoreRow
    NormAddr <- MCNormAddrPython
    NoAddr = ""
    MaxRows = 3
    MaxBatch = 2
INVARIANTS
    JumpReachesPair
