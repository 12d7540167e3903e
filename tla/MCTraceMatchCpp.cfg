SPECIFICATION Spec
CONSTANTS
    Gui = "cpp"
    Row <- MCRow
    NormAddr <- MCNormAddrCpp
    NoAddr = ""
    MaxRows = 4
    MaxBatch = 2
INVARIANTS
    FirstFit
    LabelsAgree
    JumpReachesPair
