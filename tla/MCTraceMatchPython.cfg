SPECIFICATION Spec
CONSTANTS
    Gui = "python"
    Row <- MCRow
    NormAddr <- MCNormAddrPython
    NoAddr = ""
    MaxRows = 4
    MaxBatch = 2
INVARIANTS
    TypeOK
    PairsMutual
    LabelsAgree
PROPERTIES
    StablePairs
    ImplementsQueues
