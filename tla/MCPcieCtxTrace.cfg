\* One context, no sniffers: every growth, realloc failure and reset.
SPECIFICATION Spec
CONSTANTS
    c1 = c1
    c2 = c2
    Ctx = {c1}
    ClientTlp <- MCClientTlp
    Filter <- MCFilter
    FirstCapacity = 1
    RecvLimit = 2
    MaxSniffers <- MCNoSniffers
    MaxRecorded = 5
    MaxSent = 3
    MaxDepth = 0
INVARIANTS
    TypeOK
    TraceFaithful
    LossOnlyAtFull
