\* Two contexts on one budget; the sniffers of one run pcie_loop again on either.
SPECIFICATION FairSpec
CONSTANTS
    c1 = c1
    c2 = c2
    Ctx = {c1, c2}
    ClientTlp <- MCClientTlp
    Filter <- MCFilter
    FirstCapacity = 1
    RecvLimit = 3
    MaxSniffers <- MCSniffers
    MaxRecorded = 0
    MaxSent = 0
    MaxDepth = 2
INVARIANTS
    ReceivedAccounted
    HeardOnce
    HeardAll
    FirstSnifferInOrder
PROPERTIES
    LoopReturns
