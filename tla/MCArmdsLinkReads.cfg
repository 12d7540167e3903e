SPECIFICATION Spec
CONSTANTS
    Shapes <- WithReads
    SplitHeaders = FALSE
    Capacity = 5
    MaxSent = 2
    MaxAnswers = 0
INVARIANTS
    RequestsInOrder
