SPECIFICATION FairSpec
CONSTANTS
    Shapes <- WithData
    SplitHeaders = TRUE
    Capacity = 4
    MaxSent = 2
    MaxAnswers = 2
INVARIANTS
    TypeOK
    RequestsInOrder
    AnswersInOrder
PROPERTIES
    RequestsArrive
