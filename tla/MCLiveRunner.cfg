\* Three runs: a run may be killed before the one before it is handled.
SPECIFICATION FairSpec
CONSTANTS
    Line <- MCLine
    MaxRuns = 3
    MaxLines = 2
INVARIANTS
    TypeOK
    LiveRowsAreSeen
    SettledTableIsLog
PROPERTIES
    RunConcludes
