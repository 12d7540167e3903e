\* Files of up to two records; polls may let the table grow to three rows.
SPECIFICATION Spec
CONSTANTS
    Record <- MCRecord
    PayloadSize = 4
    LiveRow <- MCLiveRow
    ForeignRow <- MCForeignRow
    TypeShown <- MCTypeShown
    EnumReads = 2
    MaxRecords = 2
    MaxRows = 3
INVARIANTS
    TypeOK
    CsvOpensAsWritten
    TableIsCurrent
