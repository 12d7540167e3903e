\* The library writes a trace as pcap and a GUI opens it.
SPECIFICATION Spec
CONSTANTS
    Record <- MCRecord
    PayloadSize = 4
    LiveRow <- MCLiveRow
    ForeignRow <- MCForeignRow
    TypeShown <- MCTypeShown
    EnumReads = 2
    MaxRecords = 2
    MaxRows = 3
INVARIANTS
    LibraryPcapOpens
