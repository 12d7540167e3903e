------------------------------ MODULE TraceFiles ------------------------------
(***************************************************************************)
(* Capture files and the table they are shown in.                          *)
(*                                                                         *)
(* The library writes its trace as CSV or in a pcap-like binary format     *)
(* (src/pcapcie.c); the GUIs save their table as CSV or as a log; either   *)
(* GUI (gui/src/MainWindow.cpp, gui/python/pcieshark_gui) opens any of     *)
(* them, and adds the lines of a live log to what it shows.  The binary    *)
(* format is modelled byte by byte, since its writer and its readers       *)
(* disagree about where the fields are; text files line by line.  All rows *)
(* have the same tag and address, so that any request fits any completion  *)
(* (TraceMatch has the rule): a row is what is left of it.                 *)
(***************************************************************************)
EXTENDS Integers, Sequences, SequencesExt, FiniteSets

CONSTANTS
    Record,         \* records a trace of the library may hold
    PayloadSize,    \* sizeof payload of a record: 256 in the code
    LiveRow,        \* rows of a QEMU log
    ForeignRow,     \* rows of CSV files from elsewhere
    TypeShown,      \* types the type filter may select
    EnumReads,      \* reads of an enumeration: 8 in the code
    MaxRecords,     \* bound: records in a file
    MaxRows         \* bound: rows in the table while lines are added

ASSUME SizeAssumption == PayloadSize \in Nat /\ PayloadSize >= 4 /\ EnumReads \in Nat
ASSUME BoundAssumption == MaxRecords \in Nat /\ MaxRows \in Nat
ASSUME RecordAssumption ==
    \A r \in Record :
        /\ {r.sec, r.usec, r.direction, r.type, r.requester, r.length} \subseteq Nat
        /\ r.payload \in Seq(0 .. 255) /\ Len(r.payload) = PayloadSize

TypeName(code) ==
    CASE code = 0 -> "MemRd" [] code = 1 -> "MemWr" [] code = 4 -> "CfgRd"
      [] code = 5 -> "CfgWr" [] code = 10 -> "Cpl" [] OTHER -> "other"

\* A payload text is the list of its parts between commas; hex bytes have none.
PayloadText(bytes) == IF bytes = <<>> THEN <<>> ELSE <<bytes>>

Row(ts, dir, type, requester, length, payload) ==
    [ts |-> ts, dir |-> dir, type |-> type, requester |-> requester,
     length |-> length, payload |-> payload]

-----------------------------------------------------------------------------
(* What the library writes.                                                 *)

\* A record announces length bytes; when it announces none, what it holds is
\* what is left without the zeros at the end.
KeptBytes(r) ==
    LET used == {i \in 1 .. PayloadSize : r.payload[i] # 0}
        n == CASE r.length > 0 -> r.length
               [] used = {} -> 0
               [] OTHER -> CHOOSE i \in used : \A j \in used : j <= i
    IN  SubSeq(r.payload, 1, IF n < PayloadSize THEN n ELSE PayloadSize)

\* The row a reader should show for a record.
RowOf(r) ==
    Row(<<r.sec, r.usec>>, IF r.direction = 2 THEN "RX" ELSE "TX", TypeName(r.type),
        r.requester, r.length, PayloadText(KeptBytes(r)))

WithPayload(row, payload) ==
    Row(row.ts, row.dir, row.type, row.requester, row.length, payload)

\* Rows have a direction, and no columns but these.
IsRow(row) == row.dir \in {"TX", "RX"} /\ row = WithPayload(row, row.payload)

ASSUME RowAssumption == \A row \in LiveRow \union ForeignRow : IsRow(row)

\* The cells of the last column: a text with a comma is quoted.  Texts in
\* other columns have no commas here; they would not be quoted.
PayloadCellsUnquoted(text) ==   \* Fault: no text is quoted.
    IF Len(text) <= 1 THEN <<text>> ELSE [i \in DOMAIN text |-> <<text[i]>>]
PayloadCells(text) == <<text>>

CsvLine(row) == WithPayload(row, PayloadCells(row.payload))

\* splitCsvLine and the columns read: what follows the ninth is ignored.
RowOfLine(line) == WithPayload(line, Head(line.payload))

\* The binary format.  n in width bytes, the lowest first.
ByteWeight == <<1, 256, 65536, 16777216>>
Le(n, width) == [k \in 1 .. width |-> (n \div ByteWeight[k]) % 256]
Zeros(width) == [k \in 1 .. width |-> 0]

\* The seven fields of the header have four bytes each, the two versions too.
PcapHeader ==
    <<212, 195, 178, 161>> \o Le(2, 4) \o Le(4, 4) \o Zeros(8) \o Le(65535, 4) \o Le(1, 4)

\* The direction is an enum, four bytes of which one is announced.
InclLen == 2 * 1 + 3 * 2 + 8 + PayloadSize
PcapRecord(r) ==
    Le(r.sec, 4) \o Le(r.usec, 4) \o Le(InclLen, 4) \o Le(InclLen, 4)
      \o Le(r.direction, 4) \o Le(r.type, 1) \o Le(r.requester, 2) \o Zeros(2)
      \o Zeros(1) \o Le(r.length, 2) \o Zeros(8) \o r.payload

PcapBytes(records) ==
    PcapHeader \o FlattenSeq([i \in DOMAIN records |-> PcapRecord(records[i])])

-----------------------------------------------------------------------------
(* What the GUIs read.  Offsets count from 0.                               *)

Slice(data, off, n) ==
    SubSeq(data, off + 1, IF off + n < Len(data) THEN off + n ELSE Len(data))

Number(data, off, width) ==
    LET part(k) == IF k <= width THEN data[off + k] * ByteWeight[k] ELSE 0
    IN  part(1) + part(2) + part(3) + part(4)

\* The row of a body, with no more payload than wanted.
BodyRow(data, off, body, wanted) ==
    Row(<<Number(data, off, 4), Number(data, off + 4, 4)>>,
        IF body[1] = 2 THEN "RX" ELSE "TX", TypeName(body[2]),
        Number(body, 2, 2), Number(body, 7, 2),
        PayloadText(Slice(body, 17, wanted)))

\* A record at off: the length it announces, and what there is of its body.
Incl(data, off) == Number(data, off + 8, 4)
Body(data, off) == Slice(data, off + 16, Incl(data, off))

\* Where the records begin, the first at start.
Offsets(data, start) ==
    LET at[n \in 0 .. Len(data)] ==
          IF n = 0 THEN start ELSE at[n - 1] + 16 + Incl(data, at[n - 1])
    IN  at

\* loadCustomPcap: the rows up to the first record that is cut short, or up to
\* one of an impossible length, where the load gives up at once.
CppGivesUp(data, off) ==
    off + 16 <= Len(data) /\ (Incl(data, off) = 0 \/ Incl(data, off) > 4096)

CppEnds(data, off) ==
    \/ off + 16 > Len(data)
    \/ CppGivesUp(data, off)
    \/ Len(Body(data, off)) < Incl(data, off) \/ Incl(data, off) < 20

CppRow(data, off) ==
    LET length == Number(Body(data, off), 7, 2)
    IN  BodyRow(data, off, Body(data, off), IF length > 0 THEN length ELSE Incl(data, off))

PcapRowsCpp(data) ==
    LET at == Offsets(data, 28)
        n == CHOOSE k \in 0 .. Len(data) :
                CppEnds(data, at[k]) /\ \A j \in 0 .. k - 1 : ~CppEnds(data, at[j])
    IN  [rows |-> [i \in 1 .. n |-> CppRow(data, at[i - 1])],
         gaveUp |-> CppGivesUp(data, at[n])]

\* _load_pcap: a header of 24 bytes, and bodies may be cut short.
PythonEnds(data, off) == off + 16 > Len(data) \/ Len(Body(data, off)) < 20

PythonRow(data, off) ==
    BodyRow(data, off, Body(data, off), Number(Body(data, off), 7, 2))

PcapRowsPython(data) ==
    LET at == Offsets(data, 24)
        n == CHOOSE k \in 0 .. Len(data) :
                PythonEnds(data, at[k]) /\ \A j \in 0 .. k - 1 : ~PythonEnds(data, at[j])
    IN  [i \in 1 .. n |-> PythonRow(data, at[i - 1])]

-----------------------------------------------------------------------------
VARIABLES
    gui,        \* the GUI that is open: "python" or "cpp"
    file,       \* [kind, body, rows]: rows is history, what it should show
    rows,       \* the table
    unmatched,  \* the rows the Match column calls unmatched
    filter,     \* [type, analysis]: what the user wants to see
    hidden,     \* the rows not shown
    summary,    \* the stats bar
    unfinished, \* history: the last change of the table returned early
    origin      \* history: [kind, rows] of the file the table comes from

table == <<rows, unmatched, hidden, summary, unfinished>>
vars == <<gui, file, table, filter, origin>>

NoOrigin == [kind |-> "none", rows |-> <<>>]
Filter == [type : TypeShown \union {"All types"},
           analysis : {"All packets", "Unmatched"}]
NoFilter == [type |-> "All types", analysis |-> "All packets"]

\* rebuildTraceAnalysis, analyze: the oldest open request is answered first.
Visit(t, open, i) ==
    CASE t[i].type \in {"CfgRd", "MemRd"} /\ t[i].payload = <<>> -> Append(open, i)
      [] t[i].type = "Cpl" /\ open # <<>> -> Tail(open)
      [] OTHER -> open

Pending(t) ==
    LET open[i \in 0 .. Len(t)] == IF i = 0 THEN <<>> ELSE Visit(t, open[i - 1], i)
    IN  open[Len(t)]

\* Fault: the numbers shown, which count from 1, are taken for rows.
UnmatchedNumbers(t) == {i + 1 : i \in ToSet(Pending(t))}
Unmatched(t) == ToSet(Pending(t))

\* applyFilter, apply_filter.
Hidden(t, open, f) ==
    {i \in DOMAIN t :
        \/ f.type \notin {"All types", t[i].type}
        \/ f.analysis = "Unmatched" /\ i \notin open}

\* updateSummaryStats, _update_stats.
Summary(t, open, hid) ==
    [total |-> Len(t),
     tx |-> Cardinality({i \in DOMAIN t : t[i].dir = "TX"}),
     visible |-> Cardinality(DOMAIN t \ hid),
     unmatched |-> Cardinality(open)]

\* The table is replaced, then analyzed, filtered and counted.
Show(t) ==
    /\ rows' = t
    /\ unmatched' = Unmatched(t)
    /\ hidden' = Hidden(t, unmatched', filter)
    /\ summary' = Summary(t, unmatched', hidden')
    /\ unfinished' = FALSE

\* An early return of the C++ GUI between the rows and the analysis.
ShowUnfinished(t) ==
    /\ rows' = t
    /\ unmatched' = {} /\ hidden' = {}
    /\ unfinished' = TRUE
    /\ UNCHANGED summary

-----------------------------------------------------------------------------
(* Files.                                                                   *)

File(kind, body, shown) == [kind |-> kind, body |-> body, rows |-> shown]
TableStays == UNCHANGED <<gui, table, filter, origin>>

RowsOf(records) == [i \in DOMAIN records |-> RowOf(records[i])]
Lines(t) == [i \in DOMAIN t |-> CsvLine(t[i])]

WritePcap(records) ==
    /\ file' = File("pcap", records, RowsOf(records))
    /\ TableStays

WriteCsv(records) ==
    /\ file' = File("csv", Lines(RowsOf(records)), RowsOf(records))
    /\ TableStays

\* Files from elsewhere: a log of QEMU, a CSV file whose texts with commas are
\* quoted, a file that begins with an empty line.
ProvideLog(t) ==
    /\ file' = File("log", t, t)
    /\ TableStays

ProvideCsv(t) ==
    /\ file' = File("csv", [i \in DOMAIN t |-> WithPayload(t[i], <<t[i].payload>>)], t)
    /\ TableStays

ProvideBlank ==
    /\ file' = File("blank", <<>>, <<>>)
    /\ TableStays

\* A log that is saved has payload bytes where QEMU prints one number: no
\* reader takes such a line for a config access.
Save ==
    /\ rows # <<>>
    /\ file' \in {File("csv", Lines(rows), rows), File("log", <<>>, rows)}
    /\ TableStays

-----------------------------------------------------------------------------
(* The table.                                                               *)

\* The rows of a text file: a binary file has no line that is one.
TextRows ==
    CASE file.kind = "csv" -> [i \in DOMAIN file.body |-> RowOfLine(file.body[i])]
      [] file.kind = "log" -> file.body
      [] OTHER -> <<>>

FromFile ==
    /\ origin' = [kind |-> file.kind, rows |-> file.rows]
    /\ UNCHANGED <<gui, file, filter>>

\* load_trace: a file without rows is refused and the table stays.
OpenPython ==
    /\ gui = "python" /\ file.kind # "none"
    /\ LET t == IF file.kind = "pcap" THEN PcapRowsPython(PcapBytes(file.body)) ELSE TextRows
       IN  t # <<>> /\ Show(t)
    /\ FromFile

\* loadTraceFile: loadCustomPcap, and loadCsv when it finds no row.
OpenPcap ==
    /\ gui = "cpp" /\ file.kind = "pcap"
    /\ LET read == PcapRowsCpp(PcapBytes(file.body))
       IN  IF read.gaveUp /\ read.rows # <<>> THEN ShowUnfinished(read.rows)
           ELSE Show(read.rows)
    /\ FromFile

OpenText ==
    /\ gui = "cpp" /\ file.kind \in {"csv", "log"}
    /\ Show(TextRows)
    /\ FromFile

\* loadCsv removes the rows before it warns that the file is empty.
OpenBlank ==
    /\ gui = "cpp" /\ file.kind = "blank"
    /\ ShowUnfinished(<<>>)
    /\ FromFile

Otherwise == origin' = NoOrigin /\ UNCHANGED <<gui, file, filter>>

\* Fault: the rows that are new are not filtered.
PollUnfiltered(row) ==
    /\ Len(rows) < MaxRows
    /\ rows' = Append(rows, row)
    /\ unmatched' = Unmatched(rows')
    /\ summary' = Summary(rows', unmatched', hidden)
    /\ unfinished' = FALSE
    /\ UNCHANGED hidden
    /\ Otherwise

\* A poll of a live log adds a row.
Poll(row) ==
    /\ Len(rows) < MaxRows
    /\ Show(Append(rows, row))
    /\ Otherwise

\* Config reads of one device: n of them succeed.  The Python GUI shows all or
\* none, the C++ GUI returns with the rows before the failure.
EnumRow == Row(<<0, 0>>, "TX", "CfgRd", 1, 4, <<<<0, 0, 0, 0>>>>)
Enumerate(n) ==
    /\ LET t == [i \in 1 .. n |-> EnumRow]
       IN  \/ n = EnumReads /\ Show(t)
           \/ n < EnumReads /\ gui = "cpp" /\ ShowUnfinished(t)
    /\ Otherwise

\* The user changes a filter: only labels are left as they are.
SetFilter(f) ==
    /\ filter' = f
    /\ hidden' = Hidden(rows, unmatched, f)
    /\ summary' = Summary(rows, unmatched, hidden')
    /\ UNCHANGED <<gui, file, rows, unmatched, unfinished, origin>>

\* A GUI is started, to open what the other one wrote.
StartGui(g) ==
    /\ gui' = g
    /\ rows' = <<>> /\ unmatched' = {} /\ hidden' = {}
    /\ summary' = Summary(<<>>, {}, {})
    /\ unfinished' = FALSE
    /\ filter' = NoFilter
    /\ origin' = NoOrigin
    /\ UNCHANGED file

-----------------------------------------------------------------------------
Init ==
    /\ gui \in {"python", "cpp"}
    /\ file = File("none", <<>>, <<>>)
    /\ rows = <<>> /\ unmatched = {} /\ hidden = {}
    /\ summary = Summary(<<>>, {}, {})
    /\ unfinished = FALSE
    /\ filter = NoFilter
    /\ origin = NoOrigin

Open == OpenPython \/ OpenPcap \/ OpenText \/ OpenBlank

Next ==
    \/ \E records \in BoundedSeq(Record, MaxRecords) : WritePcap(records) \/ WriteCsv(records)
    \/ \E t \in BoundedSeq(LiveRow, MaxRecords) : ProvideLog(t)
    \/ \E t \in BoundedSeq(ForeignRow, MaxRecords) : ProvideCsv(t)
    \/ ProvideBlank \/ Save \/ Open
    \/ \E row \in LiveRow : Poll(row)
    \/ \E n \in 0 .. EnumReads : Enumerate(n)
    \/ \E f \in Filter : SetFilter(f)
    \/ \E g \in {"python", "cpp"} : StartGui(g)

Spec == Init /\ [][Next]_vars

-----------------------------------------------------------------------------
(* Properties.                                                              *)

\* Types of the variables; what is said of rows is said of rows of the table.
TypeOK ==
    /\ gui \in {"python", "cpp"}
    /\ file.kind \in {"none", "csv", "pcap", "log", "blank"}
    /\ \A i \in DOMAIN rows :
         /\ DOMAIN rows[i] = {"ts", "dir", "type", "requester", "length", "payload"}
         /\ rows[i].dir \in {"TX", "RX"}
    /\ unmatched \subseteq DOMAIN rows /\ hidden \subseteq DOMAIN rows
    /\ filter \in Filter
    /\ summary \in [{"total", "tx", "visible", "unmatched"} -> Nat]
    /\ unfinished \in BOOLEAN
    /\ origin.kind \in {"none", "csv", "pcap", "log", "blank"}

\* A CSV file, saved by either GUI or written by the library, shows in either
\* GUI the rows it was made of, in order, payloads with commas included
\* (README.md:137; saveTrace, save_csv, loadCsv, load_rows).
CsvOpensAsWritten == origin.kind = "csv" => rows = origin.rows

\* Unless the last change of the table returned early, the Match column is the
\* analysis of all rows, the rows not shown are those the filter rejects by
\* that column, and the stats bar counts this table: through every order of
\* loads, polls, saves and filter changes (applyFilter, updateSummaryStats).
TableIsCurrent ==
    ~unfinished =>
        /\ unmatched = Unmatched(rows)
        /\ hidden = Hidden(rows, unmatched, filter)
        /\ summary = Summary(rows, unmatched, hidden)

\* The GUIs open what the library writes as pcap (README.md:136, "library pcap
\* (`.pcie`) in the GUI"): one row for each record, with its fields.
LibraryPcapOpens == origin.kind = "pcap" => rows = origin.rows
=============================================================================
