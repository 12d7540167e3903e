----------------------------- MODULE TraceMatch ------------------------------
(***************************************************************************)
(* Pairing of requests and completions in the trace table: analyze() of    *)
(* the Python GUI (gui/python/pcieshark_gui/trace.py) and                  *)
(* MainWindow::rebuildTraceAnalysis() of the C++ GUI, which walk the rows  *)
(* in order and give each completion the first pending request that fits.  *)
(*                                                                         *)
(* The analysis runs again over the whole table whenever the live trace    *)
(* adds rows (_poll_live, pollLiveTrace), so what it decided before is     *)
(* recomputed from the old and the new rows together.                      *)
(***************************************************************************)
EXTENDS Integers, Sequences

CONSTANTS
    Gui,        \* "python" or "cpp": which of the two implementations
    Row,        \* the rows a trace may hold
    NormAddr,   \* NormAddr[text]: what normalizing an address text returns
    NoAddr,     \* what the C++ GUI normalizes an empty text to
    MaxRows,    \* bound: rows in the table
    MaxBatch    \* bound: rows one load or one poll of the live trace adds

ASSUME GuiAssumption == Gui \in {"python", "cpp"}

RequestTypes == {"CfgRd", "MemRd"}
PostedTypes == {"CfgWr", "MemWr"}
CompletionTypes == {"Cpl"}

\* payload: whether the row has payload text.
ASSUME RowAssumption ==
    \A r \in Row :
        /\ {"type", "tag", "addr", "ids", "payload"} \subseteq DOMAIN r
        /\ r.payload \in BOOLEAN
        /\ r.addr \in DOMAIN NormAddr

ASSUME BoundAssumption == MaxRows \in Nat /\ MaxBatch \in Nat

VARIABLES
    rows,       \* the table
    next,       \* the row analyze() visits next; 0 when it is not running
    pending,    \* the list of open requests, in row order: kept as a set
    pair,       \* pair[i]: the row paired with row i, 0 for none
    label,      \* label[i]: the Match column
    shown       \* history: pair as the last analysis left it, <<>> after a load

vars == <<rows, next, pending, pair, label, shown>>

Idle == next = 0

\* How many rows the current analysis has visited: all when it is over.
Visited == IF Idle THEN Len(rows) ELSE next - 1

-----------------------------------------------------------------------------
(* Classification of rows, and when a completion fits a request.            *)

IsRequest(r) == r.type \in RequestTypes

\* QEMU logs an access and its answer on one line.
IsOneLine(r) == IsRequest(r) /\ r.payload

IsOpenRequest(r) == IsRequest(r) /\ ~r.payload

IsPosted(r) == r.type \in PostedTypes

IsCompletion(r) == r.type \in CompletionTypes

\* Addresses are compared normalized: without leading zeros in the Python GUI
\* (an empty text is address 0), as numbers in the C++ GUI (an empty text is
\* no address and goes with any).
SameAddr(r, c) ==
    \/ NormAddr[r.addr] = NormAddr[c.addr]
    \/ Gui = "cpp" /\ NoAddr \in {NormAddr[r.addr], NormAddr[c.addr]}

\* The C++ GUI also wants a requester or completer id in common.
IdsOverlap(r, c) == r.ids \intersect c.ids # {}

Matches(r, c) ==
    /\ r.tag = c.tag
    /\ SameAddr(r, c)
    /\ Gui = "cpp" => IdsOverlap(r, c)

-----------------------------------------------------------------------------
(* New rows start an analysis of the whole table.                           *)

\* Fault: the new rows get neither pair nor label.
StartOverOldRows(keep, newRows) ==
    /\ rows' = newRows
    /\ next' = 1
    /\ pending' = {}
    /\ pair' = SubSeq(pair, 1, keep)
    /\ label' = SubSeq(label, 1, keep)

\* The C++ GUI clears every row before the walk; the Python one clears a row
\* when it visits it, so until then a row shows the previous result.
StartOver(keep, newRows) ==
    /\ rows' = newRows
    /\ next' = 1
    /\ pending' = {}
    /\ LET n == IF Gui = "cpp" THEN 0 ELSE keep
       IN  /\ pair' = [i \in 1 .. Len(newRows) |-> IF i <= n THEN pair[i] ELSE 0]
           /\ label' = [i \in 1 .. Len(newRows) |-> IF i <= n THEN label[i] ELSE "none"]

\* Opening a trace file replaces the table.
Load(batch) ==
    /\ Idle
    /\ StartOver(0, batch)
    /\ shown' = <<>>

\* Fault: the newest lines go on top.
AppendLiveOnTop(batch) ==
    /\ Idle
    /\ Len(rows) + Len(batch) <= MaxRows
    /\ StartOver(Len(rows), batch \o rows)
    /\ UNCHANGED shown

\* A poll of the live trace appends the new lines.
AppendLive(batch) ==
    /\ Idle
    /\ Len(rows) + Len(batch) <= MaxRows
    /\ StartOver(Len(rows), rows \o batch)
    /\ UNCHANGED shown

-----------------------------------------------------------------------------
(* One turn of the loop of analyze().                                       *)

Visiting == ~Idle /\ next <= Len(rows)

Leave(text) ==
    /\ pair' = [pair EXCEPT ![next] = 0]
    /\ label' = [label EXCEPT ![next] = text]

VisitPosted ==
    /\ Visiting /\ IsPosted(rows[next])
    /\ Leave(IF Gui = "python" THEN "complete" ELSE "none")
    /\ next' = next + 1
    /\ UNCHANGED <<rows, pending, shown>>

VisitOneLine ==
    /\ Visiting /\ IsOneLine(rows[next])
    /\ Leave("complete")
    /\ next' = next + 1
    /\ UNCHANGED <<rows, pending, shown>>

VisitRequest ==
    /\ Visiting /\ IsOpenRequest(rows[next])
    /\ Leave("none")
    /\ pending' = pending \union {next}
    /\ next' = next + 1
    /\ UNCHANGED <<rows, shown>>

Candidates(c) == {r \in pending : Matches(rows[r], rows[c])}

\* Fault: the answered request stays in the list.
VisitCompletionKeeping ==
    /\ Visiting /\ IsCompletion(rows[next])
    /\ \E r \in Candidates(next) :
         /\ \A other \in Candidates(next) : r <= other
         /\ pair' = [pair EXCEPT ![next] = r, ![r] = next]
         /\ label' = [label EXCEPT ![next] = "paired", ![r] = "paired"]
    /\ next' = next + 1
    /\ UNCHANGED <<rows, pending, shown>>

\* Fault: the list is searched from its end.
VisitCompletionLatest ==
    /\ Visiting /\ IsCompletion(rows[next])
    /\ \E r \in Candidates(next) :
         /\ \A other \in Candidates(next) : r >= other
         /\ pair' = [pair EXCEPT ![next] = r, ![r] = next]
         /\ label' = [label EXCEPT ![next] = "paired", ![r] = "paired"]
         /\ pending' = pending \ {r}
    /\ next' = next + 1
    /\ UNCHANGED <<rows, shown>>

\* The completion takes the candidate that comes first in the pending list.
VisitCompletion ==
    /\ Visiting /\ IsCompletion(rows[next])
    /\ \E r \in Candidates(next) :
         /\ \A other \in Candidates(next) : r <= other
         /\ pair' = [pair EXCEPT ![next] = r, ![r] = next]
         /\ label' = [label EXCEPT ![next] = "paired", ![r] = "paired"]
         /\ pending' = pending \ {r}
    /\ next' = next + 1
    /\ UNCHANGED <<rows, shown>>

\* A completion nobody asked for, or a row of another type.
VisitOther ==
    /\ Visiting
    /\ ~IsPosted(rows[next]) /\ ~IsRequest(rows[next])
    /\ IsCompletion(rows[next]) => Candidates(next) = {}
    /\ Leave("none")
    /\ next' = next + 1
    /\ UNCHANGED <<rows, pending, shown>>

\* Fault: the requests left over are not labelled.
FinishQuietly ==
    /\ ~Idle /\ next > Len(rows)
    /\ shown' = pair
    /\ next' = 0
    /\ UNCHANGED <<rows, pending, pair, label>>

\* The requests left over have no completion.
Finish ==
    /\ ~Idle /\ next > Len(rows)
    /\ label' = [i \in DOMAIN label |-> IF i \in pending THEN "unmatched" ELSE label[i]]
    /\ shown' = pair
    /\ next' = 0
    /\ UNCHANGED <<rows, pending, pair>>

-----------------------------------------------------------------------------
Init ==
    /\ rows = <<>>
    /\ next = 0
    /\ pending = {}
    /\ pair = <<>>
    /\ label = <<>>
    /\ shown = <<>>

Batch == UNION {[1 .. n -> Row] : n \in 1 .. MaxBatch}

NewRows == \E batch \in Batch : Load(batch) \/ AppendLive(batch)

Analyze ==
    \/ VisitPosted \/ VisitOneLine \/ VisitRequest \/ VisitCompletion \/ VisitOther
    \/ Finish

Next == NewRows \/ Analyze

Spec == Init /\ [][Next]_vars

-----------------------------------------------------------------------------
(* Double-clicking the Match column.                                        *)

\* The item holds the 0-based row of the partner, -1 for none.
PairRole(i) == pair[i] - 1

\* Fault: the role of the first row counts as no role.
JumpRoleTruthy(i) == IF PairRole(i) = 0 THEN -1 ELSE PairRole(i)

\* The Python GUI evaluates int(role or -1), which takes row 0 for no row.
JumpRole(i) ==
    IF Gui = "python" /\ PairRole(i) = 0 THEN -1 ELSE PairRole(i)

\* The row that becomes the selected one; 0 when nothing happens.
JumpTarget(i) == IF JumpRole(i) \in 0 .. Len(rows) - 1 THEN JumpRole(i) + 1 ELSE 0

-----------------------------------------------------------------------------
(* Properties.                                                              *)

Labels == {"none", "complete", "paired", "unmatched"}

\* Types of the variables: a pair and a label for each row of the table, and
\* the walk never leaves the table.
TypeOK ==
    /\ rows \in Seq(Row)
    /\ next \in 0 .. Len(rows) + 1
    /\ pending \subseteq 1 .. Len(rows)
    /\ pair \in [1 .. Len(rows) -> 0 .. Len(rows)]
    /\ label \in [1 .. Len(rows) -> Labels]
    /\ shown \in Seq(Nat)

\* p pairs open requests of the rows 1 .. n with later completions they fit.
MutualUpTo(p, n) ==
    \A i \in 1 .. n : p[i] # 0 =>
        /\ p[i] \in 1 .. n
        /\ p[p[i]] = i
        /\ p[i] < i => /\ IsOpenRequest(rows[p[i]])
                       /\ IsCompletion(rows[i])
                       /\ Matches(rows[p[i]], rows[i])
        /\ p[i] >= i => i < p[i] /\ IsOpenRequest(rows[i])

\* In p, no request before completion c that fits it is passed over for a
\* later request or for none.
FirstFitUpTo(p, n) ==
    \A c \in 1 .. n, r \in 1 .. n :
        /\ r < c
        /\ IsCompletion(rows[c]) /\ IsOpenRequest(rows[r])
        /\ Matches(rows[r], rows[c])
        /\ p[c] = 0 \/ r < p[c]
        => p[r] \in 1 .. c - 1

\* Among the rows visited, pairing is mutual, and a pair is an open request
\* with a later completion of the same tag and address: however often the
\* live trace reruns the analysis over pairs of the run before, no row keeps
\* a partner that has another one (trace.py:219-222).
PairsMutual == MutualUpTo(pair, Visited)

\* First come, first served: a completion leaves no earlier request that it
\* fits unanswered, unless it answered a request still earlier. With a tag
\* that is reused this is what keeps a late completion from being credited to
\* the wrong request (trace.py:206-216).
FirstFit == FirstFitUpTo(pair, Visited)

\* When the analysis is over, the Match column says what the pairs say, and
\* exactly the open requests nobody answered are counted as unmatched.
LabelsAgree ==
    Idle => \A i \in 1 .. Len(rows) :
        /\ label[i] = "paired" <=> pair[i] # 0
        /\ label[i] = "unmatched" <=> IsOpenRequest(rows[i]) /\ pair[i] = 0
        /\ IsOneLine(rows[i]) => label[i] = "complete"

\* A poll of the live trace never takes back what the table showed: a row
\* keeps its partner, and a row that had none gets one only among the rows
\* added since. It is why rerunning the analysis over the whole table at each
\* poll (_poll_live, pollLiveTrace) is sound.
StablePairs ==
    [][\A i \in DOMAIN shown \intersect DOMAIN shown' :
          \/ shown'[i] = shown[i]
          \/ shown[i] = 0 /\ shown'[i] > Len(shown)]_vars

\* Double-clicking the Match column of a paired row selects its partner, the
\* first row of the table included (README.md:139, jumpToPairedPacket).
JumpReachesPair ==
    Idle => \A i \in 1 .. Len(rows) : pair[i] # 0 => JumpTarget(i) = pair[i]
=============================================================================
