------------------------------- MODULE PcieCtx -------------------------------
(***************************************************************************)
(* The core of libpcapcie (src/src/pcapcie.c): contexts, the trace buffer  *)
(* each one grows with realloc, the statistics, the sniffer table, and     *)
(* pcie_loop, which hands every received TLP to the matching sniffers.     *)
(*                                                                         *)
(* The library is single-threaded, but a sniffer callback is client code   *)
(* and may call back into the library: it may send, append, receive,       *)
(* register another sniffer, or run pcie_loop again.  stack is the chain   *)
(* of pcie_loop calls in progress; client code runs when it is empty or    *)
(* when its top frame is inside a callback.                                *)
(*                                                                         *)
(* Two backends are in the model: "golden" (backend_dummy.c), whose        *)
(* receive budget is ONE static counter for the whole process, and "pci",  *)
(* whose send may fail and whose receive never delivers.                   *)
(***************************************************************************)
EXTENDS Integers, Sequences, FiniteSets, Functions

CONSTANTS
    Ctx,            \* context handles
    ClientTlp,      \* the TLPs a client builds: records [type, addr]
    Filter,         \* the sets of TLP types a pcie_filter_t can select
    FirstCapacity,  \* records allocated by the first growth (16)
    RecvLimit,      \* TLPs the golden backend delivers per process (1000)
    MaxSniffers,    \* bound: sniffers registered in each context (8 slots)
    MaxRecorded,    \* bound: TLPs a client sends or appends between resets
    MaxSent,        \* bound: sends per context
    MaxDepth        \* bound: pcie_loop calls nested through callbacks

ASSUME BoundsAssumption ==
    /\ FirstCapacity \in Nat \ {0}
    /\ RecvLimit \in Nat
    /\ MaxSniffers \in [Ctx -> Nat]
    /\ MaxRecorded \in Nat
    /\ MaxSent \in Nat
    /\ MaxDepth \in Nat

\* A process has only so many contexts.
ASSUME ContextsAssumption == IsFiniteSet(Ctx)

MemRd == "MemRd"

TlpType == {MemRd, "MemWr", "CfgRd", "CfgWr", "Cpl", "Unknown"}

Tlp == [type : TlpType, addr : Nat]

ASSUME InputAssumption == ClientTlp \subseteq Tlp /\ Filter \subseteq SUBSET TlpType

\* The part of pcie_trace_record_t the properties tell apart.
Record == [dir : {"TX", "RX"}, tlp : Tlp]

VARIABLES
    backend,    \* backend[c]: "none" while c is not open
    trace,      \* trace[c]: the records in trace_records[0 .. trace_count-1]
    capacity,   \* capacity[c]: trace_capacity
    stats,      \* stats[c]: the sent and received counters
    sniffers,   \* sniffers[c]: the filters registered, in slot order
    served,     \* the golden backend's process-wide static count
    stack       \* pcie_loop calls in progress, outermost first

\* History: what the properties compare the state with.
VARIABLES
    recorded,   \* recorded[c]: all TLPs given to the trace since open or reset
    source,     \* source[c][k]: where in recorded[c] trace record k comes from
    grown,      \* grown[c]: the capacities the buffer of c has had
    heard,      \* heard[c][i]: addresses handed to the callback of sniffer i
    since,      \* since[c][i]: value of served when sniffer i was registered
    looped,     \* looped[c]: addresses whose dispatch by pcie_loop is over
    retired     \* TLPs received by contexts that have been closed

trackers == <<recorded, source, grown>>
dispatch == <<heard, since, looped>>
buffer   == <<trace, capacity, trackers>>
vars == <<backend, buffer, stats, sniffers, served, stack, dispatch, retired>>

Frame == [ctx : Ctx, tlp : Tlp, next : Nat \ {0}, running : BOOLEAN]

Top == stack[Len(stack)]

\* Client code has the thread: outside the library or inside a callback.
ClientRuns == stack # <<>> => Top.running

IsOpen(c) == backend[c] # "none"

-----------------------------------------------------------------------------
(* The trace buffer.                                                        *)

\* Fault: the first growth is lost.
NextCapacityNoStart(n) == 2 * n

NextCapacity(n) == IF n = 0 THEN FirstCapacity ELSE 2 * n

\* Write r into the next free slot.
Store(c, r) ==
    /\ trace' = [trace EXCEPT ![c] = Append(@, r)]
    /\ source' = [source EXCEPT ![c] = Append(@, Len(recorded[c]) + 1)]

\* Fault: a record that finds no room overwrites the newest one.
RecordOverwriting(c, r) ==
    /\ recorded' = [recorded EXCEPT ![c] = Append(@, r)]
    /\ IF Len(trace[c]) # capacity[c]
       THEN Store(c, r)
       ELSE /\ trace' = [trace EXCEPT ![c][Len(trace[c])] = r]
            /\ UNCHANGED source
    /\ capacity' = [capacity EXCEPT ![c] = IF @ = 0 THEN FirstCapacity ELSE @]
    /\ UNCHANGED grown

\* Fault: the table counts as full one record early.
RecordOneShort(c, r) ==
    /\ recorded' = [recorded EXCEPT ![c] = Append(@, r)]
    /\ IF Len(trace[c]) + 1 < capacity[c]
       THEN Store(c, r) /\ UNCHANGED <<capacity, grown>>
       ELSE \/ /\ capacity' = [capacity EXCEPT ![c] = NextCapacity(@)]
               /\ grown' = [grown EXCEPT ![c] = @ \union {NextCapacity(capacity[c])}]
               /\ Store(c, r)
            \/ UNCHANGED <<trace, source, capacity, grown>>

\* pcie_trace_record: a full table is grown first; when realloc fails the
\* record is dropped and the caller is not told.
RecordTlp(c, r) ==
    /\ recorded' = [recorded EXCEPT ![c] = Append(@, r)]
    /\ \/ /\ Len(trace[c]) # capacity[c]
          /\ Store(c, r)
          /\ UNCHANGED <<capacity, grown>>
       \/ /\ Len(trace[c]) = capacity[c]
          /\ capacity' = [capacity EXCEPT ![c] = NextCapacity(@)]
          /\ grown' = [grown EXCEPT ![c] = @ \union {NextCapacity(capacity[c])}]
          /\ Store(c, r)
       \/ /\ Len(trace[c]) = capacity[c]
          /\ UNCHANGED <<trace, source, capacity, grown>>

TraceReset(c) ==
    /\ ClientRuns /\ IsOpen(c)
    /\ trace' = [trace EXCEPT ![c] = <<>>]
    /\ recorded' = [recorded EXCEPT ![c] = <<>>]
    /\ source' = [source EXCEPT ![c] = <<>>]
    /\ UNCHANGED <<backend, capacity, grown, stats, sniffers, served, stack,
                   dispatch, retired>>

TraceAppend(c, r) ==
    /\ ClientRuns /\ IsOpen(c)
    /\ Len(recorded[c]) < MaxRecorded
    /\ RecordTlp(c, r)
    /\ UNCHANGED <<backend, stats, sniffers, served, stack, dispatch, retired>>

-----------------------------------------------------------------------------
(* Opening and closing.                                                     *)

NoStats == [sent |-> 0, received |-> 0]

Open(c, b) ==
    /\ ClientRuns /\ ~IsOpen(c)
    /\ backend' = [backend EXCEPT ![c] = b]
    /\ UNCHANGED <<buffer, stats, sniffers, served, stack, dispatch, retired>>

\* The client's obligation: it does not close a context that a pcie_loop call
\* still uses.  calloc in the next pcie_open makes the fields zero again.
Close(c) ==
    /\ ClientRuns /\ IsOpen(c)
    /\ \A k \in DOMAIN stack : stack[k].ctx # c
    /\ backend' = [backend EXCEPT ![c] = "none"]
    /\ trace' = [trace EXCEPT ![c] = <<>>]
    /\ capacity' = [capacity EXCEPT ![c] = 0]
    /\ stats' = [stats EXCEPT ![c] = NoStats]
    /\ sniffers' = [sniffers EXCEPT ![c] = <<>>]
    /\ recorded' = [recorded EXCEPT ![c] = <<>>]
    /\ source' = [source EXCEPT ![c] = <<>>]
    /\ grown' = [grown EXCEPT ![c] = {0}]
    /\ heard' = [heard EXCEPT ![c] = <<>>]
    /\ since' = [since EXCEPT ![c] = <<>>]
    /\ looped' = [looped EXCEPT ![c] = {}]
    /\ retired' = retired + stats[c].received
    /\ UNCHANGED <<served, stack>>

-----------------------------------------------------------------------------
(* Sending and receiving.                                                   *)

\* pcie_send counts the call before the backend is asked.
SendOk(c, t) ==
    /\ ClientRuns /\ IsOpen(c)
    /\ stats[c].sent < MaxSent /\ Len(recorded[c]) < MaxRecorded
    /\ stats' = [stats EXCEPT ![c].sent = @ + 1]
    /\ RecordTlp(c, [dir |-> "TX", tlp |-> t])
    /\ UNCHANGED <<backend, sniffers, served, stack, dispatch, retired>>

\* The backend refuses: a NULL TLP for golden, a failed or unsupported
\* configuration access for pci.
SendFails(c) ==
    /\ ClientRuns /\ IsOpen(c)
    /\ stats[c].sent < MaxSent
    /\ stats' = [stats EXCEPT ![c].sent = @ + 1]
    /\ UNCHANGED <<backend, buffer, sniffers, served, stack, dispatch, retired>>

\* dummy_recv: the next TLP of the process-wide sequence.
CanReceive(c) == backend[c] = "golden" /\ served < RecvLimit

NextRx == [type |-> MemRd, addr |-> served + 1]

TakeRx(c) ==
    /\ served' = served + 1
    /\ stats' = [stats EXCEPT ![c].received = @ + 1]

RecvOk(c) ==
    /\ ClientRuns /\ CanReceive(c)
    /\ TakeRx(c)
    /\ RecordTlp(c, [dir |-> "RX", tlp |-> NextRx])
    /\ UNCHANGED <<backend, sniffers, stack, dispatch, retired>>

-----------------------------------------------------------------------------
(* Sniffers and pcie_loop.                                                  *)

\* The client's obligation: the code writes the slot without looking at the
\* size of the table.
Sniff(c, f) ==
    /\ ClientRuns /\ IsOpen(c)
    /\ Len(sniffers[c]) < MaxSniffers[c]
    /\ sniffers' = [sniffers EXCEPT ![c] = Append(@, f)]
    /\ heard' = [heard EXCEPT ![c] = Append(@, <<>>)]
    /\ since' = [since EXCEPT ![c] = Append(@, served)]
    /\ UNCHANGED <<backend, buffer, stats, served, stack, looped, retired>>

FilterMatch(f, t) == t.type \in f

SetTop(frame) == stack' = [stack EXCEPT ![Len(stack)] = frame]

FirstSlot(c) == [ctx |-> c, tlp |-> NextRx, next |-> 1, running |-> FALSE]

\* Call pcie_loop; when the first receive fails it returns at once.
LoopCall(c) ==
    /\ ClientRuns /\ CanReceive(c)
    /\ Len(stack) < MaxDepth
    /\ TakeRx(c)
    /\ stack' = Append(stack, FirstSlot(c))
    /\ UNCHANGED <<backend, buffer, sniffers, dispatch, retired>>

InLoop == stack # <<>> /\ ~Top.running

\* Fault: the last slot is never reached.
SnifferLeftShort == Top.next < Len(sniffers[Top.ctx])

SnifferLeft == Top.next <= Len(sniffers[Top.ctx])

Deliver ==
    /\ InLoop /\ SnifferLeft
    /\ FilterMatch(sniffers[Top.ctx][Top.next], Top.tlp)
    /\ heard' = [heard EXCEPT ![Top.ctx][Top.next] = Append(@, Top.tlp.addr)]
    /\ SetTop([Top EXCEPT !.running = TRUE])
    /\ UNCHANGED <<backend, buffer, stats, sniffers, served, since, looped, retired>>

\* Fault: a sniffer that does not match is tried again.
SkipSnifferStuck ==
    /\ InLoop /\ SnifferLeft
    /\ ~FilterMatch(sniffers[Top.ctx][Top.next], Top.tlp)
    /\ UNCHANGED vars

SkipSniffer ==
    /\ InLoop /\ SnifferLeft
    /\ ~FilterMatch(sniffers[Top.ctx][Top.next], Top.tlp)
    /\ SetTop([Top EXCEPT !.next = @ + 1])
    /\ UNCHANGED <<backend, buffer, stats, sniffers, served, dispatch, retired>>

\* Fault: the sniffer that has just run is run again.
CallbackReturnRepeat ==
    /\ stack # <<>> /\ Top.running
    /\ SetTop([Top EXCEPT !.running = FALSE])
    /\ UNCHANGED <<backend, buffer, stats, sniffers, served, dispatch, retired>>

CallbackReturn ==
    /\ stack # <<>> /\ Top.running
    /\ SetTop([Top EXCEPT !.running = FALSE, !.next = @ + 1])
    /\ UNCHANGED <<backend, buffer, stats, sniffers, served, dispatch, retired>>

\* The slot test is made again after every callback, so a sniffer registered
\* by a callback sees the TLP being dispatched.
Dispatched ==
    /\ InLoop /\ ~SnifferLeft
    /\ looped' = [looped EXCEPT ![Top.ctx] = @ \union {Top.tlp.addr}]

\* Fault: only the first TLP of a loop reaches the statistics.
LoopAgainUncounted ==
    /\ Dispatched
    /\ CanReceive(Top.ctx)
    /\ served' = served + 1
    /\ SetTop(FirstSlot(Top.ctx))
    /\ UNCHANGED <<backend, buffer, stats, sniffers, heard, since, retired>>

\* Fault: the TLP of the previous turn is dispatched once more.
LoopAgainStale ==
    /\ Dispatched
    /\ CanReceive(Top.ctx)
    /\ TakeRx(Top.ctx)
    /\ SetTop([FirstSlot(Top.ctx) EXCEPT !.tlp = Top.tlp])
    /\ UNCHANGED <<backend, buffer, sniffers, heard, since, retired>>

LoopAgain ==
    /\ Dispatched
    /\ CanReceive(Top.ctx)
    /\ TakeRx(Top.ctx)
    /\ SetTop(FirstSlot(Top.ctx))
    /\ UNCHANGED <<backend, buffer, sniffers, heard, since, retired>>

LoopReturn ==
    /\ Dispatched
    /\ ~CanReceive(Top.ctx)
    /\ stack' = SubSeq(stack, 1, Len(stack) - 1)
    /\ UNCHANGED <<backend, buffer, stats, sniffers, served, heard, since, retired>>

-----------------------------------------------------------------------------
Init ==
    /\ backend = [c \in Ctx |-> "none"]
    /\ trace = [c \in Ctx |-> <<>>]
    /\ capacity = [c \in Ctx |-> 0]
    /\ stats = [c \in Ctx |-> NoStats]
    /\ sniffers = [c \in Ctx |-> <<>>]
    /\ served = 0
    /\ stack = <<>>
    /\ recorded = [c \in Ctx |-> <<>>]
    /\ source = [c \in Ctx |-> <<>>]
    /\ grown = [c \in Ctx |-> {0}]
    /\ heard = [c \in Ctx |-> <<>>]
    /\ since = [c \in Ctx |-> <<>>]
    /\ looped = [c \in Ctx |-> {}]
    /\ retired = 0

ClientCall ==
    \E c \in Ctx :
        \/ \E b \in {"golden", "pci"} : Open(c, b)
        \/ Close(c)
        \/ TraceReset(c)
        \/ \E d \in {"TX", "RX"}, t \in ClientTlp :
              TraceAppend(c, [dir |-> d, tlp |-> t])
        \/ \E t \in ClientTlp : SendOk(c, t)
        \/ SendFails(c)
        \/ RecvOk(c)
        \/ \E f \in Filter : Sniff(c, f)
        \/ LoopCall(c)

LoopStep == Deliver \/ SkipSniffer \/ LoopAgain \/ LoopReturn

Next == ClientCall \/ LoopStep \/ CallbackReturn

Spec == Init /\ [][Next]_vars

\* pcie_loop runs on, and every callback returns in the end.
FairSpec == Spec /\ WF_vars(LoopStep) /\ WF_vars(CallbackReturn)

-----------------------------------------------------------------------------
(* Properties.                                                              *)

\* Every variable has its type, and trace_count never exceeds trace_capacity.
TypeOK ==
    /\ backend \in [Ctx -> {"none", "golden", "pci"}]
    /\ trace \in [Ctx -> Seq(Record)]
    /\ capacity \in [Ctx -> Nat]
    /\ stats \in [Ctx -> [sent : Nat, received : Nat]]
    /\ sniffers \in [Ctx -> Seq(SUBSET TlpType)]
    /\ served \in Nat
    /\ stack \in Seq(Frame)
    /\ recorded \in [Ctx -> Seq(Record)]
    /\ source \in [Ctx -> Seq(Nat)]
    /\ grown \in [Ctx -> SUBSET Nat]
    /\ heard \in [Ctx -> Seq(Seq(Nat))]
    /\ since \in [Ctx -> Seq(Nat)]
    /\ looped \in [Ctx -> SUBSET Nat]
    /\ retired \in Nat
    /\ \A c \in Ctx : Len(trace[c]) <= capacity[c]

\* t is the part of r at the positions s, in the order of r.
IsSelection(t, s, r) ==
    /\ Len(s) = Len(t)
    /\ \A k \in DOMAIN t : s[k] \in DOMAIN r /\ t[k] = r[s[k]]
    /\ \A j, k \in DOMAIN t : j < k => s[j] < s[k]

\* The trace is what was recorded, in order, each TLP at most once: growing
\* the buffer and failing to grow it (pcapcie.c:46-54) never reorder,
\* duplicate or overwrite a record.
TraceFaithful ==
    \A c \in Ctx : IsSelection(trace[c], source[c], recorded[c])

\* Position in r of the k-th record kept; both ends of r count as kept.
Kept(s, r, k) ==
    IF k = 0 THEN 0 ELSE IF k > Len(s) THEN Len(r) + 1 ELSE s[k]

GapsOnlyAt(s, r, G) ==
    \A k \in 0 .. Len(s) : Kept(s, r, k + 1) # Kept(s, r, k) + 1 => k \in G

\* TLPs are lost only where a full table could not grow: a gap after the k-th
\* record means that k was a capacity of the buffer (pcapcie.c:46-53).  The
\* calls that lost them returned success.
LossOnlyAtFull ==
    \A c \in Ctx : GapsOnlyAt(source[c], recorded[c], grown[c])

\* Every TLP taken from the process-wide budget of the golden backend is in
\* the statistics of one context, open or closed, and of one only, however
\* pcie_recv and nested pcie_loop calls of several contexts interleave.
ReceivedAccounted ==
    served = retired + FoldFunction(+, 0, [c \in Ctx |-> stats[c].received])

InDispatch(c) == {stack[k].tlp.addr : k \in {k \in DOMAIN stack : stack[k].ctx = c}}

\* A sniffer hears a TLP at most once, and only TLPs that pcie_loop received
\* for its own context, although callbacks run pcie_loop again and register
\* sniffers while a dispatch is going on (pcapcie.c:328-333).
HeardOnce ==
    \A c \in Ctx : \A i \in DOMAIN heard[c] :
        /\ \A k \in DOMAIN heard[c][i] : heard[c][i][k] \in looped[c] \union InDispatch(c)
        /\ \A j, k \in DOMAIN heard[c][i] : j # k => heard[c][i][j] # heard[c][i][k]

\* A sniffer whose filter matches hears every TLP whose dispatch began after
\* the sniffer was registered and is over.
HeardAll ==
    \A c \in Ctx : \A i \in DOMAIN sniffers[c] :
        MemRd \in sniffers[c][i] =>
            \A a \in looped[c] : a > since[c][i] => a \in Range(heard[c][i])

Increasing(s) == \A j, k \in DOMAIN s : j < k => s[j] < s[k]

\* The first sniffer of a context hears the TLPs in the order the backend
\* delivered them, also when later sniffers nest pcie_loop calls.
FirstSnifferInOrder ==
    \A c \in Ctx : heard[c] # <<>> => Increasing(heard[c][1])

\* pcie_loop returns, and with it every call it is nested in: the golden
\* budget runs out and callbacks return.
LoopReturns == (stack # <<>>) ~> (stack = <<>>)
=============================================================================
