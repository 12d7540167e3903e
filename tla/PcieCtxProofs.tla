---------------------------- MODULE PcieCtxProofs ----------------------------
(***************************************************************************)
(* Proofs about PcieCtx for every number of contexts, every TLP and filter *)
(* set and every bound.  First the types and the trace: it is a faithful   *)
(* selection of what was recorded, with losses only at a full table.  Then *)
(* the dispatch, for every number of sniffers and nested pcie_loop calls:  *)
(* who hears which TLP, how often and in what order, and that the          *)
(* statistics add up to the TLPs delivered.                                *)
(***************************************************************************)
EXTENDS PcieCtx, Counting, SequenceTheorems

(* Facts about one buffer: t the trace, s the sources, r all recorded.      *)

LEMMA StoreSelects ==
    ASSUME NEW t \in Seq(Record), NEW s \in Seq(Nat), NEW r \in Seq(Record),
           NEW x \in Record, IsSelection(t, s, r)
    PROVE  IsSelection(Append(t, x), Append(s, Len(r) + 1), Append(r, x))
BY SMTT(30) DEF IsSelection

LEMMA DropSelects ==
    ASSUME NEW t \in Seq(Record), NEW s \in Seq(Nat), NEW r \in Seq(Record),
           NEW x \in Record, IsSelection(t, s, r)
    PROVE  IsSelection(t, s, Append(r, x))
BY DEF IsSelection

LEMMA StoreKeepsGaps ==
    ASSUME NEW s \in Seq(Nat), NEW r \in Seq(Record), NEW x \in Record,
           NEW G, NEW H, G \subseteq H, GapsOnlyAt(s, r, G)
    PROVE  GapsOnlyAt(Append(s, Len(r) + 1), Append(r, x), H)
<1> DEFINE s1 == Append(s, Len(r) + 1)
           r1 == Append(r, x)
<1> SUFFICES ASSUME NEW k \in 0 .. Len(s1), Kept(s1, r1, k + 1) # Kept(s1, r1, k) + 1
             PROVE  k \in H
    BY DEF GapsOnlyAt
<1>1. k # Len(s) + 1
    BY DEF Kept
<1>2. k \in 0 .. Len(s)
    BY <1>1
<1>3. Kept(s1, r1, k) = Kept(s, r, k)
    BY <1>2 DEF Kept
<1>4. Kept(s1, r1, k + 1) = Kept(s, r, k + 1)
    BY <1>2 DEF Kept
<1> QED BY <1>2, <1>3, <1>4 DEF GapsOnlyAt

LEMMA DropKeepsGaps ==
    ASSUME NEW s \in Seq(Nat), NEW r \in Seq(Record), NEW x \in Record,
           NEW G, Len(s) \in G, GapsOnlyAt(s, r, G)
    PROVE  GapsOnlyAt(s, Append(r, x), G)
<1> DEFINE r1 == Append(r, x)
<1> SUFFICES ASSUME NEW k \in 0 .. Len(s), Kept(s, r1, k + 1) # Kept(s, r1, k) + 1
             PROVE  k \in G
    BY DEF GapsOnlyAt
<1>1. CASE k = Len(s)
    BY <1>1
<1>2. CASE k # Len(s)
    <2>1. Kept(s, r1, k) = Kept(s, r, k) /\ Kept(s, r1, k + 1) = Kept(s, r, k + 1)
        BY <1>2 DEF Kept
    <2> QED BY <2>1 DEF GapsOnlyAt
<1> QED BY <1>1, <1>2

-----------------------------------------------------------------------------
(* The inductive invariant: a full table's size is a capacity it has had.   *)

FullIsGrown == \A c \in Ctx : capacity[c] \in grown[c]

\* The conjuncts that speak of the trace buffer.
BufferOK ==
    /\ trace \in [Ctx -> Seq(Record)]
    /\ capacity \in [Ctx -> Nat]
    /\ recorded \in [Ctx -> Seq(Record)]
    /\ source \in [Ctx -> Seq(Nat)]
    /\ grown \in [Ctx -> SUBSET Nat]
    /\ \A c \in Ctx : Len(trace[c]) <= capacity[c]
    /\ TraceFaithful /\ LossOnlyAtFull /\ FullIsGrown

\* pcie_trace_record keeps the buffer sound, whether it stores, grows or drops.
LEMMA RecordTlpBuffer ==
    ASSUME BufferOK, NEW c \in Ctx, NEW x \in Record, RecordTlp(c, x)
    PROVE  BufferOK'
<1> USE BoundsAssumption
<1>0. /\ trace[c] \in Seq(Record) /\ source[c] \in Seq(Nat)
      /\ recorded[c] \in Seq(Record) /\ capacity[c] \in Nat
      /\ Len(trace[c]) \in Nat /\ Len(source[c]) = Len(trace[c])
    BY DEF BufferOK, TraceFaithful, IsSelection
<1>1. NextCapacity(capacity[c]) \in Nat /\ NextCapacity(capacity[c]) > capacity[c]
    BY <1>0 DEF NextCapacity
<1>2. CASE Store(c, x) /\ Len(trace[c]) # capacity[c] /\ UNCHANGED <<capacity, grown>>
    <2>1. /\ trace' = [trace EXCEPT ![c] = Append(trace[c], x)]
          /\ source' = [source EXCEPT ![c] = Append(source[c], Len(recorded[c]) + 1)]
          /\ recorded' = [recorded EXCEPT ![c] = Append(recorded[c], x)]
        BY <1>2 DEF RecordTlp, Store
    <2>2. IsSelection(trace'[c], source'[c], recorded'[c])
        BY <1>0, <2>1, StoreSelects DEF BufferOK, TraceFaithful
    <2>3. GapsOnlyAt(source'[c], recorded'[c], grown[c])
        BY <1>0, <2>1, StoreKeepsGaps DEF BufferOK, LossOnlyAtFull
    <2>4. TraceFaithful'
        BY <2>1, <2>2 DEF BufferOK, TraceFaithful
    <2>5. LossOnlyAtFull'
        BY <1>2, <2>1, <2>3 DEF BufferOK, LossOnlyAtFull
    <2>6. FullIsGrown'
        BY <1>2 DEF BufferOK, FullIsGrown
    <2> QED BY <1>0, <1>2, <2>1, <2>4, <2>5, <2>6 DEF BufferOK
<1>3. CASE /\ Store(c, x) /\ Len(trace[c]) = capacity[c]
           /\ capacity' = [capacity EXCEPT ![c] = NextCapacity(@)]
           /\ grown' = [grown EXCEPT ![c] = @ \union {NextCapacity(capacity[c])}]
    <2>1. /\ trace' = [trace EXCEPT ![c] = Append(trace[c], x)]
          /\ source' = [source EXCEPT ![c] = Append(source[c], Len(recorded[c]) + 1)]
          /\ recorded' = [recorded EXCEPT ![c] = Append(recorded[c], x)]
        BY <1>3 DEF RecordTlp, Store
    <2>2. IsSelection(trace'[c], source'[c], recorded'[c])
        BY <1>0, <2>1, StoreSelects DEF BufferOK, TraceFaithful
    <2>3. grown[c] \subseteq grown'[c]
        BY <1>3 DEF BufferOK
    <2>4. GapsOnlyAt(source'[c], recorded'[c], grown'[c])
        BY <1>0, <2>1, <2>3, StoreKeepsGaps DEF BufferOK, LossOnlyAtFull
    <2>5. TraceFaithful'
        BY <2>1, <2>2 DEF BufferOK, TraceFaithful
    <2>6. LossOnlyAtFull'
        BY <1>3, <2>1, <2>4 DEF BufferOK, LossOnlyAtFull
    <2>7. FullIsGrown'
        BY <1>3 DEF BufferOK, FullIsGrown
    <2>8. capacity' \in [Ctx -> Nat] /\ grown' \in [Ctx -> SUBSET Nat]
        BY <1>1, <1>3 DEF BufferOK
    <2>9. \A d \in Ctx : Len(trace'[d]) <= capacity'[d]
        BY <1>0, <1>1, <1>3, <2>1 DEF BufferOK
    <2>10. /\ trace' \in [Ctx -> Seq(Record)]
           /\ recorded' \in [Ctx -> Seq(Record)]
           /\ source' \in [Ctx -> Seq(Nat)]
        BY <1>0, <2>1 DEF BufferOK
    <2> QED BY <2>5, <2>6, <2>7, <2>8, <2>9, <2>10 DEF BufferOK
<1>4. CASE Len(trace[c]) = capacity[c] /\ UNCHANGED <<trace, source, capacity, grown>>
    <2>1. recorded' = [recorded EXCEPT ![c] = Append(recorded[c], x)]
        BY <1>4 DEF RecordTlp
    <2>2. IsSelection(trace[c], source[c], recorded'[c])
        BY <1>0, <2>1, DropSelects DEF BufferOK, TraceFaithful
    <2>3. Len(source[c]) \in grown[c]
        BY <1>0, <1>4 DEF BufferOK, FullIsGrown
    <2>4. GapsOnlyAt(source[c], recorded'[c], grown[c])
        BY <1>0, <2>1, <2>3, DropKeepsGaps DEF BufferOK, LossOnlyAtFull
    <2>5. TraceFaithful'
        BY <1>4, <2>1, <2>2 DEF BufferOK, TraceFaithful
    <2>6. LossOnlyAtFull'
        BY <1>4, <2>1, <2>4 DEF BufferOK, LossOnlyAtFull
    <2> QED BY <1>0, <1>4, <2>1, <2>5, <2>6 DEF BufferOK, FullIsGrown
<1> QED BY <1>2, <1>3, <1>4 DEF RecordTlp

\* An empty trace is faithful, whatever was lost before it was emptied.
LEMMA EmptyBuffer ==
    /\ IsSelection(<<>>, <<>>, <<>>)
    /\ \A G : GapsOnlyAt(<<>>, <<>>, G)
BY DEF IsSelection, GapsOnlyAt, Kept

\* The types of everything else.
RestOK ==
    /\ backend \in [Ctx -> {"none", "golden", "pci"}]
    /\ stats \in [Ctx -> [sent : Nat, received : Nat]]
    /\ sniffers \in [Ctx -> Seq(SUBSET TlpType)]
    /\ served \in Nat
    /\ stack \in Seq(Frame)
    /\ heard \in [Ctx -> Seq(Seq(Nat))]
    /\ since \in [Ctx -> Seq(Nat)]
    /\ looped \in [Ctx -> SUBSET Nat]
    /\ retired \in Nat

IInv == BufferOK /\ RestOK

LEMMA InitIInv == Init => IInv
<1> SUFFICES ASSUME Init PROVE IInv
    OBVIOUS
<1>1. BufferOK
    BY EmptyBuffer DEF Init, BufferOK, TraceFaithful, LossOnlyAtFull, FullIsGrown
<1>2. RestOK
    BY DEF Init, RestOK, NoStats
<1> QED BY <1>1, <1>2 DEF IInv

\* A step that empties the trace of one context, keeping or freeing the table.
LEMMA EmptiedBuffer ==
    ASSUME BufferOK, NEW c \in Ctx,
           trace' = [trace EXCEPT ![c] = <<>>],
           recorded' = [recorded EXCEPT ![c] = <<>>],
           source' = [source EXCEPT ![c] = <<>>],
           \/ UNCHANGED <<capacity, grown>>
           \/ /\ capacity' = [capacity EXCEPT ![c] = 0]
              /\ grown' = [grown EXCEPT ![c] = {0}]
    PROVE  BufferOK'
<1>1. /\ trace' \in [Ctx -> Seq(Record)]
      /\ recorded' \in [Ctx -> Seq(Record)]
      /\ source' \in [Ctx -> Seq(Nat)]
    BY DEF BufferOK
<1>2. capacity' \in [Ctx -> Nat] /\ grown' \in [Ctx -> SUBSET Nat]
    <2>1. CASE UNCHANGED <<capacity, grown>>
        BY <2>1 DEF BufferOK
    <2>2. CASE /\ capacity' = [capacity EXCEPT ![c] = 0]
               /\ grown' = [grown EXCEPT ![c] = {0}]
        <3>1. {0} \in SUBSET Nat
            OBVIOUS
        <3> QED BY <2>2, <3>1 DEF BufferOK
    <2> QED BY <2>1, <2>2
<1>3. \A d \in Ctx : Len(trace'[d]) <= capacity'[d]
    BY DEF BufferOK
<1>4. TraceFaithful'
    BY EmptyBuffer DEF BufferOK, TraceFaithful
<1>5. LossOnlyAtFull'
    <2> SUFFICES ASSUME NEW d \in Ctx
                 PROVE  GapsOnlyAt(source'[d], recorded'[d], grown'[d])
        BY DEF LossOnlyAtFull
    <2>1. CASE d = c
        BY <2>1, EmptyBuffer DEF BufferOK
    <2>2. CASE d # c
        BY <2>2 DEF BufferOK, LossOnlyAtFull
    <2> QED BY <2>1, <2>2
<1>6. FullIsGrown'
    BY DEF BufferOK, FullIsGrown
<1> QED BY <1>1, <1>2, <1>3, <1>4, <1>5, <1>6 DEF BufferOK

LEMMA SameBuffer == ASSUME BufferOK, UNCHANGED buffer PROVE BufferOK'
BY DEF buffer, trackers, BufferOK, TraceFaithful, LossOnlyAtFull, FullIsGrown

\* Every step keeps the buffers sound.
LEMMA BufferStep == ASSUME IInv, [Next]_vars PROVE BufferOK'
<1> USE DEF IInv
<1>1. ASSUME NEW c \in Ctx, NEW b \in {"golden", "pci"}, Open(c, b)
      PROVE  BufferOK'
    BY <1>1, SameBuffer DEF Open
<1>2. ASSUME NEW c \in Ctx, Close(c)
      PROVE  BufferOK'
    BY <1>2, EmptiedBuffer DEF Close
<1>3. ASSUME NEW c \in Ctx, TraceReset(c)
      PROVE  BufferOK'
    BY <1>3, EmptiedBuffer DEF TraceReset
<1>4. ASSUME NEW c \in Ctx, NEW d \in {"TX", "RX"}, NEW t \in ClientTlp,
             TraceAppend(c, [dir |-> d, tlp |-> t])
      PROVE  BufferOK'
    <2>1. [dir |-> d, tlp |-> t] \in Record
        BY InputAssumption DEF Record
    <2> QED BY <1>4, <2>1, RecordTlpBuffer DEF TraceAppend
<1>5. ASSUME NEW c \in Ctx, NEW t \in ClientTlp, SendOk(c, t)
      PROVE  BufferOK'
    <2>1. [dir |-> "TX", tlp |-> t] \in Record
        BY InputAssumption DEF Record
    <2> QED BY <1>5, <2>1, RecordTlpBuffer DEF SendOk
<1>6. ASSUME NEW c \in Ctx, SendFails(c)
      PROVE  BufferOK'
    BY <1>6, SameBuffer DEF SendFails
<1>7. ASSUME NEW c \in Ctx, RecvOk(c)
      PROVE  BufferOK'
    <2>1. [dir |-> "RX", tlp |-> NextRx] \in Record
        BY DEF Record, NextRx, Tlp, TlpType, MemRd, RestOK
    <2> QED BY <1>7, <2>1, RecordTlpBuffer DEF RecvOk
<1>8. ASSUME NEW c \in Ctx, NEW f \in Filter, Sniff(c, f)
      PROVE  BufferOK'
    BY <1>8, SameBuffer DEF Sniff
<1>9. ASSUME NEW c \in Ctx, LoopCall(c)
      PROVE  BufferOK'
    BY <1>9, SameBuffer DEF LoopCall
<1>10. ASSUME LoopStep
       PROVE  BufferOK'
    BY <1>10, SameBuffer DEF LoopStep, Deliver, SkipSniffer, LoopAgain, LoopReturn
<1>11. ASSUME CallbackReturn
       PROVE  BufferOK'
    BY <1>11, SameBuffer DEF CallbackReturn
<1>12. ASSUME UNCHANGED vars
       PROVE  BufferOK'
    BY <1>12, SameBuffer DEF vars
<1> QED
    BY <1>1, <1>2, <1>3, <1>4, <1>5, <1>6, <1>7, <1>8, <1>9, <1>10, <1>11, <1>12
    DEF Next, ClientCall

\* The top frame of a loop in progress, and its replacement by a new one.
LEMMA StackFacts ==
    ASSUME RestOK, stack # <<>>
    PROVE  /\ Top \in Frame
           /\ SubSeq(stack, 1, Len(stack) - 1) \in Seq(Frame)
           /\ \A f \in Frame : [stack EXCEPT ![Len(stack)] = f] \in Seq(Frame)
BY DEF RestOK, Top

LEMMA NewFrame ==
    ASSUME RestOK, NEW c \in Ctx
    PROVE  FirstSlot(c) \in Frame
BY DEF RestOK, FirstSlot, NextRx, Frame, Tlp, TlpType, MemRd

LEMMA StatsCount ==
    ASSUME RestOK, NEW c \in Ctx
    PROVE  /\ [stats EXCEPT ![c].sent = @ + 1] \in [Ctx -> [sent : Nat, received : Nat]]
           /\ [stats EXCEPT ![c].received = @ + 1] \in [Ctx -> [sent : Nat, received : Nat]]
<1>1. stats[c] \in [sent : Nat, received : Nat]
    BY DEF RestOK
<1>2. stats[c].sent + 1 \in Nat /\ stats[c].received + 1 \in Nat
    BY <1>1
<1>3. /\ [stats[c] EXCEPT !.sent = stats[c].sent + 1] \in [sent : Nat, received : Nat]
      /\ [stats[c] EXCEPT !.received = stats[c].received + 1] \in [sent : Nat, received : Nat]
    BY <1>1, <1>2
<1> QED BY <1>3 DEF RestOK

LEMMA SeqExcept ==
    ASSUME NEW S, NEW s \in Seq(S), NEW n, NEW v, n \in DOMAIN s => v \in S
    PROVE  [s EXCEPT ![n] = v] \in Seq(S)
<1>1. CASE n \in DOMAIN s
    BY <1>1
<1>2. CASE n \notin DOMAIN s
    <2>1. [s EXCEPT ![n] = v] = [i \in DOMAIN s |-> s[i]]
        BY <1>2, Zenon
    <2>2. s = [i \in DOMAIN s |-> s[i]]
        OBVIOUS
    <2> QED BY <2>1, <2>2
<1> QED BY <1>1, <1>2

LEMMA NextSlot ==
    ASSUME NEW f \in Frame
    PROVE  /\ [f EXCEPT !.next = @ + 1] \in Frame
           /\ [f EXCEPT !.running = FALSE, !.next = @ + 1] \in Frame
           /\ [f EXCEPT !.running = TRUE] \in Frame
<1>1. f.next + 1 \in Nat \ {0}
    BY DEF Frame
<1> QED BY <1>1 DEF Frame

\* Every step keeps the other types.
LEMMA RestStep == ASSUME IInv, [Next]_vars PROVE RestOK'
<1> USE DEF IInv
<1>1. ASSUME NEW c \in Ctx, NEW b \in {"golden", "pci"}, Open(c, b)
      PROVE  RestOK'
    BY <1>1 DEF Open, RestOK, dispatch
<1>2. ASSUME NEW c \in Ctx, Close(c)
      PROVE  RestOK'
    BY <1>2 DEF Close, RestOK, NoStats
<1>3. ASSUME NEW c \in Ctx, TraceReset(c)
      PROVE  RestOK'
    BY <1>3 DEF TraceReset, RestOK, dispatch
<1>4. ASSUME NEW c \in Ctx, NEW r, TraceAppend(c, r)
      PROVE  RestOK'
    BY <1>4 DEF TraceAppend, RestOK, dispatch
<1>5. ASSUME NEW c \in Ctx, NEW t \in ClientTlp, SendOk(c, t)
      PROVE  RestOK'
    BY <1>5, StatsCount DEF SendOk, RestOK, dispatch
<1>6. ASSUME NEW c \in Ctx, SendFails(c)
      PROVE  RestOK'
    BY <1>6, StatsCount DEF SendFails, RestOK, dispatch
<1>7. ASSUME NEW c \in Ctx, RecvOk(c)
      PROVE  RestOK'
    <2>1. served' \in Nat
        BY <1>7 DEF RecvOk, TakeRx, RestOK
    <2>3. stats' \in [Ctx -> [sent : Nat, received : Nat]]
        BY <1>7, StatsCount DEF RecvOk, TakeRx
    <2> QED BY <1>7, <2>3, <2>1 DEF RecvOk, RestOK, dispatch
<1>8. ASSUME NEW c \in Ctx, NEW f \in Filter, Sniff(c, f)
      PROVE  RestOK'
    <2>1. sniffers' \in [Ctx -> Seq(SUBSET TlpType)]
        BY <1>8, InputAssumption DEF Sniff, RestOK
    <2>2. heard' \in [Ctx -> Seq(Seq(Nat))] /\ since' \in [Ctx -> Seq(Nat)]
        BY <1>8 DEF Sniff, RestOK
    <2> QED BY <1>8, <2>1, <2>2 DEF Sniff, RestOK
<1>9. ASSUME NEW c \in Ctx, LoopCall(c)
      PROVE  RestOK'
    <2>1. served' \in Nat
        BY <1>9 DEF LoopCall, TakeRx, RestOK
    <2>3. stats' \in [Ctx -> [sent : Nat, received : Nat]]
        BY <1>9, StatsCount DEF LoopCall, TakeRx
    <2>2. stack' \in Seq(Frame)
        BY <1>9, NewFrame DEF LoopCall, RestOK
    <2> QED BY <1>9, <2>3, <2>1, <2>2 DEF LoopCall, RestOK, dispatch
<1>10. ASSUME Deliver
       PROVE  RestOK'
    <2>1. Top \in Frame /\ [Top EXCEPT !.running = TRUE] \in Frame
        BY <1>10, StackFacts, NextSlot DEF Deliver, InLoop
    <2>2. stack' \in Seq(Frame)
        BY <1>10, <2>1, StackFacts DEF Deliver, InLoop, SetTop
    <2>3. Top.ctx \in Ctx /\ Top.tlp.addr \in Nat /\ Top.next \in Nat
        BY <2>1 DEF Frame, Tlp
    <2>4. ASSUME NEW h \in Seq(Seq(Nat))
          PROVE  [h EXCEPT ![Top.next] = Append(@, Top.tlp.addr)] \in Seq(Seq(Nat))
        <3>1. Top.next \in DOMAIN h => Append(h[Top.next], Top.tlp.addr) \in Seq(Nat)
            BY <2>3
        <3> QED BY <3>1, SeqExcept
    <2>5. heard' \in [Ctx -> Seq(Seq(Nat))]
        BY <1>10, <2>3, <2>4 DEF Deliver, RestOK
    <2> QED BY <1>10, <2>2, <2>5 DEF Deliver, RestOK
<1>11. ASSUME SkipSniffer
       PROVE  RestOK'
    <2>1. [Top EXCEPT !.next = @ + 1] \in Frame
        BY <1>11, StackFacts, NextSlot DEF SkipSniffer, InLoop
    <2>2. stack' \in Seq(Frame)
        BY <1>11, <2>1, StackFacts DEF SkipSniffer, InLoop, SetTop
    <2> QED BY <1>11, <2>2 DEF SkipSniffer, RestOK, dispatch
<1>12. ASSUME CallbackReturn
       PROVE  RestOK'
    <2>1. [Top EXCEPT !.running = FALSE, !.next = @ + 1] \in Frame
        BY <1>12, StackFacts, NextSlot DEF CallbackReturn
    <2>2. stack' \in Seq(Frame)
        BY <1>12, <2>1, StackFacts DEF CallbackReturn, SetTop
    <2> QED BY <1>12, <2>2 DEF CallbackReturn, RestOK, dispatch
<1>13. ASSUME LoopAgain
       PROVE  RestOK'
    <2>1. Top.ctx \in Ctx /\ Top.tlp.addr \in Nat
        BY <1>13, StackFacts DEF LoopAgain, Dispatched, InLoop, Frame, Tlp
    <2>2. stack' \in Seq(Frame)
        BY <1>13, <2>1, NewFrame, StackFacts DEF LoopAgain, Dispatched, InLoop, SetTop
    <2>3. looped' \in [Ctx -> SUBSET Nat]
        BY <1>13, <2>1 DEF LoopAgain, Dispatched, RestOK
    <2>4. served' \in Nat
        BY <1>13 DEF LoopAgain, TakeRx, RestOK
    <2>5. stats' \in [Ctx -> [sent : Nat, received : Nat]]
        BY <1>13, <2>1, StatsCount DEF LoopAgain, TakeRx
    <2> QED BY <1>13, <2>5, <2>2, <2>3, <2>4 DEF LoopAgain, RestOK
<1>14. ASSUME LoopReturn
       PROVE  RestOK'
    <2>1. Top.ctx \in Ctx /\ Top.tlp.addr \in Nat
        BY <1>14, StackFacts DEF LoopReturn, Dispatched, InLoop, Frame, Tlp
    <2>2. stack' \in Seq(Frame)
        BY <1>14, StackFacts DEF LoopReturn, Dispatched, InLoop
    <2>3. looped' \in [Ctx -> SUBSET Nat]
        BY <1>14, <2>1 DEF LoopReturn, Dispatched, RestOK
    <2> QED BY <1>14, <2>2, <2>3 DEF LoopReturn, RestOK
<1>15. ASSUME UNCHANGED vars
       PROVE  RestOK'
    BY <1>15 DEF vars, dispatch, RestOK
<1> QED
    BY <1>1, <1>2, <1>3, <1>4, <1>5, <1>6, <1>7, <1>8, <1>9, <1>10, <1>11, <1>12,
       <1>13, <1>14, <1>15
    DEF Next, ClientCall, LoopStep

LEMMA Invariance == Spec => []IInv
<1>1. IInv /\ [Next]_vars => IInv'
    BY BufferStep, RestStep DEF IInv
<1> QED BY InitIInv, <1>1, PTL DEF Spec

-----------------------------------------------------------------------------
\* Type correctness of the library core, with trace_count <= trace_capacity.
THEOREM TypeCorrect == Spec => []TypeOK
<1>1. IInv => TypeOK
    BY DEF IInv, BufferOK, RestOK, TypeOK
<1> QED BY Invariance, <1>1, PTL

\* The trace of every context is an ordered selection of what was recorded:
\* pcie_trace_record never reorders, duplicates or overwrites.
THEOREM TraceIsFaithful == Spec => []TraceFaithful
<1>1. IInv => TraceFaithful
    BY DEF IInv, BufferOK
<1> QED BY Invariance, <1>1, PTL

\* Records are lost only where the table was full and could not grow.
THEOREM LossIsAtFull == Spec => []LossOnlyAtFull
<1>1. IInv => LossOnlyAtFull
    BY DEF IInv, BufferOK
<1> QED BY Invariance, <1>1, PTL

-----------------------------------------------------------------------------
(* The inductive invariant of the dispatch.                                 *)

\* The slots of a context and what is remembered of them go together.
SlotsAgree ==
    \A c \in Ctx : /\ DOMAIN heard[c] = DOMAIN sniffers[c]
                   /\ DOMAIN since[c] = DOMAIN sniffers[c]

\* Only the innermost loop is outside a callback, and a callback has a slot.
FramesInUse ==
    \A k \in DOMAIN stack :
        /\ stack[k].tlp.type = MemRd
        /\ k # Len(stack) => stack[k].running
        /\ stack[k].running => stack[k].next \in DOMAIN sniffers[stack[k].ctx]

\* No address is ahead of the counter the next one is taken from.
AddressesUsed ==
    /\ \A k \in DOMAIN stack : stack[k].tlp.addr <= served
    /\ \A c \in Ctx : \A a \in looped[c] : a <= served
    /\ \A c \in Ctx : \A i \in DOMAIN since[c] : since[c][i] <= served

\* A TLP is dispatched by one loop, once.
AddressesDistinct ==
    /\ \A j, k \in DOMAIN stack : j # k => stack[j].tlp.addr # stack[k].tlp.addr
    /\ \A c \in Ctx : \A k \in DOMAIN stack : stack[k].tlp.addr \notin looped[c]

\* Nothing was received since a loop took the TLP it has not offered yet.
FreshUnoffered ==
    \A k \in DOMAIN stack :
        (stack[k].next = 1 /\ ~stack[k].running) => stack[k].tlp.addr = served

\* Frame f has offered its TLP to slot i.
Offered(f, i) == i < f.next \/ (i = f.next /\ f.running)

\* What a sniffer has heard was offered to it.
HeardWasOffered ==
    \A c \in Ctx : \A i \in DOMAIN heard[c] : \A n \in DOMAIN heard[c][i] :
        \/ heard[c][i][n] \in looped[c]
        \/ \E k \in DOMAIN stack : /\ stack[k].ctx = c
                                   /\ stack[k].tlp.addr = heard[c][i][n]
                                   /\ Offered(stack[k], i)

NothingTwice ==
    \A c \in Ctx : \A i \in DOMAIN heard[c] :
        \A m, n \in DOMAIN heard[c][i] : m # n => heard[c][i][m] # heard[c][i][n]

\* Slot i of context c is due to hear a.
Due(c, i, a) == MemRd \in sniffers[c][i] /\ a > since[c][i]

\* What was offered to a sniffer was heard by it.
OfferedWasHeard ==
    \A k \in DOMAIN stack : \A i \in DOMAIN sniffers[stack[k].ctx] :
        Offered(stack[k], i) /\ Due(stack[k].ctx, i, stack[k].tlp.addr) =>
            stack[k].tlp.addr \in Range(heard[stack[k].ctx][i])

Safe == SlotsAgree /\ FramesInUse /\ AddressesUsed /\ AddressesDistinct
     /\ FreshUnoffered

Heard == HeardWasOffered /\ NothingTwice /\ OfferedWasHeard /\ HeardAll
      /\ FirstSnifferInOrder

DispatchInv == IInv /\ Safe /\ Heard

-----------------------------------------------------------------------------
(* How the steps change the stack.                                          *)

LEMMA FrameTypes ==
    ASSUME RestOK, NEW k \in DOMAIN stack
    PROVE  /\ stack[k] \in Frame /\ stack[k].ctx \in Ctx
           /\ stack[k].tlp.addr \in Nat /\ stack[k].next \in Nat \ {0}
           /\ stack[k].running \in BOOLEAN
<1>1. stack[k] \in Frame
    BY DEF RestOK
<1> QED BY <1>1 DEF Frame, Tlp

LEMMA TopReplaced ==
    ASSUME RestOK, stack # <<>>, NEW f \in Frame, SetTop(f)
    PROVE  /\ Len(stack) \in Nat \ {0} /\ Len(stack) \in DOMAIN stack
           /\ Top = stack[Len(stack)] /\ Top \in Frame
           /\ stack' \in Seq(Frame) /\ Len(stack') = Len(stack)
           /\ DOMAIN stack' = DOMAIN stack
           /\ stack'[Len(stack)] = f
           /\ \A k \in DOMAIN stack : k # Len(stack) => stack'[k] = stack[k]
BY DEF RestOK, SetTop, Top

LEMMA FramePushed ==
    ASSUME RestOK, NEW f \in Frame, stack' = Append(stack, f)
    PROVE  /\ Len(stack) \in Nat /\ stack' \in Seq(Frame)
           /\ Len(stack') = Len(stack) + 1
           /\ DOMAIN stack = 1 .. Len(stack)
           /\ DOMAIN stack' = 1 .. Len(stack) + 1
           /\ stack'[Len(stack) + 1] = f
           /\ \A k \in DOMAIN stack : stack'[k] = stack[k]
BY DEF RestOK

LEMMA Prefixes ==
    ASSUME NEW S, NEW s \in Seq(S), NEW n \in Nat, n <= Len(s)
    PROVE  /\ SubSeq(s, 1, n) \in Seq(S) /\ Len(SubSeq(s, 1, n)) = n
           /\ \A k \in 1 .. n : SubSeq(s, 1, n)[k] = s[k]
OBVIOUS

LEMMA FramePopped ==
    ASSUME RestOK, stack # <<>>, stack' = SubSeq(stack, 1, Len(stack) - 1)
    PROVE  /\ Len(stack) \in Nat \ {0} /\ Len(stack) \in DOMAIN stack
           /\ Top = stack[Len(stack)] /\ Top \in Frame
           /\ stack' \in Seq(Frame) /\ Len(stack') = Len(stack) - 1
           /\ DOMAIN stack' = 1 .. Len(stack) - 1
           /\ DOMAIN stack = 1 .. Len(stack)
           /\ \A k \in DOMAIN stack' : stack'[k] = stack[k]
<1>1. /\ stack \in Seq(Frame) /\ Len(stack) \in Nat \ {0}
      /\ Len(stack) - 1 \in Nat /\ Len(stack) - 1 <= Len(stack)
    BY DEF RestOK
<1>2. /\ stack' \in Seq(Frame) /\ Len(stack') = Len(stack) - 1
      /\ \A k \in 1 .. Len(stack) - 1 : stack'[k] = stack[k]
    BY <1>1, Prefixes
<1>3. DOMAIN stack' = 1 .. Len(stack) - 1
    BY <1>2
<1> QED BY <1>1, <1>2, <1>3 DEF Top

\* Client code runs inside a callback of the innermost loop, so of every loop.
LEMMA AllFramesRun ==
    ASSUME RestOK, FramesInUse, ClientRuns
    PROVE  \A k \in DOMAIN stack : stack[k].running
<1> SUFFICES ASSUME NEW k \in DOMAIN stack
             PROVE  stack[k].running
    OBVIOUS
<1>1. stack # <<>>
    BY DEF RestOK
<1> QED BY <1>1 DEF FramesInUse, ClientRuns, Top

-----------------------------------------------------------------------------
(* Each step keeps the invariant.                                           *)

LEMMA SameDispatch ==
    ASSUME Safe, Heard, UNCHANGED <<sniffers, served, stack, dispatch>>
    PROVE  Safe' /\ Heard'
BY DEF Safe, SlotsAgree, FramesInUse, AddressesUsed, AddressesDistinct,
       FreshUnoffered, Heard, HeardWasOffered, NothingTwice, OfferedWasHeard,
       HeardAll, FirstSnifferInOrder, Increasing, Range, Due, Offered, dispatch

\* pcie_recv from a callback takes a number that no loop has.
LEMMA RecvKeeps ==
    ASSUME DispatchInv, NEW c \in Ctx, RecvOk(c)
    PROVE  Safe' /\ Heard'
<1> RestOK /\ SlotsAgree /\ FramesInUse /\ AddressesUsed /\ AddressesDistinct
    /\ FreshUnoffered /\ HeardWasOffered /\ NothingTwice /\ OfferedWasHeard
    /\ HeardAll /\ FirstSnifferInOrder
    BY DEF DispatchInv, IInv, Safe, Heard
<1>1. served \in Nat /\ served' = served + 1 /\ UNCHANGED <<stack, sniffers, heard, since, looped>>
    BY DEF RecvOk, TakeRx, dispatch, RestOK
<1>2. SlotsAgree' /\ FramesInUse' /\ AddressesDistinct'
    BY <1>1 DEF SlotsAgree, FramesInUse, AddressesDistinct
<1>3. AddressesUsed'
    <2>2. \A k \in DOMAIN stack' : stack'[k].tlp.addr <= served'
        BY <1>1, FrameTypes DEF AddressesUsed
    <2>3. \A d \in Ctx : \A a \in looped'[d] : a <= served'
        BY <1>1 DEF AddressesUsed, RestOK
    <2>4. \A d \in Ctx : \A i \in DOMAIN since'[d] : since'[d][i] <= served'
        BY SMTT(30), <1>1 DEF AddressesUsed, RestOK
    <2> QED BY <2>2, <2>3, <2>4 DEF AddressesUsed
<1>4. FreshUnoffered'
    BY <1>1, AllFramesRun DEF FreshUnoffered, RecvOk
<1>5. Heard'
    BY <1>1 DEF Heard, HeardWasOffered, NothingTwice, OfferedWasHeard, HeardAll,
                FirstSnifferInOrder, Increasing, Range, Due, Offered
<1> QED BY <1>2, <1>3, <1>4, <1>5 DEF Safe

\* The context that is closed is not in any loop.
LEMMA CloseKeeps ==
    ASSUME DispatchInv, NEW c \in Ctx, Close(c)
    PROVE  Safe' /\ Heard'
<1> RestOK /\ SlotsAgree /\ FramesInUse /\ AddressesUsed /\ AddressesDistinct
    /\ FreshUnoffered /\ HeardWasOffered /\ NothingTwice /\ OfferedWasHeard
    /\ HeardAll /\ FirstSnifferInOrder
    BY DEF DispatchInv, IInv, Safe, Heard
<1>1. /\ UNCHANGED <<served, stack>>
      /\ \A k \in DOMAIN stack : stack[k].ctx # c
      /\ sniffers' = [sniffers EXCEPT ![c] = <<>>]
      /\ heard' = [heard EXCEPT ![c] = <<>>]
      /\ since' = [since EXCEPT ![c] = <<>>]
      /\ looped' = [looped EXCEPT ![c] = {}]
    BY DEF Close
<1>2. /\ sniffers'[c] = <<>> /\ heard'[c] = <<>> /\ since'[c] = <<>> /\ looped'[c] = {}
      /\ \A d \in Ctx \ {c} : /\ sniffers'[d] = sniffers[d] /\ heard'[d] = heard[d]
                              /\ since'[d] = since[d] /\ looped'[d] = looped[d]
    BY <1>1 DEF RestOK
<1>3. \A k \in DOMAIN stack : stack[k].ctx \in Ctx \ {c}
    BY <1>1, FrameTypes
<1>4. SlotsAgree'
    BY <1>2 DEF SlotsAgree
<1>5. FramesInUse'
    BY <1>1, <1>2, <1>3 DEF FramesInUse
<1>6. AddressesUsed' /\ AddressesDistinct' /\ FreshUnoffered'
    BY <1>1, <1>2 DEF AddressesUsed, AddressesDistinct, FreshUnoffered
<1>7. HeardWasOffered'
    BY <1>1, <1>2 DEF HeardWasOffered, Offered
<1>8. NothingTwice' /\ FirstSnifferInOrder'
    BY <1>1, <1>2 DEF NothingTwice, FirstSnifferInOrder, Increasing
<1>9. OfferedWasHeard'
    BY <1>1, <1>2, <1>3 DEF OfferedWasHeard, Offered, Due, Range
<1>10. HeardAll'
    BY <1>1, <1>2 DEF HeardAll, Range
<1> QED BY <1>4, <1>5, <1>6, <1>7, <1>8, <1>9, <1>10 DEF Safe, Heard

\* A sniffer registered by a callback is not due to hear what is in dispatch.
LEMMA SniffKeeps ==
    ASSUME DispatchInv, NEW c \in Ctx, NEW f \in Filter, Sniff(c, f)
    PROVE  Safe' /\ Heard'
<1> RestOK /\ SlotsAgree /\ FramesInUse /\ AddressesUsed /\ AddressesDistinct
    /\ FreshUnoffered /\ HeardWasOffered /\ NothingTwice /\ OfferedWasHeard
    /\ HeardAll /\ FirstSnifferInOrder
    BY DEF DispatchInv, IInv, Safe, Heard
<1> DEFINE n == Len(sniffers[c])
<1>1. /\ UNCHANGED <<served, stack, looped>>
      /\ sniffers' = [sniffers EXCEPT ![c] = Append(@, f)]
      /\ heard' = [heard EXCEPT ![c] = Append(@, <<>>)]
      /\ since' = [since EXCEPT ![c] = Append(@, served)]
    BY DEF Sniff
<1>2. /\ sniffers[c] \in Seq(SUBSET TlpType) /\ heard[c] \in Seq(Seq(Nat))
      /\ since[c] \in Seq(Nat) /\ n \in Nat /\ served \in Nat
      /\ DOMAIN sniffers[c] = 1 .. n /\ DOMAIN heard[c] = 1 .. n /\ DOMAIN since[c] = 1 .. n
    BY DEF RestOK, SlotsAgree
<1>3. Len(heard[c]) = n /\ Len(since[c]) = n
    BY <1>2
<1>4. /\ DOMAIN sniffers'[c] = 1 .. n + 1 /\ DOMAIN heard'[c] = 1 .. n + 1
      /\ DOMAIN since'[c] = 1 .. n + 1
      /\ heard'[c][n + 1] = <<>> /\ since'[c][n + 1] = served
      /\ \A i \in 1 .. n : /\ sniffers'[c][i] = sniffers[c][i]
                           /\ heard'[c][i] = heard[c][i]
                           /\ since'[c][i] = since[c][i]
    BY <1>1, <1>2, <1>3 DEF RestOK
<1> HIDE DEF n
<1>5. \A d \in Ctx \ {c} : /\ sniffers'[d] = sniffers[d] /\ heard'[d] = heard[d]
                           /\ since'[d] = since[d]
    BY <1>1 DEF RestOK
<1>6. SlotsAgree'
    BY <1>4, <1>5 DEF SlotsAgree
<1>7. FramesInUse'
    BY <1>1, <1>2, <1>4, <1>5, FrameTypes DEF FramesInUse
<1>8. AddressesUsed'
    <2>1. ASSUME NEW d \in Ctx, NEW i \in DOMAIN since'[d]
          PROVE  since'[d][i] <= served
        <3>1. CASE d = c
            <4>1. i = n + 1 \/ (i \in DOMAIN since[c] /\ since'[c][i] = since[c][i])
                BY <1>2, <1>4, <3>1
            <4>2. since'[c][n + 1] <= served
                BY <1>2, <1>4
            <4> QED BY <3>1, <4>1, <4>2 DEF AddressesUsed
        <3>2. CASE d # c
            BY <1>5, <3>2 DEF AddressesUsed
        <3> QED BY <3>1, <3>2
    <2> QED BY <1>1, <2>1 DEF AddressesUsed
<1>9. AddressesDistinct' /\ FreshUnoffered'
    BY <1>1 DEF AddressesDistinct, FreshUnoffered
<1>10. HeardWasOffered'
    <2> SUFFICES ASSUME NEW d \in Ctx, NEW i \in DOMAIN heard'[d],
                        NEW m \in DOMAIN heard'[d][i]
                 PROVE  i \in DOMAIN heard[d] /\ heard'[d][i] = heard[d][i]
        BY <1>1 DEF HeardWasOffered, Offered
    <2>1. CASE d = c
        <3>1. i # n + 1
            <4>1. DOMAIN heard'[c][n + 1] = {}
                BY <1>4
            <4> QED BY <2>1, <4>1
        <3>2. i \in 1 .. n + 1
            BY <1>4, <2>1
        <3>3. i \in 1 .. n
            <4>1. n \in Nat
                BY <1>2
            <4> QED BY <3>1, <3>2, <4>1
        <3>4. i \in DOMAIN heard[c] /\ heard'[c][i] = heard[c][i]
            BY <1>2, <1>4, <3>3
        <3> QED BY <2>1, <3>4
    <2>2. CASE d # c
        BY <1>5, <2>2
    <2> QED BY <2>1, <2>2
<1>11. NothingTwice' /\ FirstSnifferInOrder'
    <2>1. ASSUME NEW d \in Ctx, NEW i \in DOMAIN heard'[d]
          PROVE  heard'[d][i] = <<>> \/ (i \in DOMAIN heard[d] /\ heard'[d][i] = heard[d][i])
        <3>1. CASE d = c
            BY <1>2, <1>4, <3>1
        <3>2. CASE d # c
            BY <1>5, <3>2
        <3> QED BY <3>1, <3>2
    <2>2. NothingTwice'
        BY <2>1 DEF NothingTwice
    <2>3. ASSUME NEW d \in Ctx, heard'[d] # <<>>
          PROVE  Increasing(heard'[d][1])
        <3>1. CASE d # c
            BY <1>5, <2>3, <3>1 DEF FirstSnifferInOrder
        <3>2. CASE d = c /\ n = 0
            BY <1>4, <3>2 DEF Increasing
        <3>3. CASE d = c /\ n > 0
            <4>1. heard[c] # <<>> /\ heard'[c][1] = heard[c][1]
                BY <1>2, <1>3, <1>4, <3>3
            <4> QED BY <3>3, <4>1 DEF FirstSnifferInOrder
        <3> QED BY <1>2, <3>1, <3>2, <3>3
    <2> QED BY <2>2, <2>3 DEF FirstSnifferInOrder
<1>12. OfferedWasHeard'
    <2> SUFFICES ASSUME NEW k \in DOMAIN stack, NEW i \in DOMAIN sniffers'[stack[k].ctx],
                        Offered(stack[k], i), Due(stack[k].ctx, i, stack[k].tlp.addr)'
                 PROVE  stack[k].tlp.addr \in Range(heard'[stack[k].ctx][i])
        BY <1>1 DEF OfferedWasHeard, Offered
    <2>1. stack[k].ctx \in Ctx /\ stack[k].tlp.addr \in Nat /\ stack[k].tlp.addr <= served
        BY FrameTypes DEF AddressesUsed
    <2>2. CASE stack[k].ctx # c
        BY <1>1, <1>5, <2>1, <2>2 DEF OfferedWasHeard, Due
    <2>3. CASE stack[k].ctx = c /\ i \in 1 .. n
        <3>1. /\ i \in DOMAIN sniffers[c] /\ heard'[c][i] = heard[c][i]
              /\ sniffers'[c][i] = sniffers[c][i] /\ since'[c][i] = since[c][i]
            BY <1>2, <1>4, <2>3
        <3>2. i \in DOMAIN sniffers[stack[k].ctx] /\ Due(stack[k].ctx, i, stack[k].tlp.addr)
            BY <1>1, <2>3, <3>1 DEF Due
        <3>3. stack[k].tlp.addr \in Range(heard[stack[k].ctx][i])
            BY <3>2 DEF OfferedWasHeard
        <3> QED BY <2>3, <3>1, <3>3
    <2>4. CASE stack[k].ctx = c /\ i = n + 1
        BY <1>1, <1>2, <1>4, <2>1, <2>4 DEF Due
    <2>5. stack[k].ctx = c => i \in 1 .. n \/ i = n + 1
        BY <1>2, <1>4
    <2> QED BY <2>2, <2>3, <2>4, <2>5
<1>13. HeardAll'
    <2> SUFFICES ASSUME NEW d \in Ctx, NEW i \in DOMAIN sniffers'[d], MemRd \in sniffers'[d][i],
                        NEW a \in looped[d], a > since'[d][i]
                 PROVE  a \in Range(heard'[d][i])
        BY <1>1 DEF HeardAll
    <2>1. a \in Nat /\ a <= served
        BY DEF AddressesUsed, RestOK
    <2>2. CASE d # c
        BY <1>5, <2>2 DEF HeardAll
    <2>3. CASE d = c /\ i \in 1 .. n
        <3>1. /\ i \in DOMAIN sniffers[c] /\ heard'[c][i] = heard[c][i]
              /\ sniffers'[c][i] = sniffers[c][i] /\ since'[c][i] = since[c][i]
            BY <1>2, <1>4, <2>3
        <3>2. i \in DOMAIN sniffers[d] /\ MemRd \in sniffers[d][i] /\ a > since[d][i]
            BY <2>3, <3>1
        <3>3. a \in Range(heard[d][i])
            BY <3>2 DEF HeardAll
        <3> QED BY <2>3, <3>1, <3>3
    <2>4. CASE d = c /\ i = n + 1
        BY <1>2, <1>4, <2>1, <2>4
    <2>5. d = c => i \in 1 .. n \/ i = n + 1
        BY <1>2, <1>4
    <2> QED BY <2>2, <2>3, <2>4, <2>5
<1> QED BY <1>6, <1>7, <1>8, <1>9, <1>10, <1>11, <1>12, <1>13 DEF Safe, Heard

\* A nested loop starts with a TLP that is newer than all others.
LEMMA LoopCallKeeps ==
    ASSUME DispatchInv, NEW c \in Ctx, LoopCall(c)
    PROVE  Safe' /\ Heard'
<1> RestOK /\ SlotsAgree /\ FramesInUse /\ AddressesUsed /\ AddressesDistinct
    /\ FreshUnoffered /\ HeardWasOffered /\ NothingTwice /\ OfferedWasHeard
    /\ HeardAll /\ FirstSnifferInOrder
    BY DEF DispatchInv, IInv, Safe, Heard
<1> DEFINE f == FirstSlot(c)
<1>1. /\ served \in Nat /\ served' = served + 1
      /\ UNCHANGED <<sniffers, heard, since, looped>>
      /\ f \in Frame /\ stack' = Append(stack, f)
    BY NewFrame DEF LoopCall, TakeRx, dispatch, RestOK
<1>2. /\ f.ctx = c /\ f.tlp.type = MemRd /\ f.tlp.addr = served + 1
      /\ f.next = 1 /\ ~f.running
    BY DEF FirstSlot, NextRx
<1> HIDE DEF f
<1> PICK n \in Nat : n = Len(stack)
    BY DEF RestOK
<1>3. /\ Len(stack') = n + 1 /\ DOMAIN stack = 1 .. n /\ DOMAIN stack' = 1 .. n + 1
      /\ stack'[n + 1] = f /\ \A k \in 1 .. n : stack'[k] = stack[k]
    BY <1>1, FramePushed
<1>4. \A k \in 1 .. n : stack[k].running
    BY <1>3, AllFramesRun DEF LoopCall
<1>5. \A k \in 1 .. n + 1 : k \in 1 .. n \/ k = n + 1
    OBVIOUS
<1>6. \A k \in 1 .. n : stack[k].tlp.addr \in Nat /\ stack[k].tlp.addr <= served
    BY <1>3, FrameTypes DEF AddressesUsed
<1>7. SlotsAgree' /\ NothingTwice' /\ HeardAll' /\ FirstSnifferInOrder'
    BY <1>1 DEF SlotsAgree, NothingTwice, HeardAll, FirstSnifferInOrder, Increasing, Range
<1>8. FramesInUse'
    BY <1>1, <1>2, <1>3, <1>4, <1>5 DEF FramesInUse
<1>9. AddressesUsed'
    <2>1. \A k \in DOMAIN stack' : stack'[k].tlp.addr <= served'
        BY <1>1, <1>2, <1>3, <1>5, <1>6
    <2>2. \A d \in Ctx : \A a \in looped[d] : a <= served'
        BY <1>1 DEF AddressesUsed, RestOK
    <2>3. \A d \in Ctx : \A i \in DOMAIN since[d] : since[d][i] <= served'
        BY SMTT(30), <1>1 DEF AddressesUsed, RestOK
    <2> QED BY <1>1, <2>1, <2>2, <2>3 DEF AddressesUsed
<1>10. AddressesDistinct'
    <2>1. ASSUME NEW d \in Ctx
          PROVE  served + 1 \notin looped[d]
        BY <1>1 DEF AddressesUsed, RestOK
    <2>2. \A k \in 1 .. n : stack[k].tlp.addr # served + 1
        BY <1>1, <1>6
    <2> QED BY <1>1, <1>2, <1>3, <1>5, <2>1, <2>2 DEF AddressesDistinct
<1>11. FreshUnoffered'
    BY <1>1, <1>2, <1>3, <1>4, <1>5 DEF FreshUnoffered
<1>12. HeardWasOffered'
    BY <1>1, <1>3, <1>5 DEF HeardWasOffered, Offered
<1>13. OfferedWasHeard'
    <2> SUFFICES ASSUME NEW k \in 1 .. n + 1, NEW i \in DOMAIN sniffers[stack'[k].ctx],
                        Offered(stack'[k], i), Due(stack'[k].ctx, i, stack'[k].tlp.addr)
                 PROVE  stack'[k].tlp.addr \in Range(heard[stack'[k].ctx][i])
        BY <1>1, <1>3 DEF OfferedWasHeard, Offered, Due
    <2>1. CASE k \in 1 .. n
        BY <1>3, <2>1 DEF OfferedWasHeard
    <2>2. CASE k = n + 1
        <3>1. sniffers[c] \in Seq(SUBSET TlpType)
            BY DEF RestOK
        <3>2. i \in Nat \ {0}
            BY <1>2, <1>3, <2>2, <3>1
        <3> QED BY <1>2, <1>3, <2>2, <3>2 DEF Offered
    <2> QED BY <1>5, <2>1, <2>2
<1> QED BY <1>7, <1>8, <1>9, <1>10, <1>11, <1>12, <1>13 DEF Safe, Heard

\* The frame that is on top of the stack, and its change.
LEMMA TopChanges ==
    ASSUME DispatchInv, stack # <<>>, NEW f \in Frame, SetTop(f)
    PROVE  \E t \in DOMAIN stack :
             /\ t = Len(stack) /\ t = Len(stack') /\ Top = stack[t]
             /\ DOMAIN stack' = DOMAIN stack /\ stack'[t] = f
             /\ \A k \in DOMAIN stack \ {t} : stack'[k] = stack[k] /\ stack[k].running
<1>1. RestOK /\ FramesInUse
    BY DEF DispatchInv, IInv, Safe
<1>2. /\ Len(stack) \in DOMAIN stack /\ Top = stack[Len(stack)]
      /\ Len(stack') = Len(stack) /\ DOMAIN stack' = DOMAIN stack
      /\ stack'[Len(stack)] = f
      /\ \A k \in DOMAIN stack : k # Len(stack) => stack'[k] = stack[k]
    BY <1>1, TopReplaced
<1>3. \A k \in DOMAIN stack : k # Len(stack) => stack[k].running
    BY <1>1 DEF FramesInUse
<1> QED BY <1>2, <1>3

\* The top frame moves on without a sound: past a sniffer that does not match,
\* or out of a callback.
LEMMA MovesOnKeeps ==
    ASSUME DispatchInv, stack # <<>>, NEW f \in Frame, SetTop(f),
           f.ctx = Top.ctx, f.tlp = Top.tlp, f.next = Top.next + 1, ~f.running,
           \/ Top.running
           \/ SnifferLeft /\ ~FilterMatch(sniffers[Top.ctx][Top.next], Top.tlp),
           UNCHANGED <<sniffers, served, dispatch>>
    PROVE  Safe' /\ Heard'
<1> RestOK /\ SlotsAgree /\ FramesInUse /\ AddressesUsed /\ AddressesDistinct
    /\ FreshUnoffered /\ HeardWasOffered /\ NothingTwice /\ OfferedWasHeard
    /\ HeardAll /\ FirstSnifferInOrder
    BY DEF DispatchInv, IInv, Safe, Heard
<1> PICK t \in DOMAIN stack :
             /\ t = Len(stack) /\ t = Len(stack') /\ Top = stack[t]
             /\ DOMAIN stack' = DOMAIN stack /\ stack'[t] = f
             /\ \A k \in DOMAIN stack \ {t} : stack'[k] = stack[k] /\ stack[k].running
    BY TopChanges
<1>1. UNCHANGED <<heard, since, looped>>
    BY DEF dispatch
<1>2. \A k \in DOMAIN stack : /\ stack'[k].ctx = stack[k].ctx
                              /\ stack'[k].tlp = stack[k].tlp
    OBVIOUS
<1>3. \A k \in DOMAIN stack : k # t => stack'[k] = stack[k]
    OBVIOUS
<1>4. Top.next \in Nat \ {0}
    BY FrameTypes
<1>5. SlotsAgree' /\ NothingTwice' /\ HeardAll' /\ FirstSnifferInOrder'
    BY <1>1 DEF SlotsAgree, NothingTwice, HeardAll, FirstSnifferInOrder, Increasing, Range
<1>6. FramesInUse'
    BY <1>2, <1>3 DEF FramesInUse
<1>7. AddressesUsed' /\ AddressesDistinct'
    BY <1>1, <1>2 DEF AddressesUsed, AddressesDistinct
<1>8. FreshUnoffered'
    BY <1>3, <1>4 DEF FreshUnoffered
<1>9. \A c \in Ctx : \A i \in DOMAIN sniffers[c] : i \in Nat
    BY SMTT(30) DEF RestOK
<1>10. HeardWasOffered'
    <2> SUFFICES ASSUME NEW c \in Ctx, NEW i \in DOMAIN heard[c],
                        NEW k \in DOMAIN stack, Offered(stack[k], i)
                 PROVE  Offered(stack'[k], i)
        BY <1>1, <1>2 DEF HeardWasOffered
    <2>1. i \in Nat
        BY <1>9 DEF SlotsAgree
    <2> QED BY <1>3, <1>4, <2>1 DEF Offered
<1>11. OfferedWasHeard'
    <2> SUFFICES ASSUME NEW k \in DOMAIN stack, NEW i \in DOMAIN sniffers[stack[k].ctx],
                        Offered(stack'[k], i), Due(stack[k].ctx, i, stack[k].tlp.addr)
                 PROVE  stack[k].tlp.addr \in Range(heard[stack[k].ctx][i])
        BY <1>1, <1>2 DEF OfferedWasHeard, Due
    <2>1. stack[k].ctx \in Ctx /\ i \in Nat
        BY <1>9, FrameTypes
    <2>2. Offered(stack[k], i)
        <3>1. CASE k # t
            BY <1>3, <3>1
        <3>2. CASE k = t /\ i = Top.next /\ ~Top.running
            BY <3>2 DEF FramesInUse, FilterMatch, Due
        <3>3. CASE k = t /\ (i # Top.next \/ Top.running)
            BY <1>4, <2>1, <3>3 DEF Offered
        <3> QED BY <3>1, <3>2, <3>3
    <2> QED BY <2>2 DEF OfferedWasHeard
<1> QED BY <1>5, <1>6, <1>7, <1>8, <1>10, <1>11 DEF Safe, Heard

\* One more address, which the sniffer has not heard, at the end of what it has.
LEMMA HeardGrows ==
    ASSUME NEW h \in Seq(Nat), NEW a \in Nat, \A n \in DOMAIN h : h[n] # a,
           NEW g, g = Append(h, a)
    PROVE  /\ \A n \in DOMAIN h : n \in DOMAIN g /\ g[n] = h[n]
           /\ \E n \in DOMAIN g : g[n] = a
           /\ \A n \in DOMAIN g : g[n] = a \/ (n \in DOMAIN h /\ g[n] = h[n])
           /\ (\A m, n \in DOMAIN h : m # n => h[m] # h[n]) =>
                \A m, n \in DOMAIN g : m # n => g[m] # g[n]
           /\ (Increasing(h) /\ \A n \in DOMAIN h : h[n] < a) => Increasing(g)
<1> PICK l \in Nat : l = Len(h)
    OBVIOUS
<1>1. /\ g \in Seq(Nat) /\ DOMAIN h = 1 .. l /\ DOMAIN g = 1 .. l + 1
      /\ g[l + 1] = a /\ \A n \in 1 .. l : g[n] = h[n]
    OBVIOUS
<1>2. \A n \in 1 .. l + 1 : n \in 1 .. l \/ n = l + 1
    OBVIOUS
<1>3. (\A n \in DOMAIN h : n \in DOMAIN g /\ g[n] = h[n]) /\ \E n \in DOMAIN g : g[n] = a
    BY <1>1
<1>4. \A n \in DOMAIN g : g[n] = a \/ (n \in DOMAIN h /\ g[n] = h[n])
    BY <1>1, <1>2
<1>5. ASSUME \A m, n \in DOMAIN h : m # n => h[m] # h[n]
      PROVE  \A m, n \in DOMAIN g : m # n => g[m] # g[n]
    BY <1>1, <1>2, <1>5
<1>6. ASSUME Increasing(h), \A n \in DOMAIN h : h[n] < a
      PROVE  Increasing(g)
    BY <1>1, <1>2, <1>6 DEF Increasing
<1> QED BY <1>1, <1>3, <1>4, <1>5, <1>6

\* A TLP is offered to a sniffer that has not heard it.
LEMMA DeliverKeeps ==
    ASSUME DispatchInv, Deliver
    PROVE  Safe' /\ Heard'
<1> RestOK /\ SlotsAgree /\ FramesInUse /\ AddressesUsed /\ AddressesDistinct
    /\ FreshUnoffered /\ HeardWasOffered /\ NothingTwice /\ OfferedWasHeard
    /\ HeardAll /\ FirstSnifferInOrder
    BY DEF DispatchInv, IInv, Safe, Heard
<1> DEFINE f == [Top EXCEPT !.running = TRUE]
<1>1. stack # <<>> /\ ~Top.running /\ SetTop(f) /\ UNCHANGED <<sniffers, served, since, looped>>
    BY DEF Deliver, InLoop
<1>2. f \in Frame /\ f.ctx = Top.ctx /\ f.tlp = Top.tlp /\ f.next = Top.next /\ f.running
    <2>1. Top \in Frame
        BY <1>1, StackFacts
    <2> QED BY <2>1, NextSlot DEF Frame
<1> HIDE DEF f
<1> PICK t \in DOMAIN stack :
             /\ t = Len(stack) /\ t = Len(stack') /\ Top = stack[t]
             /\ DOMAIN stack' = DOMAIN stack /\ stack'[t] = f
             /\ \A k \in DOMAIN stack \ {t} : stack'[k] = stack[k] /\ stack[k].running
    BY <1>1, <1>2, TopChanges
<1> PICK c \in Ctx, j \in Nat \ {0}, a \in Nat :
             c = Top.ctx /\ j = Top.next /\ a = Top.tlp.addr
    BY FrameTypes
<1>3. \A d \in Ctx : /\ sniffers[d] \in Seq(SUBSET TlpType) /\ heard[d] \in Seq(Seq(Nat))
                     /\ DOMAIN heard[d] = DOMAIN sniffers[d]
    BY DEF RestOK, SlotsAgree
<1>4. j \in DOMAIN sniffers[c] /\ j \in DOMAIN heard[c] /\ heard[c][j] \in Seq(Nat)
    <2>1. j <= Len(sniffers[c])
        BY DEF Deliver, SnifferLeft
    <2> QED BY <1>3, <2>1
<1>5. /\ heard'[c][j] = Append(heard[c][j], a)
      /\ \A d \in Ctx : DOMAIN heard'[d] = DOMAIN heard[d]
      /\ \A d \in Ctx : \A i \in DOMAIN heard[d] :
            ~(d = c /\ i = j) => heard'[d][i] = heard[d][i]
      /\ \A d \in Ctx : d # c => heard'[d] = heard[d]
    <2>1. heard' = [heard EXCEPT ![c][j] = Append(heard[c][j], a)]
        BY DEF Deliver
    <2> QED BY <1>4, <2>1 DEF RestOK
<1>6. \A n \in DOMAIN heard[c][j] : heard[c][j][n] # a
    <2> SUFFICES ASSUME NEW n \in DOMAIN heard[c][j], heard[c][j][n] = a
                 PROVE  FALSE
        OBVIOUS
    <2>1. a \notin looped[c]
        BY DEF AddressesDistinct
    <2>2. PICK k \in DOMAIN stack : stack[k].tlp.addr = a /\ Offered(stack[k], j)
        BY SMTT(30), <1>4, <2>1 DEF HeardWasOffered
    <2>3. k = t
        BY <2>2 DEF AddressesDistinct
    <2> QED BY <1>1, <2>2, <2>3 DEF Offered
<1>g. /\ Range(heard[c][j]) \subseteq Range(heard'[c][j]) /\ a \in Range(heard'[c][j])
      /\ \A n \in DOMAIN heard'[c][j] :
            \/ heard'[c][j][n] = a
            \/ n \in DOMAIN heard[c][j] /\ heard'[c][j][n] = heard[c][j][n]
      /\ (\A m, n \in DOMAIN heard[c][j] : m # n => heard[c][j][m] # heard[c][j][n]) =>
            \A m, n \in DOMAIN heard'[c][j] : m # n => heard'[c][j][m] # heard'[c][j][n]
      /\ (Increasing(heard[c][j]) /\ \A n \in DOMAIN heard[c][j] : heard[c][j][n] < a) =>
            Increasing(heard'[c][j])
    <2> DEFINE h == heard[c][j]
               g == heard'[c][j]
    <2>1. h \in Seq(Nat) /\ g = Append(h, a) /\ \A n \in DOMAIN h : h[n] # a
        BY <1>4, <1>5, <1>6
    <2> HIDE DEF h, g
    <2>2. /\ Range(h) \subseteq Range(g) /\ a \in Range(g)
          /\ \A n \in DOMAIN g : g[n] = a \/ (n \in DOMAIN h /\ g[n] = h[n])
          /\ (\A m, n \in DOMAIN h : m # n => h[m] # h[n]) =>
                \A m, n \in DOMAIN g : m # n => g[m] # g[n]
          /\ (Increasing(h) /\ \A n \in DOMAIN h : h[n] < a) => Increasing(g)
        <3>1. Range(h) \subseteq Range(g) /\ a \in Range(g)
            <4>1. /\ \A n \in DOMAIN h : n \in DOMAIN g /\ g[n] = h[n]
                  /\ \E n \in DOMAIN g : g[n] = a
                BY <2>1, HeardGrows
            <4> QED BY <4>1 DEF Range
        <3>2. \A n \in DOMAIN g : g[n] = a \/ (n \in DOMAIN h /\ g[n] = h[n])
            BY <2>1, HeardGrows
        <3>3. (\A m, n \in DOMAIN h : m # n => h[m] # h[n]) =>
                  \A m, n \in DOMAIN g : m # n => g[m] # g[n]
            BY <2>1, HeardGrows
        <3>4. (Increasing(h) /\ \A n \in DOMAIN h : h[n] < a) => Increasing(g)
            BY <2>1, HeardGrows DEF Increasing
        <3> QED BY <3>1, <3>2, <3>3, <3>4
    <2> QED BY <2>2 DEF h, g
<1>7. \A d \in Ctx : \A i \in DOMAIN heard[d] : Range(heard[d][i]) \subseteq Range(heard'[d][i])
    <2> SUFFICES ASSUME NEW d \in Ctx, NEW i \in DOMAIN heard[d]
                 PROVE  Range(heard[d][i]) \subseteq Range(heard'[d][i])
        OBVIOUS
    <2>1. CASE d = c /\ i = j
        BY <2>1, <1>g
    <2>2. CASE ~(d = c /\ i = j)
        BY <1>5, <2>2
    <2> QED BY <2>1, <2>2
<1>8. \A k \in DOMAIN stack : /\ stack'[k].ctx = stack[k].ctx
                              /\ stack'[k].tlp = stack[k].tlp
                              /\ stack'[k].next = stack[k].next
                              /\ stack[k].running => stack'[k].running
                              /\ k # t => stack'[k] = stack[k]
    BY <1>1, <1>2
<1>9. SlotsAgree'
    BY <1>1, <1>5 DEF SlotsAgree
<1>10. FramesInUse'
    BY <1>1, <1>2, <1>4, <1>8 DEF FramesInUse
<1>11. AddressesUsed' /\ AddressesDistinct'
    BY <1>1, <1>8 DEF AddressesUsed, AddressesDistinct
<1>12. FreshUnoffered'
    BY <1>1, <1>2, <1>8 DEF FreshUnoffered
<1>13. HeardWasOffered'
    <2> SUFFICES ASSUME NEW d \in Ctx, NEW i \in DOMAIN heard[d], NEW n \in DOMAIN heard'[d][i]
                 PROVE  \/ heard'[d][i][n] \in looped[d]
                        \/ \E k \in DOMAIN stack : /\ stack'[k].ctx = d
                                                   /\ stack'[k].tlp.addr = heard'[d][i][n]
                                                   /\ Offered(stack'[k], i)
        <3>1. \A d \in Ctx : DOMAIN heard'[d] = DOMAIN heard[d]
            BY <1>5
        <3>2. looped' = looped /\ DOMAIN stack' = DOMAIN stack
            BY <1>1
        <3> QED BY <3>1, <3>2 DEF HeardWasOffered, Offered
    <2>1. CASE n \in DOMAIN heard[d][i] /\ heard'[d][i][n] = heard[d][i][n]
        BY <1>8, <2>1 DEF HeardWasOffered, Offered
    <2>2. CASE d = c /\ i = j /\ heard'[d][i][n] = a
        <3>1. Offered(stack'[t], j)
            BY <1>2 DEF Offered
        <3> QED BY <1>8, <2>2, <3>1
    <2>3. CASE d = c /\ i = j
        BY <1>g, <2>1, <2>2, <2>3
    <2>4. CASE ~(d = c /\ i = j)
        BY <1>5, <2>1, <2>4
    <2> QED BY <2>3, <2>4
<1>14. NothingTwice'
    <2> SUFFICES ASSUME NEW d \in Ctx, NEW i \in DOMAIN heard[d]
                 PROVE  \A m, n \in DOMAIN heard'[d][i] : m # n => heard'[d][i][m] # heard'[d][i][n]
        <3>1. \A d \in Ctx : DOMAIN heard'[d] = DOMAIN heard[d]
            BY <1>5
        <3> QED BY <3>1 DEF NothingTwice
    <2>1. \A m, n \in DOMAIN heard[d][i] : m # n => heard[d][i][m] # heard[d][i][n]
        BY DEF NothingTwice
    <2>2. CASE d = c /\ i = j
        <3>1. \A m, n \in DOMAIN heard[c][j] : m # n => heard[c][j][m] # heard[c][j][n]
            BY <2>1, <2>2
        <3>2. \A m, n \in DOMAIN heard'[c][j] : m # n => heard'[c][j][m] # heard'[c][j][n]
            BY <1>g, <3>1
        <3> QED BY <2>2, <3>2
    <2>3. CASE ~(d = c /\ i = j)
        <3>1. heard'[d][i] = heard[d][i]
            BY <1>5, <2>3
        <3> QED BY <2>1, <3>1
    <2> QED BY <2>2, <2>3
<1>15. OfferedWasHeard'
    <2> SUFFICES ASSUME NEW k \in DOMAIN stack, NEW i \in DOMAIN sniffers[stack[k].ctx],
                        Offered(stack'[k], i), Due(stack[k].ctx, i, stack[k].tlp.addr)
                 PROVE  stack[k].tlp.addr \in Range(heard'[stack[k].ctx][i])
        BY <1>1, <1>8 DEF OfferedWasHeard, Due
    <2>1. CASE Offered(stack[k], i)
        <3>1. stack[k].tlp.addr \in Range(heard[stack[k].ctx][i])
            BY <2>1 DEF OfferedWasHeard
        <3>2. stack[k].ctx \in Ctx
            BY FrameTypes
        <3> QED BY <1>3, <1>7, <3>1, <3>2
    <2>2. CASE ~Offered(stack[k], i)
        <3>1. k = t /\ i = j
            BY <1>2, <1>8, <2>2 DEF Offered
        <3> QED BY <1>g, <3>1
    <2> QED BY <2>1, <2>2
<1>16. HeardAll'
    BY <1>1, <1>3, <1>7 DEF HeardAll
<1>17. FirstSnifferInOrder'
    <2> SUFFICES ASSUME NEW d \in Ctx, heard'[d] # <<>>
                 PROVE  Increasing(heard'[d][1])
        BY DEF FirstSnifferInOrder
    <2>1. heard[d] # <<>> /\ 1 \in DOMAIN heard[d]
        <3>1. heard[d] \in Seq(Seq(Nat)) /\ heard[d] # <<>>
            <4>1. heard[d] \in Seq(Seq(Nat))
                BY <1>3
            <4>2. CASE d = c
                BY <1>4, <4>1, <4>2
            <4>3. CASE d # c
                BY <1>5, <4>1, <4>3
            <4> QED BY <4>1, <4>2, <4>3
        <3> QED BY <3>1
    <2>2. Increasing(heard[d][1])
        BY <2>1 DEF FirstSnifferInOrder
    <2>3. CASE ~(d = c /\ j = 1)
        BY <1>5, <2>1, <2>2, <2>3
    <2>4. CASE d = c /\ j = 1
        <3>1. a = served
            BY <1>1, <2>4 DEF FreshUnoffered
        <3>2. ASSUME NEW n \in DOMAIN heard[c][1]
              PROVE  heard[c][1][n] < a
            <4>1. heard[c][1][n] \in Nat /\ heard[c][1][n] # a
                <5>1. heard[c][1] \in Seq(Nat)
                    <6>1. j = 1
                        BY <2>4
                    <6> QED BY ZenonT(30), <1>4, <6>1
                <5>2. heard[c][1][n] \in Nat
                    BY <5>1
                <5>3. heard[c][1][n] # a
                    BY <1>6, <2>4
                <5> QED BY <5>2, <5>3
            <4>2. heard[c][1][n] <= served
                BY <2>1, <2>4 DEF HeardWasOffered, AddressesUsed
            <4>3. served \in Nat
                BY DEF RestOK
            <4> QED BY <3>1, <4>1, <4>2, <4>3
        <3> QED BY <1>g, <2>2, <2>4, <3>2
    <2> QED BY <2>3, <2>4
<1> QED BY <1>9, <1>10, <1>11, <1>12, <1>13, <1>14, <1>15, <1>16, <1>17 DEF Safe, Heard

\* At the end of its dispatch a TLP has been heard by every sniffer it is due to.
LEMMA DispatchIsComplete ==
    ASSUME DispatchInv, Dispatched
    PROVE  /\ Top.ctx \in Ctx
           /\ looped' = [looped EXCEPT ![Top.ctx] = @ \union {Top.tlp.addr}]
           /\ \A c \in Ctx : looped[c] \subseteq looped'[c]
           /\ \A c \in Ctx : \A a \in looped'[c] :
                 a \in looped[c] \/ (c = Top.ctx /\ a = Top.tlp.addr)
           /\ UNCHANGED <<sniffers, heard, since>> => HeardAll'
<1> RestOK /\ SlotsAgree /\ FramesInUse /\ AddressesUsed /\ AddressesDistinct
    /\ FreshUnoffered /\ HeardWasOffered /\ NothingTwice /\ OfferedWasHeard
    /\ HeardAll /\ FirstSnifferInOrder
    BY DEF DispatchInv, IInv, Safe, Heard
<1>1. /\ stack # <<>> /\ ~Top.running /\ ~(Top.next <= Len(sniffers[Top.ctx]))
      /\ looped' = [looped EXCEPT ![Top.ctx] = @ \union {Top.tlp.addr}]
    BY DEF Dispatched, InLoop, SnifferLeft
<1> PICK t \in DOMAIN stack : t = Len(stack) /\ Top = stack[t]
    <2>1. Len(stack) \in DOMAIN stack
        BY <1>1 DEF RestOK
    <2> QED BY <2>1 DEF Top
<1>2. Top.ctx \in Ctx /\ Top.next \in Nat
    BY FrameTypes
<1>3. \A c \in Ctx : looped'[c] = IF c = Top.ctx THEN looped[c] \union {Top.tlp.addr} ELSE looped[c]
    BY <1>1 DEF RestOK
<1>4. ASSUME NEW i \in DOMAIN sniffers[Top.ctx]
      PROVE  Offered(Top, i)
    <2>1. sniffers[Top.ctx] \in Seq(SUBSET TlpType)
        BY <1>2 DEF RestOK
    <2>2. i \in Nat /\ Len(sniffers[Top.ctx]) \in Nat /\ i <= Len(sniffers[Top.ctx])
        BY <2>1
    <2> QED BY <1>1, <1>2, <2>2 DEF Offered
<1>5. ASSUME UNCHANGED <<sniffers, heard, since>>
      PROVE  HeardAll'
    <2> SUFFICES ASSUME NEW c \in Ctx, NEW i \in DOMAIN sniffers[c], MemRd \in sniffers[c][i],
                        NEW a \in looped'[c], a > since[c][i]
                 PROVE  a \in Range(heard[c][i])
        BY <1>5 DEF HeardAll
    <2>1. CASE a \in looped[c]
        BY <2>1 DEF HeardAll
    <2>2. CASE c = Top.ctx /\ a = Top.tlp.addr
        <3>1. Offered(Top, i) /\ Due(c, i, a)
            BY <1>4, <2>2 DEF Due
        <3> QED BY <2>2, <3>1 DEF OfferedWasHeard
    <2> QED BY <1>3, <2>1, <2>2
<1> QED BY <1>1, <1>2, <1>3, <1>5

LEMMA LoopAgainKeeps ==
    ASSUME DispatchInv, LoopAgain
    PROVE  Safe' /\ Heard'
<1> RestOK /\ SlotsAgree /\ FramesInUse /\ AddressesUsed /\ AddressesDistinct
    /\ FreshUnoffered /\ HeardWasOffered /\ NothingTwice /\ OfferedWasHeard
    /\ HeardAll /\ FirstSnifferInOrder
    BY DEF DispatchInv, IInv, Safe, Heard
<1> DEFINE f == FirstSlot(Top.ctx)
<1>1. /\ stack # <<>> /\ ~Top.running /\ SetTop(f) /\ Dispatched
      /\ served \in Nat /\ served' = served + 1
      /\ UNCHANGED <<sniffers, heard, since>>
    BY DEF LoopAgain, Dispatched, InLoop, TakeRx, RestOK
<1>2. /\ Top.ctx \in Ctx
      /\ \A c \in Ctx : looped[c] \subseteq looped'[c]
      /\ \A c \in Ctx : \A a \in looped'[c] :
            a \in looped[c] \/ (c = Top.ctx /\ a = Top.tlp.addr)
      /\ looped' = [looped EXCEPT ![Top.ctx] = @ \union {Top.tlp.addr}]
      /\ HeardAll'
    BY <1>1, DispatchIsComplete
<1>3. /\ f \in Frame /\ f.ctx = Top.ctx /\ f.tlp.type = MemRd /\ f.tlp.addr = served + 1
      /\ f.next = 1 /\ ~f.running
    BY <1>2, NewFrame DEF FirstSlot, NextRx
<1> HIDE DEF f
<1> PICK t \in DOMAIN stack :
             /\ t = Len(stack) /\ t = Len(stack') /\ Top = stack[t]
             /\ DOMAIN stack' = DOMAIN stack /\ stack'[t] = f
             /\ \A k \in DOMAIN stack \ {t} : stack'[k] = stack[k] /\ stack[k].running
    BY <1>1, <1>3, TopChanges
<1>4. \A k \in DOMAIN stack : k # t => stack'[k] = stack[k] /\ stack[k].running
    OBVIOUS
<1>5. \A k \in DOMAIN stack : stack[k].tlp.addr \in Nat /\ stack[k].tlp.addr <= served
    BY FrameTypes DEF AddressesUsed
<1>6. SlotsAgree' /\ NothingTwice' /\ FirstSnifferInOrder'
    BY <1>1 DEF SlotsAgree, NothingTwice, FirstSnifferInOrder, Increasing
<1>7. FramesInUse'
    BY <1>1, <1>3, <1>4 DEF FramesInUse
<1>8. \A c \in Ctx : \A a \in looped'[c] : a \in Nat /\ a <= served
    BY <1>2, <1>5 DEF AddressesUsed, RestOK
<1>9. AddressesUsed'
    <2>1. \A k \in DOMAIN stack : stack'[k].tlp.addr <= served + 1
        BY <1>1, <1>3, <1>4, <1>5
    <2>2. \A c \in Ctx : \A a \in looped'[c] : a <= served + 1
        BY <1>1, <1>8
    <2>3. \A c \in Ctx : \A i \in DOMAIN since[c] : since[c][i] <= served + 1
        BY <1>1 DEF AddressesUsed, RestOK
    <2> QED BY <1>1, <2>1, <2>2, <2>3 DEF AddressesUsed
<1>10. AddressesDistinct'
    <2>1. \A j, k \in DOMAIN stack : j # k => stack'[j].tlp.addr # stack'[k].tlp.addr
        <3> SUFFICES ASSUME NEW j \in DOMAIN stack, NEW k \in DOMAIN stack, j # k
                     PROVE  stack'[j].tlp.addr # stack'[k].tlp.addr
            OBVIOUS
        <3>1. CASE j = t
            BY <1>1, <1>3, <1>4, <1>5, <3>1
        <3>2. CASE k = t
            BY <1>1, <1>3, <1>4, <1>5, <3>2
        <3>3. CASE j # t /\ k # t
            BY <1>4, <3>3 DEF AddressesDistinct
        <3> QED BY <3>1, <3>2, <3>3
    <2>2. ASSUME NEW c \in Ctx, NEW k \in DOMAIN stack
          PROVE  stack'[k].tlp.addr \notin looped'[c]
        <3>1. CASE k = t
            BY <1>1, <1>3, <1>8, <3>1
        <3>2. CASE k # t
            BY <1>2, <1>4, <3>2 DEF AddressesDistinct
        <3> QED BY <3>1, <3>2
    <2> QED BY <2>1, <2>2 DEF AddressesDistinct
<1>11. FreshUnoffered'
    BY <1>1, <1>3, <1>4 DEF FreshUnoffered
<1>12. HeardWasOffered'
    <2> SUFFICES ASSUME NEW c \in Ctx, NEW i \in DOMAIN heard[c], NEW n \in DOMAIN heard[c][i]
                 PROVE  \/ heard[c][i][n] \in looped'[c]
                        \/ \E k \in DOMAIN stack : /\ stack'[k].ctx = c
                                                   /\ stack'[k].tlp.addr = heard[c][i][n]
                                                   /\ Offered(stack'[k], i)
        BY <1>1 DEF HeardWasOffered, Offered
    <2>1. CASE heard[c][i][n] \in looped[c]
        BY <1>2, <2>1
    <2>2. ASSUME NEW k \in DOMAIN stack, stack[k].ctx = c,
                 stack[k].tlp.addr = heard[c][i][n], Offered(stack[k], i)
          PROVE  \/ heard[c][i][n] \in looped'[c]
                 \/ /\ stack'[k].ctx = c
                    /\ stack'[k].tlp.addr = heard[c][i][n]
                    /\ Offered(stack'[k], i)
        <3>1. CASE k = t
            BY <1>2, <2>2, <3>1 DEF RestOK
        <3>2. CASE k # t
            BY <1>4, <2>2, <3>2
        <3> QED BY <3>1, <3>2
    <2> QED BY <2>1, <2>2 DEF HeardWasOffered
<1>13. OfferedWasHeard'
    <2> SUFFICES ASSUME NEW k \in DOMAIN stack, NEW i \in DOMAIN sniffers[stack'[k].ctx],
                        Offered(stack'[k], i), Due(stack'[k].ctx, i, stack'[k].tlp.addr)
                 PROVE  stack'[k].tlp.addr \in Range(heard[stack'[k].ctx][i])
        BY <1>1 DEF OfferedWasHeard, Offered, Due
    <2>1. CASE k # t
        BY <1>4, <2>1 DEF OfferedWasHeard
    <2>2. CASE k = t
        <3>1. sniffers[Top.ctx] \in Seq(SUBSET TlpType)
            BY <1>2 DEF RestOK
        <3>2. i \in Nat \ {0}
            BY <1>3, <2>2, <3>1
        <3> QED BY <1>3, <2>2, <3>2 DEF Offered
    <2> QED BY <2>1, <2>2
<1> QED BY <1>2, <1>6, <1>7, <1>9, <1>10, <1>11, <1>12, <1>13 DEF Safe, Heard

LEMMA LoopReturnKeeps ==
    ASSUME DispatchInv, LoopReturn
    PROVE  Safe' /\ Heard'
<1> RestOK /\ SlotsAgree /\ FramesInUse /\ AddressesUsed /\ AddressesDistinct
    /\ FreshUnoffered /\ HeardWasOffered /\ NothingTwice /\ OfferedWasHeard
    /\ HeardAll /\ FirstSnifferInOrder
    BY DEF DispatchInv, IInv, Safe, Heard
<1>1. /\ stack # <<>> /\ ~Top.running /\ Dispatched
      /\ stack' = SubSeq(stack, 1, Len(stack) - 1)
      /\ UNCHANGED <<sniffers, served, heard, since>>
    BY DEF LoopReturn, Dispatched, InLoop
<1>2. /\ Top.ctx \in Ctx
      /\ \A c \in Ctx : looped[c] \subseteq looped'[c]
      /\ \A c \in Ctx : \A a \in looped'[c] :
            a \in looped[c] \/ (c = Top.ctx /\ a = Top.tlp.addr)
      /\ looped' = [looped EXCEPT ![Top.ctx] = @ \union {Top.tlp.addr}]
      /\ HeardAll'
    BY <1>1, DispatchIsComplete
<1> PICK t \in DOMAIN stack :
             /\ t = Len(stack) /\ Top = stack[t]
             /\ DOMAIN stack' = DOMAIN stack \ {t}
             /\ \A k \in DOMAIN stack' : stack'[k] = stack[k]
    <2>1. /\ Len(stack) \in Nat \ {0} /\ Len(stack) \in DOMAIN stack
          /\ Top = stack[Len(stack)]
          /\ DOMAIN stack' = 1 .. Len(stack) - 1
          /\ DOMAIN stack = 1 .. Len(stack)
          /\ \A k \in DOMAIN stack' : stack'[k] = stack[k]
        BY <1>1, FramePopped
    <2>2. \A n \in Nat \ {0} : 1 .. n - 1 = (1 .. n) \ {n}
        OBVIOUS
    <2> QED BY <2>1, <2>2
<1>3. \A k \in DOMAIN stack' : /\ k \in DOMAIN stack /\ k # t /\ stack'[k] = stack[k]
                               /\ stack[k].running
    BY DEF FramesInUse
<1>4. SlotsAgree' /\ NothingTwice' /\ FirstSnifferInOrder'
    BY <1>1 DEF SlotsAgree, NothingTwice, FirstSnifferInOrder, Increasing
<1>5. FramesInUse' /\ FreshUnoffered'
    BY <1>1, <1>3 DEF FramesInUse, FreshUnoffered
<1>6. AddressesUsed'
    BY <1>1, <1>2, <1>3 DEF AddressesUsed
<1>7. AddressesDistinct'
    <2>1. \A j, k \in DOMAIN stack' : j # k => stack'[j].tlp.addr # stack'[k].tlp.addr
        BY <1>3 DEF AddressesDistinct
    <2>2. \A c \in Ctx : \A k \in DOMAIN stack' : stack'[k].tlp.addr \notin looped'[c]
        BY <1>2, <1>3 DEF AddressesDistinct
    <2> QED BY <2>1, <2>2 DEF AddressesDistinct
<1>8. HeardWasOffered'
    <2> SUFFICES ASSUME NEW c \in Ctx, NEW i \in DOMAIN heard'[c], NEW n \in DOMAIN heard'[c][i]
                 PROVE  \/ heard'[c][i][n] \in looped'[c]
                        \/ \E k \in DOMAIN stack' : /\ stack'[k].ctx = c
                                                    /\ stack'[k].tlp.addr = heard'[c][i][n]
                                                    /\ Offered(stack'[k], i)
        BY Zenon DEF HeardWasOffered, Offered
    <2> heard' = heard
        BY <1>1
    <2>1. CASE heard[c][i][n] \in looped[c]
        BY <1>2, <2>1
    <2>2. ASSUME NEW k \in DOMAIN stack, stack[k].ctx = c,
                 stack[k].tlp.addr = heard[c][i][n], Offered(stack[k], i)
          PROVE  \/ heard[c][i][n] \in looped'[c]
                 \/ k \in DOMAIN stack' /\ stack'[k] = stack[k]
        <3>1. CASE k = t
            BY <1>2, <2>2, <3>1 DEF RestOK
        <3>2. CASE k # t
            BY <3>2
        <3> QED BY <3>1, <3>2
    <2> QED BY <2>1, <2>2 DEF HeardWasOffered
<1>9. OfferedWasHeard'
    <2> SUFFICES ASSUME NEW k \in DOMAIN stack', NEW i \in DOMAIN sniffers[stack'[k].ctx],
                        Offered(stack'[k], i), Due(stack'[k].ctx, i, stack'[k].tlp.addr)
                 PROVE  stack'[k].tlp.addr \in Range(heard[stack'[k].ctx][i])
        BY <1>1, Zenon DEF OfferedWasHeard, Offered, Due
    <2> QED BY <1>3 DEF OfferedWasHeard
<1> QED BY <1>2, <1>4, <1>5, <1>6, <1>7, <1>8, <1>9 DEF Safe, Heard

-----------------------------------------------------------------------------
LEMMA InitDispatch == Init => DispatchInv
<1> SUFFICES ASSUME Init PROVE DispatchInv
    OBVIOUS
<1>1. IInv
    BY InitIInv
<1>2. Safe
    BY DEF Init, Safe, SlotsAgree, FramesInUse, AddressesUsed, AddressesDistinct,
           FreshUnoffered
<1>3. Heard
    BY DEF Init, Heard, HeardWasOffered, NothingTwice, OfferedWasHeard, HeardAll,
           FirstSnifferInOrder
<1> QED BY <1>1, <1>2, <1>3 DEF DispatchInv

LEMMA DispatchStep == ASSUME DispatchInv, [Next]_vars PROVE DispatchInv'
<1>1. IInv'
    BY BufferStep, RestStep DEF IInv, DispatchInv
<1>2. Safe' /\ Heard'
    <2> USE DEF DispatchInv
    <2>1. ASSUME NEW c \in Ctx, NEW b \in {"golden", "pci"}, Open(c, b)
          PROVE  Safe' /\ Heard'
        BY <2>1, SameDispatch DEF Open
    <2>2. ASSUME NEW c \in Ctx, Close(c)
          PROVE  Safe' /\ Heard'
        BY <2>2, CloseKeeps
    <2>3. ASSUME NEW c \in Ctx, TraceReset(c)
          PROVE  Safe' /\ Heard'
        BY <2>3, SameDispatch DEF TraceReset
    <2>4. ASSUME NEW c \in Ctx, NEW r, TraceAppend(c, r)
          PROVE  Safe' /\ Heard'
        BY <2>4, SameDispatch DEF TraceAppend
    <2>5. ASSUME NEW c \in Ctx, NEW t \in ClientTlp, SendOk(c, t)
          PROVE  Safe' /\ Heard'
        BY <2>5, SameDispatch DEF SendOk
    <2>6. ASSUME NEW c \in Ctx, SendFails(c)
          PROVE  Safe' /\ Heard'
        BY <2>6, SameDispatch DEF SendFails
    <2>7. ASSUME NEW c \in Ctx, RecvOk(c)
          PROVE  Safe' /\ Heard'
        BY <2>7, RecvKeeps
    <2>8. ASSUME NEW c \in Ctx, NEW f \in Filter, Sniff(c, f)
          PROVE  Safe' /\ Heard'
        BY <2>8, SniffKeeps
    <2>9. ASSUME NEW c \in Ctx, LoopCall(c)
          PROVE  Safe' /\ Heard'
        BY <2>9, LoopCallKeeps
    <2>10. ASSUME Deliver
           PROVE  Safe' /\ Heard'
        BY <2>10, DeliverKeeps
    <2>11. ASSUME SkipSniffer
           PROVE  Safe' /\ Heard'
        <3> DEFINE f == [Top EXCEPT !.next = Top.next + 1]
        <3>1. /\ stack # <<>> /\ ~Top.running /\ SetTop(f) /\ SnifferLeft
              /\ ~FilterMatch(sniffers[Top.ctx][Top.next], Top.tlp)
              /\ UNCHANGED <<sniffers, served, dispatch>>
            BY <2>11 DEF SkipSniffer, InLoop
        <3>2. Top \in Frame
            BY <3>1, StackFacts DEF IInv
        <3>3. f \in Frame /\ f.ctx = Top.ctx /\ f.tlp = Top.tlp /\ f.next = Top.next + 1
              /\ ~f.running
            BY <3>1, <3>2, NextSlot DEF Frame
        <3> QED BY <3>1, <3>3, MovesOnKeeps
    <2>12. ASSUME CallbackReturn
           PROVE  Safe' /\ Heard'
        <3> DEFINE f == [Top EXCEPT !.running = FALSE, !.next = Top.next + 1]
        <3>1. /\ stack # <<>> /\ Top.running /\ SetTop(f)
              /\ UNCHANGED <<sniffers, served, dispatch>>
            BY <2>12 DEF CallbackReturn
        <3>2. Top \in Frame
            BY <3>1, StackFacts DEF IInv
        <3>3. f \in Frame /\ f.ctx = Top.ctx /\ f.tlp = Top.tlp /\ f.next = Top.next + 1
              /\ ~f.running
            BY <3>1, <3>2, NextSlot DEF Frame
        <3> QED BY <3>1, <3>3, MovesOnKeeps
    <2>13. ASSUME LoopAgain
           PROVE  Safe' /\ Heard'
        BY <2>13, LoopAgainKeeps
    <2>14. ASSUME LoopReturn
           PROVE  Safe' /\ Heard'
        BY <2>14, LoopReturnKeeps
    <2>15. ASSUME UNCHANGED vars
           PROVE  Safe' /\ Heard'
        BY <2>15, SameDispatch DEF vars
    <2> QED
        BY <2>1, <2>2, <2>3, <2>4, <2>5, <2>6, <2>7, <2>8, <2>9, <2>10, <2>11, <2>12,
           <2>13, <2>14, <2>15
        DEF Next, ClientCall, LoopStep
<1> QED BY <1>1, <1>2 DEF DispatchInv

LEMMA DispatchInvariance == Spec => []DispatchInv
<1>1. DispatchInv /\ [Next]_vars => DispatchInv'
    BY DispatchStep
<1> QED BY InitDispatch, <1>1, PTL DEF Spec

\* However callbacks nest pcie_loop calls, receive and register sniffers, a
\* sniffer hears a TLP at most once, and only a TLP of its own context.
THEOREM SniffersHearOnce == Spec => []HeardOnce
<1>1. ASSUME DispatchInv
      PROVE  HeardOnce
    <2>1. HeardWasOffered /\ NothingTwice
        BY <1>1 DEF DispatchInv, Heard
    <2>2. ASSUME NEW c \in Ctx, NEW i \in DOMAIN heard[c], NEW n \in DOMAIN heard[c][i]
          PROVE  heard[c][i][n] \in looped[c] \union InDispatch(c)
        <3>1. \A k \in DOMAIN stack : stack[k].ctx = c => stack[k].tlp.addr \in InDispatch(c)
            BY DEF InDispatch
        <3> QED BY <2>1, <3>1 DEF HeardWasOffered
    <2> QED BY <2>1, <2>2 DEF HeardOnce, NothingTwice
<1> QED BY DispatchInvariance, <1>1, PTL

\* A sniffer whose filter matches misses no TLP that was received after it was
\* registered, once the dispatch of that TLP is over.
THEOREM SniffersMissNothing == Spec => []HeardAll
<1>1. DispatchInv => HeardAll
    BY DEF DispatchInv, Heard
<1> QED BY DispatchInvariance, <1>1, PTL

\* Nested loops never reorder what the first sniffer of a context hears.
THEOREM FirstSnifferHearsInOrder == Spec => []FirstSnifferInOrder
<1>1. DispatchInv => FirstSnifferInOrder
    BY DEF DispatchInv, Heard
<1> QED BY DispatchInvariance, <1>1, PTL

-----------------------------------------------------------------------------
(* The statistics.                                                          *)

\* The sum of a function over a finite set, taken out of it one by one.
Pick(s) == CHOOSE x \in s : TRUE
SumRule(g, f, D) ==
    g = [s \in D |-> IF s = {} THEN 0 ELSE f[Pick(s)] + g[s \ {Pick(s)}]]
Sums(f) == CHOOSE g : SumRule(g, f, SUBSET (DOMAIN f))
Total(f) == Sums(f)[DOMAIN f]

\* The fold of the community modules is this sum.
LEMMA FoldIsTotal ==
    ASSUME NEW f
    PROVE FoldFunction(+, 0, f) = Total(f)
BY Zenon DEF FoldFunction, FoldFunctionOnSet, MapThenFoldSet, Total, Sums, SumRule, Pick

LEMMA SmallerRest ==
    ASSUME NEW S, IsFiniteSet(S), NEW s \in SUBSET S, s # {}
    PROVE  /\ Pick(s) \in s /\ Pick(s) \in S /\ s \ {Pick(s)} \in SUBSET S
           /\ Cardinality(s \ {Pick(s)}) = Cardinality(s) - 1
<1>1. IsFiniteSet(s)
    BY FS_Subset
<1> QED BY <1>1, FS_RemoveElement DEF Pick

\* The sums of all subsets exist: by induction on the size of the subsets.
LEMMA SumsExistUpTo ==
    ASSUME NEW S, IsFiniteSet(S), NEW f \in [S -> Int], NEW n \in Nat
    PROVE  \E g : SumRule(g, f, {s \in SUBSET S : Cardinality(s) <= n})
<1> DEFINE D(m) == {s \in SUBSET S : Cardinality(s) <= m}
           Bad == {m \in Nat : ~ \E g : SumRule(g, f, D(m))}
<1>1. \A s \in SUBSET S : IsFiniteSet(s) /\ Cardinality(s) \in Nat
    BY FS_Subset, FS_CardinalityType
<1>2. \A s \in SUBSET S : s # {} => /\ Pick(s) \in s
                                    /\ s \ {Pick(s)} \in SUBSET S
                                    /\ Cardinality(s \ {Pick(s)}) = Cardinality(s) - 1
    BY SmallerRest
<1> SUFFICES ASSUME Bad # {} PROVE FALSE
    OBVIOUS
<1> PICK m \in Bad : \A k \in Bad : m <= k
    BY LeastNat
<1>3. /\ m \in Nat /\ ~ \E g : SumRule(g, f, D(m))
      /\ \A k \in Nat : k \notin Bad => \E g : SumRule(g, f, D(k))
    OBVIOUS
<1> HIDE DEF Bad
<1>4. CASE m = 0
    <2>1. \A s \in D(0) : s = {}
        BY <1>1, FS_EmptySet
    <2> DEFINE g == [s \in D(0) |-> 0]
    <2>2. SumRule(g, f, D(0))
        BY <2>1 DEF SumRule
    <2> QED BY <1>3, <1>4, <2>2
<1>5. CASE m # 0
    <2>1. m - 1 \in Nat /\ m - 1 \notin Bad
        BY <1>3, <1>5
    <2>2. PICK g : SumRule(g, f, D(m - 1))
        BY <1>3, <2>1
    <2> DEFINE h == [s \in D(m) |-> IF s = {} THEN 0 ELSE f[Pick(s)] + g[s \ {Pick(s)}]]
    <2>3. ASSUME NEW s \in D(m), s # {}
          PROVE  s \ {Pick(s)} \in D(m - 1)
        BY <1>1, <1>2, <1>3, <2>3
    <2>4. ASSUME NEW s \in D(m - 1)
          PROVE  h[s] = g[s]
        <3>1. s \in D(m)
            BY <1>1, <1>3
        <3>2. g[s] = IF s = {} THEN 0 ELSE f[Pick(s)] + g[s \ {Pick(s)}]
            BY <2>2 DEF SumRule
        <3> QED BY <3>1, <3>2
    <2>5. SumRule(h, f, D(m))
        <3>1. \A s \in D(m) : h[s] = IF s = {} THEN 0 ELSE f[Pick(s)] + h[s \ {Pick(s)}]
            BY <2>3, <2>4
        <3> QED BY <3>1 DEF SumRule
    <2> QED BY <1>3, <2>5
<1> QED BY <1>4, <1>5

LEMMA TotalRule ==
    ASSUME NEW S, IsFiniteSet(S), NEW f \in [S -> Int]
    PROVE  SumRule(Sums(f), f, SUBSET S)
<1>1. Cardinality(S) \in Nat /\ \A s \in SUBSET S : Cardinality(s) <= Cardinality(S)
    BY FS_Subset, FS_CardinalityType
<1>2. {s \in SUBSET S : Cardinality(s) <= Cardinality(S)} = SUBSET S
    BY <1>1
<1>3. \E g : SumRule(g, f, SUBSET S)
    BY <1>1, <1>2, SumsExistUpTo
<1> QED BY <1>3 DEF Sums

\* A change of one value changes the sum by as much.
LEMMA TotalChanges ==
    ASSUME NEW S, IsFiniteSet(S), NEW f \in [S -> Int], NEW x \in S, NEW v \in Int
    PROVE  Total(f) \in Int /\ Total([f EXCEPT ![x] = v]) = Total(f) + (v - f[x])
<1> DEFINE h == [f EXCEPT ![x] = v]
           F == Sums(f)
           H == Sums(h)
           Good(s) == /\ F[s] \in Int /\ H[s] \in Int
                      /\ x \in s => H[s] = F[s] + (v - f[x])
                      /\ x \notin s => H[s] = F[s]
           Bad == {m \in Nat : \E s \in SUBSET S : Cardinality(s) = m /\ ~Good(s)}
<1>1. h \in [S -> Int] /\ h[x] = v /\ \A y \in S : y # x => h[y] = f[y]
    OBVIOUS
<1>2. SumRule(F, f, SUBSET S) /\ SumRule(H, h, SUBSET S)
    BY <1>1, TotalRule
<1> HIDE DEF h, F, H
<1>3. \A s \in SUBSET S :
        /\ F[s] = IF s = {} THEN 0 ELSE f[Pick(s)] + F[s \ {Pick(s)}]
        /\ H[s] = IF s = {} THEN 0 ELSE h[Pick(s)] + H[s \ {Pick(s)}]
    BY <1>2 DEF SumRule
<1>4. \A s \in SUBSET S : s # {} => /\ Pick(s) \in s /\ Pick(s) \in S
                                    /\ s \ {Pick(s)} \in SUBSET S
                                    /\ Cardinality(s \ {Pick(s)}) = Cardinality(s) - 1
    BY SmallerRest
<1>5. \A s \in SUBSET S : Cardinality(s) \in Nat
    BY FS_Subset, FS_CardinalityType
<1>6. ASSUME NEW s \in SUBSET S, s # {}, Good(s \ {Pick(s)})
      PROVE  Good(s)
    <2> DEFINE p == Pick(s)
               r == s \ {Pick(s)}
    <2>1. F[s] = f[p] + F[r] /\ H[s] = h[p] + H[r] /\ p \in S /\ p \in s
        BY <1>3, <1>4, <1>6
    <2>2. f[p] \in Int /\ h[p] \in Int /\ F[r] \in Int /\ H[r] \in Int /\ f[x] \in Int
        BY <1>1, <1>6, <2>1
    <2>3. CASE p = x
        <3>1. x \notin r /\ x \in s
            BY <2>1, <2>3
        <3>2. H[r] = F[r]
            BY <1>6, <3>1
        <3> QED BY <1>1, <2>1, <2>2, <2>3, <3>1, <3>2
    <2>4. CASE p # x
        <3>1. (x \in r <=> x \in s) /\ h[p] = f[p]
            BY <1>1, <2>1, <2>4
        <3>2. (x \in r => H[r] = F[r] + (v - f[x])) /\ (x \notin r => H[r] = F[r])
            BY <1>6
        <3> HIDE DEF p, r
        <3> QED BY <2>1, <2>2, <3>1, <3>2
    <2> QED BY <2>3, <2>4
<1>7. Good({})
    BY <1>3
<1>8. Bad = {}
    <2> SUFFICES ASSUME Bad # {} PROVE FALSE
        OBVIOUS
    <2>1. Bad \in SUBSET Nat
        OBVIOUS
    <2>2. PICK m \in Bad : \A k \in Bad : m <= k
        BY <2>1, LeastNat
    <2>3. PICK s \in SUBSET S : Cardinality(s) = m /\ ~Good(s)
        OBVIOUS
    <2> HIDE DEF Good
    <2>4. s # {}
        BY <1>7, <2>3
    <2>5. /\ s \ {Pick(s)} \in SUBSET S /\ ~Good(s \ {Pick(s)})
          /\ Cardinality(s \ {Pick(s)}) = m - 1 /\ m - 1 \in Nat
        BY <1>4, <1>5, <1>6, <2>3, <2>4
    <2>6. m - 1 \in Bad
        BY <2>5
    <2> HIDE DEF Bad
    <2> QED BY <2>1, <2>2, <2>6
<1>9. Good(S)
    <2> HIDE DEF Good
    <2>1. Cardinality(S) \in Nat /\ S \in SUBSET S
        BY <1>5
    <2> QED BY <1>8, <2>1
<1>10. Total(f) = F[S] /\ Total(h) = H[S]
    BY <1>1 DEF Total, F, H
<1> QED BY <1>9, <1>10 DEF h

LEMMA TotalOfZeros ==
    ASSUME NEW S, IsFiniteSet(S), NEW f \in [S -> {0}]
    PROVE  Total(f) = 0
<1> DEFINE F == Sums(f)
           Bad == {m \in Nat : \E s \in SUBSET S : Cardinality(s) = m /\ F[s] # 0}
<1>1. SumRule(F, f, SUBSET S)
    BY TotalRule
<1> HIDE DEF F
<1>2. \A s \in SUBSET S : F[s] = IF s = {} THEN 0 ELSE f[Pick(s)] + F[s \ {Pick(s)}]
    BY <1>1 DEF SumRule
<1>3. \A s \in SUBSET S : s # {} => /\ Pick(s) \in s /\ Pick(s) \in S
                                    /\ s \ {Pick(s)} \in SUBSET S
                                    /\ Cardinality(s \ {Pick(s)}) = Cardinality(s) - 1
    BY SmallerRest
<1>4. \A s \in SUBSET S : Cardinality(s) \in Nat
    BY FS_Subset, FS_CardinalityType
<1>5. Bad = {}
    <2> SUFFICES ASSUME Bad # {} PROVE FALSE
        OBVIOUS
    <2>1. Bad \in SUBSET Nat
        OBVIOUS
    <2>2. PICK m \in Bad : \A k \in Bad : m <= k
        BY <2>1, LeastNat
    <2>3. PICK s \in SUBSET S : Cardinality(s) = m /\ F[s] # 0
        OBVIOUS
    <2>4. s # {} /\ F[s] = f[Pick(s)] + F[s \ {Pick(s)}]
        BY <1>2, <2>3
    <2>5. f[Pick(s)] = 0 /\ s \ {Pick(s)} \in SUBSET S
          /\ Cardinality(s \ {Pick(s)}) = m - 1 /\ m - 1 \in Nat
        BY <1>3, <1>4, <2>3, <2>4
    <2>6. F[s \ {Pick(s)}] # 0
        BY <2>3, <2>4, <2>5
    <2>7. m - 1 \in Bad
        BY <2>5, <2>6
    <2> HIDE DEF Bad
    <2> QED BY <2>1, <2>2, <2>7
<1>6. F[S] = 0
    <2>1. Cardinality(S) \in Nat /\ S \in SUBSET S
        BY <1>4
    <2> QED BY <1>5, <2>1
<1> QED BY <1>6 DEF Total, F

-----------------------------------------------------------------------------
Received == [c \in Ctx |-> stats[c].received]

Accounted == RestOK /\ served = retired + Total(Received)

LEMMA OneMore ==
    ASSUME Accounted, NEW c \in Ctx, TakeRx(c), UNCHANGED retired
    PROVE  served' = retired' + Total(Received')
<1>1. Received \in [Ctx -> Int] /\ served \in Nat /\ retired \in Nat
    BY DEF Accounted, RestOK, Received
<1>2. Received' = [Received EXCEPT ![c] = Received[c] + 1]
    <2>1. stats \in [Ctx -> [sent : Nat, received : Nat]]
        BY DEF Accounted, RestOK
    <2>2. \A d \in Ctx : stats'[d].received = IF d = c THEN stats[d].received + 1 ELSE stats[d].received
        BY <2>1 DEF TakeRx
    <2> QED BY <2>2 DEF Received
<1> DEFINE v == Received[c] + 1
<1>3. v \in Int /\ v - Received[c] = 1
    BY <1>1
<1>4. Total(Received) \in Int /\ Total([Received EXCEPT ![c] = v]) = Total(Received) + (v - Received[c])
    BY <1>1, <1>3, ContextsAssumption, TotalChanges
<1>5. served' = served + 1 /\ served = retired + Total(Received)
    BY DEF TakeRx, Accounted
<1> QED BY <1>1, <1>2, <1>3, <1>4, <1>5

LEMMA NoneMore ==
    ASSUME Accounted, UNCHANGED <<served, retired>>,
           \A c \in Ctx : stats'[c].received = stats[c].received
    PROVE  served' = retired' + Total(Received')
<1>1. Received' = Received
    BY DEF Received
<1> QED BY <1>1 DEF Accounted

LEMMA ContextRetired ==
    ASSUME Accounted, NEW c \in Ctx, Close(c)
    PROVE  served' = retired' + Total(Received')
<1>1. /\ Received \in [Ctx -> Int] /\ served \in Nat /\ retired \in Nat
      /\ Received[c] = stats[c].received
    BY DEF Accounted, RestOK, Received
<1>2. Received' = [Received EXCEPT ![c] = 0]
    <2>1. stats \in [Ctx -> [sent : Nat, received : Nat]]
        BY DEF Accounted, RestOK
    <2>2. \A d \in Ctx : stats'[d].received = IF d = c THEN 0 ELSE stats[d].received
        BY <2>1 DEF Close, NoStats
    <2> QED BY <2>2 DEF Received
<1> PICK v \in Int : v = 0
    OBVIOUS
<1>3. Total(Received) \in Int /\ Total([Received EXCEPT ![c] = v]) = Total(Received) + (v - Received[c])
    BY <1>1, ContextsAssumption, TotalChanges
<1>4. served' = served /\ retired' = retired + Received[c] /\ served = retired + Total(Received)
    BY <1>1 DEF Close, Accounted
<1> QED BY <1>1, <1>2, <1>3, <1>4

LEMMA AccountStep == ASSUME IInv, Accounted, [Next]_vars PROVE Accounted'
<1>1. RestOK'
    BY RestStep
<1>2. served' = retired' + Total(Received')
    <2>1. ASSUME NEW c \in Ctx, NEW b \in {"golden", "pci"}, Open(c, b)
          PROVE  served' = retired' + Total(Received')
        BY <2>1, NoneMore DEF Open
    <2>2. ASSUME NEW c \in Ctx, Close(c)
          PROVE  served' = retired' + Total(Received')
        BY <2>2, ContextRetired
    <2>3. ASSUME NEW c \in Ctx, TraceReset(c)
          PROVE  served' = retired' + Total(Received')
        BY <2>3, NoneMore DEF TraceReset
    <2>4. ASSUME NEW c \in Ctx, NEW r, TraceAppend(c, r)
          PROVE  served' = retired' + Total(Received')
        BY <2>4, NoneMore DEF TraceAppend
    <2>5. ASSUME NEW c \in Ctx, SendFails(c) \/ \E t \in ClientTlp : SendOk(c, t)
          PROVE  served' = retired' + Total(Received')
        <3>1. /\ UNCHANGED <<served, retired>>
              /\ stats' = [stats EXCEPT ![c].sent = stats[c].sent + 1]
            BY <2>5 DEF SendFails, SendOk
        <3>2. stats \in [Ctx -> [sent : Nat, received : Nat]]
            BY DEF IInv, RestOK
        <3>3. \A d \in Ctx : stats'[d].received = stats[d].received
            BY <3>1, <3>2
        <3> QED BY <3>1, <3>3, NoneMore
    <2>6. ASSUME NEW c \in Ctx, RecvOk(c)
          PROVE  served' = retired' + Total(Received')
        BY <2>6, OneMore DEF RecvOk
    <2>7. ASSUME NEW c \in Ctx, NEW f \in Filter, Sniff(c, f)
          PROVE  served' = retired' + Total(Received')
        BY <2>7, NoneMore DEF Sniff
    <2>8. ASSUME NEW c \in Ctx, LoopCall(c)
          PROVE  served' = retired' + Total(Received')
        BY <2>8, OneMore DEF LoopCall
    <2>9. ASSUME Deliver \/ SkipSniffer \/ LoopReturn \/ CallbackReturn
          PROVE  served' = retired' + Total(Received')
        BY <2>9, NoneMore DEF Deliver, SkipSniffer, LoopReturn, CallbackReturn
    <2>10. ASSUME LoopAgain
           PROVE  served' = retired' + Total(Received')
        <3>1. Top.ctx \in Ctx
            BY <2>10, StackFacts DEF IInv, LoopAgain, Dispatched, InLoop, Frame
        <3> QED BY <2>10, <3>1, OneMore DEF LoopAgain
    <2>11. ASSUME UNCHANGED vars
           PROVE  served' = retired' + Total(Received')
        BY <2>11, NoneMore DEF vars
    <2> QED
        BY <2>1, <2>2, <2>3, <2>4, <2>5, <2>6, <2>7, <2>8, <2>9, <2>10, <2>11
        DEF Next, ClientCall, LoopStep
<1> QED BY <1>1, <1>2 DEF Accounted

\* Every TLP the golden backend has handed out is in the statistics of exactly
\* one context, for any number of contexts and any nesting of their loops.
THEOREM ReceivedIsAccounted == Spec => []ReceivedAccounted
<1>1. Init => Accounted
    <2> SUFFICES ASSUME Init PROVE Accounted
        OBVIOUS
    <2>1. RestOK
        BY InitIInv DEF IInv
    <2>2. Received \in [Ctx -> {0}]
        BY DEF Init, Received, NoStats
    <2>3. Total(Received) = 0
        BY <2>2, ContextsAssumption, TotalOfZeros
    <2> QED BY <2>1, <2>3 DEF Init, Accounted
<1>2. IInv /\ Accounted /\ [Next]_vars => Accounted'
    BY AccountStep
<1>3. Accounted => ReceivedAccounted
    BY FoldIsTotal DEF Accounted, ReceivedAccounted, Received
<1> QED BY Invariance, <1>1, <1>2, <1>3, PTL DEF Spec
=============================================================================
