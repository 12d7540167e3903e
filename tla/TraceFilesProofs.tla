--------------------------- MODULE TraceFilesProofs ---------------------------
(***************************************************************************)
(* Proofs about TraceFiles, for files and tables of any size: what is      *)
(* shown belongs to the table, and a CSV file shows the rows it was made   *)
(* of.                                                                     *)
(*                                                                         *)
(* Both need that whatever a table is filled with is rows: also what a     *)
(* reader makes of a binary file it is out of step with.  A reader ends    *)
(* since every record it reads begins behind the one before (ReaderEnds),  *)
(* and where it ends it has made a row of each (PcapShowsRows).            *)
(***************************************************************************)
EXTENDS TraceFiles, Counting, SequenceTheorems

-----------------------------------------------------------------------------
(* Tables.                                                                  *)

\* A sequence of rows.
IsTable(t) == \E S : t \in Seq(S) /\ \A row \in S : IsRow(row)

LEMMA TableFacts ==
    ASSUME NEW t, IsTable(t)
    PROVE  /\ Len(t) \in Nat /\ DOMAIN t = 1 .. Len(t)
           /\ t = [i \in 1 .. Len(t) |-> t[i]]
           /\ \A i \in DOMAIN t : IsRow(t[i])
<1>1. PICK S : t \in Seq(S) /\ \A row \in S : IsRow(row)
    BY DEF IsTable
<1>2. /\ Len(t) \in Nat /\ DOMAIN t = 1 .. Len(t) /\ t = [i \in 1 .. Len(t) |-> t[i]]
      /\ \A i \in DOMAIN t : t[i] \in S
    BY <1>1
<1> QED BY <1>1, <1>2

LEMMA TableMade ==
    ASSUME NEW n \in Nat, NEW t, t = [i \in 1 .. n |-> t[i]],
           \A i \in 1 .. n : IsRow(t[i])
    PROVE  IsTable(t)
<1> DEFINE S == {t[i] : i \in 1 .. n}
<1>1. t \in [1 .. n -> S]
    OBVIOUS
<1>2. t \in Seq(S)
    BY <1>1, SMTT(30)
<1>3. \A row \in S : IsRow(row)
    OBVIOUS
<1> QED BY <1>2, <1>3 DEF IsTable

LEMMA EmptyTable == IsTable(<<>>)
<1>1. PICK S : S = {}
    OBVIOUS
<1>2. <<>> \in Seq(S) /\ \A row \in S : IsRow(row)
    BY <1>1
<1> QED BY <1>2 DEF IsTable

LEMMA TableGrows ==
    ASSUME NEW t, IsTable(t), NEW row, IsRow(row)
    PROVE  IsTable(Append(t, row))
<1>1. PICK S : t \in Seq(S) /\ \A r \in S : IsRow(r)
    BY DEF IsTable
<1>2. Append(t, row) \in Seq(S \union {row})
    BY <1>1
<1> QED BY <1>1, <1>2 DEF IsTable

LEMMA MadeRow ==
    ASSUME NEW ts, NEW dir \in {"TX", "RX"}, NEW type, NEW requester, NEW length, NEW payload
    PROVE  IsRow(Row(ts, dir, type, requester, length, payload))
BY DEF IsRow, WithPayload, Row

LEMMA RowFields ==
    ASSUME NEW row, IsRow(row)
    PROVE  /\ DOMAIN row = {"ts", "dir", "type", "requester", "length", "payload"}
           /\ row.dir \in {"TX", "RX"}
<1>1. row = WithPayload(row, row.payload) /\ row.dir \in {"TX", "RX"}
    BY DEF IsRow
<1>2. DOMAIN WithPayload(row, row.payload)
        = {"ts", "dir", "type", "requester", "length", "payload"}
    BY DEF WithPayload, Row
<1> QED BY <1>1, <1>2

\* Quoting a payload and reading it back gives the row.
LEMMA QuotedAndRead ==
    ASSUME NEW row, IsRow(row)
    PROVE  RowOfLine(WithPayload(row, <<row.payload>>)) = row
<1>1. PICK line : line = WithPayload(row, <<row.payload>>)
    OBVIOUS
<1>2. /\ line.ts = row.ts /\ line.dir = row.dir /\ line.type = row.type
      /\ line.requester = row.requester /\ line.length = row.length
      /\ line.payload = <<row.payload>>
    BY <1>1 DEF WithPayload, Row
<1>3. Head(line.payload) = row.payload
    BY <1>2
<1>4. RowOfLine(line) = WithPayload(row, row.payload)
    BY <1>2, <1>3 DEF RowOfLine, WithPayload
<1> QED BY <1>1, <1>4 DEF IsRow

-----------------------------------------------------------------------------
(* The analysis only speaks of rows of the table.                           *)

VisitRule(t, n, g) ==
    g = [i \in 0 .. n |-> IF i = 0 THEN <<>> ELSE Visit(t, g[i - 1], i)]

LEMMA VisitExists ==
    ASSUME NEW t, NEW n \in Nat
    PROVE  \E g : VisitRule(t, n, g)
<1> DEFINE Bad == {m \in Nat : ~\E g : VisitRule(t, m, g)}
<1> SUFFICES ASSUME Bad # {} PROVE FALSE
    OBVIOUS
<1>1. PICK m \in Bad : \A k \in Bad : m <= k
    BY LeastNat
<1>2. m \in Nat /\ ~\E g : VisitRule(t, m, g)
    OBVIOUS
<1>3. m # 0
    <2>1. VisitRule(t, 0, [i \in 0 .. 0 |-> <<>>])
        BY DEF VisitRule
    <2> QED BY <1>2, <2>1
<1>4. m - 1 \in Nat /\ m - 1 \notin Bad
    BY <1>1, <1>2, <1>3
<1>5. PICK g : VisitRule(t, m - 1, g)
    BY <1>4
<1> DEFINE h == [i \in 0 .. m |-> IF i = m THEN Visit(t, g[m - 1], m) ELSE g[i]]
<1>6. \A i \in 0 .. m - 1 : g[i] = IF i = 0 THEN <<>> ELSE Visit(t, g[i - 1], i)
    BY <1>5 DEF VisitRule
<1>7. \A i \in 0 .. m : i # m => i \in 0 .. m - 1
    BY <1>2
<1>8. \A i \in 0 .. m : i # 0 => i - 1 \in 0 .. m /\ i - 1 # m
    BY <1>2
<1>9. h[m] = Visit(t, g[m - 1], m) /\ \A i \in 0 .. m : i # m => h[i] = g[i]
    BY <1>2
<1>10. ASSUME NEW i \in 0 .. m
       PROVE  h[i] = IF i = 0 THEN <<>> ELSE Visit(t, h[i - 1], i)
    <2> HIDE DEF h
    <2>1. CASE i = m
        BY <1>3, <1>8, <1>9, <2>1
    <2>2. CASE i # m
        BY <1>6, <1>7, <1>8, <1>9, <2>2
    <2> QED BY <2>1, <2>2
<1>11. VisitRule(t, m, h)
    BY <1>10 DEF VisitRule
<1> QED BY <1>2, <1>11

LEMMA PendingRows ==
    ASSUME NEW t, IsTable(t)
    PROVE  Unmatched(t) \subseteq DOMAIN t
<1>1. PICK n \in Nat : n = Len(t) /\ DOMAIN t = 1 .. n
    BY TableFacts
<1> DEFINE open == CHOOSE g : VisitRule(t, n, g)
<1>2. Pending(t) = open[n]
    BY <1>1 DEF Pending, VisitRule
<1>3. VisitRule(t, n, open)
    BY VisitExists
<1> HIDE DEF open
<1>4. \A i \in 0 .. n : open[i] = IF i = 0 THEN <<>> ELSE Visit(t, open[i - 1], i)
    BY <1>3 DEF VisitRule
<1>5. ASSUME NEW i \in 0 .. n
      PROVE  open[i] \in Seq(1 .. n)
    <2> DEFINE Bad == {m \in 0 .. n : open[m] \notin Seq(1 .. n)}
    <2> SUFFICES ASSUME Bad # {} PROVE FALSE
        OBVIOUS
    <2>0. Bad \subseteq Nat
        OBVIOUS
    <2>1. PICK m \in Bad : \A k \in Bad : m <= k
        BY <2>0, LeastNat
    <2>2. m \in 0 .. n /\ m \in Nat /\ open[m] \notin Seq(1 .. n)
        OBVIOUS
    <2>3. m # 0
        <3>1. <<>> \in Seq(1 .. n) /\ 0 \in 0 .. n
            OBVIOUS
        <3>2. open[0] = <<>>
            BY <1>4, <3>1
        <3> QED BY <2>2, <3>1, <3>2
    <2>4. m \in 1 .. n /\ m - 1 \in 0 .. n /\ m - 1 \notin Bad
        BY <2>1, <2>2, <2>3
    <2>5. open[m - 1] \in Seq(1 .. n) /\ open[m] = Visit(t, open[m - 1], m)
        BY <1>4, <2>2, <2>3, <2>4
    <2>6. PICK before : before = open[m - 1]
        OBVIOUS
    <2>7. Append(before, m) \in Seq(1 .. n) /\ (before # <<>> => Tail(before) \in Seq(1 .. n))
        <3>1. before \in Seq(1 .. n) /\ m \in 1 .. n
            BY <2>4, <2>5, <2>6
        <3>2. PICK S : S = 1 .. n
            OBVIOUS
        <3>3. before \in Seq(S) /\ m \in S
            BY <3>1, <3>2
        <3>4. Append(before, m) \in Seq(S)
            BY <3>3
        <3>5. before # <<>> => Tail(before) \in Seq(S)
            BY <3>3
        <3> QED BY <3>2, <3>4, <3>5
    <2>8. Visit(t, before, m) \in Seq(1 .. n)
        BY <2>5, <2>6, <2>7 DEF Visit
    <2> QED BY <2>2, <2>5, <2>6, <2>8
<1>6. Pending(t) \in Seq(1 .. n)
    BY <1>2, <1>5
<1> QED BY <1>1, <1>6 DEF Unmatched, ToSet

LEMMA SummaryTyped ==
    ASSUME NEW t, IsTable(t), NEW open \in SUBSET DOMAIN t, NEW hid
    PROVE  Summary(t, open, hid) \in [{"total", "tx", "visible", "unmatched"} -> Nat]
<1>1. Len(t) \in Nat /\ DOMAIN t = 1 .. Len(t)
    BY TableFacts
<1>2. IsFiniteSet(DOMAIN t)
    BY <1>1, FS_Interval
<1>3. \A X \in SUBSET DOMAIN t : Cardinality(X) \in Nat
    BY <1>2, FS_Subset, FS_CardinalityType
<1>4. {i \in DOMAIN t : t[i].dir = "TX"} \in SUBSET DOMAIN t /\ DOMAIN t \ hid \in SUBSET DOMAIN t
    OBVIOUS
<1> QED BY <1>1, <1>3, <1>4 DEF Summary

-----------------------------------------------------------------------------
(* What the library writes as pcap is bytes.                                *)

FlattenRule(seqs, n, g) ==
    g = [i \in 1 .. n |-> IF i = 1 THEN seqs[i] ELSE g[i - 1] \o seqs[i]]

LEMMA FlattenExists ==
    ASSUME NEW seqs, NEW n \in Nat \ {0}
    PROVE  \E g : FlattenRule(seqs, n, g)
<1> DEFINE Bad == {m \in Nat \ {0} : ~\E g : FlattenRule(seqs, m, g)}
<1> SUFFICES ASSUME Bad # {} PROVE FALSE
    OBVIOUS
<1>1. PICK m \in Bad : \A k \in Bad : m <= k
    BY LeastNat
<1>2. m \in Nat \ {0} /\ ~\E g : FlattenRule(seqs, m, g)
    OBVIOUS
<1>3. m # 1
    <2>1. FlattenRule(seqs, 1, [i \in 1 .. 1 |-> seqs[1]])
        BY DEF FlattenRule
    <2> QED BY <1>2, <2>1
<1>4. m - 1 \in Nat \ {0} /\ m - 1 \notin Bad
    BY <1>1, <1>2, <1>3
<1>5. PICK g : FlattenRule(seqs, m - 1, g)
    BY <1>4
<1>a. PICK last : last = g[m - 1] \o seqs[m]
    OBVIOUS
<1> DEFINE h == [i \in 1 .. m |-> IF i = m THEN last ELSE g[i]]
<1>6. \A i \in 1 .. m - 1 : g[i] = IF i = 1 THEN seqs[i] ELSE g[i - 1] \o seqs[i]
    BY <1>5 DEF FlattenRule
<1>7. \A i \in 1 .. m : i # m => i \in 1 .. m - 1
    BY <1>2
<1>8. \A i \in 1 .. m : i # 1 => i - 1 \in 1 .. m /\ i - 1 # m
    BY <1>2
<1>9. h[m] = last /\ \A i \in 1 .. m : i # m => h[i] = g[i]
    BY <1>2
<1>10. ASSUME NEW i \in 1 .. m
       PROVE  h[i] = IF i = 1 THEN seqs[i] ELSE h[i - 1] \o seqs[i]
    <2> HIDE DEF h
    <2>1. CASE i = m
        BY <1>a, <1>3, <1>8, <1>9, <2>1
    <2>2. CASE i # m
        BY <1>6, <1>7, <1>8, <1>9, <2>2
    <2> QED BY <2>1, <2>2
<1>11. FlattenRule(seqs, m, h)
    BY <1>10 DEF FlattenRule
<1> QED BY <1>2, <1>11

\* Sequences of X joined are a sequence of X.
LEMMA FlattenTyped ==
    ASSUME NEW X, NEW seqs \in Seq(Seq(X))
    PROVE  FlattenSeq(seqs) \in Seq(X)
<1>1. PICK n \in Nat : n = Len(seqs) /\ \A i \in 1 .. n : seqs[i] \in Seq(X)
    OBVIOUS
<1>2. CASE n = 0
    <2>1. seqs = <<>>
        <3>1. seqs # <<>> => Len(seqs) \in Nat \ {0}
            BY EmptySeq
        <3> QED BY <1>1, <1>2, <3>1
    <2>2. <<>> \in Seq(X)
        OBVIOUS
    <2> QED BY <1>1, <1>2, <2>1, <2>2 DEF FlattenSeq
<1>3. CASE n # 0
    <2> DEFINE flat == CHOOSE g : FlattenRule(seqs, n, g)
    <2>1. FlattenSeq(seqs) = flat[n]
        BY <1>1, <1>3 DEF FlattenSeq, FlattenRule
    <2>2. FlattenRule(seqs, n, flat)
        BY <1>3, FlattenExists
    <2> HIDE DEF flat
    <2>3. \A i \in 1 .. n : flat[i] = IF i = 1 THEN seqs[i] ELSE flat[i - 1] \o seqs[i]
        BY <2>2 DEF FlattenRule
    <2>4. ASSUME NEW i \in 1 .. n
          PROVE  flat[i] \in Seq(X)
        <3> DEFINE Bad == {m \in 1 .. n : flat[m] \notin Seq(X)}
        <3> SUFFICES ASSUME Bad # {} PROVE FALSE
            OBVIOUS
        <3>1. Bad \subseteq Nat
            OBVIOUS
        <3>2. PICK m \in Bad : \A k \in Bad : m <= k
            BY <3>1, LeastNat
        <3>3. m \in 1 .. n /\ m \in Nat /\ flat[m] \notin Seq(X)
            OBVIOUS
        <3>4. m # 1
            BY <1>1, <2>3, <3>3
        <3>5. m - 1 \in 1 .. n /\ m - 1 \notin Bad
            BY <3>2, <3>3, <3>4
        <3>6. flat[m - 1] \in Seq(X) /\ flat[m] = flat[m - 1] \o seqs[m] /\ seqs[m] \in Seq(X)
            BY <1>1, <2>3, <3>3, <3>4, <3>5
        <3> QED BY <3>3, <3>6
    <2> QED BY <1>3, <2>1, <2>4
<1> QED BY <1>2, <1>3

LEMMA LeTyped ==
    ASSUME NEW n \in Nat, NEW width \in 1 .. 4
    PROVE  Le(n, width) \in Seq(Nat)
<1>1. \A k \in 1 .. 4 : ByteWeight[k] \in {1, 256, 65536, 16777216}
    BY DEF ByteWeight
<1>2. \A w \in {1, 256, 65536, 16777216} : (n \div w) % 256 \in Nat
    OBVIOUS
<1>3. \A k \in 1 .. width : (n \div ByteWeight[k]) % 256 \in Nat
    BY <1>1, <1>2
<1>4. Le(n, width) \in [1 .. width -> Nat]
    BY <1>3 DEF Le
<1> QED BY <1>4

LEMMA ZerosTyped ==
    ASSUME NEW width \in Nat
    PROVE  Zeros(width) \in Seq(Nat)
<1>1. Zeros(width) \in [1 .. width -> Nat]
    BY DEF Zeros
<1> QED BY <1>1

LEMMA BytesTyped ==
    ASSUME NEW records \in Seq(Record)
    PROVE  PcapBytes(records) \in Seq(Nat)
<1>1. PcapHeader \in Seq(Nat)
    <2>1. Le(2, 4) \in Seq(Nat) /\ Le(4, 4) \in Seq(Nat) /\ Zeros(8) \in Seq(Nat)
          /\ Le(65535, 4) \in Seq(Nat) /\ Le(1, 4) \in Seq(Nat)
        <3>1. 4 \in 1 .. 4 /\ {1, 2, 4, 65535} \subseteq Nat
            OBVIOUS
        <3>2. \A n \in {1, 2, 4, 65535} : Le(n, 4) \in Seq(Nat)
            <4>1. \A n \in Nat : Le(n, 4) \in Seq(Nat)
                BY <3>1, LeTyped
            <4> QED BY <3>1, <4>1
        <3>3. Zeros(8) \in Seq(Nat)
            BY ZerosTyped
        <3> QED BY <3>2, <3>3
    <2>2. <<212, 195, 178, 161>> \in Seq(Nat)
        OBVIOUS
    <2> QED BY <2>1, <2>2 DEF PcapHeader
<1>2. ASSUME NEW r \in Record
      PROVE  PcapRecord(r) \in Seq(Nat)
    <2>1. /\ r.sec \in Nat /\ r.usec \in Nat /\ r.direction \in Nat /\ r.type \in Nat
          /\ r.requester \in Nat /\ r.length \in Nat /\ r.payload \in Seq(Nat)
        <3>1. {r.sec, r.usec, r.direction, r.type, r.requester, r.length} \subseteq Nat
              /\ r.payload \in Seq(0 .. 255)
            BY RecordAssumption
        <3>2. r.payload \in Seq(Nat)
            <4>1. 0 .. 255 \subseteq Nat
                OBVIOUS
            <4> QED BY <3>1, <4>1, SeqMonotonic
        <3> QED BY <3>1, <3>2
    <2>2. InclLen \in Nat
        BY SizeAssumption DEF InclLen
    <2>3. /\ Le(r.sec, 4) \in Seq(Nat) /\ Le(r.usec, 4) \in Seq(Nat)
          /\ Le(InclLen, 4) \in Seq(Nat) /\ Le(r.direction, 4) \in Seq(Nat)
          /\ Le(r.type, 1) \in Seq(Nat) /\ Le(r.requester, 2) \in Seq(Nat)
          /\ Le(r.length, 2) \in Seq(Nat)
        <3>1. \A n \in Nat : Le(n, 1) \in Seq(Nat) /\ Le(n, 2) \in Seq(Nat) /\ Le(n, 4) \in Seq(Nat)
            <4>1. 1 \in 1 .. 4 /\ 2 \in 1 .. 4 /\ 4 \in 1 .. 4
                OBVIOUS
            <4> QED BY <4>1, LeTyped
        <3> QED BY <2>1, <2>2, <3>1
    <2>4. Zeros(2) \in Seq(Nat) /\ Zeros(1) \in Seq(Nat) /\ Zeros(8) \in Seq(Nat)
        BY ZerosTyped
    <2> QED BY <2>1, <2>3, <2>4 DEF PcapRecord
<1>3. [i \in DOMAIN records |-> PcapRecord(records[i])] \in Seq(Seq(Nat))
    <2>1. /\ Len(records) \in Nat /\ DOMAIN records = 1 .. Len(records)
          /\ \A i \in 1 .. Len(records) : records[i] \in Record
        OBVIOUS
    <2>2. [i \in DOMAIN records |-> PcapRecord(records[i])] \in [1 .. Len(records) -> Seq(Nat)]
        BY <1>2, <2>1
    <2> QED BY <2>1, <2>2
<1>4. FlattenSeq([i \in DOMAIN records |-> PcapRecord(records[i])]) \in Seq(Nat)
    BY <1>3, FlattenTyped
<1> QED BY <1>1, <1>4 DEF PcapBytes

-----------------------------------------------------------------------------
(* The readers of the binary format end, whatever they make of the bytes.   *)

OffsetsRule(data, start, n, g) ==
    g = [i \in 0 .. n |-> IF i = 0 THEN start ELSE g[i - 1] + 16 + Incl(data, g[i - 1])]

LEMMA OffsetsExist ==
    ASSUME NEW data, NEW start, NEW n \in Nat
    PROVE  \E g : OffsetsRule(data, start, n, g)
<1> DEFINE Bad == {m \in Nat : ~\E g : OffsetsRule(data, start, m, g)}
<1> SUFFICES ASSUME Bad # {} PROVE FALSE
    OBVIOUS
<1>1. PICK m \in Bad : \A k \in Bad : m <= k
    BY LeastNat
<1>2. m \in Nat /\ ~\E g : OffsetsRule(data, start, m, g)
    OBVIOUS
<1>3. m # 0
    <2>1. OffsetsRule(data, start, 0, [i \in 0 .. 0 |-> start])
        BY DEF OffsetsRule
    <2> QED BY <1>2, <2>1
<1>4. m - 1 \in Nat /\ m - 1 \notin Bad
    BY <1>1, <1>2, <1>3
<1>5. PICK g : OffsetsRule(data, start, m - 1, g)
    BY <1>4
<1>a. PICK last : last = g[m - 1] + 16 + Incl(data, g[m - 1])
    OBVIOUS
<1> DEFINE h == [i \in 0 .. m |-> IF i = m THEN last ELSE g[i]]
<1>6. \A i \in 0 .. m - 1 : g[i] = IF i = 0 THEN start ELSE g[i - 1] + 16 + Incl(data, g[i - 1])
    BY <1>5 DEF OffsetsRule
<1>7. \A i \in 0 .. m : i # m => i \in 0 .. m - 1
    BY <1>2
<1>8. \A i \in 0 .. m : i # 0 => i - 1 \in 0 .. m /\ i - 1 # m
    BY <1>2
<1>9. h[m] = last /\ \A i \in 0 .. m : i # m => h[i] = g[i]
    BY <1>2
<1>10. ASSUME NEW i \in 0 .. m
       PROVE  h[i] = IF i = 0 THEN start ELSE h[i - 1] + 16 + Incl(data, h[i - 1])
    <2> HIDE DEF h
    <2>1. CASE i = m
        BY <1>a, <1>3, <1>8, <1>9, <2>1
    <2>2. CASE i # m
        BY <1>6, <1>7, <1>8, <1>9, <2>2
    <2> QED BY <2>1, <2>2
<1>11. OffsetsRule(data, start, m, h)
    BY <1>10 DEF OffsetsRule
<1> QED BY <1>2, <1>11

LEMMA OffsetsFollow ==
    ASSUME NEW data \in Seq(Nat), NEW start
    PROVE  /\ Offsets(data, start)[0] = start
           /\ \A i \in 1 .. Len(data) :
                Offsets(data, start)[i]
                  = Offsets(data, start)[i - 1] + 16 + Incl(data, Offsets(data, start)[i - 1])
<1>1. PICK n \in Nat : n = Len(data)
    OBVIOUS
<1> DEFINE at == CHOOSE g : OffsetsRule(data, start, n, g)
<1>2. Offsets(data, start) = at
    BY <1>1 DEF Offsets, OffsetsRule
<1>3. OffsetsRule(data, start, n, at)
    BY OffsetsExist
<1> HIDE DEF at
<1>4. \A i \in 0 .. n : at[i] = IF i = 0 THEN start ELSE at[i - 1] + 16 + Incl(data, at[i - 1])
    BY <1>3 DEF OffsetsRule
<1>5. 0 \in 0 .. n /\ \A i \in 1 .. n : i \in 0 .. n /\ i # 0
    OBVIOUS
<1> QED BY <1>1, <1>2, <1>4, <1>5

\* A record that begins within the data announces a length.
LEMMA InclTyped ==
    ASSUME NEW data \in Seq(Nat), NEW off \in Nat, off + 16 <= Len(data)
    PROVE  Incl(data, off) \in Nat
<1>1. \A k \in 1 .. 4 : (off + 8) + k \in 1 .. Len(data)
    OBVIOUS
<1>2. \A k \in 1 .. 4 : data[(off + 8) + k] \in Nat
    BY <1>1
<1>3. /\ data[(off + 8) + 1] \in Nat /\ data[(off + 8) + 2] \in Nat
      /\ data[(off + 8) + 3] \in Nat /\ data[(off + 8) + 4] \in Nat
    BY <1>2
<1>4. ByteWeight[1] = 1 /\ ByteWeight[2] = 256 /\ ByteWeight[3] = 65536 /\ ByteWeight[4] = 16777216
    BY DEF ByteWeight
<1>5. Incl(data, off) = data[(off + 8) + 1] * 1 + data[(off + 8) + 2] * 256
                          + data[(off + 8) + 3] * 65536 + data[(off + 8) + 4] * 16777216
    BY <1>4 DEF Incl, Number
<1>6. \A a, b, c, d \in Nat : a * 1 + b * 256 + c * 65536 + d * 16777216 \in Nat
    OBVIOUS
<1>7. PICK a : a = data[(off + 8) + 1]
    OBVIOUS
<1>8. PICK b : b = data[(off + 8) + 2]
    OBVIOUS
<1>9. PICK c : c = data[(off + 8) + 3]
    OBVIOUS
<1>10. PICK d : d = data[(off + 8) + 4]
    OBVIOUS
<1>11. a \in Nat /\ b \in Nat /\ c \in Nat /\ d \in Nat
    BY <1>3, <1>7, <1>8, <1>9, <1>10
<1>12. Incl(data, off) = a * 1 + b * 256 + c * 65536 + d * 16777216
    BY <1>5, <1>7, <1>8, <1>9, <1>10
<1> QED BY <1>6, <1>11, <1>12

\* Some record begins too late to be read.
LEMMA ReaderEnds ==
    ASSUME NEW data \in Seq(Nat), NEW start \in Nat
    PROVE  \E k \in 0 .. Len(data) : Offsets(data, start)[k] + 16 > Len(data)
<1>1. PICK n \in Nat : n = Len(data)
    OBVIOUS
<1>2. PICK at : at = Offsets(data, start)
    OBVIOUS
<1>3. at[0] = start /\ \A i \in 1 .. n : at[i] = at[i - 1] + 16 + Incl(data, at[i - 1])
    BY <1>1, <1>2, OffsetsFollow
<1> SUFFICES ASSUME \A k \in 0 .. n : ~(at[k] + 16 > n)
             PROVE  FALSE
    BY <1>1, <1>2
<1>4. ASSUME NEW k \in 0 .. n
      PROVE  at[k] \in Nat /\ at[k] >= k
    <2> DEFINE Bad == {m \in 0 .. n : ~(at[m] \in Nat /\ at[m] >= m)}
    <2> SUFFICES ASSUME Bad # {} PROVE FALSE
        OBVIOUS
    <2>1. Bad \subseteq Nat
        OBVIOUS
    <2>2. PICK m \in Bad : \A j \in Bad : m <= j
        BY <2>1, LeastNat
    <2>3. m \in 0 .. n /\ m \in Nat /\ ~(at[m] \in Nat /\ at[m] >= m)
        OBVIOUS
    <2>4. m # 0
        <3>1. at[0] = start
            BY <1>3
        <3> QED BY <3>1, <2>3, SMTT(30)
    <2>5. m \in 1 .. n /\ m - 1 \in 0 .. n /\ m - 1 \notin Bad
        BY <2>2, <2>3, <2>4, SMTT(30)
    <2>6. at[m - 1] \in Nat /\ at[m - 1] >= m - 1 /\ ~(at[m - 1] + 16 > n)
        BY <2>5
    <2>7. Incl(data, at[m - 1]) \in Nat
        BY <1>1, <2>6, InclTyped
    <2>8. at[m] = at[m - 1] + 16 + Incl(data, at[m - 1])
        BY <1>3, <2>5
    <2> QED BY <2>3, <2>6, <2>7, <2>8
<1>5. at[n] \in Nat /\ at[n] >= n /\ ~(at[n] + 16 > n)
    BY <1>4
<1> QED BY <1>5

\* The first of the places at which a reader ends.
LEMMA FirstEnd ==
    ASSUME NEW n \in Nat, NEW E \in SUBSET (0 .. n), E # {}
    PROVE  \E k \in E : \A j \in 0 .. k - 1 : j \notin E
<1>1. PICK k \in E : \A j \in E : k <= j
    BY LeastNat
<1> QED BY <1>1

LEMMA BodyRowIsRow ==
    ASSUME NEW data, NEW off, NEW body, NEW wanted
    PROVE  IsRow(BodyRow(data, off, body, wanted))
BY MadeRow DEF BodyRow

LEMMA PcapShowsRows ==
    ASSUME NEW data \in Seq(Nat)
    PROVE  IsTable(PcapRowsCpp(data).rows) /\ IsTable(PcapRowsPython(data))
<1>1. PICK len \in Nat : len = Len(data)
    OBVIOUS
<1>2. IsTable(PcapRowsCpp(data).rows)
    <2>1. PICK at : at = Offsets(data, 28)
        OBVIOUS
    <2> DEFINE E == {k \in 0 .. len : CppEnds(data, at[k])}
               n == CHOOSE k \in 0 .. len : CppEnds(data, at[k]) /\ \A j \in 0 .. k - 1 : ~CppEnds(data, at[j])
    <2>2. E # {}
        <3>1. PICK k \in 0 .. len : at[k] + 16 > len
            BY <1>1, <2>1, ReaderEnds
        <3>2. CppEnds(data, at[k])
            BY <1>1, <3>1 DEF CppEnds
        <3> QED BY <3>2
    <2>3. PICK k \in E : \A j \in 0 .. k - 1 : j \notin E
        BY <2>2, FirstEnd
    <2>4. \A j \in 0 .. k - 1 : ~CppEnds(data, at[j])
        BY <2>3
    <2>5. n \in Nat
        BY <2>4
    <2> DEFINE t == [i \in 1 .. n |-> CppRow(data, at[i - 1])]
    <2>6. PcapRowsCpp(data).rows = t
        BY <1>1, <2>1 DEF PcapRowsCpp
    <2> HIDE DEF n
    <2>7. \A i \in 1 .. n : IsRow(t[i])
        BY BodyRowIsRow DEF CppRow
    <2>8. IsTable(t)
        BY <2>5, <2>7, TableMade
    <2> QED BY <2>6, <2>8
<1>3. IsTable(PcapRowsPython(data))
    <2>1. PICK at : at = Offsets(data, 24)
        OBVIOUS
    <2> DEFINE E == {k \in 0 .. len : PythonEnds(data, at[k])}
               n == CHOOSE k \in 0 .. len : PythonEnds(data, at[k]) /\ \A j \in 0 .. k - 1 : ~PythonEnds(data, at[j])
    <2>2. E # {}
        <3>1. PICK k \in 0 .. len : at[k] + 16 > len
            BY <1>1, <2>1, ReaderEnds
        <3>2. PythonEnds(data, at[k])
            BY <1>1, <3>1 DEF PythonEnds
        <3> QED BY <3>2
    <2>3. PICK k \in E : \A j \in 0 .. k - 1 : j \notin E
        BY <2>2, FirstEnd
    <2>4. \A j \in 0 .. k - 1 : ~PythonEnds(data, at[j])
        BY <2>3
    <2>5. n \in Nat
        BY <2>4
    <2> DEFINE t == [i \in 1 .. n |-> PythonRow(data, at[i - 1])]
    <2>6. PcapRowsPython(data) = t
        BY <1>1, <2>1 DEF PcapRowsPython
    <2> HIDE DEF n
    <2>7. \A i \in 1 .. n : IsRow(t[i])
        BY BodyRowIsRow DEF PythonRow
    <2>8. IsTable(t)
        BY <2>5, <2>7, TableMade
    <2> QED BY <2>6, <2>8
<1> QED BY <1>2, <1>3

-----------------------------------------------------------------------------
(* The inductive invariant.                                                 *)

Kinds == {"none", "csv", "pcap", "log", "blank"}

\* A file holds rows: a CSV file those it was made of, each payload quoted.
FileInv ==
    /\ file.kind \in Kinds
    /\ file.kind = "csv" =>
         /\ IsTable(file.rows)
         /\ file.body = [i \in DOMAIN file.rows |->
                            WithPayload(file.rows[i], <<file.rows[i].payload>>)]
    /\ file.kind = "log" => IsTable(file.body)
    /\ file.kind = "pcap" => file.body \in Seq(Record)

\* What is shown is said of rows of the table.
ShownTypes ==
    /\ IsTable(rows)
    /\ unmatched \in SUBSET DOMAIN rows /\ hidden \in SUBSET DOMAIN rows
    /\ summary \in [{"total", "tx", "visible", "unmatched"} -> Nat]
    /\ unfinished \in BOOLEAN

UserTypes ==
    /\ gui \in {"python", "cpp"} /\ filter \in Filter /\ origin.kind \in Kinds

TraceFilesInv ==
    FileInv /\ ShownTypes /\ UserTypes /\ TableIsCurrent /\ CsvOpensAsWritten

LEMMA HiddenRows ==
    ASSUME NEW t, NEW open, NEW f
    PROVE  Hidden(t, open, f) \in SUBSET DOMAIN t
BY DEF Hidden

\* A complete change of the table.
LEMMA ShowKeeps ==
    ASSUME NEW t, IsTable(t), Show(t), filter' = filter
    PROVE  ShownTypes' /\ TableIsCurrent' /\ rows' = t
<1>1. /\ rows' = t /\ unmatched' = Unmatched(t) /\ hidden' = Hidden(t, unmatched', filter)
      /\ summary' = Summary(t, unmatched', hidden') /\ unfinished' = FALSE
    BY DEF Show
<1>2. unmatched' \in SUBSET DOMAIN t /\ hidden' \in SUBSET DOMAIN t
    BY <1>1, PendingRows, HiddenRows
<1>3. summary' \in [{"total", "tx", "visible", "unmatched"} -> Nat]
    BY <1>1, <1>2, SummaryTyped
<1>4. ShownTypes'
    BY <1>1, <1>2, <1>3 DEF ShownTypes
<1>5. TableIsCurrent'
    BY <1>1 DEF TableIsCurrent
<1> QED BY <1>1, <1>4, <1>5

\* A change of the table that returns early.
LEMMA UnfinishedKeeps ==
    ASSUME NEW t, IsTable(t), ShownTypes, ShowUnfinished(t)
    PROVE  ShownTypes' /\ TableIsCurrent' /\ rows' = t
<1>1. /\ rows' = t /\ unmatched' = {} /\ hidden' = {} /\ unfinished' = TRUE
      /\ summary' = summary
    BY DEF ShowUnfinished
<1>2. ShownTypes'
    BY <1>1 DEF ShownTypes
<1>3. TableIsCurrent'
    BY <1>1 DEF TableIsCurrent
<1> QED BY <1>1, <1>2, <1>3

LEMMA FilesRest ==
    ASSUME TraceFilesInv, TableStays, FileInv'
    PROVE  TraceFilesInv'
<1>1. UNCHANGED <<gui, rows, unmatched, hidden, summary, unfinished, filter, origin>>
    BY DEF TableStays, table
<1>2. ShownTypes' /\ UserTypes'
    BY <1>1 DEF TraceFilesInv, ShownTypes, UserTypes
<1>3. TableIsCurrent' /\ CsvOpensAsWritten'
    BY <1>1 DEF TraceFilesInv, TableIsCurrent, CsvOpensAsWritten
<1> QED BY <1>2, <1>3 DEF TraceFilesInv

\* Lines of rows are what a CSV file holds.
LEMMA CsvMade ==
    ASSUME NEW t, IsTable(t), file' = File("csv", Lines(t), t)
    PROVE  FileInv'
<1>1. file'.kind = "csv" /\ file'.rows = t /\ file'.body = Lines(t)
    BY DEF File
<1>2. Lines(t) = [i \in DOMAIN t |-> WithPayload(t[i], <<t[i].payload>>)]
    BY DEF Lines, CsvLine, PayloadCells
<1> QED BY <1>1, <1>2 DEF FileInv, Kinds

LEMMA RecordRows ==
    ASSUME NEW records \in Seq(Record)
    PROVE  IsTable(RowsOf(records))
<1>1. PICK n \in Nat : n = Len(records) /\ DOMAIN records = 1 .. n
    OBVIOUS
<1>2. PICK t : t = RowsOf(records)
    OBVIOUS
<1>3. t = [i \in 1 .. n |-> RowOf(records[i])]
    BY <1>1, <1>2 DEF RowsOf
<1>4. \A i \in 1 .. n : IsRow(t[i])
    BY <1>3, MadeRow DEF RowOf
<1>5. t = [i \in 1 .. n |-> t[i]]
    BY <1>3
<1> QED BY <1>2, <1>4, <1>5, TableMade

LEMMA GivenRows ==
    ASSUME NEW S, S \subseteq LiveRow \union ForeignRow, NEW t \in Seq(S)
    PROVE  IsTable(t)
BY RowAssumption DEF IsTable

LEMMA FileStep ==
    ASSUME TraceFilesInv,
           \/ \E records \in BoundedSeq(Record, MaxRecords) : WritePcap(records) \/ WriteCsv(records)
           \/ \E t \in BoundedSeq(LiveRow, MaxRecords) : ProvideLog(t)
           \/ \E t \in BoundedSeq(ForeignRow, MaxRecords) : ProvideCsv(t)
           \/ ProvideBlank \/ Save
    PROVE  TraceFilesInv'
<1>0. \A S : BoundedSeq(S, MaxRecords) \subseteq Seq(S)
    BY DEF BoundedSeq, SeqOf
<1>1. ASSUME NEW records \in BoundedSeq(Record, MaxRecords), WritePcap(records)
      PROVE  TraceFilesInv'
    <2>1. records \in Seq(Record)
        BY <1>0
    <2>2. file'.kind = "pcap" /\ file'.body = records
        BY <1>1 DEF WritePcap, File
    <2>3. FileInv'
        BY <2>1, <2>2 DEF FileInv, Kinds
    <2> QED BY <1>1, <2>3, FilesRest DEF WritePcap
<1>2. ASSUME NEW records \in BoundedSeq(Record, MaxRecords), WriteCsv(records)
      PROVE  TraceFilesInv'
    <2>1. records \in Seq(Record)
        BY <1>0
    <2>2. FileInv'
        BY <1>2, <2>1, RecordRows, CsvMade DEF WriteCsv
    <2> QED BY <1>2, <2>2, FilesRest DEF WriteCsv
<1>3. ASSUME NEW t \in BoundedSeq(LiveRow, MaxRecords), ProvideLog(t)
      PROVE  TraceFilesInv'
    <2>1. IsTable(t)
        BY <1>0, GivenRows
    <2>2. file'.kind = "log" /\ file'.body = t
        BY <1>3 DEF ProvideLog, File
    <2>3. FileInv'
        BY <2>1, <2>2 DEF FileInv, Kinds
    <2> QED BY <1>3, <2>3, FilesRest DEF ProvideLog
<1>4. ASSUME NEW t \in BoundedSeq(ForeignRow, MaxRecords), ProvideCsv(t)
      PROVE  TraceFilesInv'
    <2>1. IsTable(t)
        BY <1>0, GivenRows
    <2>2. /\ file'.kind = "csv" /\ file'.rows = t
          /\ file'.body = [i \in DOMAIN t |-> WithPayload(t[i], <<t[i].payload>>)]
        BY <1>4 DEF ProvideCsv, File
    <2>3. FileInv'
        BY <2>1, <2>2 DEF FileInv, Kinds
    <2> QED BY <1>4, <2>3, FilesRest DEF ProvideCsv
<1>5. CASE ProvideBlank
    <2>1. file'.kind = "blank"
        BY <1>5 DEF ProvideBlank, File
    <2>2. FileInv'
        BY <2>1 DEF FileInv, Kinds
    <2> QED BY <1>5, <2>2, FilesRest DEF ProvideBlank
<1>6. CASE Save
    <2>1. ASSUME file' = File("csv", Lines(rows), rows)
          PROVE  FileInv'
        BY <2>1, CsvMade DEF TraceFilesInv, ShownTypes
    <2>2. ASSUME file' = File("log", <<>>, rows)
          PROVE  FileInv'
        <3>1. file'.kind = "log" /\ file'.body = <<>>
            BY <2>2 DEF File
        <3> QED BY <3>1, EmptyTable DEF FileInv, Kinds
    <2>3. FileInv'
        BY <1>6, <2>1, <2>2 DEF Save
    <2> QED BY <1>6, <2>3, FilesRest DEF Save
<1> QED BY <1>1, <1>2, <1>3, <1>4, <1>5, <1>6

\* The rows of a text file, and for a CSV file the ones it was made of.
LEMMA TextShowsRows ==
    ASSUME FileInv
    PROVE  IsTable(TextRows) /\ (file.kind = "csv" => TextRows = file.rows)
<1>1. CASE file.kind = "csv"
    <2>1. PICK t : t = file.rows
        OBVIOUS
    <2>2. IsTable(t) /\ file.body = [i \in DOMAIN t |-> WithPayload(t[i], <<t[i].payload>>)]
        BY <1>1, <2>1 DEF FileInv
    <2>3. /\ Len(t) \in Nat /\ DOMAIN t = 1 .. Len(t) /\ t = [i \in 1 .. Len(t) |-> t[i]]
          /\ \A i \in DOMAIN t : IsRow(t[i])
        BY <2>2, TableFacts
    <2>4. TextRows = [i \in DOMAIN t |-> RowOfLine(WithPayload(t[i], <<t[i].payload>>))]
        BY <1>1, <2>2 DEF TextRows
    <2>5. TextRows = [i \in DOMAIN t |-> t[i]]
        BY <2>3, <2>4, QuotedAndRead
    <2>6. TextRows = t
        BY <2>3, <2>5
    <2> QED BY <2>1, <2>2, <2>6
<1>2. CASE file.kind = "log"
    BY <1>2 DEF TextRows, FileInv
<1>3. CASE file.kind \notin {"csv", "log"}
    BY <1>3, EmptyTable DEF TextRows
<1> QED BY <1>1, <1>2, <1>3

\* What holds after the table was filled from the file.
LEMMA OpenKeeps ==
    ASSUME TraceFilesInv, FromFile, ShownTypes', TableIsCurrent',
           file.kind = "csv" => rows' = file.rows
    PROVE  TraceFilesInv'
<1>1. /\ origin' = [kind |-> file.kind, rows |-> file.rows]
      /\ UNCHANGED <<gui, file, filter>>
    BY DEF FromFile
<1>2. origin'.kind = file.kind /\ origin'.rows = file.rows
    BY <1>1
<1>3. FileInv'
    BY <1>1 DEF TraceFilesInv, FileInv
<1>4. UserTypes'
    BY <1>1, <1>2 DEF TraceFilesInv, UserTypes, FileInv
<1>5. CsvOpensAsWritten'
    BY <1>2 DEF CsvOpensAsWritten
<1> QED BY <1>3, <1>4, <1>5 DEF TraceFilesInv

LEMMA OpenStep ==
    ASSUME TraceFilesInv, Open
    PROVE  TraceFilesInv'
<1>1. FileInv /\ ShownTypes
    BY DEF TraceFilesInv
<1>2. CASE OpenPython
    <2>1. filter' = filter /\ FromFile
        BY <1>2 DEF OpenPython, FromFile
    <2>2. CASE file.kind = "pcap"
        <3>1. PICK t : t = PcapRowsPython(PcapBytes(file.body))
            OBVIOUS
        <3>2. Show(t)
            BY <1>2, <2>2, <3>1 DEF OpenPython
        <3>3. IsTable(t)
            BY <1>1, <2>2, <3>1, BytesTyped, PcapShowsRows DEF FileInv
        <3> QED BY <2>1, <2>2, <3>2, <3>3, ShowKeeps, OpenKeeps
    <2>3. CASE file.kind # "pcap"
        <3>1. Show(TextRows)
            BY <1>2, <2>3 DEF OpenPython
        <3> QED BY <1>1, <2>1, <3>1, TextShowsRows, ShowKeeps, OpenKeeps
    <2> QED BY <2>2, <2>3
<1>3. CASE OpenPcap
    <2>1. filter' = filter /\ FromFile /\ file.kind = "pcap"
        BY <1>3 DEF OpenPcap, FromFile
    <2>2. PICK read : read = PcapRowsCpp(PcapBytes(file.body))
        OBVIOUS
    <2>3. ShowUnfinished(read.rows) \/ Show(read.rows)
        BY <1>3, <2>2 DEF OpenPcap
    <2>4. IsTable(read.rows)
        BY <1>1, <2>1, <2>2, BytesTyped, PcapShowsRows DEF FileInv
    <2>5. ShownTypes' /\ TableIsCurrent'
        BY <1>1, <2>1, <2>3, <2>4, ShowKeeps, UnfinishedKeeps
    <2> QED BY <2>1, <2>5, OpenKeeps
<1>4. CASE OpenText
    <2>1. filter' = filter /\ FromFile /\ Show(TextRows)
        BY <1>4 DEF OpenText, FromFile
    <2> QED BY <1>1, <2>1, TextShowsRows, ShowKeeps, OpenKeeps
<1>5. CASE OpenBlank
    <2>1. FromFile /\ file.kind = "blank" /\ ShowUnfinished(<<>>)
        BY <1>5 DEF OpenBlank
    <2> QED BY <1>1, <2>1, EmptyTable, UnfinishedKeeps, OpenKeeps
<1> QED BY <1>2, <1>3, <1>4, <1>5 DEF Open

\* What holds after the table was filled otherwise.
LEMMA OtherwiseKeeps ==
    ASSUME TraceFilesInv, Otherwise, ShownTypes', TableIsCurrent'
    PROVE  TraceFilesInv'
<1>1. origin' = NoOrigin /\ UNCHANGED <<gui, file, filter>>
    BY DEF Otherwise
<1>2. origin'.kind = "none"
    BY <1>1 DEF NoOrigin
<1>3. FileInv'
    BY <1>1 DEF TraceFilesInv, FileInv
<1>4. UserTypes'
    BY <1>1, <1>2 DEF TraceFilesInv, UserTypes, Kinds
<1>5. CsvOpensAsWritten'
    BY <1>2 DEF CsvOpensAsWritten
<1> QED BY <1>3, <1>4, <1>5 DEF TraceFilesInv

LEMMA PollStep ==
    ASSUME TraceFilesInv, NEW row \in LiveRow, Poll(row)
    PROVE  TraceFilesInv'
<1>1. Show(Append(rows, row)) /\ Otherwise /\ filter' = filter
    BY DEF Poll, Otherwise
<1>2. IsTable(Append(rows, row))
    BY TableGrows, RowAssumption DEF TraceFilesInv, ShownTypes
<1> QED BY <1>1, <1>2, ShowKeeps, OtherwiseKeeps

LEMMA EnumerateStep ==
    ASSUME TraceFilesInv, NEW n \in 0 .. EnumReads, Enumerate(n)
    PROVE  TraceFilesInv'
<1>1. PICK t : t = [i \in 1 .. n |-> EnumRow]
    OBVIOUS
<1>2. (Show(t) \/ ShowUnfinished(t)) /\ Otherwise /\ filter' = filter
    BY <1>1 DEF Enumerate, Otherwise
<1>3. IsTable(t)
    <2>1. IsRow(EnumRow)
        BY MadeRow DEF EnumRow
    <2>2. n \in Nat /\ t = [i \in 1 .. n |-> t[i]] /\ \A i \in 1 .. n : t[i] = EnumRow
        BY <1>1, SizeAssumption
    <2> QED BY <2>1, <2>2, TableMade
<1> QED BY <1>2, <1>3, ShowKeeps, UnfinishedKeeps, OtherwiseKeeps DEF TraceFilesInv

LEMMA FilterStep ==
    ASSUME TraceFilesInv, NEW f \in Filter, SetFilter(f)
    PROVE  TraceFilesInv'
<1>1. /\ filter' = f /\ hidden' = Hidden(rows, unmatched, f)
      /\ summary' = Summary(rows, unmatched, hidden')
      /\ UNCHANGED <<gui, file, rows, unmatched, unfinished, origin>>
    BY DEF SetFilter
<1>2. ShownTypes /\ TableIsCurrent /\ UserTypes
    BY DEF TraceFilesInv
<1>3. summary' \in [{"total", "tx", "visible", "unmatched"} -> Nat]
    BY <1>1, <1>2, SummaryTyped DEF ShownTypes
<1>4. ShownTypes'
    BY <1>1, <1>2, <1>3, HiddenRows DEF ShownTypes
<1>5. TableIsCurrent'
    BY <1>1, <1>2 DEF TableIsCurrent
<1>6. UserTypes' /\ CsvOpensAsWritten' /\ FileInv'
    BY <1>1 DEF TraceFilesInv, UserTypes, CsvOpensAsWritten, FileInv
<1> QED BY <1>4, <1>5, <1>6 DEF TraceFilesInv

\* An empty table, under any filter.
LEMMA EmptyShown ==
    /\ IsTable(<<>>) /\ Unmatched(<<>>) = {} /\ \A f : Hidden(<<>>, {}, f) = {}
    /\ Summary(<<>>, {}, {}) \in [{"total", "tx", "visible", "unmatched"} -> Nat]
    /\ NoFilter \in Filter
<1>1. DOMAIN <<>> = {} /\ IsTable(<<>>)
    BY EmptyTable
<1>2. Unmatched(<<>>) = {}
    BY <1>1, PendingRows
<1>3. \A f : Hidden(<<>>, {}, f) = {}
    BY <1>1 DEF Hidden
<1>4. Summary(<<>>, {}, {}) \in [{"total", "tx", "visible", "unmatched"} -> Nat]
    BY <1>1, SummaryTyped
<1>5. NoFilter \in Filter
    BY DEF Filter, NoFilter
<1> QED BY <1>1, <1>2, <1>3, <1>4, <1>5

LEMMA TraceFilesStart == Init => TraceFilesInv
<1> SUFFICES ASSUME Init
             PROVE  TraceFilesInv
    OBVIOUS
<1>1. ShownTypes /\ TableIsCurrent /\ filter \in Filter
    BY EmptyShown DEF Init, ShownTypes, TableIsCurrent
<1>2. file.kind = "none" /\ origin.kind = "none" /\ gui \in {"python", "cpp"}
    BY DEF Init, File, NoOrigin
<1>3. FileInv /\ UserTypes /\ CsvOpensAsWritten
    BY <1>1, <1>2 DEF FileInv, UserTypes, CsvOpensAsWritten, Kinds
<1> QED BY <1>1, <1>3 DEF TraceFilesInv

LEMMA GuiStep ==
    ASSUME TraceFilesInv, NEW g \in {"python", "cpp"}, StartGui(g)
    PROVE  TraceFilesInv'
<1>1. /\ gui' = g /\ rows' = <<>> /\ unmatched' = {} /\ hidden' = {}
      /\ summary' = Summary(<<>>, {}, {}) /\ unfinished' = FALSE /\ filter' = NoFilter
      /\ origin' = NoOrigin /\ file' = file
    BY DEF StartGui
<1>2. ShownTypes' /\ TableIsCurrent' /\ filter' \in Filter
    BY <1>1, EmptyShown DEF ShownTypes, TableIsCurrent
<1>3. origin'.kind = "none"
    BY <1>1 DEF NoOrigin
<1>4. FileInv' /\ UserTypes' /\ CsvOpensAsWritten'
    BY <1>1, <1>2, <1>3 DEF TraceFilesInv, FileInv, UserTypes, CsvOpensAsWritten, Kinds
<1> QED BY <1>2, <1>4 DEF TraceFilesInv

LEMMA TraceFilesStep == TraceFilesInv /\ [Next]_vars => TraceFilesInv'
<1> SUFFICES ASSUME TraceFilesInv, [Next]_vars
             PROVE  TraceFilesInv'
    OBVIOUS
<1>1. CASE UNCHANGED vars
    <2>1. UNCHANGED <<gui, file, rows, unmatched, hidden, summary, unfinished, filter, origin>>
        BY <1>1 DEF vars, table
    <2> QED BY <2>1 DEF TraceFilesInv, FileInv, ShownTypes, UserTypes, TableIsCurrent, CsvOpensAsWritten
<1> QED BY <1>1, FileStep, OpenStep, PollStep, EnumerateStep, FilterStep, GuiStep DEF Next

-----------------------------------------------------------------------------
\* For files of any content and any order of loads, polls, saves and filter
\* changes every variable keeps its type, and what is said of rows is said of
\* rows of the table, also after a reader has read a file it does not fit.
THEOREM TypeCorrect == Spec => []TypeOK
<1>1. TraceFilesInv => TypeOK
    <2> SUFFICES ASSUME TraceFilesInv
                 PROVE  TypeOK
        OBVIOUS
    <2>1. \A i \in DOMAIN rows :
             /\ DOMAIN rows[i] = {"ts", "dir", "type", "requester", "length", "payload"}
             /\ rows[i].dir \in {"TX", "RX"}
        BY TableFacts, RowFields DEF TraceFilesInv, ShownTypes
    <2> QED BY <2>1 DEF TraceFilesInv, FileInv, ShownTypes, UserTypes, Kinds, TypeOK
<1> QED BY TraceFilesStart, TraceFilesStep, <1>1, PTL DEF Spec

\* A CSV file shows the rows it was made of, in order, in either GUI, whoever
\* wrote it and however often it was saved and opened again (saveTrace,
\* save_csv, loadCsv, load_rows).
THEOREM CsvReadsBack == Spec => []CsvOpensAsWritten
<1>1. TraceFilesInv => CsvOpensAsWritten
    BY DEF TraceFilesInv
<1> QED BY TraceFilesStart, TraceFilesStep, <1>1, PTL DEF Spec

\* Unless the last change of the table returned early, Match column, filter
\* and stats bar are those of the table, for tables of any size and every
\* order of loads, polls, saves and filter changes (applyFilter,
\* updateSummaryStats).
THEOREM TableStaysCurrent == Spec => []TableIsCurrent
<1>1. TraceFilesInv => TableIsCurrent
    BY DEF TraceFilesInv
<1> QED BY TraceFilesStart, TraceFilesStep, <1>1, PTL DEF Spec
=============================================================================
