--------------------------- MODULE BackendsProofs ----------------------------
(***************************************************************************)
(* Proofs about Backends, for every environment, rate, clock, device,      *)
(* table of cases and sequence of calls, and every way of cutting          *)
(* transfers into parts:                                                   *)
(*   - the throttle of the golden backend spaces the TLPs;                 *)
(*   - the profile in force decides the link it reports;                   *)
(*   - the PCI backend reads and writes each cell in its own place;        *)
(*   - its walk finds the first PCIe capability of the list, circular or   *)
(*     not, and a link check tells of a link the device had;               *)
(*   - the verdicts of the matrix do not contradict each other;            *)
(*   - every variable keeps its type.                                      *)
(***************************************************************************)
EXTENDS Backends, Counting

(* The throttle keeps one number, nextTx, and the property speaks of three *)
(* calls.  What ties them together is where nextTx lies: one period of the *)
(* last call after that call entered, hence at most one period after it    *)
(* returned and at least one after the call before it returned.            *)

Call3 == [at : Nat, period : Nat, waited : Nat]

DueAfter ==
    /\ Len(paced) >= 1 => nextTx <= paced[1].at + paced[1].period
    /\ Len(paced) >= 2 => nextTx >= paced[2].at + paced[1].period

ThrottleInv ==
    /\ env \in Env
    /\ clock \in Nat /\ nextTx \in Nat
    /\ paced \in Seq(Call3) /\ Len(paced) <= 3
    /\ Len(paced) >= 1 => paced[1].at <= clock
    /\ DueAfter
    /\ AtMostTwoPerPeriod

LEMMA PeriodIsNat ==
    ASSUME NEW tps \in Nat, tps # 0
    PROVE  Second \div tps \in Nat
BY TimeAssumption

\* Adding a call to the newest two of a list.
LEMMA NewestThree ==
    ASSUME NEW S, NEW p \in Seq(S), Len(p) <= 3, NEW x \in S,
           NEW q, q = SubSeq(<<x>> \o p, 1, IF Len(p) < 3 THEN Len(p) + 1 ELSE 3)
    PROVE  /\ q \in Seq(S)
           /\ Len(q) = (IF Len(p) < 3 THEN Len(p) + 1 ELSE 3)
           /\ q[1] = x
           /\ Len(q) >= 2 => q[2] = p[1]
           /\ Len(q) >= 3 => q[3] = p[2]
<1> DEFINE long == <<x>> \o p
           n == IF Len(p) < 3 THEN Len(p) + 1 ELSE 3
<1>1. long \in Seq(S) /\ Len(long) = Len(p) + 1
    OBVIOUS
<1>2. long[1] = x /\ \A i \in 1 .. Len(p) : long[i + 1] = p[i]
    OBVIOUS
<1>3. n \in 1 .. Len(long)
    BY <1>1
<1>4. q = SubSeq(long, 1, n)
    OBVIOUS
<1>5. q \in Seq(S) /\ Len(q) = n /\ \A i \in 1 .. n : q[i] = long[i]
    <2> HIDE DEF long, n
    <2> QED BY <1>1, <1>3, <1>4
<1> QED BY <1>1, <1>2, <1>5

\* One throttled call, entered at now and left at end.
LEMMA ThrottleSpaces ==
    ASSUME ThrottleInv, env' = env,
           NEW now \in Nat, NEW end \in Nat, NEW tps \in Nat, tps # 0,
           now >= clock, end >= now, clock' = end,
           Throttle(now, end, tps)
    PROVE  ThrottleInv'
<1> DEFINE period == Second \div tps
           waited == IF now < nextTx THEN nextTx - now ELSE 0
           call3 == [at |-> end, period |-> period, waited |-> waited]
<1>1. period \in Nat
    BY PeriodIsNat
<1>2. waited \in Nat
    BY DEF ThrottleInv
<1>3. call3 \in Call3
    BY <1>1, <1>2 DEF Call3
<1>4. paced \in Seq(Call3) /\ Len(paced) <= 3
    BY DEF ThrottleInv
<1>5. paced' = SubSeq(<<call3>> \o paced, 1, IF Len(paced) < 3 THEN Len(paced) + 1 ELSE 3)
    BY DEF Throttle, Note
<1>6. nextTx' = now + period
    BY DEF Throttle
<1>7. end >= nextTx
    BY DEF Throttle, ThrottleInv
<1> HIDE DEF period, waited, call3
<1>8. /\ paced' \in Seq(Call3)
      /\ Len(paced') = (IF Len(paced) < 3 THEN Len(paced) + 1 ELSE 3)
      /\ paced'[1] = call3
      /\ Len(paced') >= 2 => paced'[2] = paced[1]
      /\ Len(paced') >= 3 => paced'[3] = paced[2]
    BY <1>3, <1>4, <1>5, NewestThree
<1>9. call3.at = end /\ call3.period = period /\ call3.waited = waited
    BY DEF call3
<1>10. /\ Len(paced) >= 1 => paced[1] \in Call3
       /\ Len(paced) >= 2 => paced[2] \in Call3
    BY <1>4
<1>11. /\ Len(paced) >= 1 => paced[1].at \in Nat /\ paced[1].period \in Nat
       /\ Len(paced) >= 2 => paced[2].at \in Nat
    BY <1>10 DEF Call3
<1>12. clock \in Nat /\ nextTx \in Nat /\ env \in Env /\ DueAfter
       /\ (Len(paced) >= 1 => paced[1].at <= clock)
    BY DEF ThrottleInv
<1>13. DueAfter'
    <2>1. nextTx' <= paced'[1].at + paced'[1].period
        BY <1>1, <1>6, <1>8, <1>9
    <2>2. ASSUME Len(paced') >= 2
          PROVE  nextTx' >= paced'[2].at + paced'[1].period
        <3>1. Len(paced) >= 1
            BY <2>2, <1>4, <1>8
        <3>2. paced[1].at <= now
            BY <3>1, <1>11, <1>12
        <3> QED BY <2>2, <3>1, <3>2, <1>1, <1>6, <1>8, <1>9, <1>11
    <2> QED BY <2>1, <2>2 DEF DueAfter
<1>14. AtMostTwoPerPeriod'
    <2>1. ASSUME Len(paced') = 3
          PROVE  paced'[1].at >= paced'[3].at + paced'[2].period
        <3>1. Len(paced) >= 2
            <4>1. Len(paced) \in Nat
                BY <1>4
            <4>2. 3 = (IF Len(paced) < 3 THEN Len(paced) + 1 ELSE 3)
                BY <2>1, <1>8
            <4> QED BY <4>1, <4>2
        <3>2. nextTx >= paced[2].at + paced[1].period
            BY <3>1, <1>12 DEF DueAfter
        <3> QED BY SMTT(30), <2>1, <3>1, <3>2, <1>7, <1>8, <1>9, <1>11, <1>12
    <2>2. ASSUME Len(paced') >= 2
          PROVE  paced'[1].waited <= paced'[2].period
        <3>1. Len(paced) >= 1
            BY <2>2, <1>4, <1>8
        <3>2. nextTx <= paced[1].at + paced[1].period /\ paced[1].at <= now
            BY <3>1, <1>11, <1>12 DEF DueAfter
        <3>3. waited <= paced[1].period
            BY <3>1, <3>2, <1>11, <1>12 DEF waited
        <3> QED BY <2>2, <3>3, <1>8, <1>9
    <2> QED BY <2>1, <2>2 DEF AtMostTwoPerPeriod
<1>15. nextTx' \in Nat
    BY <1>1, <1>6
<1>16. Len(paced') <= 3 /\ (Len(paced') >= 1 => paced'[1].at <= clock')
    BY <1>4, <1>8, <1>9
<1> QED BY <1>8, <1>12, <1>13, <1>14, <1>15, <1>16 DEF ThrottleInv

-----------------------------------------------------------------------------
(* The steps of Backends.                                                   *)

LEMMA ThrottleStart == Init => ThrottleInv
BY DEF Init, DummyInit, ThrottleInv, DueAfter, AtMostTwoPerPeriod, Call3

LEMMA ThrottleRests ==
    ASSUME ThrottleInv, UNCHANGED <<clock, nextTx, paced>>, env' \in Env
    PROVE  ThrottleInv'
BY DEF ThrottleInv, DueAfter, AtMostTwoPerPeriod

LEMMA PacedSpaces ==
    ASSUME ThrottleInv, Paced, env' = env
    PROVE  ThrottleInv'
<1> DEFINE cfg == Config(env)
<1>1. PICK now \in clock .. MaxClock, end \in clock .. MaxClock :
        /\ end >= now
        /\ clock' = end
        /\ IF cfg.tps = 0 THEN UNCHANGED <<nextTx, paced>>
           ELSE Throttle(now, end, cfg.tps)
    BY DEF Paced
<1>2. cfg.tps \in Nat
    BY ConfigAssumption DEF ThrottleInv
<1>3. clock \in Nat /\ now \in Nat /\ end \in Nat /\ now >= clock /\ end >= clock
    BY <1>1, TimeAssumption DEF ThrottleInv
<1> HIDE DEF cfg
<1>4. CASE cfg.tps = 0
    <2>1. UNCHANGED <<nextTx, paced>>
        BY <1>1, <1>4
    <2>2. Len(paced) >= 1 => paced[1].at \in Nat
        <3>1. Len(paced) >= 1 => paced[1] \in Call3
            BY DEF ThrottleInv
        <3> QED BY <3>1 DEF Call3
    <2> QED BY <2>1, <2>2, <1>1, <1>3 DEF ThrottleInv, DueAfter, AtMostTwoPerPeriod
<1>5. CASE cfg.tps # 0
    BY <1>1, <1>2, <1>3, <1>5, ThrottleSpaces
<1> QED BY <1>4, <1>5

LEMMA GoldenSpaces ==
    ASSUME ThrottleInv, DummyNext
    PROVE  ThrottleInv'
<1> USE DEF ThrottleInv
<1>1. CASE SetEnv
    BY <1>1, ThrottleRests DEF SetEnv
<1>2. CASE DummyLinkStatus
    BY <1>2, ThrottleRests DEF DummyLinkStatus
<1>3. ASSUME NEW t \in Target, DummyCheckLink(t)
      PROVE  ThrottleInv'
    BY <1>3, ThrottleRests DEF DummyCheckLink
<1>4. CASE DummySend
    BY <1>4, PacedSpaces DEF DummySend
<1>5. CASE DummyRecv
    BY <1>5, PacedSpaces DEF DummyRecv
<1> QED BY <1>1, <1>2, <1>3, <1>4, <1>5 DEF DummyNext

LEMMA ThrottleStep == ThrottleInv /\ [Next]_vars => ThrottleInv'
<1> SUFFICES ASSUME ThrottleInv, [Next]_vars
             PROVE  ThrottleInv'
    OBVIOUS
<1>1. env \in Env
    BY DEF ThrottleInv
<1>2. ASSUME UNCHANGED dummyVars
      PROVE  ThrottleInv'
    BY <1>1, <1>2, ThrottleRests DEF dummyVars
<1>3. CASE Open
    BY <1>3, <1>2 DEF Open
<1>4. CASE PciWorks
    BY <1>4, <1>2 DEF PciWorks
<1>5. CASE Within(PciStep)
    BY <1>5, <1>2 DEF Within
<1>6. CASE Within(Retrain)
    BY <1>6, <1>2 DEF Within
<1>7. CASE GoldenWorks
    BY <1>7, GoldenSpaces DEF GoldenWorks
<1>8. CASE BeginMatrix
    BY <1>8, <1>2 DEF BeginMatrix, dummyVars
<1>9. CASE AskPci
    BY <1>9, <1>2 DEF AskPci
<1>10. CASE NotePci
    BY <1>10, <1>2 DEF NotePci, dummyVars
<1>11. CASE CheckGolden
    BY <1>11, <1>1, ThrottleRests DEF CheckGolden, DummyCheckLink
<1>12. CASE EndMatrix
    BY <1>12, <1>2 DEF EndMatrix
<1>13. CASE UNCHANGED vars
    BY <1>13, <1>2 DEF vars
<1> QED BY <1>3, <1>4, <1>5, <1>6, <1>7, <1>8, <1>9, <1>10, <1>11, <1>12, <1>13 DEF Next

\* At most two TLPs of the golden backend share a period, and no call is held
\* longer than a period, for every rate, environment and clock, however calls,
\* environment changes and long sleeps follow each other (dummy_apply_throttle).
THEOREM ThrottleHolds == Spec => []AtMostTwoPerPeriod
<1>1. ThrottleInv => AtMostTwoPerPeriod
    BY DEF ThrottleInv
<1> QED BY ThrottleStart, ThrottleStep, <1>1, PTL DEF Spec

-----------------------------------------------------------------------------
(* Transfers of the PCI backend.  The place of the next transfer follows   *)
(* from what was moved so far (AtNext); until a write changes them, the    *)
(* cells are what they were when the call began, but for the link status.  *)

Volatile == IF cap = 0 THEN {} ELSE {cap + LnkSta}

IoType == [open : BOOLEAN, start : Nat, off : Nat, left : Nat, got : Seq(Nat), put : Seq(Nat)]

Op == {"none", "write", "read", "info", "status", "check"}

Phase == {"idle", "transfer", "ids", "space", "hop", "lnkcap", "lnksta"}

CallType == [op : Op, phase : Phase, ptr : Nat, hops : Nat, word : Nat, target : Wanted]

PlaceTypes ==
    /\ cells \in [Cell -> Nat] /\ before \in [Cell -> Nat]
    /\ visible \in {HeaderEnd, SpaceEnd}
    /\ io \in IoType /\ call \in CallType

Moved(n) == Len(io.got) + io.left = n

PhaseOK ==
    /\ ~Busy => io = NoIo
    /\ call.phase # "transfer" => call.op # "write"
    /\ call.phase = "space" => Moved(SpaceEnd)
    /\ call.phase = "hop" => Moved(2)
    /\ call.phase \in {"lnkcap", "lnksta"} => Moved(1)

AtNext ==
    /\ call.op = "write" <=> io.put # <<>>
    /\ io.put = <<>> => io.off = io.start + Len(io.got)
    /\ io.put # <<>> =>
         io.got = <<>> /\ io.left <= Len(io.put) /\ io.off = io.start + Len(io.put) - io.left

ReadInPlace ==
    \A i \in 1 .. Len(io.got) :
        /\ io.start + i - 1 \in Cell
        /\ io.start + i - 1 \notin Volatile => io.got[i] = before[io.start + i - 1]

Untouched ==
    Busy /\ call.op # "write" => \A c \in Cell \ Volatile : cells[c] = before[c]

WrittenInPlace ==
    call.op = "write" => \A c \in Cell \ Volatile :
        cells[c] = IF c \in Writable /\ io.start <= c /\ c < io.off
                   THEN io.put[c - io.start + 1] ELSE before[c]

PlaceInv == PlaceTypes /\ PhaseOK /\ AtNext /\ ReadInPlace /\ Untouched /\ WrittenInPlace

LEMMA PlaceImplies == PlaceInv => TransfersInPlace
<1> SUFFICES ASSUME PlaceInv
             PROVE  TransfersInPlace
    OBVIOUS
<1> DEFINE done == Len(io.put) - io.left
<1>1. io.got \in Seq(Nat) /\ io.put \in Seq(Nat) /\ io.start \in Nat /\ io.off \in Nat /\ io.left \in Nat
    BY DEF PlaceInv, PlaceTypes, IoType
<1>2. \A i \in DOMAIN io.got :
        io.start + i - 1 \notin Volatile => io.got[i] = before[io.start + i - 1]
    <2>1. DOMAIN io.got = 1 .. Len(io.got)
        BY <1>1
    <2> QED BY <2>1 DEF PlaceInv, ReadInPlace
<1>3. ASSUME call.op = "write", NEW c \in Cell \ Volatile
      PROVE  cells[c] = IF c \in Writable /\ c \in io.start .. io.start + done - 1
                        THEN io.put[c - io.start + 1] ELSE before[c]
    <2>1. io.off = io.start + done
        BY <1>1, <1>3 DEF PlaceInv, AtNext
    <2>2. c \in Nat
        BY SpaceAssumption DEF Cell
    <2>3. (io.start <= c /\ c < io.off) <=> c \in io.start .. io.start + done - 1
        BY <1>1, <2>1, <2>2
    <2> QED BY <1>3, <2>3 DEF PlaceInv, WrittenInPlace
<1> QED BY <1>2, <1>3 DEF TransfersInPlace, Volatile

LEMMA IdleTypes == Idle \in CallType /\ NoIo \in IoType
<1>1. Idle.target \in Wanted
    BY DEF Idle, Wanted
<1>2. Idle \in CallType
    <2>1. Idle.target = [gen |-> 0, width |-> 0]
        BY DEF Idle
    <2>2. \A t \in Wanted : [op |-> "none", phase |-> "idle", ptr |-> 0, hops |-> 0, word |-> 0,
                             target |-> t] \in CallType
        BY DEF CallType, Op, Phase
    <2> QED BY <1>1, <2>1, <2>2 DEF Idle
<1>3. NoIo \in IoType
    <2>1. <<>> \in Seq(Nat)
        OBVIOUS
    <2> QED BY <2>1 DEF NoIo, IoType
<1> QED BY <1>2, <1>3

LEMMA PlaceStart == Init => PlaceInv
<1> SUFFICES ASSUME Init
             PROVE  PlaceInv
    OBVIOUS
<1>1. cells \in Device /\ before = cells /\ visible \in {HeaderEnd, SpaceEnd}
      /\ call = Idle /\ io = NoIo
    BY DEF Init, PciInit
<1>2. PlaceTypes
    BY <1>1, SpaceAssumption, IdleTypes DEF PlaceTypes
<1>3. PhaseOK /\ AtNext /\ ReadInPlace /\ Untouched /\ WrittenInPlace
    BY <1>1 DEF PhaseOK, AtNext, ReadInPlace, Untouched, WrittenInPlace, Idle, NoIo, Busy
<1> QED BY <1>2, <1>3 DEF PlaceInv

\* Steps that leave the call and the config space alone.
LEMMA PlaceRests ==
    ASSUME PlaceInv, UNCHANGED <<cells, visible, call, io, cap, before>>
    PROVE  PlaceInv'
BY DEF PlaceInv, PlaceTypes, PhaseOK, AtNext, ReadInPlace, Untouched, WrittenInPlace,
       Busy, Moved, Volatile

\* The end of a call.
LEMMA PlaceAtReply ==
    ASSUME PlaceInv, call' = Idle, io' = NoIo, UNCHANGED <<cells, visible, cap, before>>
    PROVE  PlaceInv'
<1>1. PlaceTypes'
    BY IdleTypes DEF PlaceInv, PlaceTypes
<1>2. PhaseOK' /\ AtNext' /\ ReadInPlace' /\ Untouched' /\ WrittenInPlace'
    BY DEF PhaseOK, AtNext, ReadInPlace, Untouched, WrittenInPlace, Idle, NoIo, Busy
<1> QED BY <1>1, <1>2 DEF PlaceInv

\* A read begins, in a call that has written nothing.
LEMMA PlaceAtRead ==
    ASSUME PlaceInv, call' \in CallType, call'.op \notin {"none", "write"},
           UNCHANGED <<cells, visible, cap>>, before' \in [Cell -> Nat],
           \A c \in Cell \ Volatile : before'[c] = cells[c],
           NEW off \in Nat, NEW len \in Nat, Access(off, len, <<>>),
           call'.phase = "space" => len = SpaceEnd,
           call'.phase = "hop" => len = 2,
           call'.phase \in {"lnkcap", "lnksta"} => len = 1
    PROVE  PlaceInv'
<1>1. io' = [open |-> FALSE, start |-> off, off |-> off, left |-> len, got |-> <<>>, put |-> <<>>]
    BY DEF Access, NoIo
<1>2. PlaceTypes'
    BY <1>1 DEF PlaceInv, PlaceTypes, IoType
<1>3. PhaseOK'
    BY <1>1 DEF PhaseOK, Busy, Moved
<1>4. AtNext' /\ ReadInPlace' /\ WrittenInPlace'
    BY <1>1 DEF AtNext, ReadInPlace, WrittenInPlace
<1>5. Untouched'
    BY DEF Untouched, Volatile
<1> QED BY <1>2, <1>3, <1>4, <1>5 DEF PlaceInv

\* A write begins.
LEMMA PlaceAtWrite ==
    ASSUME PlaceInv, Begin("write", "transfer", Idle.target),
           NEW off \in Nat, NEW data \in Seq(Nat), data # <<>>, Access(off, Len(data), data)
    PROVE  PlaceInv'
<1>1. io' = [open |-> FALSE, start |-> off, off |-> off, left |-> Len(data), got |-> <<>>, put |-> data]
    BY DEF Access, NoIo
<1>2. call' = [op |-> "write", phase |-> "transfer", ptr |-> 0, hops |-> 0, word |-> 0,
               target |-> [gen |-> 0, width |-> 0]]
      /\ before' = cells /\ UNCHANGED <<cells, visible, cap>>
    BY DEF Begin, Idle
<1>3. PlaceTypes'
    <2>1. io' \in IoType
        BY <1>1 DEF IoType
    <2>2. call' \in CallType
        <3>1. call' = [Idle EXCEPT !.op = "write", !.phase = "transfer", !.target = Idle.target]
            BY DEF Begin
        <3>2. Idle.target \in Wanted
            BY IdleTypes DEF CallType
        <3>3. "write" \in Op /\ "transfer" \in Phase
            BY DEF Op, Phase
        <3> QED BY <3>1, <3>2, <3>3, IdleTypes DEF CallType
    <2> QED BY <1>2, <2>1, <2>2 DEF PlaceInv, PlaceTypes
<1>4. PhaseOK' /\ AtNext' /\ ReadInPlace'
    BY <1>1, <1>2 DEF PhaseOK, AtNext, ReadInPlace, Busy
<1>5. WrittenInPlace' /\ Untouched'
    <2>1. \A c \in Cell : ~(off <= c /\ c < off)
        BY SpaceAssumption DEF Cell
    <2> QED BY <1>1, <1>2, <2>1 DEF WrittenInPlace, Untouched
<1> QED BY <1>3, <1>4, <1>5 DEF PlaceInv

\* The link retrains: only a volatile cell changes.
LEMMA PlaceAtRetrain ==
    ASSUME PlaceInv, Retrain
    PROVE  PlaceInv'
<1>1. PICK w \in LinkWord : cells' = [cells EXCEPT ![cap + LnkSta] = w]
    BY DEF Retrain
<1>2. w \in Nat
    BY SpaceAssumption
<1>3. cap # 0 /\ UNCHANGED <<visible, call, io, cap, before>>
    BY DEF Retrain
<1>4. cells' \in [Cell -> Nat]
    BY <1>1, <1>2 DEF PlaceInv, PlaceTypes
<1>5. \A c \in Cell \ Volatile : cells'[c] = cells[c]
    BY <1>1, <1>3 DEF PlaceInv, PlaceTypes, Volatile
<1>6. PlaceTypes' /\ PhaseOK' /\ AtNext' /\ ReadInPlace'
    BY <1>3, <1>4 DEF PlaceInv, PlaceTypes, PhaseOK, AtNext, ReadInPlace, Busy, Moved, Volatile
<1>7. Untouched' /\ WrittenInPlace'
    BY <1>3, <1>5 DEF PlaceInv, Untouched, WrittenInPlace, Busy, Volatile
<1> QED BY <1>6, <1>7 DEF PlaceInv

LEMMA ConcatParts ==
    ASSUME NEW s \in Seq(Nat), NEW t \in Seq(Nat)
    PROVE  /\ Len(s \o t) = Len(s) + Len(t)
           /\ \A i \in 1 .. Len(s) : (s \o t)[i] = s[i]
           /\ \A i \in 1 .. Len(t) : (s \o t)[Len(s) + i] = t[i]
OBVIOUS

LEMMA NextOfPut ==
    ASSUME NEW len \in Nat, NEW left \in Nat, NEW off \in Nat, NEW n \in Nat, NEW c \in Nat,
           left <= len, n <= left, off <= c, c <= off + n - 1
    PROVE  len - left + c - off + 1 \in 1 .. len
OBVIOUS

\* One transfer of n cells, of a read or of a write.
LEMMA PlaceAtTransfer ==
    ASSUME PlaceInv, NEW n \in Int, Transfer(n)
    PROVE  PlaceInv'
<1> DEFINE part == io.off .. io.off + n - 1
           done == Len(io.put) - io.left
           more == [i \in 1 .. n |-> cells[io.off + i - 1]]
<1>1. /\ io \in IoType /\ cells \in [Cell -> Nat] /\ before \in [Cell -> Nat]
      /\ visible \in {HeaderEnd, SpaceEnd} /\ call \in CallType
    BY DEF PlaceInv, PlaceTypes
<1>2. /\ io.got \in Seq(Nat) /\ io.put \in Seq(Nat)
      /\ io.start \in Nat /\ io.off \in Nat /\ io.left \in Nat
    BY <1>1 DEF IoType
<1>3. io.open /\ n \in Nat /\ n >= 1 /\ n <= io.left /\ io.off + n <= SpaceEnd
    BY <1>1, <1>2, SpaceAssumption DEF Transfer
<1>4. UNCHANGED <<visible, call, cap, before>>
    BY DEF Transfer
<1>5. call.op # "none"
    BY <1>3 DEF PlaceInv, PhaseOK, Busy, NoIo
<1>6. \A i \in 1 .. n : io.off + i - 1 \in Cell
    BY <1>2, <1>3, SpaceAssumption DEF Cell
<1>7. AtNext /\ PhaseOK /\ ReadInPlace /\ Untouched /\ WrittenInPlace
    BY DEF PlaceInv
<1>8. CASE io.put = <<>>
    <2>1. cells' = cells
        <3>1. cells' = [c \in Cell |-> cells[c]]
            BY <1>8 DEF Transfer
        <3> QED BY <3>1, <1>1
    <2>2. io' = [io EXCEPT !.left = @ - n, !.off = @ + n, !.got = @ \o more]
        BY <1>8 DEF Transfer
    <2>3. more \in Seq(Nat) /\ Len(more) = n /\ \A i \in 1 .. n : more[i] = cells[io.off + i - 1]
        <3>1. more \in [1 .. n -> Nat]
            BY <1>1, <1>6
        <3> QED BY <3>1, <1>3
    <2> HIDE DEF more
    <2>4. /\ io'.got = io.got \o more /\ io'.start = io.start /\ io'.put = io.put
          /\ io'.left = io.left - n /\ io'.off = io.off + n /\ io' \in IoType
        <3>1. io.left - n \in Nat /\ io.off + n \in Nat /\ io.got \o more \in Seq(Nat)
            BY <2>3, <1>2, <1>3
        <3>2. io' = [open |-> io.open, start |-> io.start, off |-> io.off + n,
                     left |-> io.left - n, got |-> io.got \o more, put |-> io.put]
            BY <2>2, <1>1 DEF IoType
        <3>3. io.open \in BOOLEAN
            BY <1>1 DEF IoType
        <3> QED BY <3>1, <3>2, <3>3, <1>2 DEF IoType
    <2>5. /\ Len(io'.got) = Len(io.got) + n
          /\ \A i \in 1 .. Len(io.got) : io'.got[i] = io.got[i]
          /\ \A i \in 1 .. n : io'.got[Len(io.got) + i] = more[i]
        <3>1. io'.got = io.got \o more
            BY <2>4
        <3>2. /\ Len(io.got \o more) = Len(io.got) + Len(more)
              /\ \A i \in 1 .. Len(io.got) : (io.got \o more)[i] = io.got[i]
              /\ \A i \in 1 .. Len(more) : (io.got \o more)[Len(io.got) + i] = more[i]
            <4>1. io.got \in Seq(Nat) /\ more \in Seq(Nat)
                BY <2>3, <1>2
            <4> QED BY <4>1, ConcatParts
        <3>3. Len(more) = n
            BY <2>3
        <3> QED BY <3>1, <3>2, <3>3, Zenon
    <2>6. PlaceTypes'
        BY <2>1, <2>4, <1>1, <1>4 DEF PlaceTypes
    <2>7. call.op # "write" /\ io.off = io.start + Len(io.got)
        BY <1>7, <1>8 DEF AtNext
    <2>8. PhaseOK'
        BY <2>4, <2>5, <1>2, <1>3, <1>4, <1>5, <1>7, SpaceAssumption DEF PhaseOK, Moved, Busy
    <2>9. AtNext'
        BY <2>4, <2>5, <2>7, <1>2, <1>3, <1>4, <1>8 DEF AtNext
    <2>10. ReadInPlace'
        <3> SUFFICES ASSUME NEW i \in 1 .. Len(io'.got)
                     PROVE  /\ io.start + i - 1 \in Cell
                            /\ io.start + i - 1 \notin Volatile =>
                                 io'.got[i] = before[io.start + i - 1]
            BY <2>4, <1>4 DEF ReadInPlace, Volatile
        <3>1. CASE i <= Len(io.got)
            <4>1. i \in 1 .. Len(io.got)
                BY <3>1, <1>2
            <4> QED BY <4>1, <2>5, <1>7 DEF ReadInPlace
        <3>2. CASE i > Len(io.got)
            <4> DEFINE j == i - Len(io.got)
            <4>1. j \in 1 .. n /\ i = Len(io.got) + j
                BY SMTT(30), <3>2, <2>5, <1>2, <1>3
            <4>2. io.start + i - 1 = io.off + j - 1
                BY <4>1, <2>7, <1>2
            <4>3. io'.got[i] = cells[io.off + j - 1] /\ io.off + j - 1 \in Cell
                BY <4>1, <2>3, <2>5, <1>6
            <4> QED BY <4>2, <4>3, <2>7, <1>5, <1>7 DEF Untouched, Busy
        <3>3. i \in Nat /\ Len(io.got) \in Nat
            BY <2>5, <1>2, <1>3
        <3> QED BY <3>1, <3>2, <3>3
    <2>11. Untouched' /\ WrittenInPlace'
        BY <2>1, <2>7, <1>4, <1>7 DEF Untouched, WrittenInPlace, Busy, Volatile
    <2> QED BY <2>6, <2>8, <2>9, <2>10, <2>11 DEF PlaceInv
<1>9. CASE io.put # <<>>
    <2>1. /\ io.got = <<>> /\ io.left <= Len(io.put) /\ io.off = io.start + done
          /\ call.op = "write"
        BY <1>2, <1>7, <1>9 DEF AtNext
    <2>2. cells' = [c \in Cell |-> IF c \in part \cap Writable
                                   THEN io.put[done + c - io.off + 1] ELSE cells[c]]
        BY <1>9 DEF Transfer
    <2>3. io' = [io EXCEPT !.left = @ - n, !.off = @ + n]
        <3>1. io' = [io EXCEPT !.left = @ - n, !.off = @ + n, !.got = @]
            BY <1>9 DEF Transfer
        <3> QED BY <3>1, <1>1 DEF IoType
    <2>4. /\ io'.got = io.got /\ io'.start = io.start /\ io'.put = io.put
          /\ io'.left = io.left - n /\ io'.off = io.off + n /\ io' \in IoType
        <3>1. io.left - n \in Nat /\ io.off + n \in Nat
            BY <1>2, <1>3
        <3>2. io' = [open |-> io.open, start |-> io.start, off |-> io.off + n,
                     left |-> io.left - n, got |-> io.got, put |-> io.put]
            BY <2>3, <1>1 DEF IoType
        <3>3. io.open \in BOOLEAN
            BY <1>1 DEF IoType
        <3> QED BY <3>1, <3>2, <3>3, <1>2 DEF IoType
    <2>5. \A c \in Cell : c \in part => io.put[done + c - io.off + 1] \in Nat
        <3> SUFFICES ASSUME NEW c \in Cell, c \in part
                     PROVE  io.put[done + c - io.off + 1] \in Nat
            OBVIOUS
        <3>1. c \in Nat /\ Len(io.put) \in Nat
            BY <1>2, SpaceAssumption DEF Cell
        <3>2. io.off <= c /\ c <= io.off + n - 1
            BY <3>1, <1>2, <1>3
        <3>3. done + c - io.off + 1 \in 1 .. Len(io.put)
            BY <3>1, <3>2, <1>2, <1>3, <2>1, NextOfPut
        <3>4. \A k \in 1 .. Len(io.put) : io.put[k] \in Nat
            BY SMTT(30), <1>2
        <3> QED BY <3>3, <3>4
    <2>6. cells' \in [Cell -> Nat]
        BY <2>2, <2>5, <1>1
    <2>7. PlaceTypes'
        BY <2>4, <2>6, <1>1, <1>4 DEF PlaceTypes
    <2>8. PhaseOK'
        <3>1. call.phase = "transfer"
            BY <2>1, <1>7 DEF PhaseOK
        <3> QED BY <3>1, <1>4, <1>5 DEF PhaseOK, Busy
    <2>9. AtNext'
        BY SMTT(30), <2>1, <2>4, <1>2, <1>3, <1>4, <1>9 DEF AtNext
    <2>10. ReadInPlace' /\ Untouched'
        BY <2>1, <2>4, <1>4 DEF ReadInPlace, Untouched
    <2>11. WrittenInPlace'
        <3> SUFFICES ASSUME NEW c \in Cell \ Volatile
                     PROVE  cells'[c] = IF c \in Writable /\ io.start <= c /\ c < io.off + n
                                        THEN io.put[c - io.start + 1] ELSE before[c]
            BY <2>4, <1>4 DEF WrittenInPlace, Volatile
        <3>1. c \in Nat
            BY SpaceAssumption DEF Cell
        <3>2. cells[c] = IF c \in Writable /\ io.start <= c /\ c < io.off
                         THEN io.put[c - io.start + 1] ELSE before[c]
            BY <2>1, <1>7 DEF WrittenInPlace
        <3>3. c \in part <=> io.off <= c /\ c < io.off + n
            BY SMTT(30), <3>1, <1>2, <1>3
        <3>4. done + c - io.off + 1 = c - io.start + 1 /\ io.start <= io.off
            BY SMTT(30), <3>1, <2>1, <1>2
        <3>5. CASE c \in part /\ c \in Writable
            <4>1. cells'[c] = io.put[c - io.start + 1]
                BY <3>5, <3>4, <2>2
            <4> QED BY <4>1, <3>1, <3>3, <3>4, <3>5, <1>2
        <3>6. CASE ~(c \in part /\ c \in Writable)
            <4>1. cells'[c] = cells[c]
                BY <3>6, <2>2
            <4>2. c \in Writable => ((io.start <= c /\ c < io.off)
                                       <=> (io.start <= c /\ c < io.off + n))
                BY SMTT(30), <3>1, <3>3, <3>4, <3>6, <1>2, <1>3
            <4> QED BY <4>1, <4>2, <3>2
        <3> QED BY <3>5, <3>6
    <2> QED BY <2>7, <2>8, <2>9, <2>10, <2>11 DEF PlaceInv
<1> QED BY <1>8, <1>9

-----------------------------------------------------------------------------
(* The steps of a call.                                                     *)

LEMMA PlaceAtBegin ==
    ASSUME PlaceInv, NEW op \in {"read", "info", "status", "check"},
           NEW phase \in {"transfer", "ids", "space"}, NEW target \in Wanted,
           Begin(op, phase, target),
           NEW off \in Nat, NEW len \in Nat, Access(off, len, <<>>),
           phase = "space" => len = SpaceEnd
    PROVE  PlaceInv'
<1>1. call' = [Idle EXCEPT !.op = op, !.phase = phase, !.target = target]
      /\ before' = cells /\ UNCHANGED <<cells, visible, cap>>
    BY DEF Begin
<1>2. op \in Op /\ phase \in Phase
    BY DEF Op, Phase
<1>3. call' \in CallType /\ call'.op = op /\ call'.phase = phase
    BY <1>1, <1>2, IdleTypes DEF CallType
<1>4. before' \in [Cell -> Nat] /\ \A c \in Cell \ Volatile : before'[c] = cells[c]
    BY <1>1 DEF PlaceInv, PlaceTypes
<1> QED BY <1>1, <1>3, <1>4, PlaceAtRead

LEMMA PlaceAtRefuse ==
    ASSUME PlaceInv, ~Busy, NEW op, Refuse(op)
    PROVE  PlaceInv'
<1>1. io = NoIo /\ call.op = "none"
    BY DEF PlaceInv, PhaseOK, Busy
<1>2. UNCHANGED <<cells, visible, cap, call, io>> /\ before' = cells
    BY DEF Refuse
<1>3. PlaceTypes' /\ PhaseOK' /\ AtNext'
    BY <1>2 DEF PlaceInv, PlaceTypes, PhaseOK, AtNext, Busy, Moved
<1>4. ReadInPlace' /\ Untouched' /\ WrittenInPlace'
    BY <1>1, <1>2 DEF ReadInPlace, Untouched, WrittenInPlace, Busy, NoIo
<1> QED BY <1>3, <1>4 DEF PlaceInv

LEMMA PlaceAtStatus ==
    ASSUME PlaceInv, NEW r, r.op \in {"status", "check"} => r.target \in Wanted,
           GetLinkStatus(r)
    PROVE  PlaceInv'
<1>1. SpaceEnd \in Nat
    BY SpaceAssumption
<1> QED BY <1>1, PlaceAtBegin DEF GetLinkStatus

LEMMA PlaceAtCall ==
    ASSUME PlaceInv, Call
    PROVE  PlaceInv'
<1>1. PICK r \in Request :
        CfgWrite(r) \/ CfgRead(r) \/ OtherTlp(r) \/ GetDeviceInfo(r) \/ GetLinkStatus(r)
    BY DEF Call
<1>2. ~Busy
    BY DEF Call
<1>3. Idle.target \in Wanted
    BY DEF Idle, Wanted
<1>4. CASE CfgWrite(r)
    <2>1. r.off \in Nat /\ r.data \in Seq(Nat)
        BY <1>4, RequestAssumption DEF CfgWrite
    <2>2. CASE r.data = <<>>
        BY <2>2, <1>2, <1>4, PlaceAtRefuse DEF CfgWrite
    <2>3. CASE r.data # <<>>
        BY <2>1, <2>3, <1>4, PlaceAtWrite DEF CfgWrite
    <2> QED BY <2>2, <2>3
<1>5. CASE CfgRead(r)
    <2> DEFINE len == IF r.len = 0 THEN DefaultLength ELSE r.len
    <2>1. r.off \in Nat /\ len \in Nat
        BY <1>5, RequestAssumption, SpaceAssumption DEF CfgRead
    <2>2. \/ Refuse("read")
          \/ Begin("read", "transfer", Idle.target) /\ Access(r.off, len, <<>>)
        BY <1>5 DEF CfgRead
    <2> HIDE DEF len
    <2> QED BY <2>1, <2>2, <1>2, <1>3, PlaceAtRefuse, PlaceAtBegin
<1>6. CASE OtherTlp(r)
    BY <1>2, <1>6, PlaceAtRefuse DEF OtherTlp
<1>7. CASE GetDeviceInfo(r)
    <2>1. HeaderCells - 1 \in Nat
        BY DEF HeaderCells, PtrCell
    <2>2. Begin("info", "ids", Idle.target) /\ Access(0, HeaderCells - 1, <<>>)
        BY <1>7 DEF GetDeviceInfo
    <2> QED BY <2>1, <2>2, <1>3, PlaceAtBegin
<1>8. CASE GetLinkStatus(r)
    BY <1>8, RequestAssumption, PlaceAtStatus
<1> QED BY <1>1, <1>4, <1>5, <1>6, <1>7, <1>8

\* A later access of a call: it reads, and the call goes on.
LEMMA PlaceAtAccess ==
    ASSUME PlaceInv, Busy, call.op # "write", call' \in CallType, call'.op = call.op,
           UNCHANGED <<cells, visible, cap, before>>,
           NEW off \in Nat, NEW len \in Nat, Access(off, len, <<>>),
           call'.phase = "space" => len = SpaceEnd,
           call'.phase = "hop" => len = 2,
           call'.phase \in {"lnkcap", "lnksta"} => len = 1
    PROVE  PlaceInv'
<1>1. before' \in [Cell -> Nat] /\ \A c \in Cell \ Volatile : before'[c] = cells[c]
    BY DEF PlaceInv, PlaceTypes, Untouched
<1>2. call'.op \notin {"none", "write"}
    BY DEF Busy
<1> QED BY <1>1, <1>2, PlaceAtRead

LEMMA PlaceAtVisit ==
    ASSUME PlaceInv, Busy, call.op # "write", NEW p \in Nat, NEW hops \in Nat, Visit(p, hops)
    PROVE  PlaceInv'
<1>1. call' = [call EXCEPT !.phase = "hop", !.ptr = p, !.hops = hops] /\ Access(p, 2, <<>>)
      /\ UNCHANGED <<cells, visible, cap, before>>
    BY DEF Visit
<1>2. "hop" \in Phase /\ call \in CallType
    BY DEF Phase, PlaceInv, PlaceTypes
<1>3. call' \in CallType /\ call'.op = call.op /\ call'.phase = "hop"
    BY <1>1, <1>2 DEF CallType
<1> QED BY <1>1, <1>3, PlaceAtAccess

LEMMA PlaceAtEnd ==
    ASSUME PlaceInv, NEW r, Reply(r)
    PROVE  PlaceInv'
BY PlaceAtReply DEF Reply

\* What an access that is over has read.
LEMMA ReadWhole ==
    ASSUME PlaceInv, NEW phase, Over(phase)
    PROVE  /\ Busy /\ io.got \in Seq(Nat)
           /\ phase = "space" => Len(io.got) = SpaceEnd
           /\ phase = "hop" => Len(io.got) = 2
           /\ phase \in {"lnkcap", "lnksta"} => Len(io.got) = 1
           /\ phase # "transfer" => call.op # "write"
           /\ \A k \in 1 .. Len(io.got) : io.got[k] \in Nat
<1>1. io \in IoType /\ io.left = 0 /\ call.phase = phase /\ Busy
    BY DEF PlaceInv, PlaceTypes, Over
<1>2. io.got \in Seq(Nat)
    BY <1>1 DEF IoType
<1>3. \A k \in 1 .. Len(io.got) : io.got[k] \in Nat
    BY <1>2
<1> QED BY <1>1, <1>2, <1>3 DEF PlaceInv, PhaseOK, Moved

LEMMA PlaceAtFound ==
    ASSUME PlaceInv, Busy, call.op # "write", Found
    PROVE  PlaceInv'
<1>1. CASE call.op = "info"
    BY <1>1, PlaceAtEnd DEF Found
<1>2. CASE call.op # "info"
    <2>1. call' = [call EXCEPT !.phase = "lnkcap"] /\ Access(call.ptr + LnkCap, 1, <<>>)
          /\ UNCHANGED <<cells, visible, cap, before>>
        BY <1>2 DEF Found
    <2>2. "lnkcap" \in Phase /\ call \in CallType
        BY DEF Phase, PlaceInv, PlaceTypes
    <2>3. call' \in CallType /\ call'.op = call.op /\ call'.phase = "lnkcap"
        BY <2>1, <2>2 DEF CallType
    <2>4. call.ptr + LnkCap \in Nat
        BY <2>2 DEF CallType, LnkCap
    <2> QED BY <2>1, <2>3, <2>4, PlaceAtAccess
<1> QED BY <1>1, <1>2

LEMMA PlaceAtEnds ==
    ASSUME PlaceInv, Ends
    PROVE  PlaceInv'
<1>1. call \in CallType
    BY DEF PlaceInv, PlaceTypes
<1>2. CASE TransferOver
    BY <1>2, PlaceAtEnd DEF TransferOver, Returns
<1>3. CASE IdsOver
    <2>1. Busy /\ call.op # "write"
        BY <1>3, ReadWhole DEF IdsOver
    <2>2. call' = [call EXCEPT !.phase = "space"] /\ Access(0, SpaceEnd, <<>>)
          /\ UNCHANGED <<cells, visible, cap, before>>
        BY <1>3 DEF IdsOver
    <2>3. "space" \in Phase /\ SpaceEnd \in Nat
        BY SpaceAssumption DEF Phase
    <2>4. call' \in CallType /\ call'.op = call.op /\ call'.phase = "space"
        BY <1>1, <2>2, <2>3 DEF CallType
    <2> QED BY <2>1, <2>2, <2>3, <2>4, PlaceAtAccess
<1>4. CASE SpaceOver
    <2>1. Busy /\ call.op # "write" /\ Len(io.got) = SpaceEnd
          /\ \A k \in 1 .. Len(io.got) : io.got[k] \in Nat
        BY <1>4, ReadWhole DEF SpaceOver
    <2>2. io.got[PtrCell + 1] \in Nat
        <3>1. PtrCell + 1 \in 1 .. SpaceEnd
            BY SpaceAssumption DEF PtrCell, HeaderCells
        <3> QED BY <3>1, <2>1
    <2>3. NoCapability \/ Visit(io.got[PtrCell + 1], 1)
        BY <1>4 DEF SpaceOver
    <2> QED BY <2>1, <2>2, <2>3, PlaceAtVisit, PlaceAtEnd DEF NoCapability
<1>5. CASE HopOver
    <2>1. Busy /\ call.op # "write" /\ Len(io.got) = 2
          /\ \A k \in 1 .. Len(io.got) : io.got[k] \in Nat
        BY <1>5, ReadWhole DEF HopOver
    <2>2. io.got[2] \in Nat /\ call.hops + 1 \in Nat
        BY <2>1, <1>1 DEF CallType
    <2>3. Found \/ NoCapability \/ Visit(io.got[2], call.hops + 1)
        BY <1>5 DEF HopOver
    <2> QED BY <2>1, <2>2, <2>3, PlaceAtVisit, PlaceAtFound, PlaceAtEnd DEF NoCapability
<1>6. CASE LnkCapOver
    <2>1. Busy /\ call.op # "write" /\ io.got[1] \in Nat
        BY <1>6, ReadWhole DEF LnkCapOver
    <2>2. call' = [call EXCEPT !.phase = "lnksta", !.word = io.got[1]]
          /\ Access(call.ptr + LnkSta, 1, <<>>) /\ UNCHANGED <<cells, visible, cap, before>>
        BY <1>6 DEF LnkCapOver
    <2>3. "lnksta" \in Phase /\ call.ptr + LnkSta \in Nat
        BY <1>1 DEF Phase, CallType, LnkSta
    <2>4. call' \in CallType /\ call'.op = call.op /\ call'.phase = "lnksta"
        BY <1>1, <2>1, <2>2, <2>3 DEF CallType
    <2> QED BY <2>1, <2>2, <2>3, <2>4, PlaceAtAccess
<1>7. CASE LnkStaOver
    BY <1>7, PlaceAtEnd DEF LnkStaOver, Returns
<1> QED BY <1>2, <1>3, <1>4, <1>5, <1>6, <1>7 DEF Ends

LEMMA PlaceAtMoves ==
    ASSUME PlaceInv, Moves
    PROVE  PlaceInv'
<1>1. CASE OpenConfig
    <2>1. io' = [io EXCEPT !.open = TRUE] /\ Busy /\ UNCHANGED <<cells, visible, call, cap, before>>
        BY <1>1 DEF OpenConfig
    <2>2. io \in IoType
        BY DEF PlaceInv, PlaceTypes
    <2>3. io' = [open |-> TRUE, start |-> io.start, off |-> io.off, left |-> io.left,
                 got |-> io.got, put |-> io.put]
        BY <2>1, <2>2 DEF IoType
    <2>4. io' \in IoType
        BY <2>2, <2>3 DEF IoType
    <2>5. PlaceTypes' /\ PhaseOK'
        BY <2>1, <2>3, <2>4 DEF PlaceInv, PlaceTypes, PhaseOK, Busy, Moved
    <2>6. AtNext' /\ ReadInPlace' /\ Untouched' /\ WrittenInPlace'
        BY <2>1, <2>3 DEF PlaceInv, AtNext, ReadInPlace, Untouched, WrittenInPlace, Busy, Volatile
    <2> QED BY <2>5, <2>6 DEF PlaceInv
<1>2. CASE AccessFails
    BY <1>2, PlaceAtEnd DEF AccessFails, NoCapability
<1>3. ASSUME NEW n \in Part \union {Rest}, Transfer(n)
      PROVE  PlaceInv'
    <2>1. n \in Int
        BY <1>3 DEF Transfer
    <2> QED BY <2>1, <1>3, PlaceAtTransfer
<1> QED BY <1>1, <1>2, <1>3 DEF Moves

LEMMA PlaceStep == PlaceInv /\ [Next]_vars => PlaceInv'
<1> SUFFICES ASSUME PlaceInv, [Next]_vars
             PROVE  PlaceInv'
    OBVIOUS
<1>1. ASSUME UNCHANGED pciVars
      PROVE  PlaceInv'
    BY <1>1, PlaceRests DEF pciVars
<1>2. CASE Open
    BY <1>2, <1>1 DEF Open
<1>3. CASE PciWorks
    BY <1>3, PlaceAtCall DEF PciWorks
<1>4. CASE Within(PciStep)
    BY <1>4, PlaceAtMoves, PlaceAtEnds DEF Within, PciStep
<1>5. CASE Within(Retrain)
    BY <1>5, PlaceAtRetrain DEF Within
<1>6. CASE GoldenWorks
    BY <1>6, <1>1 DEF GoldenWorks
<1>7. CASE BeginMatrix
    BY <1>7, PlaceRests DEF BeginMatrix
<1>8. CASE AskPci
    <2>1. Case[next] \in Wanted
        BY <1>8, CaseAssumption DEF AskPci, InMatrix
    <2>2. GetLinkStatus([op |-> "check", target |-> Case[next]])
        BY <1>8 DEF AskPci
    <2> QED BY <2>1, <2>2, PlaceAtStatus
<1>9. CASE NotePci
    BY <1>9, PlaceRests DEF NotePci
<1>10. CASE CheckGolden
    BY <1>10, <1>1 DEF CheckGolden
<1>11. CASE EndMatrix
    BY <1>11, <1>1 DEF EndMatrix
<1>12. CASE UNCHANGED vars
    BY <1>12, <1>1 DEF vars
<1> QED BY <1>2, <1>3, <1>4, <1>5, <1>6, <1>7, <1>8, <1>9, <1>10, <1>11, <1>12 DEF Next

\* For every device, request and way the kernel cuts transfers into parts,
\* every cell is read from its own place or written to it, and a write that
\* fails half way has changed exactly a first part (pci_access_config).
THEOREM TransfersStayInPlace == Spec => []TransfersInPlace
BY PlaceStart, PlaceStep, PlaceImplies, PTL DEF Spec

-----------------------------------------------------------------------------
(* The walk of the capability list.  What it has seen so far is a first    *)
(* part of the list as the device stores it, none of it the PCIe           *)
(* capability; what it finds is therefore the first one there.             *)

\* What the phases of a call have in common.
CallShape ==
    /\ Busy <=> call.phase # "idle"
    /\ call.hops \in 0 .. MaxHops
    /\ call.phase = "ids" => call.op = "info"
    /\ call.phase = "transfer" => call.op \in {"write", "read"}
    /\ call.phase \in {"space", "hop"} => call.op \in {"info", "status", "check"}
    /\ call.phase \in {"lnkcap", "lnksta"} =>
         call.op \in {"status", "check"} /\ call.ptr = cap /\ cap # 0

Aimed ==
    /\ call.phase = "space" => io.start = 0
    /\ call.phase = "hop" => io.start = call.ptr
    /\ call.phase = "lnksta" => io.start = call.ptr + LnkSta

LinkKnown ==
    /\ cap \in Cell /\ cap + LnkSta \in Cell
    /\ seen \subseteq Nat
    /\ Busy /\ call.op # "write" => LinkNow \subseteq seen
    /\ call.phase = "lnksta" /\ io.left = 0 => io.got[1] \in seen

CallInv == CallShape /\ Aimed /\ LinkKnown

IsPcieCap(p) == p \in 1 .. SpaceEnd - 4 /\ cells[p] = PcieCapId

\* ch is the chain of pointers as the device stores it now.
IsChain(ch) ==
    ch[0] = cells[PtrCell] /\ \A k \in 1 .. SpaceEnd : ch[k] = Follow(ch[k - 1])

CapIsFirst(ch) ==
    IF cap = 0
    THEN cells[StatusCell] = 0 \/ \A k \in 0 .. SpaceEnd : ~IsPcieCap(ch[k])
    ELSE /\ cells[StatusCell] # 0
         /\ \E k \in 0 .. SpaceEnd :
              /\ IsPcieCap(ch[k]) /\ cap = ch[k]
              /\ \A j \in 0 .. k - 1 : ~IsPcieCap(ch[j])

OnTheWay(ch) ==
    call.phase = "hop" =>
        /\ call.hops \in 1 .. MaxHops /\ cells[StatusCell] # 0
        /\ call.ptr = ch[call.hops - 1] /\ call.ptr # 0
        /\ \A j \in 0 .. call.hops - 2 : ~IsPcieCap(ch[j])

ListInv(P, ch) == SoundList(cells, P) /\ IsChain(ch) /\ CapIsFirst(ch)

WalkInv ==
    \E P \in SUBSET Cell :
        \E ch \in [0 .. SpaceEnd -> P] : ListInv(P, ch) /\ OnTheWay(ch)

AnswerInv == reply.rc \in {0, -1} /\ CapabilityIsThere /\ VerdictWasTrue

\* From a place the list goes on to a place.
LEMMA FollowStays ==
    ASSUME NEW P \in SUBSET Cell, SoundList(cells, P), NEW p \in P
    PROVE  Follow(p) \in P
BY SpaceAssumption DEF SoundList, Readable, Follow, Cell

\* The chain of pointers exists: its definition is recursive.
LEMMA ChainUpTo ==
    ASSUME NEW P \in SUBSET Cell, SoundList(cells, P), NEW n \in Nat
    PROVE  \E g \in [0 .. n -> P] :
              g = [k \in 0 .. n |-> IF k = 0 THEN cells[PtrCell] ELSE Follow(g[k - 1])]
<1> DEFINE Rule(g, m) == g = [k \in 0 .. m |-> IF k = 0 THEN cells[PtrCell] ELSE Follow(g[k - 1])]
           Bad == {m \in Nat : ~ \E g \in [0 .. m -> P] : Rule(g, m)}
<1> SUFFICES ASSUME Bad # {} PROVE FALSE
    OBVIOUS
<1>1. PICK m \in Bad : \A k \in Bad : m <= k
    BY LeastNat
<1>2. m \in Nat /\ ~ \E g \in [0 .. m -> P] : Rule(g, m)
    OBVIOUS
<1>3. cells[PtrCell] \in P
    BY DEF SoundList
<1>4. CASE m = 0
    <2> DEFINE g == [k \in 0 .. 0 |-> cells[PtrCell]]
    <2>1. g \in [0 .. m -> P] /\ Rule(g, m)
        BY <1>3, <1>4
    <2> QED BY <1>2, <2>1
<1>5. CASE m # 0
    <2>1. m - 1 \in Nat /\ m - 1 \notin Bad
        BY SMTT(30), <1>1, <1>2, <1>5
    <2>2. PICK g \in [0 .. m - 1 -> P] : Rule(g, m - 1)
        BY <2>1
    <2> DEFINE h == [k \in 0 .. m |-> IF k = 0 THEN cells[PtrCell] ELSE Follow(g[k - 1])]
    <2>3. \A k \in 1 .. m : g[k - 1] \in P /\ Follow(g[k - 1]) \in P
        BY <1>2, FollowStays
    <2>4. h \in [0 .. m -> P]
        BY <1>2, <1>3, <2>3
    <2>5. \A k \in 0 .. m - 1 : g[k] = IF k = 0 THEN cells[PtrCell] ELSE Follow(g[k - 1])
        BY <2>2
    <2>6. \A k \in 1 .. m : h[k - 1] = g[k - 1]
        BY <1>2, <2>5
    <2>7. \A k \in 0 .. m : h[k] = IF k = 0 THEN cells[PtrCell] ELSE Follow(h[k - 1])
        <3>1. \A k \in 0 .. m : k = 0 \/ k \in 1 .. m
            BY <1>2
        <3>2. \A k \in 0 .. m : h[k] = IF k = 0 THEN cells[PtrCell] ELSE Follow(g[k - 1])
            OBVIOUS
        <3> HIDE DEF h
        <3> QED BY <2>6, <3>1, <3>2
    <2>8. Rule(h, m)
        <3> HIDE DEF h
        <3> QED BY <2>4, <2>7
    <2> QED BY <1>2, <2>4, <2>8
<1> QED BY <1>4, <1>5

ChainRule(g) ==
    g = [k \in 0 .. SpaceEnd |-> IF k = 0 THEN cells[PtrCell] ELSE Follow(g[k - 1])]

LEMMA ChainIsChosen == Chain = CHOOSE g : ChainRule(g)
BY DEF Chain, ChainRule

LEMMA ChainIsThere ==
    ASSUME NEW P \in SUBSET Cell, SoundList(cells, P)
    PROVE  Chain \in [0 .. SpaceEnd -> P] /\ IsChain(Chain)
<1>1. SpaceEnd \in Nat
    BY SpaceAssumption
<1>2. PICK g \in [0 .. SpaceEnd -> P] :
        g = [k \in 0 .. SpaceEnd |-> IF k = 0 THEN cells[PtrCell] ELSE Follow(g[k - 1])]
    BY <1>1, ChainUpTo
<1>3. Chain = [k \in 0 .. SpaceEnd |-> IF k = 0 THEN cells[PtrCell] ELSE Follow(Chain[k - 1])]
    <2>1. \E h : ChainRule(h)
        BY <1>2 DEF ChainRule
    <2>2. ChainRule(Chain)
        BY <2>1, ChainIsChosen
    <2> QED BY <2>2 DEF ChainRule
<1>4. ASSUME NEW k \in 0 .. SpaceEnd
      PROVE  Chain[k] = g[k]
    <2> DEFINE Bad == {m \in 0 .. SpaceEnd : Chain[m] # g[m]}
    <2> SUFFICES ASSUME Bad # {} PROVE FALSE
        OBVIOUS
    <2>1. Bad \subseteq Nat
        BY <1>1
    <2>2. PICK m \in Bad : \A j \in Bad : m <= j
        BY <2>1, LeastNat
    <2>3. m \in 0 .. SpaceEnd /\ Chain[m] # g[m]
        OBVIOUS
    <2>4. m # 0 => m - 1 \in 0 .. SpaceEnd /\ m - 1 \notin Bad
        BY <1>1, <2>2, <2>3
    <2>5. m # 0 => Chain[m - 1] = g[m - 1]
        BY <2>4
    <2>6. Chain[m] = IF m = 0 THEN cells[PtrCell] ELSE Follow(Chain[m - 1])
        BY <1>3, <2>3
    <2>7. g[m] = IF m = 0 THEN cells[PtrCell] ELSE Follow(g[m - 1])
        BY <1>2, <2>3
    <2> QED BY <2>3, <2>5, <2>6, <2>7
<1>5. Chain = g
    BY <1>2, <1>3, <1>4
<1>6. \A k \in 0 .. SpaceEnd : g[k] = IF k = 0 THEN cells[PtrCell] ELSE Follow(g[k - 1])
    BY <1>2
<1>7. IsChain(g)
    BY <1>1, <1>6 DEF IsChain
<1> QED BY <1>2, <1>5, <1>7

\* The capability at index k of the chain is the first one.
FirstCapAt(ch, k) ==
    /\ k \in 0 .. SpaceEnd
    /\ IsPcieCap(ch[k])
    /\ \A j \in 0 .. k - 1 : ~IsPcieCap(ch[j])

\* Up to the first capability the list does not return to a place ...
LEMMA PlacesDistinct ==
    ASSUME NEW ch, IsChain(ch), NEW k, FirstCapAt(ch, k),
           NEW i \in 0 .. k, NEW j \in 0 .. k, i < j
    PROVE  ch[i] # ch[j]
<1> SUFFICES ASSUME ch[i] = ch[j] PROVE FALSE
    OBVIOUS
<1>1. k \in Nat /\ k <= SpaceEnd /\ SpaceEnd \in Nat /\ i \in Nat /\ j \in Nat
    BY SpaceAssumption DEF FirstCapAt
<1> DEFINE Bad == {m \in 0 .. k - j : ch[i + m] # ch[j + m]}
<1>2. Bad = {}
    <2> SUFFICES ASSUME Bad # {} PROVE FALSE
        OBVIOUS
    <2>1. Bad \subseteq Nat
        BY <1>1
    <2>2. PICK m \in Bad : \A n \in Bad : m <= n
        BY <2>1, LeastNat
    <2>3. m \in 0 .. k - j /\ m \in Nat /\ ch[i + m] # ch[j + m]
        BY <2>1
    <2>4. m # 0
        BY <1>1, <2>3
    <2>5. m - 1 \in 0 .. k - j /\ m - 1 \notin Bad
        BY <1>1, <2>2, <2>3, <2>4
    <2>6. ch[i + (m - 1)] = ch[j + (m - 1)]
        BY <2>5
    <2>7. i + m \in 1 .. SpaceEnd /\ j + m \in 1 .. SpaceEnd
          /\ (i + m) - 1 = i + (m - 1) /\ (j + m) - 1 = j + (m - 1)
        BY <1>1, <2>3, <2>4
    <2>8. ch[i + m] = Follow(ch[(i + m) - 1]) /\ ch[j + m] = Follow(ch[(j + m) - 1])
        BY <2>7 DEF IsChain
    <2> QED BY <2>3, <2>6, <2>7, <2>8
<1>3. k - j \in 0 .. k - j /\ j + (k - j) = k /\ i + (k - j) \in 0 .. k - 1
    BY <1>1
<1>4. ch[i + (k - j)] = ch[k]
    BY <1>2, <1>3
<1> QED BY <1>3, <1>4 DEF FirstCapAt

\* ... nor does it end.
LEMMA PlacesGoOn ==
    ASSUME NEW ch, IsChain(ch), NEW k, FirstCapAt(ch, k), NEW j \in 0 .. k
    PROVE  ch[j] # 0
<1> SUFFICES ASSUME ch[j] = 0 PROVE FALSE
    OBVIOUS
<1>1. k \in Nat /\ k <= SpaceEnd /\ SpaceEnd \in Nat /\ j \in Nat
    BY SpaceAssumption DEF FirstCapAt
<1>2. ~IsPcieCap(0)
    BY DEF IsPcieCap
<1>3. j # k
    BY <1>2 DEF FirstCapAt
<1>4. j + 1 \in 0 .. k /\ j + 1 \in 1 .. SpaceEnd /\ (j + 1) - 1 = j /\ j < j + 1
    BY <1>1, <1>3
<1>5. ch[j + 1] = Follow(ch[(j + 1) - 1])
    BY <1>4 DEF IsChain
<1>6. Follow(0) = 0
    BY DEF Follow
<1>7. ch[j + 1] = ch[j]
    BY <1>4, <1>5, <1>6
<1> QED BY <1>4, <1>7, PlacesDistinct

\* The walk's hops are enough to reach the first capability.
LEMMA HopsAreEnough ==
    ASSUME NEW P \in SUBSET Cell, SoundList(cells, P), NEW ch \in [0 .. SpaceEnd -> P],
           IsChain(ch), NEW k, FirstCapAt(ch, k)
    PROVE  k < MaxHops
<1>1. k \in Nat /\ k <= SpaceEnd /\ SpaceEnd \in Nat /\ MaxHops \in Nat
    BY SpaceAssumption DEF FirstCapAt
<1> SUFFICES ASSUME MaxHops <= k PROVE FALSE
    BY <1>1
<1> DEFINE f == [i \in 0 .. k |-> ch[i]]
<1>2. IsFiniteSet(P \ {0}) /\ Cardinality(P \ {0}) \in Nat
    <2>1. IsFiniteSet(Cell)
        BY <1>1, FS_Interval DEF Cell
    <2>2. P \ {0} \in SUBSET Cell
        OBVIOUS
    <2> QED BY <2>1, <2>2, FS_Subset, FS_CardinalityType
<1>3. IsFiniteSet(0 .. k) /\ Cardinality(0 .. k) = k + 1
    BY <1>1, FS_Interval
<1>4. Cardinality(P \ {0}) <= MaxHops
    BY DEF SoundList
<1>5. Cardinality(P \ {0}) < Cardinality(0 .. k)
    BY <1>1, <1>2, <1>3, <1>4
<1>6. f \in [0 .. k -> P \ {0}]
    BY <1>1, PlacesGoOn
<1>9. \A i \in 0 .. k : f[i] = ch[i]
    OBVIOUS
<1> HIDE DEF f
<1>7. \E i, j \in 0 .. k : i # j /\ f[i] = f[j]
    BY <1>2, <1>3, <1>5, <1>6, FS_PigeonHole
<1>8. PICK i \in 0 .. k, j \in 0 .. k : i # j /\ ch[i] = ch[j]
    BY <1>9, <1>7
<1> QED BY <1>1, <1>8, PlacesDistinct

-----------------------------------------------------------------------------
(* What the accesses of the walk have read, and what follows about cap.    *)

LEMMA ListCellFacts ==
    ASSUME NEW P \in SUBSET Cell
    PROVE  /\ StatusCell \in ListCells(P) /\ PtrCell \in ListCells(P)
           /\ \A p \in P : p \in 1 .. SpaceEnd - 2 =>
                p \in Readable(P) /\ p \in ListCells(P) /\ p + NextCell \in ListCells(P)
BY DEF ListCells, Readable

\* The registers of the list are the same: so are the chain and its capability.
LEMMA ListRests ==
    ASSUME NEW P \in SUBSET Cell, NEW ch \in [0 .. SpaceEnd -> P], ListInv(P, ch),
           cap' = cap, \A c \in ListCells(P) : cells'[c] = cells[c]
    PROVE  /\ ListInv(P, ch)'
           /\ \A k \in 0 .. SpaceEnd : IsPcieCap(ch[k])' <=> IsPcieCap(ch[k])
           /\ cells'[StatusCell] = cells[StatusCell]
<1>1. SpaceEnd \in Nat /\ cells'[StatusCell] = cells[StatusCell] /\ cells'[PtrCell] = cells[PtrCell]
    BY ListCellFacts, SpaceAssumption
<1>2. \A p \in P : Follow(p)' = Follow(p)
    BY ListCellFacts DEF Follow
<1>3. ASSUME NEW p \in P
      PROVE  IsPcieCap(p)' <=> IsPcieCap(p)
    <2>1. p \in 1 .. SpaceEnd - 4 => p \in 1 .. SpaceEnd - 2
        BY <1>1
    <2> QED BY <2>1, ListCellFacts DEF IsPcieCap
<1>4. \A k \in 0 .. SpaceEnd : IsPcieCap(ch[k])' <=> IsPcieCap(ch[k])
    BY <1>3
<1>5. SoundList(cells', P)
    <2>1. \A p \in Readable(P) : cells'[p] = cells[p] /\ cells'[p + NextCell] = cells[p + NextCell]
        BY DEF ListCells
    <2>2. SoundList(cells, P)
        BY DEF ListInv
    <2> QED BY <2>1, <2>2, <1>1 DEF SoundList
<1>6. IsChain(ch)'
    <2>1. IsChain(ch)
        BY DEF ListInv
    <2>2. \A k \in 1 .. SpaceEnd : ch[k - 1] \in P
        BY <1>1
    <2> QED BY <2>1, <2>2, <1>1, <1>2 DEF IsChain
<1>7. CapIsFirst(ch)'
    <2>1. CapIsFirst(ch)
        BY DEF ListInv
    <2>2. \A k \in 0 .. SpaceEnd : \A j \in 0 .. k - 1 : j \in 0 .. SpaceEnd
        BY <1>1
    <2> QED BY <2>1, <2>2, <1>1, <1>4 DEF CapIsFirst
<1> QED BY <1>1, <1>4, <1>5, <1>6, <1>7 DEF ListInv

\* The capability is the first one of the chain.
LEMMA CapIndex ==
    ASSUME NEW ch, CapIsFirst(ch), cap # 0
    PROVE  cells[StatusCell] # 0 /\ \E k \in 0 .. SpaceEnd : FirstCapAt(ch, k) /\ cap = ch[k]
BY DEF CapIsFirst, FirstCapAt

LEMMA CapOnList ==
    ASSUME NEW P \in SUBSET Cell, NEW ch \in [0 .. SpaceEnd -> P], ListInv(P, ch), cap # 0
    PROVE  cap \in P /\ cap + LnkSta \notin ListCells(P)
<1>1. cap \in P
    BY CapIndex DEF ListInv
<1>2. SoundList(cells, P)
    BY DEF ListInv
<1> QED BY <1>1, <1>2 DEF SoundList

\* A cell of the list that the call has read is the one the device has.
LEMMA ReadOfList ==
    ASSUME PlaceInv, CallInv, NEW P \in SUBSET Cell, NEW ch \in [0 .. SpaceEnd -> P],
           ListInv(P, ch), call.phase \in {"space", "hop"},
           NEW i \in 1 .. Len(io.got), io.start + i - 1 \in ListCells(P)
    PROVE  io.got[i] = cells[io.start + i - 1]
<1>1. Busy /\ call.op # "write"
    BY DEF CallInv, CallShape
<1>2. io.start + i - 1 \notin Volatile
    BY CapOnList DEF Volatile
<1>3. io.start + i - 1 \in Cell /\ io.got[i] = before[io.start + i - 1]
    BY <1>2 DEF PlaceInv, ReadInPlace
<1>4. cells[io.start + i - 1] = before[io.start + i - 1]
    BY <1>1, <1>2, <1>3 DEF PlaceInv, Untouched
<1> QED BY <1>3, <1>4

LEMMA GotTypes ==
    ASSUME PlaceInv, io.left = 0
    PROVE  /\ io.got \in Seq(Nat) /\ Len(io.got) \in Nat
           /\ call.phase = "space" => Len(io.got) = SpaceEnd
           /\ call.phase = "hop" => Len(io.got) = 2
           /\ call.phase \in {"lnkcap", "lnksta"} => Len(io.got) = 1
BY DEF PlaceInv, PlaceTypes, IoType, PhaseOK, Moved

LEMMA SpaceIsRead ==
    ASSUME PlaceInv, CallInv, NEW P \in SUBSET Cell, NEW ch \in [0 .. SpaceEnd -> P],
           ListInv(P, ch), Over("space")
    PROVE  /\ io.got[StatusCell + 1] = cells[StatusCell]
           /\ io.got[PtrCell + 1] = ch[0]
           /\ io.got[PtrCell + 1] \in Nat
           /\ cells[StatusCell] = 0 \/ ch[0] = 0 => cap = 0
<1>1. call.phase = "space" /\ io.left = 0
    BY DEF Over
<1>2. io.start = 0 /\ Len(io.got) = SpaceEnd /\ io.got \in Seq(Nat)
    BY <1>1, GotTypes DEF CallInv, Aimed
<1>3. StatusCell + 1 \in 1 .. Len(io.got) /\ PtrCell + 1 \in 1 .. Len(io.got)
    BY <1>2, SpaceAssumption DEF StatusCell, PtrCell, HeaderCells
<1>4. io.start + (StatusCell + 1) - 1 = StatusCell /\ io.start + (PtrCell + 1) - 1 = PtrCell
    BY <1>2 DEF StatusCell, PtrCell
<1>5. io.got[StatusCell + 1] = cells[StatusCell] /\ io.got[PtrCell + 1] = cells[PtrCell]
    <2>1. StatusCell \in ListCells(P) /\ PtrCell \in ListCells(P)
        BY ListCellFacts
    <2>2. \A i \in 1 .. Len(io.got) :
            io.start + i - 1 \in ListCells(P) => io.got[i] = cells[io.start + i - 1]
        BY <1>1, ReadOfList
    <2> HIDE DEF StatusCell, PtrCell
    <2> QED BY <1>3, <1>4, <2>1, <2>2, Zenon
<1>6. ch[0] = cells[PtrCell]
    BY DEF ListInv, IsChain
<1>7. ASSUME cap # 0
      PROVE  cells[StatusCell] # 0 /\ ch[0] # 0
    <2>1. PICK k \in 0 .. SpaceEnd : FirstCapAt(ch, k) /\ cap = ch[k]
        BY <1>7, CapIndex DEF ListInv
    <2>2. 0 \in 0 .. k
        BY SpaceAssumption
    <2> QED BY <1>7, <2>1, <2>2, CapIndex, PlacesGoOn DEF ListInv
<1>8. io.got[PtrCell + 1] \in Nat
    BY <1>2, <1>3
<1> QED BY <1>5, <1>6, <1>7, <1>8

\* The capability the walk looks at: where it lies and what it says.
LEMMA HopIsRead ==
    ASSUME PlaceInv, CallInv, NEW P \in SUBSET Cell, NEW ch \in [0 .. SpaceEnd -> P],
           ListInv(P, ch), OnTheWay(ch), Over("hop")
    PROVE  /\ call.ptr \in P /\ call.ptr \in 1 .. SpaceEnd - 2
           /\ call.hops \in 1 .. MaxHops /\ call.hops \in 1 .. SpaceEnd
           /\ io.got[1] = cells[call.ptr] /\ io.got[2] = ch[call.hops]
           /\ io.got[1] \in Nat /\ io.got[2] \in Nat
<1>1. call.phase = "hop" /\ io.left = 0
    BY DEF Over
<1>2. io.start = call.ptr /\ Len(io.got) = 2 /\ io.got \in Seq(Nat)
    BY <1>1, GotTypes DEF CallInv, Aimed
<1>3. /\ call.hops \in 1 .. MaxHops /\ call.ptr = ch[call.hops - 1] /\ call.ptr # 0
    BY <1>1 DEF OnTheWay
<1>4. SpaceEnd \in Nat /\ MaxHops \in 1 .. SpaceEnd
    BY SpaceAssumption
<1>5. call.hops \in 1 .. SpaceEnd /\ call.hops - 1 \in 0 .. SpaceEnd
    BY <1>3, <1>4
<1>6. call.ptr \in P /\ call.ptr \in Nat
    <2>1. ch[call.hops - 1] \in P
        BY <1>5
    <2>2. P \subseteq Nat
        BY <1>4 DEF Cell
    <2> QED BY <1>3, <2>1, <2>2
<1>7. 1 \in 1 .. Len(io.got) /\ 2 \in 1 .. Len(io.got)
    BY <1>2
<1>8. io.start + 2 - 1 \in Cell
    BY <1>7 DEF PlaceInv, ReadInPlace
<1>9. call.ptr \in 1 .. SpaceEnd - 2
    BY <1>2, <1>3, <1>4, <1>6, <1>8 DEF Cell
<1>10. call.ptr \in ListCells(P) /\ call.ptr + NextCell \in ListCells(P)
    BY <1>6, <1>9, ListCellFacts
<1>11. io.start + 1 - 1 = call.ptr /\ io.start + 2 - 1 = call.ptr + NextCell
    BY <1>2, <1>6 DEF NextCell
<1>12. io.got[1] = cells[call.ptr] /\ io.got[2] = cells[call.ptr + NextCell]
    BY <1>1, <1>7, <1>10, <1>11, ReadOfList
<1>13. ch[call.hops] = cells[call.ptr + NextCell]
    BY <1>3, <1>5, <1>9 DEF ListInv, IsChain, Follow
<1>14. io.got[1] \in Nat /\ io.got[2] \in Nat
    BY <1>2, <1>7
<1> QED BY <1>3, <1>5, <1>6, <1>9, <1>12, <1>13, <1>14

\* A capability with the right id is the first one of the list.
LEMMA HopFinds ==
    ASSUME PlaceInv, CallInv, NEW P \in SUBSET Cell, NEW ch \in [0 .. SpaceEnd -> P],
           ListInv(P, ch), OnTheWay(ch), Over("hop"), io.got[1] = PcieCapId
    PROVE  cap = call.ptr /\ cap # 0
<1> DEFINE h == call.hops - 1
<1>1. /\ call.ptr \in P /\ call.ptr \in 1 .. SpaceEnd - 2 /\ cells[call.ptr] = PcieCapId
      /\ call.hops \in 1 .. SpaceEnd
    BY HopIsRead
<1>2. call.ptr <= SpaceEnd - 4
    BY <1>1, ListCellFacts DEF ListInv, SoundList
<1>3. SpaceEnd \in Nat
    BY SpaceAssumption
<1>4. IsPcieCap(call.ptr)
    BY <1>1, <1>2, <1>3 DEF IsPcieCap
<1>5. /\ call.ptr = ch[h] /\ call.ptr # 0 /\ cells[StatusCell] # 0
      /\ \A j \in 0 .. call.hops - 2 : ~IsPcieCap(ch[j])
    BY DEF OnTheWay, Over
<1>6. h \in 0 .. SpaceEnd /\ h - 1 = call.hops - 2
    BY <1>1, <1>3
<1>7. cap # 0
    BY <1>4, <1>5, <1>6 DEF ListInv, CapIsFirst
<1>8. PICK k \in 0 .. SpaceEnd : FirstCapAt(ch, k) /\ cap = ch[k]
    BY <1>7, CapIndex DEF ListInv
<1>9. IsPcieCap(ch[k]) /\ \A j \in 0 .. k - 1 : ~IsPcieCap(ch[j])
    BY <1>8 DEF FirstCapAt
<1>10. k = h
    <2> HIDE DEF h
    <2>1. h \in 0 .. k - 1 \/ k \in 0 .. h - 1 \/ k = h
        BY <1>3, <1>6
    <2> QED BY <2>1, <1>4, <1>5, <1>6, <1>9
<1> QED BY <1>5, <1>7, <1>8, <1>10

\* A walk that ends without it passed by no PCIe capability.
LEMMA HopEnds ==
    ASSUME PlaceInv, CallInv, NEW P \in SUBSET Cell, NEW ch \in [0 .. SpaceEnd -> P],
           ListInv(P, ch), OnTheWay(ch), Over("hop"), io.got[1] # PcieCapId,
           io.got[2] = 0 \/ call.hops = MaxHops
    PROVE  cap = 0
<1> SUFFICES ASSUME cap # 0 PROVE FALSE
    OBVIOUS
<1>1. PICK k \in 0 .. SpaceEnd : FirstCapAt(ch, k) /\ cap = ch[k]
    BY CapIndex DEF ListInv
<1>2. /\ cells[call.ptr] # PcieCapId /\ call.hops \in 1 .. SpaceEnd
      /\ io.got[2] = ch[call.hops]
    BY HopIsRead
<1>3. call.ptr = ch[call.hops - 1] /\ \A j \in 0 .. call.hops - 2 : ~IsPcieCap(ch[j])
    BY DEF OnTheWay, Over
<1>4. ~IsPcieCap(ch[call.hops - 1])
    BY <1>2, <1>3 DEF IsPcieCap
<1>5. SpaceEnd \in Nat /\ k \in Nat /\ call.hops \in Nat
    BY <1>2, SpaceAssumption
<1>6. IsPcieCap(ch[k])
    BY <1>1 DEF FirstCapAt
<1>7. k \notin 0 .. call.hops - 2 /\ k # call.hops - 1
    BY <1>3, <1>4, <1>6
<1>8. k >= call.hops
    BY <1>2, <1>5, <1>7
<1>9. CASE io.got[2] = 0
    <2>1. call.hops \in 0 .. k
        BY <1>5, <1>8
    <2> QED BY <1>1, <1>2, <1>9, <2>1, PlacesGoOn DEF ListInv
<1>10. CASE call.hops = MaxHops
    <2>1. k < MaxHops
        BY <1>1, HopsAreEnough DEF ListInv
    <2> QED BY <1>5, <1>8, <1>10, <2>1
<1> QED BY <1>9, <1>10

-----------------------------------------------------------------------------
(* The steps of a call and of the device, for the three parts.             *)

Walked == CallInv /\ WalkInv /\ AnswerInv

LEMMA LinkIsNat ==
    ASSUME PlaceInv, CallInv
    PROVE  LinkNow \subseteq Nat
BY DEF PlaceInv, PlaceTypes, CallInv, LinkKnown, LinkNow

\* A step that leaves the config space alone and visits no capability.
LEMMA WalkRests ==
    ASSUME WalkInv, UNCHANGED <<cells, cap>>, call' = call \/ call'.phase # "hop"
    PROVE  WalkInv'
<1>0. PICK P \in SUBSET Cell : \E ch \in [0 .. SpaceEnd -> P] : ListInv(P, ch) /\ OnTheWay(ch)
    BY DEF WalkInv
<1>1. PICK ch \in [0 .. SpaceEnd -> P] : ListInv(P, ch) /\ OnTheWay(ch)
    BY <1>0
<1>2. ListInv(P, ch)' /\ \A k \in 0 .. SpaceEnd : IsPcieCap(ch[k])' <=> IsPcieCap(ch[k])
    BY <1>1, ListRests
<1>3. OnTheWay(ch)'
    BY <1>1 DEF OnTheWay, IsPcieCap
<1> QED BY <1>2, <1>3 DEF WalkInv

\* The property of device info, and that of the link check, speak of a call
\* that is over.
LEMMA AnswerRests ==
    ASSUME AnswerInv, reply' = reply, (Busy' \/ UNCHANGED <<call, cap, failed, seen>>)
    PROVE  AnswerInv'
BY DEF AnswerInv, CapabilityIsThere, VerdictWasTrue, Busy

LEMMA AnswerAtNone ==
    ASSUME reply' = NoReply
    PROVE  AnswerInv'
BY DEF AnswerInv, CapabilityIsThere, VerdictWasTrue, NoReply

LEMMA WalkedRests ==
    ASSUME Walked, UNCHANGED <<cells, call, io, reply, cap, seen, failed>>
    PROVE  Walked'
<1>1. CallInv'
    BY DEF Walked, CallInv, CallShape, Aimed, LinkKnown, Busy, LinkNow
<1> QED BY <1>1, WalkRests, AnswerRests DEF Walked

LEMMA WalkedAtNoReply ==
    ASSUME Walked, UNCHANGED <<cells, call, io, cap, seen, failed>>, reply' = NoReply
    PROVE  Walked'
<1>1. CallInv'
    BY DEF Walked, CallInv, CallShape, Aimed, LinkKnown, Busy, LinkNow
<1> QED BY <1>1, WalkRests, AnswerAtNone DEF Walked

LEMMA WalkedStart == Init => Walked
<1> SUFFICES ASSUME Init
             PROVE  Walked
    OBVIOUS
<1>1. /\ cells \in Device /\ call = Idle /\ io = NoIo /\ reply = NoReply
      /\ cap = PcieCap /\ seen = LinkNow
    BY DEF Init, PciInit
<1>2. /\ SpaceEnd \in Nat /\ SpaceEnd >= 5 /\ cells \in [Cell -> Nat]
      /\ MaxHops \in Nat
    BY <1>1, SpaceAssumption DEF HeaderCells, PtrCell
<1>3. PICK P \in SUBSET Cell : SoundList(cells, P)
    BY <1>1, ListAssumption
<1>4. Chain \in [0 .. SpaceEnd -> P] /\ IsChain(Chain)
    BY <1>3, ChainIsThere
<1> DEFINE on == {k \in 0 .. SpaceEnd : IsPcieCap(Chain[k])}
<1>5. cap = IF cells[StatusCell] = 0 \/ on = {} THEN 0
            ELSE Chain[CHOOSE k \in on : \A j \in on : k <= j]
    <2>1. DOMAIN Chain = 0 .. SpaceEnd
        BY <1>4
    <2> QED BY <1>1, <2>1 DEF PcieCap, IsPcieCap
<1>6. CapIsFirst(Chain) /\ cap \in Cell /\ cap + LnkSta \in Cell
    <2>1. CASE cells[StatusCell] = 0 \/ on = {}
        <3>1. cap = 0
            BY <1>5, <2>1
        <3> QED BY <1>2, <2>1, <3>1 DEF CapIsFirst, Cell, LnkSta
    <2>2. CASE cells[StatusCell] # 0 /\ on # {}
        <3> DEFINE k == CHOOSE n \in on : \A j \in on : n <= j
        <3>1. on \subseteq Nat
            BY <1>2
        <3>2. \E n \in on : \A j \in on : n <= j
            BY <2>2, <3>1, LeastNat
        <3>3. k \in on /\ \A j \in on : k <= j
            BY <3>2
        <3>4. cap = Chain[k]
            BY <1>5, <2>2
        <3> HIDE DEF k
        <3>5. k \in 0 .. SpaceEnd /\ k \in Nat /\ IsPcieCap(Chain[k])
            BY <1>2, <3>3
        <3>6. \A j \in 0 .. k - 1 : ~IsPcieCap(Chain[j])
            <4> SUFFICES ASSUME NEW j \in 0 .. k - 1, IsPcieCap(Chain[j])
                         PROVE  FALSE
                OBVIOUS
            <4>1. j \in on
                BY <1>2, <3>5
            <4> QED BY <1>2, <3>3, <3>5, <4>1
        <3>7. cap \in 1 .. SpaceEnd - 4
            BY <3>4, <3>5 DEF IsPcieCap
        <3> QED BY SMTT(30), <1>2, <2>2, <3>4, <3>5, <3>6, <3>7 DEF CapIsFirst, Cell, LnkSta
    <2> QED BY <2>1, <2>2
<1>7. WalkInv
    <2>1. OnTheWay(Chain)
        BY <1>1 DEF OnTheWay, Idle
    <2> QED BY <1>3, <1>4, <1>6, <2>1 DEF WalkInv, ListInv
<1>8. CallInv
    <2>1. LinkNow \subseteq Nat
        BY <1>2, <1>6 DEF LinkNow
    <2> QED BY <1>1, <1>2, <1>6, <2>1 DEF CallInv, CallShape, Aimed, LinkKnown, Idle, Busy
<1>9. AnswerInv
    BY <1>1 DEF AnswerInv, CapabilityIsThere, VerdictWasTrue, NoReply
<1> QED BY <1>7, <1>8, <1>9 DEF Walked

\* A call begins.
LEMMA WalkedAtBegin ==
    ASSUME PlaceInv, Walked,
           NEW op \in {"write", "read", "info", "status", "check"},
           NEW phase \in {"transfer", "ids", "space"}, NEW target,
           phase = "ids" => op = "info", phase = "space" => op \in {"info", "status", "check"},
           phase = "transfer" => op \in {"write", "read"},
           Begin(op, phase, target),
           NEW off, NEW len, NEW put, Access(off, len, put), phase = "space" => off = 0
    PROVE  Walked'
<1>1. /\ call' = [op |-> op, phase |-> phase, ptr |-> 0, hops |-> 0, word |-> 0,
                  target |-> target]
      /\ seen' = LinkNow /\ UNCHANGED <<cells, cap, reply>>
    BY DEF Begin, Idle
<1>2. io' = [open |-> FALSE, start |-> off, off |-> off, left |-> len, got |-> <<>>, put |-> put]
    BY DEF Access, NoIo
<1>3. CallShape'
    BY <1>1, SpaceAssumption DEF CallShape, Busy
<1>4. Aimed'
    BY <1>1, <1>2 DEF Aimed
<1>5. LinkKnown'
    <2>1. LinkNow' = LinkNow
        BY <1>1 DEF LinkNow
    <2>2. call'.phase # "lnksta"
        BY <1>1
    <2> QED BY <1>1, <2>1, <2>2, LinkIsNat DEF Walked, CallInv, LinkKnown
<1>6. WalkInv'
    BY <1>1, WalkRests DEF Walked
<1>7. AnswerInv'
    BY <1>1, AnswerRests DEF Walked, Busy
<1> QED BY <1>3, <1>4, <1>5, <1>6, <1>7 DEF Walked, CallInv

LEMMA WalkedAtRefuse ==
    ASSUME PlaceInv, Walked, ~Busy, NEW op \in {"write", "read", "other"}, Refuse(op)
    PROVE  Walked'
<1>1. /\ reply' = [NoReply EXCEPT !.op = op, !.rc = -1] /\ seen' = LinkNow
      /\ UNCHANGED <<cells, cap, call, io>>
    BY DEF Refuse
<1>2. CallInv'
    <2>1. LinkNow' = LinkNow /\ ~Busy' /\ call.phase = "idle"
        BY <1>1 DEF LinkNow, Busy, Walked, CallInv, CallShape
    <2> QED BY <1>1, <2>1, LinkIsNat
        DEF Walked, CallInv, CallShape, Aimed, LinkKnown, Busy
<1>3. reply'.op = op /\ reply'.rc = -1
    BY <1>1 DEF NoReply
<1>4. AnswerInv'
    BY <1>3 DEF AnswerInv, CapabilityIsThere, VerdictWasTrue
<1> QED BY <1>1, <1>2, <1>4, WalkRests DEF Walked

\* A call is over: what is to be shown of its answer.
LEMMA WalkedAtReply ==
    ASSUME PlaceInv, Walked, call' = Idle, io' = NoIo, UNCHANGED <<cells, cap, seen>>,
           AnswerInv'
    PROVE  Walked'
<1>1. CallInv'
    <2>1. LinkNow' = LinkNow
        BY DEF LinkNow
    <2> QED BY <2>1, SpaceAssumption
        DEF Walked, CallInv, CallShape, Aimed, LinkKnown, Busy, Idle
<1>2. call'.phase # "hop"
    BY DEF Idle
<1> QED BY <1>1, <1>2, WalkRests DEF Walked

\* An answer without a capability and without a pass.
LEMMA AnswerIsPlain ==
    ASSUME NEW rc \in {0, -1}, Reply([NoReply EXCEPT !.rc = rc]),
           call.op = "info" /\ rc = 0 => cap = 0 \/ failed',
           call.op = "check" => rc = -1
    PROVE  AnswerInv' /\ call' = Idle /\ io' = NoIo /\ UNCHANGED <<cells, cap, seen>>
<1>1. /\ reply' = [[NoReply EXCEPT !.rc = rc] EXCEPT !.op = call.op, !.target = call.target]
      /\ call' = Idle /\ io' = NoIo /\ UNCHANGED <<cells, cap, seen>>
    BY DEF Reply
<1>2. reply' = [op |-> call.op, rc |-> rc, has |-> FALSE, status |-> NoStatus, pass |-> FALSE,
                target |-> call.target]
    BY <1>1 DEF NoReply
<1>3. reply'.op = call.op /\ reply'.rc = rc /\ reply'.has = FALSE /\ reply'.pass = FALSE
    BY <1>2
<1>4. CapabilityIsThere'
    BY <1>1, <1>3 DEF CapabilityIsThere
<1>5. VerdictWasTrue'
    BY <1>3 DEF VerdictWasTrue
<1> QED BY <1>1, <1>3, <1>4, <1>5 DEF AnswerInv

LEMMA WalkedAtNoCapability ==
    ASSUME PlaceInv, Walked, NoCapability, call.op = "info" => cap = 0 \/ failed'
    PROVE  Walked'
<1>1. CASE call.op = "info"
    <2>1. Reply([NoReply EXCEPT !.rc = 0])
        BY <1>1 DEF NoCapability
    <2>2. /\ AnswerInv' /\ call' = Idle /\ io' = NoIo /\ UNCHANGED <<cells, cap, seen>>
        BY <1>1, <2>1, AnswerIsPlain
    <2> QED BY <2>2, WalkedAtReply
<1>2. CASE call.op # "info"
    <2>1. Reply([NoReply EXCEPT !.rc = -1])
        BY <1>2 DEF NoCapability
    <2>2. /\ AnswerInv' /\ call' = Idle /\ io' = NoIo /\ UNCHANGED <<cells, cap, seen>>
        BY <1>2, <2>1, AnswerIsPlain
    <2> QED BY <2>2, WalkedAtReply
<1> QED BY <1>1, <1>2

LEMMA WalkedAtFailure ==
    ASSUME PlaceInv, Walked, Reply([NoReply EXCEPT !.rc = -1])
    PROVE  Walked'
<1>1. /\ AnswerInv' /\ call' = Idle /\ io' = NoIo /\ UNCHANGED <<cells, cap, seen>>
    BY AnswerIsPlain
<1> QED BY <1>1, WalkedAtReply

LEMMA WalkedAtFails ==
    ASSUME PlaceInv, Walked, AccessFails
    PROVE  Walked'
<1>1. failed'
    BY DEF AccessFails
<1>2. NoCapability \/ Reply([NoReply EXCEPT !.rc = -1])
    BY DEF AccessFails
<1> QED BY <1>1, <1>2, WalkedAtNoCapability, WalkedAtFailure

LEMMA ListInSpace ==
    ASSUME NEW P \in SUBSET Cell, NEW c \in ListCells(P)
    PROVE  c \in Cell
<1>1. SpaceEnd \in Nat /\ SpaceEnd >= 5
    BY SpaceAssumption DEF HeaderCells, PtrCell
<1> QED BY <1>1 DEF ListCells, Readable, Cell, StatusCell, PtrCell, NextCell

\* A step that changes no cell of the list, in the middle of a call or not.
LEMMA WalkKeeps ==
    ASSUME WalkInv, UNCHANGED <<call, cap>>,
           \A P \in SUBSET Cell : \A ch \in [0 .. SpaceEnd -> P] :
              ListInv(P, ch) => \A c \in ListCells(P) : cells'[c] = cells[c]
    PROVE  WalkInv'
<1>0. PICK P \in SUBSET Cell : \E ch \in [0 .. SpaceEnd -> P] : ListInv(P, ch) /\ OnTheWay(ch)
    BY DEF WalkInv
<1>1. PICK ch \in [0 .. SpaceEnd -> P] : ListInv(P, ch) /\ OnTheWay(ch)
    BY <1>0
<1>2. /\ ListInv(P, ch)' /\ cells'[StatusCell] = cells[StatusCell]
      /\ \A k \in 0 .. SpaceEnd : IsPcieCap(ch[k])' <=> IsPcieCap(ch[k])
    BY <1>1, ListRests
<1>3. OnTheWay(ch)'
    <2>1. \A h \in 1 .. MaxHops : \A j \in 0 .. h - 2 : j \in 0 .. SpaceEnd
        BY SpaceAssumption
    <2> QED BY <1>1, <1>2, <2>1 DEF OnTheWay
<1> QED BY <1>2, <1>3 DEF WalkInv

LEMMA WalkedAtRetrain ==
    ASSUME PlaceInv, Walked, Retrain
    PROVE  Walked'
<1>1. PICK w \in LinkWord : cells' = [cells EXCEPT ![cap + LnkSta] = w]
    BY DEF Retrain
<1>2. /\ cap # 0 /\ seen' = seen \union {cells'[cap + LnkSta]}
      /\ UNCHANGED <<call, io, reply, cap, failed>>
    BY DEF Retrain
<1>3. cells \in [Cell -> Nat] /\ cap + LnkSta \in Cell /\ w \in Nat
    BY SpaceAssumption DEF PlaceInv, PlaceTypes, Walked, CallInv, LinkKnown
<1>4. cells'[cap + LnkSta] \in Nat /\ LinkNow' = {cells'[cap + LnkSta]}
    BY <1>1, <1>2, <1>3 DEF LinkNow
<1>5. CallInv'
    BY <1>2, <1>4 DEF Walked, CallInv, CallShape, Aimed, LinkKnown, Busy
<1>6. WalkInv'
    <2>1. ASSUME NEW P \in SUBSET Cell, NEW ch \in [0 .. SpaceEnd -> P], ListInv(P, ch),
                 NEW c \in ListCells(P)
          PROVE  cells'[c] = cells[c]
        <3>1. c # cap + LnkSta
            BY <1>2, <2>1, CapOnList
        <3>2. c \in Cell
            BY ListInSpace
        <3> QED BY <1>1, <1>3, <3>1, <3>2
    <2> QED BY <1>2, <2>1, WalkKeeps DEF Walked
<1>7. AnswerInv'
    BY <1>2 DEF Walked, AnswerInv, CapabilityIsThere, VerdictWasTrue, Busy
<1> QED BY <1>5, <1>6, <1>7 DEF Walked

LEMMA WalkedAtOpen ==
    ASSUME PlaceInv, Walked, OpenConfig
    PROVE  Walked'
<1>1. /\ Busy /\ io' = [io EXCEPT !.open = TRUE] /\ UNCHANGED <<cells, call, reply, cap, seen, failed>>
    BY DEF OpenConfig
<1>2. io'.start = io.start /\ io'.left = io.left /\ io'.got = io.got
    BY <1>1 DEF PlaceInv, PlaceTypes, IoType
<1>3. CallInv'
    BY <1>1, <1>2 DEF Walked, CallInv, CallShape, Aimed, LinkKnown, Busy, LinkNow
<1> QED BY <1>1, <1>3, WalkRests, AnswerRests DEF Walked

LEMMA OneCell ==
    ASSUME NEW c
    PROVE  (<<>> \o [i \in 1 .. 1 |-> c])[1] = c
OBVIOUS

LEMMA WalkedAtTransfer ==
    ASSUME PlaceInv, Walked, NEW n \in Int, Transfer(n)
    PROVE  Walked'
<1>1. /\ io \in IoType /\ cells \in [Cell -> Nat]
    BY DEF PlaceInv, PlaceTypes
<1>2. /\ io.got \in Seq(Nat) /\ io.put \in Seq(Nat)
      /\ io.start \in Nat /\ io.off \in Nat /\ io.left \in Nat
    BY <1>1 DEF IoType
<1>3. io.open /\ n \in 1 .. io.left /\ UNCHANGED <<call, reply, cap, seen, failed>>
    BY DEF Transfer
<1>4. Busy
    BY <1>3 DEF PlaceInv, PhaseOK, NoIo
<1>5. call.op = "write" <=> io.put # <<>>
    BY DEF PlaceInv, AtNext
<1>6. call.op # "write" => cells' = cells
    <2>1. call.op # "write" => cells' = [c \in Cell |-> cells[c]]
        BY <1>5 DEF Transfer
    <2> QED BY <2>1, <1>1
<1>7. /\ io' = [io EXCEPT !.left = @ - n, !.off = @ + n,
                  !.got = IF io.put = <<>> THEN @ \o [i \in 1 .. n |-> cells[io.off + i - 1]] ELSE @]
    BY DEF Transfer
<1>8. /\ io'.start = io.start /\ io'.left = io.left - n
      /\ io.put = <<>> => io'.got = io.got \o [i \in 1 .. n |-> cells[io.off + i - 1]]
    BY <1>1, <1>7 DEF IoType
<1>9. WalkInv'
    <2>1. ASSUME NEW P \in SUBSET Cell, NEW ch \in [0 .. SpaceEnd -> P], ListInv(P, ch),
                 NEW c \in ListCells(P)
          PROVE  cells'[c] = cells[c]
        <3>1. c \in Cell
            BY ListInSpace
        <3>2. c \notin Writable
            BY <2>1 DEF ListInv, SoundList
        <3> QED BY <3>1, <3>2 DEF Transfer
    <2> QED BY <1>3, <2>1, WalkKeeps DEF Walked
<1>10. CallInv'
    <2>1. CallShape' /\ Aimed'
        BY <1>3, <1>8 DEF Walked, CallInv, CallShape, Aimed, Busy
    <2>2. cap \in Cell /\ cap + LnkSta \in Cell /\ seen \subseteq Nat
        BY DEF Walked, CallInv, LinkKnown
    <2>3. call.op # "write" => LinkNow' \subseteq seen /\ LinkNow \subseteq seen
        BY <1>3, <1>4, <1>6 DEF Walked, CallInv, LinkKnown, LinkNow
    <2>4. ASSUME call.phase = "lnksta", io'.left = 0
          PROVE  io'.got[1] \in seen
        <3>1. call.op # "write" /\ call.ptr = cap /\ cap # 0 /\ io.start = call.ptr + LnkSta
            BY <2>4 DEF Walked, CallInv, CallShape, Aimed
        <3>2. Len(io.got) + io.left = 1
            BY <2>4 DEF PlaceInv, PhaseOK, Moved
        <3>3. Len(io.got) = 0 /\ n = 1
            BY <1>2, <1>3, <3>2
        <3>4. io.got = <<>> /\ io.put = <<>>
            BY <1>2, <1>5, <3>1, <3>3
        <3>5. io.off = cap + LnkSta
            BY <2>2, <3>1, <3>3, <3>4 DEF PlaceInv, AtNext, Cell
        <3>6. io'.got = <<>> \o [i \in 1 .. 1 |-> cells[io.off + i - 1]]
            BY <1>8, <3>3, <3>4
        <3>7. [i \in 1 .. 1 |-> cells[io.off + i - 1]] = [i \in 1 .. 1 |-> cells[io.off]]
            <4>1. \A i \in 1 .. 1 : io.off + i - 1 = io.off
                BY <1>2
            <4> QED BY <4>1
        <3>8. io'.got[1] = cells[cap + LnkSta]
            BY <3>5, <3>6, <3>7, OneCell
        <3> QED BY <2>3, <3>1, <3>8 DEF LinkNow
    <2>5. LinkKnown'
        BY <1>3, <1>4, <2>2, <2>3, <2>4 DEF LinkKnown, Busy
    <2> QED BY <2>1, <2>5 DEF CallInv
<1>11. AnswerInv'
    BY <1>3, AnswerRests DEF Walked
<1> QED BY <1>9, <1>10, <1>11 DEF Walked

\* A call goes on with another read.
LEMMA WalkedAtAccess ==
    ASSUME PlaceInv, Walked, Busy, call.op # "write", UNCHANGED <<cells, reply, cap, seen>>,
           call'.op = call.op, CallShape', Aimed', WalkInv',
           call'.phase = "lnksta" => io'.left = 1
    PROVE  Walked'
<1>1. LinkNow' = LinkNow /\ Busy'
    BY DEF LinkNow, Busy
<1>2. LinkKnown'
    BY <1>1 DEF Walked, CallInv, LinkKnown
<1>3. AnswerInv'
    BY <1>1, AnswerRests DEF Walked
<1> QED BY <1>2, <1>3 DEF Walked, CallInv

LEMMA AccessFields ==
    ASSUME NEW off, NEW len, Access(off, len, <<>>)
    PROVE  io'.start = off /\ io'.left = len
BY DEF Access, NoIo

LEMMA WalkedAtIds ==
    ASSUME PlaceInv, Walked, IdsOver
    PROVE  Walked'
<1>1. /\ call' = [call EXCEPT !.phase = "space"] /\ Access(0, SpaceEnd, <<>>)
      /\ UNCHANGED <<cells, cap, reply, seen>> /\ Busy /\ call.phase = "ids"
    BY DEF IdsOver, Over
<1>2. call \in CallType
    BY DEF PlaceInv, PlaceTypes
<1>3. call'.phase = "space" /\ call'.op = call.op /\ call'.hops = call.hops
    BY <1>1, <1>2 DEF CallType
<1>4. call.op = "info" /\ CallShape'
    BY <1>1, <1>3 DEF Walked, CallInv, CallShape, Busy
<1>5. Aimed'
    BY <1>1, <1>3, AccessFields DEF Aimed
<1>6. WalkInv'
    BY <1>1, <1>3, WalkRests DEF Walked
<1> QED BY <1>1, <1>3, <1>4, <1>5, <1>6, WalkedAtAccess

LEMMA WalkedAtSpace ==
    ASSUME PlaceInv, Walked, SpaceOver
    PROVE  Walked'
<1>0. PICK P \in SUBSET Cell : \E ch \in [0 .. SpaceEnd -> P] : ListInv(P, ch) /\ OnTheWay(ch)
    BY DEF Walked, WalkInv
<1>1. PICK ch \in [0 .. SpaceEnd -> P] : ListInv(P, ch) /\ OnTheWay(ch)
    BY <1>0
<1>2. Over("space") /\ Busy /\ call.phase = "space"
    BY DEF SpaceOver, Over
<1>3. /\ io.got[StatusCell + 1] = cells[StatusCell] /\ io.got[PtrCell + 1] = ch[0]
      /\ cells[StatusCell] = 0 \/ ch[0] = 0 => cap = 0
    BY <1>1, <1>2, SpaceIsRead DEF Walked
<1>4. CASE cells[StatusCell] = 0 \/ ch[0] = 0
    <2>1. NoCapability
        BY <1>3, <1>4 DEF SpaceOver
    <2> QED BY <1>3, <1>4, <2>1, WalkedAtNoCapability
<1>5. CASE ~(cells[StatusCell] = 0 \/ ch[0] = 0)
    <2>1. Visit(ch[0], 1)
        BY <1>3, <1>5 DEF SpaceOver
    <2>2. /\ call' = [call EXCEPT !.phase = "hop", !.ptr = ch[0], !.hops = 1]
          /\ Access(ch[0], 2, <<>>) /\ UNCHANGED <<cells, cap, reply, seen>>
        BY <2>1 DEF Visit
    <2>3. call'.phase = "hop" /\ call'.op = call.op /\ call'.hops = 1 /\ call'.ptr = ch[0]
        <3>1. call \in CallType
            BY DEF PlaceInv, PlaceTypes
        <3> QED BY <2>2, <3>1 DEF CallType
    <2>4. call.op \in {"info", "status", "check"} /\ MaxHops \in Nat /\ MaxHops >= 1
        BY <1>2, SpaceAssumption DEF Walked, CallInv, CallShape
    <2>5. CallShape'
        BY <2>3, <2>4 DEF CallShape, Busy
    <2>6. Aimed'
        BY <2>2, <2>3, AccessFields DEF Aimed
    <2>7. WalkInv'
        <3>1. ListInv(P, ch)' /\ cells'[StatusCell] = cells[StatusCell]
            BY <1>1, <2>2, ListRests
        <3>2. OnTheWay(ch)'
            BY <1>5, <2>3, <2>4, <3>1 DEF OnTheWay
        <3> QED BY <3>1, <3>2 DEF WalkInv
    <2> QED BY <1>2, <2>2, <2>3, <2>4, <2>5, <2>6, <2>7, WalkedAtAccess
<1> QED BY <1>4, <1>5

LEMMA WalkedAtHop ==
    ASSUME PlaceInv, Walked, HopOver
    PROVE  Walked'
<1>0. PICK P \in SUBSET Cell : \E ch \in [0 .. SpaceEnd -> P] : ListInv(P, ch) /\ OnTheWay(ch)
    BY DEF Walked, WalkInv
<1>1. PICK ch \in [0 .. SpaceEnd -> P] : ListInv(P, ch) /\ OnTheWay(ch)
    BY <1>0
<1>2. Over("hop") /\ Busy /\ call.phase = "hop" /\ CallInv
    BY DEF HopOver, Over, Walked
<1>3. call.op \in {"info", "status", "check"} /\ call \in CallType
    BY <1>2 DEF CallInv, CallShape, PlaceInv, PlaceTypes
<1>4. CASE io.got[1] = PcieCapId /\ call.op = "info"
    <2>1. Reply([NoReply EXCEPT !.has = TRUE])
        BY <1>4 DEF HopOver, Found
    <2>2. /\ reply' = [[NoReply EXCEPT !.has = TRUE] EXCEPT !.op = call.op, !.target = call.target]
          /\ call' = Idle /\ io' = NoIo /\ UNCHANGED <<cells, cap, seen>>
        BY <2>1 DEF Reply
    <2>3. reply'.op = "info" /\ reply'.has = TRUE /\ reply'.rc = 0
        BY <1>4, <2>2 DEF NoReply
    <2>4. cap' # 0
        BY <1>1, <1>2, <1>4, <2>2, HopFinds
    <2>5. AnswerInv'
        BY <2>3, <2>4 DEF AnswerInv, CapabilityIsThere, VerdictWasTrue
    <2> QED BY <2>2, <2>5, WalkedAtReply
<1>5. CASE io.got[1] = PcieCapId /\ call.op # "info"
    <2>1. /\ call' = [call EXCEPT !.phase = "lnkcap"] /\ UNCHANGED <<cells, cap, reply, seen>>
          /\ Access(call.ptr + LnkCap, 1, <<>>)
        BY <1>5 DEF HopOver, Found
    <2>2. call'.phase = "lnkcap" /\ call'.op = call.op /\ call'.ptr = call.ptr /\ call'.hops = call.hops
        BY <1>3, <2>1 DEF CallType
    <2>3. cap = call.ptr /\ cap # 0
        BY <1>1, <1>2, <1>5, HopFinds
    <2>4. CallShape'
        BY <1>2, <1>3, <1>5, <2>1, <2>2, <2>3 DEF CallInv, CallShape, Busy
    <2>5. Aimed'
        BY <2>2 DEF Aimed
    <2>6. WalkInv'
        BY <2>1, <2>2, WalkRests DEF Walked
    <2> QED BY <1>2, <1>3, <2>1, <2>2, <2>4, <2>5, <2>6, WalkedAtAccess
<1>6. CASE io.got[1] # PcieCapId /\ (io.got[2] = 0 \/ call.hops = MaxHops)
    <2>1. NoCapability
        BY <1>6 DEF HopOver
    <2>2. cap = 0
        BY <1>1, <1>2, <1>6, HopEnds
    <2> QED BY <2>1, <2>2, WalkedAtNoCapability
<1>7. CASE io.got[1] # PcieCapId /\ io.got[2] # 0 /\ call.hops # MaxHops
    <2>1. Visit(io.got[2], call.hops + 1)
        BY <1>7 DEF HopOver
    <2>2. /\ call' = [call EXCEPT !.phase = "hop", !.ptr = io.got[2], !.hops = call.hops + 1]
          /\ Access(io.got[2], 2, <<>>) /\ UNCHANGED <<cells, cap, reply, seen>>
        BY <2>1 DEF Visit
    <2>3. /\ call'.phase = "hop" /\ call'.op = call.op /\ call'.hops = call.hops + 1
          /\ call'.ptr = io.got[2]
        BY <1>3, <2>2 DEF CallType
    <2>4. /\ call.hops \in 1 .. MaxHops /\ call.hops \in 1 .. SpaceEnd /\ io.got[2] = ch[call.hops]
          /\ io.got[1] = cells[call.ptr]
        BY <1>1, <1>2, HopIsRead
    <2>5. SpaceEnd \in Nat /\ MaxHops \in Nat
        BY SpaceAssumption
    <2>6. CallShape'
        BY <1>3, <1>7, <2>3, <2>4, <2>5 DEF CallShape, Busy
    <2>7. Aimed'
        BY <2>2, <2>3, AccessFields DEF Aimed
    <2>8. WalkInv'
        <3>1. /\ ListInv(P, ch)' /\ cells'[StatusCell] = cells[StatusCell]
              /\ \A k \in 0 .. SpaceEnd : IsPcieCap(ch[k])' <=> IsPcieCap(ch[k])
            BY <1>1, <2>2, ListRests
        <3>2. /\ cells[StatusCell] # 0 /\ call.ptr = ch[call.hops - 1]
              /\ \A j \in 0 .. call.hops - 2 : ~IsPcieCap(ch[j])
            BY <1>1, <1>2 DEF OnTheWay
        <3>3. ~IsPcieCap(ch[call.hops - 1])
            BY <1>7, <2>4, <3>2 DEF IsPcieCap
        <3>4. ASSUME NEW j \in 0 .. call'.hops - 2
              PROVE  ~IsPcieCap(ch[j])'
            <4>1. j \in 0 .. SpaceEnd /\ (j \in 0 .. call.hops - 2 \/ j = call.hops - 1)
                BY <2>3, <2>4, <2>5
            <4> QED BY <3>1, <3>2, <3>3, <4>1
        <3>5. call'.hops \in 1 .. MaxHops /\ call'.ptr = ch[call'.hops - 1] /\ call'.ptr # 0
            BY <1>7, <2>3, <2>4, <2>5
        <3>6. OnTheWay(ch)'
            BY <3>1, <3>2, <3>4, <3>5 DEF OnTheWay
        <3> QED BY <3>1, <3>6 DEF WalkInv
    <2> QED BY <1>2, <1>3, <2>2, <2>3, <2>6, <2>7, <2>8, WalkedAtAccess
<1> QED BY <1>4, <1>5, <1>6, <1>7

LEMMA WalkedAtLnkCap ==
    ASSUME PlaceInv, Walked, LnkCapOver
    PROVE  Walked'
<1>1. /\ call' = [call EXCEPT !.phase = "lnksta", !.word = io.got[1]]
      /\ Access(call.ptr + LnkSta, 1, <<>>)
      /\ UNCHANGED <<cells, cap, reply, seen>> /\ Busy /\ call.phase = "lnkcap"
    BY DEF LnkCapOver, Over
<1>2. call \in CallType
    BY DEF PlaceInv, PlaceTypes
<1>3. call'.phase = "lnksta" /\ call'.op = call.op /\ call'.hops = call.hops /\ call'.ptr = call.ptr
    BY <1>1, <1>2 DEF CallType
<1>4. call.op \in {"status", "check"} /\ CallShape'
    BY <1>1, <1>3 DEF Walked, CallInv, CallShape, Busy
<1>5. Aimed' /\ io'.left = 1
    BY <1>1, <1>3, AccessFields DEF Aimed
<1>6. WalkInv'
    BY <1>1, <1>3, WalkRests DEF Walked
<1> QED BY <1>1, <1>3, <1>4, <1>5, <1>6, WalkedAtAccess

\* A link of a known speed meets a target when its word says so.
LEMMA WordDecides ==
    ASSUME NEW w \in Nat, NEW m, NEW t \in Wanted, StatusOf(m, w).negGen # UnknownGen
    PROVE  MeetsTarget(StatusOf(m, w), t)
             <=> w % 16 >= t.gen /\ (w \div 16) % 64 >= t.width
<1>1. t.gen \in Nat /\ t.width \in Nat
    BY DEF Wanted
<1>2. StatusOf(m, w).negGen = GenFromCode(w % 16) /\ StatusOf(m, w).negWidth = (w \div 16) % 64
    BY DEF StatusOf
<1>3. PICK g \in Nat : g = w % 16
    OBVIOUS
<1>4. PICK x \in Nat : x = (w \div 16) % 64
    OBVIOUS
<1>5. StatusOf(m, w).negGen = g /\ g # 0
    BY <1>2, <1>3 DEF GenFromCode, UnknownGen
<1>6. /\ (t.gen # 0 => g >= t.gen) <=> g >= t.gen
      /\ (t.width > 0 => x >= t.width) <=> x >= t.width
    BY <1>1, <1>3, <1>4
<1> QED BY <1>2, <1>3, <1>4, <1>5, <1>6 DEF MeetsTarget, UnknownGen

LEMMA WalkedAtLnkSta ==
    ASSUME PlaceInv, Walked, LnkStaOver
    PROVE  Walked'
<1> DEFINE w == io.got[1]
           s == StatusOf(call.word, w)
<1>1. Over("lnksta") /\ Busy /\ call.phase = "lnksta" /\ io.left = 0
    BY DEF LnkStaOver, Over
<1>2. call.op \in {"status", "check"} /\ call.target \in Wanted
    BY <1>1 DEF Walked, CallInv, CallShape, PlaceInv, PlaceTypes, CallType
<1>3. w \in seen /\ w \in Nat
    BY <1>1 DEF Walked, CallInv, LinkKnown
<1>4. CASE UnknownGen \in {s.maxGen, s.negGen}
    BY <1>4, WalkedAtFailure DEF LnkStaOver, Returns
<1>5. CASE UnknownGen \notin {s.maxGen, s.negGen}
    <2> DEFINE pass == call.op = "check" /\ MeetsTarget(s, call.target)
    <2>1. Reply([NoReply EXCEPT !.status = s, !.pass = pass])
        BY <1>5 DEF LnkStaOver
    <2>2. s.negGen # UnknownGen
        BY <1>5
    <2>3. MeetsTarget(s, call.target)
            <=> w % 16 >= call.target.gen /\ (w \div 16) % 64 >= call.target.width
        BY <1>2, <1>3, <2>2, WordDecides
    <2> HIDE DEF w, s
    <2>4. /\ reply' = [[NoReply EXCEPT !.status = s, !.pass = pass]
                         EXCEPT !.op = call.op, !.target = call.target]
          /\ call' = Idle /\ io' = NoIo /\ UNCHANGED <<cells, cap, seen>>
        BY <2>1 DEF Reply
    <2>5. /\ reply'.op = call.op /\ reply'.rc = 0 /\ reply'.target = call.target
          /\ reply'.pass = pass
        <3> HIDE DEF pass
        <3> QED BY <2>4 DEF NoReply
    <2>6. reply'.op = "check" =>
            (reply'.pass <=> /\ w % 16 >= reply'.target.gen
                             /\ (w \div 16) % 64 >= reply'.target.width)
        BY <2>3, <2>5, Zenon
    <2>7. VerdictWasTrue'
        BY <1>3, <2>4, <2>6 DEF VerdictWasTrue
    <2>8. CapabilityIsThere'
        BY <1>2, <2>5 DEF CapabilityIsThere
    <2>9. AnswerInv'
        BY <2>5, <2>7, <2>8 DEF AnswerInv
    <2> QED BY <2>4, <2>9, WalkedAtReply
<1> QED BY <1>4, <1>5

LEMMA WalkedAtEnds ==
    ASSUME PlaceInv, Walked, Ends
    PROVE  Walked'
<1>1. CASE TransferOver
    <2>1. call.phase = "transfer" /\ Busy /\ Reply([NoReply EXCEPT !.rc = 0])
        BY <1>1 DEF TransferOver, Over, Returns
    <2>2. call.op \notin {"info", "check"}
        BY <2>1 DEF PlaceInv, PlaceTypes, PhaseOK, CallType, Walked, CallInv, CallShape
    <2>3. AnswerInv' /\ call' = Idle /\ io' = NoIo /\ UNCHANGED <<cells, cap, seen>>
        BY <2>1, <2>2, AnswerIsPlain
    <2> QED BY <2>3, WalkedAtReply
<1> QED BY <1>1, WalkedAtIds, WalkedAtSpace, WalkedAtHop, WalkedAtLnkCap, WalkedAtLnkSta DEF Ends

LEMMA WalkedAtStatus ==
    ASSUME PlaceInv, Walked, NEW r, GetLinkStatus(r)
    PROVE  Walked'
<1>1. r.op \in {"status", "check"} /\ Begin(r.op, "space", r.target) /\ Access(0, SpaceEnd, <<>>)
    BY DEF GetLinkStatus
<1> QED BY <1>1, WalkedAtBegin

LEMMA WalkedAtCall ==
    ASSUME PlaceInv, Walked, Call
    PROVE  Walked'
<1>1. PICK r \in Request :
        CfgWrite(r) \/ CfgRead(r) \/ OtherTlp(r) \/ GetDeviceInfo(r) \/ GetLinkStatus(r)
    BY DEF Call
<1>2. ~Busy
    BY DEF Call
<1>3. CASE CfgWrite(r)
    <2>1. \/ Refuse("write")
          \/ Begin("write", "transfer", Idle.target) /\ Access(r.off, Len(r.data), r.data)
        BY <1>3 DEF CfgWrite
    <2> QED BY <1>2, <2>1, WalkedAtRefuse, WalkedAtBegin
<1>4. CASE CfgRead(r)
    <2> DEFINE len == IF r.len = 0 THEN DefaultLength ELSE r.len
    <2>1. \/ Refuse("read")
          \/ Begin("read", "transfer", Idle.target) /\ Access(r.off, len, <<>>)
        BY <1>4 DEF CfgRead
    <2> HIDE DEF len
    <2> QED BY <1>2, <2>1, WalkedAtRefuse, WalkedAtBegin
<1>5. CASE OtherTlp(r)
    BY <1>2, <1>5, WalkedAtRefuse DEF OtherTlp
<1>6. CASE GetDeviceInfo(r)
    BY <1>6, WalkedAtBegin DEF GetDeviceInfo
<1>7. CASE GetLinkStatus(r)
    BY <1>7, WalkedAtStatus
<1> QED BY <1>1, <1>3, <1>4, <1>5, <1>6, <1>7

LEMMA WalkedAtMoves ==
    ASSUME PlaceInv, Walked, Moves
    PROVE  Walked'
<1>1. ASSUME NEW n \in Part \union {Rest}, Transfer(n)
      PROVE  Walked'
    <2>1. n \in Int
        BY <1>1 DEF Transfer
    <2> QED BY <1>1, <2>1, WalkedAtTransfer
<1> QED BY <1>1, WalkedAtOpen, WalkedAtFails DEF Moves

LEMMA WalkedStep == PlaceInv /\ Walked /\ [Next]_vars => Walked'
<1> SUFFICES ASSUME PlaceInv, Walked, [Next]_vars
             PROVE  Walked'
    OBVIOUS
<1>1. ASSUME UNCHANGED pciVars
      PROVE  Walked'
    BY <1>1, WalkedRests DEF pciVars
<1>2. CASE Open
    BY <1>2, <1>1 DEF Open
<1>3. CASE PciWorks
    BY <1>3, WalkedAtCall DEF PciWorks
<1>4. CASE Within(PciStep)
    BY <1>4, WalkedAtMoves, WalkedAtEnds DEF Within, PciStep
<1>5. CASE Within(Retrain)
    BY <1>5, WalkedAtRetrain DEF Within
<1>6. CASE GoldenWorks
    BY <1>6, <1>1 DEF GoldenWorks
<1>7. CASE BeginMatrix
    BY <1>7, WalkedAtNoReply DEF BeginMatrix
<1>8. CASE AskPci
    BY <1>8, WalkedAtStatus DEF AskPci
<1>9. CASE NotePci
    BY <1>9, WalkedAtNoReply DEF NotePci
<1>10. CASE CheckGolden
    BY <1>10, <1>1 DEF CheckGolden
<1>11. CASE EndMatrix
    BY <1>11, <1>1 DEF EndMatrix
<1>12. CASE UNCHANGED vars
    BY <1>12, <1>1 DEF vars
<1> QED BY <1>2, <1>3, <1>4, <1>5, <1>6, <1>7, <1>8, <1>9, <1>10, <1>11, <1>12 DEF Next

WalkedInv == PlaceInv /\ Walked

LEMMA WalkedAlways ==
    /\ Init => WalkedInv
    /\ WalkedInv /\ [Next]_vars => WalkedInv'
<1>1. Init => WalkedInv
    BY PlaceStart, WalkedStart DEF WalkedInv
<1>2. WalkedInv /\ [Next]_vars => WalkedInv'
    BY PlaceStep, WalkedStep DEF WalkedInv
<1> QED BY <1>1, <1>2

\* For every device whose list is sound, circular or not, and every way its
\* reads are cut, device info names a PCIe capability exactly when the list
\* has one, unless an access failed (pci_find_pcie_capability, pci_device_info).
THEOREM WalkFindsCapability == Spec => []CapabilityIsThere
<1>1. WalkedInv => CapabilityIsThere
    BY DEF WalkedInv, Walked, AnswerInv
<1> QED BY WalkedAlways, <1>1, PTL DEF Spec

\* However the link retrains between the accesses of a check, its verdict is
\* that of a link the device had during the call (pcie_check_link_target).
THEOREM VerdictHolds == Spec => []VerdictWasTrue
<1>1. WalkedInv => VerdictWasTrue
    BY DEF WalkedInv, Walked, AnswerInv
<1> QED BY WalkedAlways, <1>1, PTL DEF Spec

-----------------------------------------------------------------------------
(* The matrix.  A verdict of the golden backend is that of its             *)
(* configuration, which nobody changes meanwhile; one of the PCI backend   *)
(* is that of a link word the device had since the matrix was begun.       *)

Golden == {"dummy", "golden"}

\* The outcome of case i, as a status or a link word gives it.
StatusMeets(i) == MeetsTarget(StatusFrom(Config(env)), Case[i])

WordMeets(w, i) == w % 16 >= Case[i].gen /\ (w \div 16) % 64 >= Case[i].width

Outcome(meets) == IF meets THEN "pass" ELSE "fail"

ProgramTypes ==
    /\ name \in Name /\ opened \in {"none", "pci", "golden"}
    /\ opened = "pci" => name = "pci"
    /\ opened = "golden" => name \in Golden
    /\ opened # "pci" => ~Busy
    /\ failed \in BOOLEAN

\* Where the program is in its matrix.
Progress ==
    /\ next \in 0 .. Len(Case) + 1
    /\ next > 0 => name \in Golden \union {"pci"}
    /\ opened = "none" /\ next > 0 => exit # -1
    /\ verdicts \in Seq({"pass", "fail", "unread"})
    /\ Len(verdicts) = IF next = 0 THEN 0 ELSE next - 1
    /\ exit \in {-1, 0, 1, 3}
    /\ exit = 0 => next = Len(Case) + 1 /\ \A i \in 1 .. Len(verdicts) : verdicts[i] = "pass"

\* The case that is being asked on the PCI backend.
Asked ==
    /\ LinkNow \subseteq links
    /\ Busy => call.op = "check" /\ call.target = Case[next]
    /\ reply.op \in {"none", "check"}
    /\ reply.op = "check" => reply.target = Case[next]
    /\ Busy \/ reply.op = "check" => next \in 1 .. Len(Case) /\ seen \subseteq links

Asking == opened = "pci" /\ next > 0 => Asked

LinksKnown ==
    /\ IsFiniteSet(links) /\ links \subseteq Nat
    /\ next = 0 => links = {}

JudgedAt(i) ==
    IF name = "pci"
    THEN verdicts[i] = "unread" \/ \E w \in links : verdicts[i] = Outcome(WordMeets(w, i))
    ELSE verdicts[i] = Outcome(StatusMeets(i))

Judged == next > 0 => \A i \in 1 .. Len(verdicts) : JudgedAt(i)

MatrixInv == ProgramTypes /\ Progress /\ Asking /\ LinksKnown /\ Judged

LEMMA CasesGrow ==
    ASSUME NEW i \in 1 .. Len(Case), NEW j \in 1 .. Len(Case), i < j
    PROVE  /\ Case[i].gen \in Nat /\ Case[j].gen \in Nat /\ Case[i].gen <= Case[j].gen
           /\ Case[i].width \in Nat /\ Case[j].width \in Nat /\ Case[i].width <= Case[j].width
<1>1. Case[i] \in Wanted /\ Case[j] \in Wanted
    BY CaseAssumption
<1> QED BY <1>1, CaseAssumption DEF Wanted

\* A link that meets a case meets the cases before it.
LEMMA WordMeetsEasier ==
    ASSUME NEW i \in 1 .. Len(Case), NEW j \in 1 .. Len(Case), i < j,
           NEW w \in Nat, WordMeets(w, j)
    PROVE  WordMeets(w, i)
<1>1. PICK g \in Nat : g = w % 16
    OBVIOUS
<1>2. PICK x \in Nat : x = (w \div 16) % 64
    OBVIOUS
<1>3. g >= Case[j].gen /\ x >= Case[j].width
    BY <1>1, <1>2 DEF WordMeets
<1>4. g >= Case[i].gen /\ x >= Case[i].width
    BY <1>3, CasesGrow
<1> QED BY <1>1, <1>2, <1>4 DEF WordMeets

LEMMA ByteWidth ==
    ASSUME NEW w \in Nat
    PROVE  (IF w > 0 THEN w ELSE 1) % 256 \in 0 .. 255
OBVIOUS

LEMMA StatusTypes ==
    ASSUME env \in Env
    PROVE  /\ StatusFrom(Config(env)).negGen \in Nat
           /\ StatusFrom(Config(env)).maxWidth \in 0 .. 255
           /\ StatusFrom(Config(env)).negWidth \in 0 .. 255
           /\ StatusFrom(Config(env)).negWidth \in Nat
<1>1. Config(env).maxWidth \in Nat /\ Config(env).negWidth \in Nat
    BY ConfigAssumption
<1>2. PICK c : c = Config(env)
    OBVIOUS
<1>3. /\ StatusFrom(c).maxWidth = (IF c.maxWidth > 0 THEN c.maxWidth ELSE 1) % 256
      /\ StatusFrom(c).negWidth = (IF c.negWidth > 0 THEN c.negWidth ELSE 1) % 256
      /\ StatusFrom(c).negGen = GenFromCode(c.negSpeed % 256)
    BY DEF StatusFrom
<1>4. StatusFrom(c).negGen \in Nat
    BY <1>3 DEF GenFromCode, UnknownGen
<1> QED BY SMTT(30), <1>1, <1>2, <1>3, <1>4, ByteWidth

LEMMA StatusMeetsEasier ==
    ASSUME env \in Env, NEW i \in 1 .. Len(Case), NEW j \in 1 .. Len(Case), i < j,
           StatusMeets(j)
    PROVE  StatusMeets(i)
<1>1. PICK s : s = StatusFrom(Config(env))
    OBVIOUS
<1>2. s.negGen \in Nat /\ s.negWidth \in Nat
    <2>1. StatusFrom(Config(env)).negGen \in Nat /\ StatusFrom(Config(env)).negWidth \in Nat
        BY StatusTypes, Zenon
    <2> QED BY <1>1, <2>1, Zenon
<1>3. MeetsTarget(s, Case[j])
    BY <1>1 DEF StatusMeets
<1>4. MeetsTarget(s, Case[i])
    BY <1>2, <1>3, CasesGrow DEF MeetsTarget, UnknownGen
<1> QED BY <1>1, <1>4 DEF StatusMeets

LEMMA AtMostOne ==
    ASSUME NEW S, IsFiniteSet(S), Cardinality(S) <= 1, NEW v \in S, NEW w \in S
    PROVE  v = w
<1> SUFFICES ASSUME v # w PROVE FALSE
    OBVIOUS
<1>1. IsFiniteSet({w}) /\ Cardinality({w}) = 1
    BY FS_Singleton
<1>2. Cardinality({w} \union {v}) = 2
    BY <1>1, FS_AddElement
<1>3. {w} \union {v} \subseteq S
    OBVIOUS
<1>4. Cardinality({w} \union {v}) <= Cardinality(S)
    BY <1>3, FS_Subset
<1>5. Cardinality(S) \in Nat
    BY FS_CardinalityType
<1> QED BY <1>2, <1>4, <1>5

LEMMA MatrixImplies == MatrixInv /\ env \in Env => MatrixIsConsistent
<1> SUFFICES ASSUME MatrixInv, env \in Env
             PROVE  MatrixIsConsistent
    OBVIOUS
<1>1. verdicts \in Seq({"pass", "fail", "unread"}) /\ DOMAIN verdicts = 1 .. Len(verdicts)
      /\ Len(verdicts) = (IF next = 0 THEN 0 ELSE next - 1) /\ next \in 0 .. Len(Case) + 1
      /\ Len(Case) \in Nat
    BY CaseAssumption DEF MatrixInv, Progress
<1>2. exit = 0 => Len(verdicts) = Len(Case) /\ \A i \in DOMAIN verdicts : verdicts[i] = "pass"
    BY <1>1 DEF MatrixInv, Progress
<1>3. ASSUME Cardinality(links) <= 1, NEW i \in DOMAIN verdicts, NEW j \in DOMAIN verdicts,
             i < j, verdicts[j] = "pass", verdicts[i] = "fail"
      PROVE  FALSE
    <2>1. i \in 1 .. Len(verdicts) /\ j \in 1 .. Len(verdicts)
          /\ i \in 1 .. Len(Case) /\ j \in 1 .. Len(Case) /\ next > 0
        BY <1>1, <1>3
    <2>2. JudgedAt(i) /\ JudgedAt(j)
        BY <2>1 DEF MatrixInv, Judged
    <2>3. CASE name = "pci"
        <3>1. PICK w \in links : verdicts[j] = Outcome(WordMeets(w, j))
            BY <1>3, <2>2, <2>3 DEF JudgedAt
        <3>2. PICK v \in links : verdicts[i] = Outcome(WordMeets(v, i))
            BY <1>3, <2>2, <2>3 DEF JudgedAt
        <3>3. v = w /\ w \in Nat
            BY <1>3, AtMostOne DEF MatrixInv, LinksKnown
        <3>4. WordMeets(w, j) /\ ~WordMeets(v, i)
            BY <1>3, <3>1, <3>2 DEF Outcome
        <3> QED BY <1>3, <2>1, <3>3, <3>4, WordMeetsEasier
    <2>4. CASE name # "pci"
        <3>1. verdicts[j] = Outcome(StatusMeets(j)) /\ verdicts[i] = Outcome(StatusMeets(i))
            BY <2>2, <2>4 DEF JudgedAt
        <3>2. StatusMeets(j) /\ ~StatusMeets(i)
            BY <1>3, <3>1 DEF Outcome
        <3> QED BY <1>3, <2>1, <3>2, StatusMeetsEasier
    <2> QED BY <2>3, <2>4
<1> QED BY <1>2, <1>3 DEF MatrixIsConsistent

-----------------------------------------------------------------------------
(* The steps, for the matrix.                                               *)

\* A call in progress keeps what it was asked and leaves it in its answer.
LEMMA CallGoesOn ==
    ASSUME PlaceInv, PciStep
    PROVE  /\ UNCHANGED <<cap, seen>> /\ failed' \in {failed, TRUE} /\ Busy
           /\ \/ ~Busy' /\ reply'.op = call.op /\ reply'.target = call.target
              \/ call'.op = call.op /\ call'.target = call.target /\ reply' = reply
<1>1. call \in CallType
    BY DEF PlaceInv, PlaceTypes
<1> DEFINE Kept == /\ UNCHANGED <<cap, seen>> /\ failed' \in {failed, TRUE}
           Over1 == ~Busy' /\ reply'.op = call.op /\ reply'.target = call.target
           On == call'.op = call.op /\ call'.target = call.target /\ reply' = reply
<1>2. ASSUME NEW rc, Reply([NoReply EXCEPT !.rc = rc])
      PROVE  Over1 /\ UNCHANGED <<cap, seen>>
    BY <1>2 DEF Reply, NoReply, Busy, Idle
<1>3. ASSUME Reply([NoReply EXCEPT !.has = TRUE])
      PROVE  Over1 /\ UNCHANGED <<cap, seen>>
    BY <1>3 DEF Reply, NoReply, Busy, Idle
<1>4. ASSUME NEW s, NEW p, Reply([NoReply EXCEPT !.status = s, !.pass = p])
      PROVE  Over1 /\ UNCHANGED <<cap, seen>>
    <2>1. reply' = [[NoReply EXCEPT !.status = s, !.pass = p] EXCEPT !.op = call.op, !.target = call.target]
          /\ call' = Idle /\ UNCHANGED <<cap, seen>>
        BY <1>4 DEF Reply
    <2> QED BY <2>1 DEF NoReply, Busy, Idle
<1>5. ASSUME NEW p, NEW h, Visit(p, h)
      PROVE  On /\ UNCHANGED <<cap, seen, failed>>
    BY <1>1, <1>5 DEF Visit, CallType
<1>6. ASSUME NoCapability
      PROVE  Over1 /\ UNCHANGED <<cap, seen>>
    BY <1>2, <1>6 DEF NoCapability
<1>7. ASSUME OpenConfig \/ \E n \in Part \union {Rest} : Transfer(n)
      PROVE  On /\ Kept /\ Busy
    <2>1. (\E n \in Part \union {Rest} : Transfer(n)) => Busy
        BY DEF PlaceInv, PhaseOK, NoIo, Transfer
    <2> QED BY <1>7, <2>1 DEF OpenConfig, Transfer
<1>8. ASSUME AccessFails
      PROVE  Over1 /\ Kept /\ Busy
    BY <1>2, <1>6, <1>8 DEF AccessFails
<1>9. ASSUME TransferOver
      PROVE  Over1 /\ Kept /\ Busy
    BY <1>2, <1>9 DEF TransferOver, Returns, Over
<1>10. ASSUME IdsOver
       PROVE  On /\ Kept /\ Busy
    BY <1>1, <1>10 DEF IdsOver, Over, CallType
<1>11. ASSUME SpaceOver
       PROVE  (Over1 \/ On) /\ Kept /\ Busy
    BY <1>5, <1>6, <1>11 DEF SpaceOver, Over
<1>12. ASSUME Found
       PROVE  (Over1 \/ On) /\ Kept
    <2>1. CASE call.op = "info"
        BY <2>1, <1>3, <1>12 DEF Found
    <2>2. CASE call.op # "info"
        BY <2>2, <1>1, <1>12 DEF Found, CallType
    <2> QED BY <2>1, <2>2
<1>13. ASSUME HopOver
       PROVE  (Over1 \/ On) /\ Kept /\ Busy
    BY <1>5, <1>6, <1>12, <1>13 DEF HopOver, Over
<1>14. ASSUME LnkCapOver
       PROVE  On /\ Kept /\ Busy
    BY <1>1, <1>14 DEF LnkCapOver, Over, CallType
<1>15. ASSUME LnkStaOver
       PROVE  Over1 /\ Kept /\ Busy
    BY <1>2, <1>4, <1>15 DEF LnkStaOver, Returns, Over
<1> HIDE DEF Kept, Over1, On
<1>16. (Over1 \/ On) /\ Kept /\ Busy
    BY <1>7, <1>8, <1>9, <1>10, <1>11, <1>13, <1>14, <1>15 DEF PciStep, Moves, Ends
<1> QED BY <1>16 DEF Kept, Over1, On

LEMMA MatrixStart == Init => MatrixInv
<1> SUFFICES ASSUME Init
             PROVE  MatrixInv
    OBVIOUS
<1>1. /\ name \in Name /\ opened = "none" /\ next = 0 /\ verdicts = <<>> /\ exit = -1
      /\ links = {} /\ call = Idle /\ failed = FALSE
    BY DEF Init, PciInit
<1>2. Len(Case) \in Nat
    BY CaseAssumption
<1>3. ProgramTypes
    BY <1>1 DEF ProgramTypes, Busy, Idle
<1>4. Progress
    BY <1>1, <1>2 DEF Progress
<1>5. Asking /\ LinksKnown /\ Judged
    BY <1>1, FS_EmptySet DEF Asking, LinksKnown, Judged
<1> QED BY <1>3, <1>4, <1>5 DEF MatrixInv

\* What a step that ends no case may change.
LEMMA ProgressRests ==
    ASSUME Progress, UNCHANGED <<name, opened, next, verdicts, exit>>
    PROVE  Progress'
BY DEF Progress

LEMMA JudgedKept ==
    ASSUME NEW i, JudgedAt(i), name' = name, verdicts'[i] = verdicts[i],
           links \subseteq links', env' = env
    PROVE  JudgedAt(i)'
<1>1. Outcome(StatusMeets(i))' = Outcome(StatusMeets(i))
    BY DEF Outcome, StatusMeets
<1>2. \A w : Outcome(WordMeets(w, i))' = Outcome(WordMeets(w, i))
    BY DEF Outcome, WordMeets
<1> QED BY <1>1, <1>2 DEF JudgedAt

LEMMA JudgedRests ==
    ASSUME Judged, UNCHANGED <<name, next, verdicts>>, links \subseteq links',
           next > 0 => env' = env
    PROVE  Judged'
BY JudgedKept DEF Judged

\* A step of the call or of the device while the backend is open.
LEMMA MatrixAtWithin ==
    ASSUME WalkedInv, WalkedInv', MatrixInv, Within(PciStep) \/ Within(Retrain)
    PROVE  MatrixInv'
<1>1. /\ opened = "pci" /\ env' = env /\ UNCHANGED <<name, opened, next, verdicts, exit>>
      /\ links' = IF next = 0 THEN links ELSE links \union LinkNow \union LinkNow'
    BY DEF Within, dummyVars
<1>2. /\ cap' = cap /\ seen' \subseteq seen \union LinkNow' /\ failed' \in {failed, TRUE}
      /\ \/ ~Busy' /\ Busy /\ reply'.op = call.op /\ reply'.target = call.target
         \/ call'.op = call.op /\ call'.target = call.target /\ reply' = reply
    <2>1. CASE PciStep
        BY <2>1, CallGoesOn DEF WalkedInv
    <2>2. CASE Retrain
        BY <2>2 DEF Retrain, LinkNow
    <2> QED BY <2>1, <2>2 DEF Within
<1>3. LinkNow \subseteq Nat /\ LinkNow' \subseteq Nat
    BY DEF WalkedInv, Walked, PlaceInv, PlaceTypes, CallInv, LinkKnown, LinkNow
<1>4. IsFiniteSet(LinkNow) /\ IsFiniteSet(LinkNow')
    BY FS_EmptySet, FS_Singleton DEF LinkNow
<1>5. ProgramTypes'
    BY <1>1, <1>2 DEF MatrixInv, ProgramTypes, Busy
<1>6. Progress'
    BY <1>1, ProgressRests DEF MatrixInv
<1>7. LinksKnown'
    <2>1. IsFiniteSet(links) /\ links \subseteq Nat /\ (next = 0 => links = {})
        BY DEF MatrixInv, LinksKnown
    <2>2. IsFiniteSet(links \union LinkNow \union LinkNow')
        BY <1>4, <2>1, FS_Union
    <2> QED BY <1>1, <1>3, <2>1, <2>2 DEF LinksKnown
<1>8. Asking'
    <2> SUFFICES ASSUME next > 0
                 PROVE  Asked'
        BY <1>1 DEF Asking
    <2>1. Asked /\ links' = links \union LinkNow \union LinkNow'
        BY <1>1 DEF MatrixInv, Asking, Progress
    <2>2. Busy' => Busy
        BY <1>2 DEF Busy
    <2> QED BY <1>1, <1>2, <2>1, <2>2 DEF Asked
<1>9. Judged'
    BY <1>1, JudgedRests DEF MatrixInv
<1> QED BY <1>5, <1>6, <1>7, <1>8, <1>9 DEF MatrixInv

\* A step outside the matrix.
LEMMA MatrixOutside ==
    ASSUME MatrixInv, next = 0, UNCHANGED <<name, next, verdicts, links>>,
           ProgramTypes', opened' = "none" \/ exit' = exit, exit' \in {-1, 1} \/ exit' = exit
    PROVE  MatrixInv'
<1>1. Progress'
    BY DEF MatrixInv, Progress
<1>2. Asking' /\ LinksKnown' /\ Judged'
    BY DEF MatrixInv, Asking, LinksKnown, Judged
<1> QED BY <1>1, <1>2 DEF MatrixInv

LEMMA CallChooses ==
    ASSUME Call
    PROVE  failed' = FALSE
BY DEF Call, CfgWrite, CfgRead, OtherTlp, GetDeviceInfo, GetLinkStatus, Begin, Refuse

LEMMA MatrixAtPciWorks ==
    ASSUME WalkedInv, MatrixInv, PciWorks
    PROVE  MatrixInv'
<1>1. /\ opened = "pci" /\ next = 0 /\ Call
      /\ UNCHANGED <<name, opened, next, verdicts, exit, links>>
    BY DEF PciWorks, program
<1>2. ProgramTypes'
    BY <1>1, CallChooses DEF MatrixInv, ProgramTypes
<1> QED BY <1>1, <1>2, MatrixOutside

LEMMA MatrixAtOpen ==
    ASSUME MatrixInv, Open
    PROVE  MatrixInv'
<1>1. next = 0
    BY DEF Open, MatrixInv, Progress
<1>2. UNCHANGED <<call, failed, name, next, verdicts, links>> /\ opened = "none"
    BY DEF Open, pciVars
<1>3. ~Busy /\ failed \in BOOLEAN /\ name \in Name
    BY <1>2 DEF MatrixInv, ProgramTypes
<1>4. \/ name \in Golden /\ opened' = "golden" /\ exit' = exit
      \/ name = "pci" /\ opened' = "pci" /\ exit' = exit
      \/ exit' = 1 /\ opened' = "none"
    BY <1>2 DEF Open, Golden
<1>5. ProgramTypes'
    BY <1>2, <1>3, <1>4 DEF ProgramTypes, Busy
<1> QED BY <1>1, <1>2, <1>4, <1>5, MatrixOutside

LEMMA MatrixAtGolden ==
    ASSUME MatrixInv, GoldenWorks
    PROVE  MatrixInv'
<1>1. /\ next = 0 /\ UNCHANGED <<call, failed, name, opened, next, verdicts, exit, links>>
    BY DEF GoldenWorks, pciVars, program
<1>2. ProgramTypes'
    BY <1>1 DEF MatrixInv, ProgramTypes, Busy
<1> QED BY <1>1, <1>2, MatrixOutside

LEMMA MatrixAtBegin ==
    ASSUME WalkedInv, MatrixInv, BeginMatrix
    PROVE  MatrixInv'
<1>1. /\ opened # "none" /\ next = 0 /\ ~Busy /\ next' = 1 /\ reply' = NoReply
      /\ links' = IF opened = "pci" THEN LinkNow ELSE {}
      /\ UNCHANGED <<cells, cap, call, seen, failed, name, opened, verdicts, exit>>
    BY DEF BeginMatrix
<1>2. Len(Case) \in Nat
    BY CaseAssumption
<1>3. ProgramTypes'
    BY <1>1 DEF MatrixInv, ProgramTypes, Busy
<1>4. name \in Golden \union {"pci"}
    BY <1>1 DEF MatrixInv, ProgramTypes
<1>5. Len(verdicts) = 0
    BY <1>1 DEF MatrixInv, Progress
<1>6. Progress'
    <2>1. exit \in {-1, 0, 1, 3} /\ exit # 0 /\ verdicts \in Seq({"pass", "fail", "unread"})
        BY <1>1, <1>2 DEF MatrixInv, Progress
    <2> QED BY <1>1, <1>2, <1>4, <1>5, <2>1 DEF Progress
<1>7. LinkNow' = LinkNow /\ LinkNow \subseteq Nat /\ IsFiniteSet(LinkNow)
    BY <1>1, LinkIsNat, FS_EmptySet, FS_Singleton DEF LinkNow, WalkedInv, Walked
<1>8. Asking'
    BY <1>1, <1>7 DEF Asking, Asked, Busy, NoReply
<1>9. LinksKnown'
    BY <1>1, <1>7, FS_EmptySet DEF LinksKnown
<1>10. Judged'
    BY <1>1, <1>5 DEF Judged
<1> QED BY <1>3, <1>6, <1>8, <1>9, <1>10 DEF MatrixInv

LEMMA MatrixAtAsk ==
    ASSUME WalkedInv, MatrixInv, AskPci
    PROVE  MatrixInv'
<1>1. /\ opened = "pci" /\ next \in 1 .. Len(Case) /\ ~Busy
      /\ UNCHANGED <<env, cells, cap, reply, name, opened, next, verdicts, exit, links>>
      /\ call'.op = "check" /\ call'.target = Case[next] /\ seen' = LinkNow /\ failed' = FALSE
      /\ reply.op = "none"
    <2>1. DOMAIN Case = 1 .. Len(Case)
        BY CaseAssumption
    <2>2. Begin("check", "space", Case[next])
        BY DEF AskPci, GetLinkStatus
    <2>3. call'.op = "check" /\ call'.target = Case[next] /\ seen' = LinkNow /\ failed' = FALSE
          /\ UNCHANGED <<cells, cap, reply>>
        BY <2>2 DEF Begin, Idle
    <2> QED BY <2>1, <2>3 DEF AskPci, InMatrix, dummyVars, program
<1>2. ProgramTypes'
    BY <1>1 DEF MatrixInv, ProgramTypes, Busy
<1>3. Progress'
    BY <1>1, ProgressRests DEF MatrixInv
<1>4. LinksKnown'
    BY <1>1 DEF MatrixInv, LinksKnown
<1>5. Judged'
    BY <1>1, JudgedRests DEF MatrixInv
<1>6. Asking'
    <2>1. LinkNow' = LinkNow /\ LinkNow \subseteq links
        BY <1>1 DEF LinkNow, MatrixInv, Asking, Asked
    <2> QED BY <1>1, <2>1 DEF Asking, Asked
<1> QED BY <1>2, <1>3, <1>4, <1>5, <1>6 DEF MatrixInv

\* A verdict is added: what is to be shown of it.
LEMMA MatrixAtVerdict ==
    ASSUME MatrixInv, next \in 1 .. Len(Case), opened # "none",
           NEW v \in {"pass", "fail", "unread"}, verdicts' = Append(verdicts, v),
           next' = next + 1, UNCHANGED <<env, name, opened, exit, links>>,
           NEW n, n = next, JudgedAt(n)'
    PROVE  Progress' /\ Judged'
<1>1. /\ verdicts \in Seq({"pass", "fail", "unread"}) /\ Len(verdicts) = next - 1
      /\ next > 0 /\ next \in Nat /\ Len(Case) \in Nat
    BY CaseAssumption DEF MatrixInv, Progress
<1>2. /\ verdicts' \in Seq({"pass", "fail", "unread"}) /\ Len(verdicts') = next
      /\ \A i \in 1 .. Len(verdicts) : verdicts'[i] = verdicts[i]
    BY <1>1
<1>3. exit # 0 /\ exit \in {-1, 0, 1, 3} /\ name \in Golden \union {"pci"}
    BY <1>1 DEF MatrixInv, Progress
<1>4. Progress'
    BY <1>1, <1>2, <1>3 DEF Progress
<1>5. ASSUME NEW i \in 1 .. Len(verdicts')
      PROVE  JudgedAt(i)'
    <2>1. i \in 1 .. Len(verdicts) \/ i = next
        BY <1>1, <1>2
    <2>2. ASSUME i \in 1 .. Len(verdicts)
          PROVE  JudgedAt(i)'
        <3>1. JudgedAt(i)
            BY <1>1, <2>2 DEF MatrixInv, Judged
        <3>2. verdicts'[i] = verdicts[i]
            BY <1>2, <2>2
        <3> QED BY <3>1, <3>2, JudgedKept
    <2> QED BY <2>1, <2>2
<1>6. Judged'
    BY <1>5 DEF Judged
<1> QED BY <1>4, <1>6

LEMMA MatrixAtNote ==
    ASSUME WalkedInv, MatrixInv, NotePci
    PROVE  MatrixInv'
<1> DEFINE v == IF reply.rc # 0 THEN "unread" ELSE IF reply.pass THEN "pass" ELSE "fail"
<1>1. /\ opened = "pci" /\ next \in 1 .. Len(Case) /\ ~Busy /\ reply.op = "check"
      /\ verdicts' = Append(verdicts, v) /\ next' = next + 1 /\ reply' = NoReply
      /\ UNCHANGED <<env, cells, cap, call, seen, failed, name, opened, exit, links>>
    <2>1. DOMAIN Case = 1 .. Len(Case)
        BY CaseAssumption
    <2> QED BY <2>1 DEF NotePci, InMatrix, dummyVars
<1>2. name = "pci"
    BY <1>1 DEF MatrixInv, ProgramTypes
<1>3. reply.target = Case[next] /\ seen \subseteq links /\ LinkNow \subseteq links
    BY <1>1 DEF MatrixInv, Asking, Asked
<1>4. /\ verdicts \in Seq({"pass", "fail", "unread"}) /\ Len(verdicts) = next - 1
      /\ next \in Nat /\ Len(Case) \in Nat
    BY <1>1, CaseAssumption DEF MatrixInv, Progress
<1>5. v = "unread" \/ \E w \in links : v = Outcome(WordMeets(w, next))
    <2> SUFFICES ASSUME reply.rc = 0
                 PROVE  \E w \in links : v = Outcome(WordMeets(w, next))
        OBVIOUS
    <2>1. PICK w \in seen :
            reply.pass <=> /\ w % 16 >= reply.target.gen
                           /\ (w \div 16) % 64 >= reply.target.width
        BY <1>1 DEF WalkedInv, Walked, AnswerInv, VerdictWasTrue
    <2>2. reply.pass <=> WordMeets(w, next)
        BY <1>3, <2>1 DEF WordMeets
    <2>3. v = Outcome(WordMeets(w, next))
        BY <2>2 DEF Outcome
    <2> QED BY <1>3, <2>1, <2>3
<1>6. v \in {"pass", "fail", "unread"}
    OBVIOUS
<1> HIDE DEF v
<1>7. PICK n : n = next
    OBVIOUS
<1>12. JudgedAt(n)'
    <2>1. verdicts'[n] = v
        BY <1>1, <1>4, <1>6, <1>7
    <2>2. \A w : Outcome(WordMeets(w, n))' = Outcome(WordMeets(w, n))
        BY DEF Outcome, WordMeets
    <2>3. v = "unread" \/ \E w \in links' : v = Outcome(WordMeets(w, n))
        BY <1>1, <1>5, <1>7
    <2>4. name' = "pci"
        BY <1>1, <1>2
    <2> QED BY <2>1, <2>2, <2>3, <2>4 DEF JudgedAt
<1>8. Progress' /\ Judged'
    BY <1>1, <1>6, <1>7, <1>12, MatrixAtVerdict
<1>9. ProgramTypes'
    BY <1>1 DEF MatrixInv, ProgramTypes, Busy
<1>10. LinksKnown'
    BY <1>1, <1>4 DEF MatrixInv, LinksKnown
<1>11. Asking'
    BY <1>1, <1>3 DEF Asking, Asked, Busy, NoReply, LinkNow
<1> QED BY <1>8, <1>9, <1>10, <1>11 DEF MatrixInv

LEMMA MatrixAtCheck ==
    ASSUME MatrixInv, CheckGolden
    PROVE  MatrixInv'
<1> DEFINE met == MeetsTarget(StatusFrom(Config(env)), Case[next])
<1>1. /\ opened = "golden" /\ next \in 1 .. Len(Case)
      /\ verdicts' = Append(verdicts, Outcome(met)) /\ next' = next + 1
      /\ UNCHANGED <<env, call, failed, name, opened, exit, links>>
    <2>1. DOMAIN Case = 1 .. Len(Case)
        BY CaseAssumption
    <2>2. link'.pass = met /\ env' = env
        BY DEF CheckGolden, DummyCheckLink
    <2>3. verdicts' = Append(verdicts, IF link'.pass THEN "pass" ELSE "fail")
        BY DEF CheckGolden
    <2> HIDE DEF met
    <2>4. (IF link'.pass THEN "pass" ELSE "fail") = Outcome(met)
        BY <2>2 DEF Outcome
    <2> QED BY <2>1, <2>2, <2>3, <2>4 DEF CheckGolden, InMatrix, pciVars
<1>2. name \in Golden
    BY <1>1 DEF MatrixInv, ProgramTypes
<1>3. /\ verdicts \in Seq({"pass", "fail", "unread"}) /\ Len(verdicts) = next - 1
      /\ next \in Nat /\ Len(Case) \in Nat
    BY <1>1, CaseAssumption DEF MatrixInv, Progress
<1>4. Outcome(met) \in {"pass", "fail", "unread"}
    BY DEF Outcome
<1>5. PICK n : n = next
    OBVIOUS
<1>6. met <=> StatusMeets(n)
    BY <1>5 DEF StatusMeets
<1> HIDE DEF met
<1>7. JudgedAt(n)'
    <2>1. verdicts'[n] = Outcome(met)
        BY <1>1, <1>3, <1>4, <1>5
    <2>2. Outcome(StatusMeets(n))' = Outcome(met)
        <3>1. StatusMeets(n)' <=> StatusMeets(n)
            BY <1>1 DEF StatusMeets
        <3> QED BY <1>6, <3>1 DEF Outcome
    <2>3. name' # "pci"
        BY <1>1, <1>2 DEF Golden
    <2> QED BY <2>1, <2>2, <2>3 DEF JudgedAt
<1>8. Progress' /\ Judged'
    BY <1>1, <1>4, <1>5, <1>7, MatrixAtVerdict
<1>9. ProgramTypes'
    BY <1>1 DEF MatrixInv, ProgramTypes, Busy
<1>10. LinksKnown' /\ Asking'
    BY <1>1, <1>3 DEF MatrixInv, LinksKnown, Asking
<1> QED BY <1>8, <1>9, <1>10 DEF MatrixInv

LEMMA MatrixAtEnd ==
    ASSUME MatrixInv, WalkedInv, EndMatrix, ~Busy
    PROVE  MatrixInv'
<1>1. /\ next = Len(Case) + 1
      /\ exit' = IF \A i \in DOMAIN verdicts : verdicts[i] = "pass" THEN 0 ELSE 3
      /\ opened' = "none"
      /\ UNCHANGED <<env, call, failed, name, next, verdicts, links>>
    BY DEF EndMatrix, pciVars, dummyVars
<1>2. verdicts \in Seq({"pass", "fail", "unread"}) /\ DOMAIN verdicts = 1 .. Len(verdicts)
    BY DEF MatrixInv, Progress
<1>3. ProgramTypes'
    BY <1>1 DEF MatrixInv, ProgramTypes, Busy
<1>4. Progress'
    <2>1. exit' \in {0, 3} /\ (exit' = 0 => \A i \in 1 .. Len(verdicts) : verdicts[i] = "pass")
        BY <1>1, <1>2
    <2> QED BY <1>1, <2>1 DEF MatrixInv, Progress
<1>5. LinksKnown' /\ Asking' /\ Judged'
    BY <1>1, JudgedRests DEF MatrixInv, LinksKnown, Asking
<1> QED BY <1>3, <1>4, <1>5 DEF MatrixInv

LEMMA MatrixStep ==
    ASSUME WalkedInv, WalkedInv', MatrixInv, [Next]_vars
    PROVE  MatrixInv'
<1>1. CASE Within(PciStep) \/ Within(Retrain)
    BY <1>1, MatrixAtWithin
<1>2. CASE EndMatrix
    <2>1. ~Busy
        <3>1. next = Len(Case) + 1 /\ Len(Case) \in Nat
            BY <1>2, CaseAssumption DEF EndMatrix
        <3> QED BY <3>1 DEF MatrixInv, ProgramTypes, Asking, Asked
    <2> QED BY <1>2, <2>1, MatrixAtEnd
<1>3. CASE UNCHANGED vars
    <2>1. UNCHANGED <<env, cells, cap, call, seen, reply, failed, name, opened, next,
                      verdicts, exit, links>>
        BY <1>3 DEF vars, pciVars, dummyVars, program
    <2>2. ProgramTypes' /\ LinksKnown'
        BY <2>1 DEF MatrixInv, ProgramTypes, LinksKnown, Busy
    <2>3. Asking'
        BY <2>1 DEF MatrixInv, Asking, Asked, Busy, LinkNow
    <2> QED BY <2>1, <2>2, <2>3, ProgressRests, JudgedRests DEF MatrixInv
<1> QED BY <1>1, <1>2, <1>3, MatrixAtOpen, MatrixAtPciWorks, MatrixAtGolden, MatrixAtBegin,
           MatrixAtAsk, MatrixAtNote, MatrixAtCheck DEF Next

-----------------------------------------------------------------------------
(* The types.  The clock is bounded, and what the throttle adds to it is   *)
(* at most a second.                                                        *)

GoldenTypes ==
    /\ clock <= MaxClock /\ nextTx <= MaxClock + Second /\ count \in 0 .. RecvLimit
    /\ link.status.maxWidth \in 0 .. 255 /\ link.status.negWidth \in 0 .. 255

LEMMA PeriodInSecond ==
    ASSUME NEW n \in Nat, NEW d \in Nat, d # 0
    PROVE  n \div d <= n
<1>1. PICK q \in Nat : q = n \div d
    OBVIOUS
<1>2. d * q <= n
    BY <1>1
<1>3. q <= d * q
    OBVIOUS
<1> QED BY <1>1, <1>2, <1>3

LEMMA PacedTypes ==
    ASSUME ThrottleInv, GoldenTypes, Paced
    PROVE  clock' <= MaxClock /\ nextTx' <= MaxClock + Second
<1> DEFINE cfg == Config(env)
<1>1. PICK now \in clock .. MaxClock, end \in clock .. MaxClock :
        /\ clock' = end
        /\ IF cfg.tps = 0 THEN UNCHANGED <<nextTx, paced>>
           ELSE Throttle(now, end, cfg.tps)
    BY DEF Paced
<1>2. cfg.tps \in Nat /\ clock \in Nat /\ nextTx \in Nat /\ Second \in Nat /\ MaxClock \in Nat
    BY ConfigAssumption, TimeAssumption DEF ThrottleInv
<1> HIDE DEF cfg
<1>3. cfg.tps # 0 => nextTx' = now + Second \div cfg.tps
    BY <1>1 DEF Throttle
<1>4. cfg.tps # 0 => Second \div cfg.tps <= Second /\ Second \div cfg.tps \in Nat
    BY <1>2, PeriodInSecond
<1>5. now <= MaxClock /\ now \in Nat /\ clock' <= MaxClock
    BY <1>1, <1>2
<1>6. cfg.tps = 0 => nextTx' = nextTx
    BY <1>1
<1>7. PICK p : p = Second \div cfg.tps
    OBVIOUS
<1>8. CASE cfg.tps = 0
    BY <1>5, <1>6, <1>8 DEF GoldenTypes
<1>9. CASE cfg.tps # 0
    <2>1. nextTx' = now + p /\ p <= Second /\ p \in Nat
        BY <1>3, <1>4, <1>7, <1>9
    <2> QED BY <1>2, <1>5, <2>1
<1> QED BY <1>8, <1>9

LEMMA GoldenStart == Init => GoldenTypes
<1>1. TimeAssumption
    BY TimeAssumption
<1> QED BY <1>1 DEF Init, DummyInit, GoldenTypes, TimeAssumption, NoLink, NoStatus

LEMMA GoldenRests ==
    ASSUME GoldenTypes, UNCHANGED <<clock, nextTx, count, link>>
    PROVE  GoldenTypes'
BY DEF GoldenTypes

LEMMA GoldenAtCheck ==
    ASSUME ThrottleInv, GoldenTypes, NEW t, DummyCheckLink(t)
    PROVE  GoldenTypes'
<1>1. link'.status = StatusFrom(Config(env)) /\ UNCHANGED <<clock, nextTx, count>>
    BY DEF DummyCheckLink
<1>2. env \in Env
    BY DEF ThrottleInv
<1> QED BY <1>1, <1>2, StatusTypes DEF GoldenTypes

LEMMA GoldenAtWorks ==
    ASSUME ThrottleInv, GoldenTypes, DummyNext
    PROVE  GoldenTypes'
<1>1. CASE SetEnv
    BY <1>1 DEF SetEnv, GoldenTypes, NoLink, NoStatus
<1>2. CASE DummyLinkStatus
    <2>1. link'.status = StatusFrom(Config(env)) /\ UNCHANGED <<clock, nextTx, count>>
        BY <1>2 DEF DummyLinkStatus, NoLink
    <2>2. env \in Env
        BY DEF ThrottleInv
    <2> QED BY <2>1, <2>2, StatusTypes DEF GoldenTypes
<1>3. ASSUME NEW t \in Target, DummyCheckLink(t)
      PROVE  GoldenTypes'
    BY <1>3, GoldenAtCheck
<1>4. CASE DummySend
    BY <1>4, PacedTypes DEF DummySend, GoldenTypes
<1>5. CASE DummyRecv
    BY <1>5, PacedTypes, TimeAssumption DEF DummyRecv, GoldenTypes
<1> QED BY <1>1, <1>2, <1>3, <1>4, <1>5 DEF DummyNext

LEMMA GoldenStep ==
    ASSUME ThrottleInv, GoldenTypes, [Next]_vars
    PROVE  GoldenTypes'
<1>1. CASE UNCHANGED dummyVars
    BY <1>1, GoldenRests DEF dummyVars
<1>2. CASE GoldenWorks
    BY <1>2, GoldenAtWorks DEF GoldenWorks
<1>3. CASE CheckGolden
    BY <1>3, GoldenAtCheck DEF CheckGolden
<1>4. GoldenWorks \/ CheckGolden \/ UNCHANGED dummyVars
    BY DEF Next, Open, PciWorks, Within, BeginMatrix, AskPci, NotePci, EndMatrix, vars, dummyVars
<1> QED BY <1>1, <1>2, <1>3, <1>4

-----------------------------------------------------------------------------
BackendsInv == ThrottleInv /\ WalkedInv /\ MatrixInv /\ GoldenTypes

LEMMA BackendsStart == Init => BackendsInv
BY ThrottleStart, WalkedAlways, MatrixStart, GoldenStart DEF BackendsInv

LEMMA BackendsStep == BackendsInv /\ [Next]_vars => BackendsInv'
<1> SUFFICES ASSUME BackendsInv, [Next]_vars
             PROVE  BackendsInv'
    OBVIOUS
<1>1. ThrottleInv /\ WalkedInv /\ MatrixInv /\ GoldenTypes
    BY DEF BackendsInv
<1>2. ThrottleInv' /\ WalkedInv'
    BY <1>1, ThrottleStep, WalkedAlways
<1>3. MatrixInv' /\ GoldenTypes'
    BY <1>1, <1>2, MatrixStep, GoldenStep
<1> QED BY <1>2, <1>3 DEF BackendsInv

LEMMA BackendsTyped == BackendsInv => TypeOK
<1> SUFFICES ASSUME BackendsInv
             PROVE  TypeOK
    OBVIOUS
<1>1. ThrottleInv /\ WalkedInv /\ MatrixInv /\ GoldenTypes
    BY DEF BackendsInv
<1>2. PlaceTypes /\ CallShape /\ LinkKnown /\ ProgramTypes /\ Progress /\ reply.rc \in {0, -1}
    BY <1>1 DEF WalkedInv, PlaceInv, Walked, CallInv, AnswerInv, MatrixInv
<1>3. PciTypeOK
    <2>1. call.phase \in Phase /\ io.got \in Seq(Nat) /\ io.left \in Nat
        BY <1>2 DEF PlaceTypes, CallType, IoType
    <2> QED BY <1>2, <2>1 DEF PciTypeOK, PlaceTypes, CallShape, LinkKnown, ProgramTypes, Phase
<1>4. DummyTypeOK
    BY <1>1 DEF ThrottleInv, GoldenTypes, DummyTypeOK
<1>5. Len(verdicts) <= Len(Case)
    <2>1. Len(Case) \in Nat
        BY CaseAssumption
    <2> QED BY <1>2, <2>1 DEF Progress
<1> QED BY <1>2, <1>3, <1>4, <1>5 DEF TypeOK, ProgramTypes, Progress

\* Every variable of both backends and of the program keeps its type, among
\* them the link widths of the golden backend, which fit a byte for every
\* environment (dummy_link_status).
THEOREM TypeCorrect == Spec => []TypeOK
BY BackendsStart, BackendsStep, BackendsTyped, PTL DEF Spec

\* However long the table of cases, and whatever the link does between two of
\* them: exit code 0 stands for a pass of every case, and on a link that stayed
\* the same no case fails that is easier than one that passed
\* (examples/pci_link_matrix.c).
THEOREM MatrixHolds == Spec => []MatrixIsConsistent
<1>1. BackendsInv => MatrixIsConsistent
    BY MatrixImplies DEF BackendsInv, ThrottleInv
<1> QED BY BackendsStart, BackendsStep, <1>1, PTL DEF Spec

-----------------------------------------------------------------------------
(* The profile in force.  A scenario is applied part by part; after each   *)
(* part the configuration holds the name of the profile that is in force   *)
(* so far, and its speeds and widths are those it began with.              *)

KeyUpTo(sc, key, i) == {j \in 1 .. i : sc[j].key = key}

\* The name after i parts: the last by key, else the first bare word.
NamedAfter(sc, i) ==
    IF KeyUpTo(sc, "profile", i) # {} THEN <<sc[Max(KeyUpTo(sc, "profile", i))].value>>
    ELSE IF KeyUpTo(sc, "word", i) # {} THEN <<sc[Min(KeyUpTo(sc, "word", i))].value>>
    ELSE <<>>

ConfigKeys == {"maxSpeed", "negSpeed", "maxWidth", "negWidth", "latency", "tps", "name"}

\* Configuration c is what i parts of a scenario make of cfg.
AfterParts(c, cfg, sc, i) ==
    /\ DOMAIN c = ConfigKeys
    /\ c.maxSpeed = cfg.maxSpeed /\ c.negSpeed = cfg.negSpeed
    /\ c.maxWidth = cfg.maxWidth /\ c.negWidth = cfg.negWidth
    /\ c.name = NamedAfter(sc, i)

LEMMA MaxIsThere ==
    ASSUME NEW n \in Nat, NEW s \in SUBSET (1 .. n), s # {}
    PROVE  Max(s) \in s /\ \A y \in s : Max(s) >= y
<1> DEFINE Above == {k \in Nat : \A y \in s : k >= y}
<1>1. n \in Above
    OBVIOUS
<1>2. PICK m \in Above : \A k \in Above : m <= k
    BY <1>1, LeastNat
<1>3. m \in Nat /\ \A y \in s : m >= y
    OBVIOUS
<1>4. m \in s
    <2> SUFFICES ASSUME m \notin s PROVE FALSE
        OBVIOUS
    <2>1. \A y \in s : y \in Nat /\ y >= 1 /\ y < m
        BY <1>3
    <2>2. m - 1 \in Nat /\ \A y \in s : m - 1 >= y
        <3>1. PICK y \in s : y \in Nat /\ y >= 1 /\ y < m
            BY <2>1
        <3>2. m - 1 \in Nat
            BY <1>3, <3>1
        <3>3. ASSUME NEW z \in s
              PROVE  m - 1 >= z
            <4>1. z \in Nat /\ z < m
                BY <2>1
            <4> QED BY <1>3, <4>1
        <3> QED BY <3>2, <3>3
    <2>3. m - 1 \in Above
        BY <2>2
    <2> QED BY <1>2, <1>3, <2>3
<1> QED BY <1>3, <1>4 DEF Max

LEMMA MinIsThere ==
    ASSUME NEW n \in Nat, NEW s \in SUBSET (1 .. n), s # {}
    PROVE  Min(s) \in s /\ \A y \in s : Min(s) <= y
<1>1. s \in SUBSET Nat
    OBVIOUS
<1>2. \E m \in s : \A y \in s : m <= y
    BY <1>1, LeastNat
<1> QED BY <1>2 DEF Min

\* A key that part i does not have, and one that it has.
LEMMA OtherKeyUpTo ==
    ASSUME NEW sc, NEW key, NEW i \in Nat, i >= 1, sc[i].key # key
    PROVE  KeyUpTo(sc, key, i) = KeyUpTo(sc, key, i - 1)
<1>1. \A j : j \in 1 .. i <=> j \in 1 .. i - 1 \/ j = i
    OBVIOUS
<1> QED BY <1>1 DEF KeyUpTo

LEMMA SameKeyUpTo ==
    ASSUME NEW sc, NEW key, NEW i \in Nat, i >= 1, sc[i].key = key
    PROVE  /\ KeyUpTo(sc, key, i) = KeyUpTo(sc, key, i - 1) \union {i}
           /\ KeyUpTo(sc, key, i) \in SUBSET (1 .. i) /\ i \notin KeyUpTo(sc, key, i - 1)
<1>1. \A j : j \in 1 .. i <=> j \in 1 .. i - 1 \/ j = i
    OBVIOUS
<1>2. i \notin 1 .. i - 1
    OBVIOUS
<1> QED BY <1>1, <1>2 DEF KeyUpTo

\* A later profile by key takes the place of the name, a bare word only when
\* there is none.
LEMMA NameGrows ==
    ASSUME NEW sc, NEW i \in Nat, i >= 1
    PROVE  /\ sc[i].key = "profile" => NamedAfter(sc, i) = <<sc[i].value>>
           /\ sc[i].key = "word" =>
                NamedAfter(sc, i) = IF NamedAfter(sc, i - 1) = <<>> THEN <<sc[i].value>>
                                    ELSE NamedAfter(sc, i - 1)
           /\ sc[i].key \notin {"profile", "word"} =>
                NamedAfter(sc, i) = NamedAfter(sc, i - 1)
<1>1. CASE sc[i].key = "profile"
    <2>1. PICK s : s = KeyUpTo(sc, "profile", i)
        OBVIOUS
    <2>2. s \in SUBSET (1 .. i) /\ i \in s
        <3>1. /\ KeyUpTo(sc, "profile", i) \in SUBSET (1 .. i)
              /\ KeyUpTo(sc, "profile", i) = KeyUpTo(sc, "profile", i - 1) \union {i}
            BY <1>1, SameKeyUpTo, Zenon
        <3> QED BY <2>1, <3>1
    <2>3. Max(s) = i
        <3>1. PICK m : m = Max(s)
            OBVIOUS
        <3>2. m \in s /\ m >= i
            BY <2>2, <3>1, MaxIsThere
        <3>3. m \in 1 .. i
            BY <2>2, <3>2
        <3> QED BY <3>1, <3>2, <3>3
    <2> QED BY <1>1, <2>1, <2>2, <2>3 DEF NamedAfter
<1>2. CASE sc[i].key = "word"
    <2>1. KeyUpTo(sc, "profile", i) = KeyUpTo(sc, "profile", i - 1)
        BY <1>2, OtherKeyUpTo
    <2>2. PICK s : s = KeyUpTo(sc, "word", i)
        OBVIOUS
    <2>3. PICK r : r = KeyUpTo(sc, "word", i - 1)
        OBVIOUS
    <2>4. s = r \union {i} /\ s \in SUBSET (1 .. i) /\ i \notin r /\ s # {}
        <3>1. /\ KeyUpTo(sc, "word", i) = KeyUpTo(sc, "word", i - 1) \union {i}
              /\ KeyUpTo(sc, "word", i) \in SUBSET (1 .. i)
              /\ i \notin KeyUpTo(sc, "word", i - 1)
            BY <1>2, SameKeyUpTo, Zenon
        <3> QED BY <2>2, <2>3, <3>1
    <2>5. Min(s) \in s /\ \A y \in s : Min(s) <= y
        BY <2>4, MinIsThere
    <2>6. CASE r = {}
        <3>1. Min(s) = i
            BY <2>4, <2>5, <2>6
        <3> QED BY <1>2, <2>1, <2>2, <2>3, <2>4, <2>6, <3>1 DEF NamedAfter
    <2>7. CASE r # {}
        <3>1. r \in SUBSET (1 .. i)
            BY <2>4
        <3>2. Min(r) \in r /\ \A y \in r : Min(r) <= y
            BY <2>7, <3>1, MinIsThere
        <3>3. PICK a : a = Min(s)
            OBVIOUS
        <3>4. PICK b : b = Min(r)
            OBVIOUS
        <3>5. a = b
            <4>1. \A y \in r : y \in Nat /\ y < i
                BY <2>4
            <4>2. b \in r /\ b \in s /\ b \in Nat /\ b < i
                BY <2>4, <3>2, <3>4, <4>1
            <4>3. a \in s /\ a <= b
                BY <2>5, <3>3, <4>2
            <4>4. a \in r
                <5>1. a # i
                    BY <4>2, <4>3
                <5> QED BY <2>4, <4>3, <5>1
            <4>5. a \in Nat /\ b <= a
                BY <3>2, <3>4, <4>1, <4>4
            <4> QED BY <4>2, <4>3, <4>5
        <3> QED BY <1>2, <2>1, <2>2, <2>3, <2>4, <2>7, <3>3, <3>4, <3>5 DEF NamedAfter
    <2> QED BY <2>6, <2>7
<1>3. CASE sc[i].key \notin {"profile", "word"}
    <2>1. /\ KeyUpTo(sc, "profile", i) = KeyUpTo(sc, "profile", i - 1)
          /\ KeyUpTo(sc, "word", i) = KeyUpTo(sc, "word", i - 1)
        BY <1>3, OtherKeyUpTo
    <2> QED BY <1>3, <2>1 DEF NamedAfter
<1> QED BY <1>1, <1>2, <1>3

LEMMA PartKeeps ==
    ASSUME NEW cfg, NEW c, NEW sc, NEW i \in Nat, i >= 1, AfterParts(c, cfg, sc, i - 1),
           sc[i].key \in {"profile", "word", "latency", "tps"}
    PROVE  AfterParts(ApplyPart(c, sc[i]), cfg, sc, i)
<1>1. PICK part : part = sc[i]
    OBVIOUS
<1>2. DOMAIN c = ConfigKeys /\ c.name = NamedAfter(sc, i - 1)
    BY DEF AfterParts
<1>3. CASE part.key = "profile"
    <2>1. ApplyPart(c, part) = [c EXCEPT !.name = <<part.value>>]
        BY <1>3 DEF ApplyPart
    <2>2. NamedAfter(sc, i) = <<part.value>>
        BY <1>1, <1>3, NameGrows
    <2> QED BY <1>1, <1>2, <2>1, <2>2 DEF AfterParts, ConfigKeys
<1>4. CASE part.key = "word"
    <2>1. ApplyPart(c, part) =
            IF c.name = <<>> THEN [c EXCEPT !.name = <<part.value>>] ELSE c
        BY <1>4 DEF ApplyPart
    <2>2. NamedAfter(sc, i) = IF c.name = <<>> THEN <<part.value>> ELSE c.name
        BY <1>1, <1>2, <1>4, NameGrows
    <2> QED BY <1>1, <1>2, <2>1, <2>2 DEF AfterParts, ConfigKeys
<1>5. CASE part.key = "latency"
    <2>1. ApplyPart(c, part) = [c EXCEPT !.latency = Parsed(part.value, c.latency)]
        BY <1>5 DEF ApplyPart
    <2>2. NamedAfter(sc, i) = c.name
        BY <1>1, <1>2, <1>5, NameGrows
    <2> QED BY <1>1, <1>2, <2>1, <2>2 DEF AfterParts, ConfigKeys
<1>6. CASE part.key = "tps"
    <2>1. ApplyPart(c, part) = [c EXCEPT !.tps = Parsed(part.value, c.tps)]
        BY <1>6 DEF ApplyPart
    <2>2. NamedAfter(sc, i) = c.name
        BY <1>1, <1>2, <1>6, NameGrows
    <2> QED BY <1>1, <1>2, <2>1, <2>2 DEF AfterParts, ConfigKeys
<1> QED BY <1>1, <1>3, <1>4, <1>5, <1>6

(* The fold over a scenario, taken apart at its last part.                  *)

RunRule(g, cfg, sc, D) ==
    g = [s \in D |-> IF s = {} THEN cfg ELSE ApplyPart(g[s \ {Max(s)}], sc[Max(s)])]
Runs(cfg, sc) == CHOOSE g : RunRule(g, cfg, sc, SUBSET (DOMAIN sc))

LEMMA FoldIsRun ==
    ASSUME NEW cfg, NEW sc
    PROVE  FoldLeft(ApplyPart, cfg, sc) = Runs(cfg, sc)[DOMAIN sc]
BY Zenon DEF FoldLeft, MapThenFoldSet, Runs, RunRule

LEMMA WithoutMax ==
    ASSUME NEW n \in Nat, NEW s \in SUBSET (1 .. n), s # {}
    PROVE  n # 0 /\ s \ {Max(s)} \in SUBSET (1 .. n - 1)
<1>1. PICK m : m = Max(s)
    OBVIOUS
<1>2. m \in s /\ \A y \in s : m >= y
    BY <1>1, MaxIsThere
<1>3. m \in 1 .. n /\ n # 0
    BY <1>2
<1>4. ASSUME NEW y \in s, y # m
      PROVE  y \in 1 .. n - 1
    <2>1. y \in 1 .. n /\ m >= y
        BY <1>2
    <2> QED BY <1>3, <1>4, <2>1
<1> QED BY <1>1, <1>3, <1>4

LEMMA RunsExist ==
    ASSUME NEW cfg, NEW sc, NEW n \in Nat
    PROVE  \E g : RunRule(g, cfg, sc, SUBSET (1 .. n))
<1> DEFINE Bad == {m \in Nat : ~ \E g : RunRule(g, cfg, sc, SUBSET (1 .. m))}
<1> SUFFICES ASSUME Bad # {} PROVE FALSE
    OBVIOUS
<1>1. PICK m \in Bad : \A k \in Bad : m <= k
    BY LeastNat
<1>2. /\ m \in Nat /\ ~ \E g : RunRule(g, cfg, sc, SUBSET (1 .. m))
      /\ \A k \in Nat : k \notin Bad => \E g : RunRule(g, cfg, sc, SUBSET (1 .. k))
    OBVIOUS
<1>3. m # 0 => m - 1 \in Nat /\ m - 1 \notin Bad
    BY <1>1, <1>2
<1> HIDE DEF Bad
<1>4. CASE m = 0
    <2> DEFINE g == [s \in SUBSET (1 .. 0) |-> cfg]
    <2>1. \A s \in SUBSET (1 .. 0) : s = {}
        OBVIOUS
    <2>2. RunRule(g, cfg, sc, SUBSET (1 .. 0))
        BY <2>1 DEF RunRule
    <2> QED BY <1>2, <1>4, <2>2
<1>5. CASE m # 0
    <2>1. PICK g : RunRule(g, cfg, sc, SUBSET (1 .. m - 1))
        BY <1>2, <1>3, <1>5
    <2> DEFINE e(f, s) == IF s = {} THEN cfg ELSE ApplyPart(f[s \ {Max(s)}], sc[Max(s)])
               h == [s \in SUBSET (1 .. m) |-> e(g, s)]
    <2>2. \A s \in SUBSET (1 .. m - 1) : g[s] = e(g, s)
        BY <2>1 DEF RunRule
    <2>3. SUBSET (1 .. m - 1) \subseteq SUBSET (1 .. m)
        BY <1>2
    <2>4. \A s \in SUBSET (1 .. m - 1) : h[s] = g[s]
        BY <2>2, <2>3
    <2>5. \A s \in SUBSET (1 .. m) : h[s] = e(g, s)
        OBVIOUS
    <2>6. \A s \in SUBSET (1 .. m) : e(g, s) = e(h, s)
        <3> SUFFICES ASSUME NEW s \in SUBSET (1 .. m), s # {} PROVE e(g, s) = e(h, s)
            OBVIOUS
        <3>1. s \ {Max(s)} \in SUBSET (1 .. m - 1)
            BY <1>2, WithoutMax
        <3>2. h[s \ {Max(s)}] = g[s \ {Max(s)}]
            BY <2>4, <3>1
        <3> HIDE DEF h
        <3> QED BY <3>2
    <2>7. h = [s \in SUBSET (1 .. m) |-> e(h, s)]
        BY <2>6
    <2>8. RunRule(h, cfg, sc, SUBSET (1 .. m))
        <3> HIDE DEF h
        <3> QED BY <2>7 DEF RunRule
    <2> QED BY <1>2, <2>8
<1> QED BY <1>4, <1>5

\* What a scenario makes of a configuration.
LEMMA ScenarioRuns ==
    ASSUME NEW cfg, NEW sc, Len(sc) \in Nat, DOMAIN sc = 1 .. Len(sc),
           \A i \in DOMAIN sc : sc[i].key \in {"profile", "word", "latency", "tps"},
           AfterParts(cfg, cfg, sc, 0)
    PROVE  AfterParts(FoldLeft(ApplyPart, cfg, sc), cfg, sc, Len(sc))
<1>1. PICK n \in Nat : n = Len(sc)
    OBVIOUS
<1>2. PICK g : g = Runs(cfg, sc)
    OBVIOUS
<1>3. RunRule(g, cfg, sc, SUBSET (1 .. n))
    <2>1. \E f : RunRule(f, cfg, sc, SUBSET (1 .. n))
        BY RunsExist
    <2> QED BY <1>1, <1>2, <2>1 DEF Runs
<1>4. \A s \in SUBSET (1 .. n) :
        g[s] = IF s = {} THEN cfg ELSE ApplyPart(g[s \ {Max(s)}], sc[Max(s)])
    BY <1>3 DEF RunRule
<1>5. ASSUME NEW i \in 1 .. n
      PROVE  g[1 .. i] = ApplyPart(g[1 .. i - 1], sc[i])
    <2>1. PICK s : s = 1 .. i
        OBVIOUS
    <2>2. s \in SUBSET (1 .. n) /\ s \in SUBSET (1 .. i) /\ i \in s /\ i \in Nat /\ s # {}
        BY <2>1
    <2>3. PICK m : m = Max(s)
        OBVIOUS
    <2>4. Max(s) = i
        <3>1. m \in s /\ m >= i
            BY <2>2, <2>3, MaxIsThere
        <3>2. m \in 1 .. i
            BY <2>2, <3>1
        <3> QED BY <2>2, <2>3, <3>1, <3>2
    <2>5. s \ {i} = 1 .. i - 1
        BY <2>1, <2>2
    <2> QED BY <1>4, <2>1, <2>2, <2>4, <2>5
<1>6. g[1 .. 0] = cfg
    <2>1. 1 .. 0 = {} /\ 1 .. 0 \in SUBSET (1 .. n)
        OBVIOUS
    <2> QED BY <1>4, <2>1
<1> DEFINE Bad == {i \in 0 .. n : ~AfterParts(g[1 .. i], cfg, sc, i)}
<1>7. Bad = {}
    <2> SUFFICES ASSUME Bad # {} PROVE FALSE
        OBVIOUS
    <2>1. Bad \in SUBSET Nat
        OBVIOUS
    <2>2. PICK i \in Bad : \A k \in Bad : i <= k
        BY <2>1, LeastNat
    <2>3. i \in 0 .. n /\ i \in Nat /\ ~AfterParts(g[1 .. i], cfg, sc, i)
        BY <2>1
    <2>4. i # 0
        BY <1>6, <2>3
    <2>5. i \in 1 .. n /\ i >= 1 /\ i - 1 \in 0 .. n /\ i - 1 \notin Bad
        BY <2>2, <2>3, <2>4
    <2>6. AfterParts(g[1 .. i - 1], cfg, sc, i - 1)
        BY <2>5
    <2> HIDE DEF Bad
    <2>7. sc[i].key \in {"profile", "word", "latency", "tps"}
        BY <1>1, <2>5
    <2>8. AfterParts(ApplyPart(g[1 .. i - 1], sc[i]), cfg, sc, i)
        BY <2>3, <2>5, <2>6, <2>7, PartKeeps
    <2> QED BY <1>5, <2>3, <2>5, <2>8
<1>8. AfterParts(g[1 .. n], cfg, sc, n)
    <2>1. n \in 0 .. n
        OBVIOUS
    <2> QED BY <1>7, <2>1
<1> QED BY <1>1, <1>2, <1>8, FoldIsRun

(* The link queries.                                                        *)

HasLink(c, p) ==
    /\ c.maxSpeed = p.speed /\ c.negSpeed = p.speed
    /\ c.maxWidth = p.width /\ c.negWidth = p.width

LEMMA ProfileSets ==
    ASSUME NEW c, NEW p, DOMAIN c = ConfigKeys
    PROVE  /\ DOMAIN ApplyProfile(c, p) = ConfigKeys
           /\ ApplyProfile(c, p).name = c.name
           /\ IsProfile(p) => HasLink(ApplyProfile(c, p), p)
           /\ ~IsProfile(p) => ApplyProfile(c, p) = c
BY DEF ApplyProfile, HasLink, ConfigKeys

\* The profile in force is the one the last part left behind, if that names
\* one at all.
LEMMA InForceIsNamed ==
    ASSUME env \in Env, NEW named,
           named = NamedAfter(env.scenario, Len(env.scenario))
    PROVE  InForce = IF named # <<>> /\ IsProfile(named[1]) THEN named[1] ELSE env.profile
<1>1. PICK sc : sc = env.scenario
    OBVIOUS
<1>2. DOMAIN sc = 1 .. Len(sc)
    BY <1>1, ScenarioAssumption
<1>3. PICK ps : ps = KeyUpTo(sc, "profile", Len(sc))
    OBVIOUS
<1>4. PICK ws : ws = KeyUpTo(sc, "word", Len(sc))
    OBVIOUS
<1>5. /\ ps = {i \in DOMAIN sc : sc[i].key = "profile"}
      /\ ws = {i \in DOMAIN sc : sc[i].key = "word"}
    BY <1>2, <1>3, <1>4 DEF KeyUpTo
<1>6. named = IF ps # {} THEN <<sc[Max(ps)].value>>
              ELSE IF ws # {} THEN <<sc[Min(ws)].value>> ELSE <<>>
    BY <1>1, <1>3, <1>4 DEF NamedAfter
<1>7. PICK first : first = IF ps # {} THEN sc[Max(ps)].value
                           ELSE IF ws # {} THEN sc[Min(ws)].value ELSE NoName
    OBVIOUS
<1>8. InForce = IF IsProfile(first) THEN first ELSE env.profile
    BY <1>1, <1>5, <1>7 DEF InForce
<1>9. ~IsProfile(NoName)
    BY DEF IsProfile, NoName
<1>10. /\ named = <<>> => first = NoName
       /\ named # <<>> => first = named[1]
    BY <1>6, <1>7
<1> QED BY <1>8, <1>9, <1>10

LEMMA ConfigDecides ==
    ASSUME env \in Env, IsProfile(InForce)
    PROVE  HasLink(Config(env), InForce)
<1>1. PICK sc : sc = env.scenario
    OBVIOUS
<1>2. /\ Len(sc) \in Nat /\ DOMAIN sc = 1 .. Len(sc)
      /\ \A i \in DOMAIN sc : sc[i].key \in {"profile", "word", "latency", "tps"}
    BY <1>1, ScenarioAssumption
<1>3. PICK base :
        base = [maxSpeed |-> Parsed(env.maxSpeed, 5), negSpeed |-> Parsed(env.negSpeed, 0),
                maxWidth |-> Parsed(env.maxWidth, 16), negWidth |-> Parsed(env.negWidth, 0),
                latency |-> Parsed(env.latency, 0), tps |-> Parsed(env.tps, 0),
                name |-> <<>>]
    OBVIOUS
<1>4. DOMAIN base = ConfigKeys /\ base.name = <<>>
    BY <1>3 DEF ConfigKeys
<1>5. PICK b : b = ApplyProfile(base, env.profile)
    OBVIOUS
<1>6. /\ DOMAIN b = ConfigKeys /\ b.name = <<>>
      /\ IsProfile(env.profile) => HasLink(b, env.profile)
    BY <1>4, <1>5, ProfileSets
<1>7. AfterParts(b, b, sc, 0)
    <2>1. NamedAfter(sc, 0) = <<>>
        BY DEF NamedAfter, KeyUpTo
    <2> QED BY <1>6, <2>1 DEF AfterParts
<1>8. PICK done : done = FoldLeft(ApplyPart, b, sc)
    OBVIOUS
<1>9. AfterParts(done, b, sc, Len(sc))
    BY <1>2, <1>7, <1>8, ScenarioRuns
<1>10. PICK named : named = NamedAfter(sc, Len(sc))
    OBVIOUS
<1>11. DOMAIN done = ConfigKeys /\ done.name = named
    BY <1>9, <1>10 DEF AfterParts
<1>12. PICK cfg : cfg = ApplyScenario(b, sc)
    OBVIOUS
<1>13. cfg = IF named = <<>> THEN done ELSE ApplyProfile(done, named[1])
    BY <1>8, <1>11, <1>12 DEF ApplyScenario
<1>14. PICK p : p = InForce
    OBVIOUS
<1>15. p = IF named # <<>> /\ IsProfile(named[1]) THEN named[1] ELSE env.profile
    BY <1>1, <1>10, <1>14, InForceIsNamed
<1>16. HasLink(cfg, p) /\ DOMAIN cfg = ConfigKeys
    <2>1. CASE named # <<>> /\ IsProfile(named[1])
        BY <1>11, <1>13, <1>15, <2>1, ProfileSets
    <2>2. CASE ~(named # <<>> /\ IsProfile(named[1]))
        <3>1. p = env.profile /\ IsProfile(p)
            BY <1>14, <1>15, <2>2
        <3>2. cfg = done
            BY <1>11, <1>13, <2>2, ProfileSets
        <3>3. HasLink(done, p)
            BY <1>6, <1>9, <3>1 DEF AfterParts, HasLink
        <3> QED BY <1>11, <3>2, <3>3
    <2> QED BY <2>1, <2>2
<1>17. p.speed # 0 /\ p.width # 0
    BY <1>14 DEF IsProfile
<1>18. Config(env) = [cfg EXCEPT !.negSpeed = IF @ = 0 THEN cfg.maxSpeed ELSE @,
                                 !.negWidth = IF @ = 0 THEN cfg.maxWidth ELSE @]
    BY <1>1, <1>3, <1>5, <1>12 DEF Config
<1> QED BY <1>14, <1>16, <1>17, <1>18 DEF HasLink, ConfigKeys

\* What a link query returned is what it would return now: a change of the
\* environment forgets it.
LinkInv ==
    link.op # "none" =>
        /\ link.status = StatusFrom(Config(env))
        /\ link.op = "check" => /\ link.target \in Wanted
                                /\ link.pass <=> MeetsTarget(link.status, link.target)

LEMMA LinkImplies == env \in Env /\ LinkInv => ProfileDecidesLink
<1> SUFFICES ASSUME env \in Env, LinkInv, link.op # "none", IsProfile(InForce)
             PROVE  LET p == InForce
                    IN  /\ link.status = [maxGen |-> p.speed, negGen |-> p.speed,
                                          maxWidth |-> p.width, negWidth |-> p.width]
                        /\ link.op = "check" =>
                             (link.pass <=> /\ p.speed >= link.target.gen
                                            /\ p.width >= link.target.width)
    BY DEF ProfileDecidesLink
<1>1. PICK p : p = InForce
    OBVIOUS
<1>2. PICK c : c = Config(env)
    OBVIOUS
<1>3. HasLink(c, p) /\ p.speed \in 1 .. 8 /\ p.width \in 1 .. 16
    BY <1>1, <1>2, ConfigDecides DEF IsProfile
<1>4. p.speed % 256 = p.speed /\ p.width % 256 = p.width
    BY <1>3
<1>5. StatusFrom(c) = [maxGen |-> p.speed, negGen |-> p.speed,
                       maxWidth |-> p.width, negWidth |-> p.width]
    BY <1>3, <1>4 DEF StatusFrom, HasLink, GenFromCode
<1>6. link.status = StatusFrom(c)
    BY <1>2 DEF LinkInv
<1>7. ASSUME link.op = "check"
      PROVE  link.pass <=> p.speed >= link.target.gen /\ p.width >= link.target.width
    <2>1. PICK s : s = link.status
        OBVIOUS
    <2>2. s.negGen = p.speed /\ s.negWidth = p.width
        BY <1>5, <1>6, <2>1
    <2>3. PICK t : t = link.target
        OBVIOUS
    <2>4. t \in Wanted /\ (link.pass <=> MeetsTarget(s, t))
        BY <1>7, <2>1, <2>3 DEF LinkInv
    <2>5. t.gen \in Nat /\ t.width \in Nat
        BY <2>4 DEF Wanted
    <2>6. MeetsTarget(s, t) <=> p.speed >= t.gen /\ p.width >= t.width
        BY <1>3, <2>2, <2>5 DEF MeetsTarget, UnknownGen
    <2> QED BY <2>3, <2>4, <2>6
<1> QED BY <1>1, <1>5, <1>6, <1>7

LEMMA LinkRests ==
    ASSUME LinkInv, env' = env, link' = link
    PROVE  LinkInv'
BY DEF LinkInv, StatusFrom, Config, MeetsTarget

LEMMA LinkAtCheck ==
    ASSUME NEW t \in Wanted, DummyCheckLink(t)
    PROVE  LinkInv'
BY DEF DummyCheckLink, LinkInv

LEMMA LinkAtWorks ==
    ASSUME LinkInv, DummyNext
    PROVE  LinkInv'
<1>1. CASE SetEnv
    BY <1>1 DEF SetEnv, LinkInv, NoLink
<1>2. CASE DummyLinkStatus
    BY <1>2 DEF DummyLinkStatus, LinkInv, NoLink
<1>3. ASSUME NEW t \in Target, DummyCheckLink(t)
      PROVE  LinkInv'
    BY <1>3, LinkAtCheck, TargetAssumption
<1>4. CASE DummySend \/ DummyRecv
    BY <1>4, LinkRests DEF DummySend, DummyRecv
<1> QED BY <1>1, <1>2, <1>3, <1>4 DEF DummyNext

LEMMA LinkStep == LinkInv /\ [Next]_vars => LinkInv'
<1> SUFFICES ASSUME LinkInv, [Next]_vars
             PROVE  LinkInv'
    OBVIOUS
<1>1. CASE UNCHANGED dummyVars
    BY <1>1, LinkRests DEF dummyVars
<1>2. CASE GoldenWorks
    BY <1>2, LinkAtWorks DEF GoldenWorks
<1>3. CASE CheckGolden
    <2>1. Case[next] \in Wanted
        BY <1>3, CaseAssumption DEF CheckGolden, InMatrix
    <2> QED BY <1>3, <2>1, LinkAtCheck DEF CheckGolden
<1>4. GoldenWorks \/ CheckGolden \/ UNCHANGED dummyVars
    BY DEF Next, Open, PciWorks, Within, BeginMatrix, AskPci, NotePci, EndMatrix, vars, dummyVars
<1> QED BY <1>1, <1>2, <1>3, <1>4

LEMMA LinkStart == Init => LinkInv
BY DEF Init, DummyInit, LinkInv, NoLink

\* For every environment and scenario of any length: the profile in force
\* decides what a link query returns and whether a link check passes.
THEOREM ProfileHolds == Spec => []ProfileDecidesLink
<1>1. ThrottleInv /\ LinkInv => ProfileDecidesLink
    BY LinkImplies DEF ThrottleInv
<1> QED BY ThrottleStart, ThrottleStep, LinkStart, LinkStep, <1>1, PTL DEF Spec
=============================================================================
