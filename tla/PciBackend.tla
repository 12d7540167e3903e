----------------------------- MODULE PciBackend ------------------------------
(***************************************************************************)
(* The PCI backend (src/src/backend_pci.c): library calls carried out as   *)
(* reads and writes of the sysfs config file of one device, and the walk   *)
(* of its capability list.                                                 *)
(*                                                                         *)
(* A call is a chain of accesses (pci_access_config), an access a chain of *)
(* transfers, and between any two of them the world goes on: the link      *)
(* retrains, the kernel moves fewer cells than it was asked for, and any   *)
(* access may fail, as it does for a device that is gone.                  *)
(*                                                                         *)
(* The config space is a row of cells, one for each register the code      *)
(* tells apart, in the order of their offsets.  A link register is a       *)
(* number: its low 4 bits are the speed code, the next 6 the width.        *)
(***************************************************************************)
EXTENDS LinkTarget, Sequences, FiniteSets, SequencesExt

CONSTANTS
    Device,         \* config spaces to start from
    SpaceEnd,       \* cells of the config space
    HeaderEnd,      \* cells an unprivileged reader of the file gets
    Part,           \* cells the kernel may move when asked for more
    Writable,       \* cells a write changes; the device ignores the others
    LinkWord,       \* values the link status register takes
    Request,        \* the calls a client makes
    MaxHops,        \* capabilities the walk looks at (48)
    DefaultLength,  \* cells of a config read of length 0 (4 bytes)
    MaxLength       \* cells of the longest config read (256 bytes)

\* Cells of the header, and of a capability from its own first cell.
StatusCell == 2
PtrCell == 4
HeaderCells == PtrCell + 1
NextCell == 1
LnkCap == 2
LnkSta == 3

PcieCapId == 16

Cell == 0 .. SpaceEnd - 1

ASSUME SpaceAssumption ==
    /\ SpaceEnd \in Nat /\ HeaderEnd \in HeaderCells .. SpaceEnd
    /\ Writable \subseteq Cell /\ Part \subseteq Nat \ {0}
    /\ MaxHops \in 1 .. SpaceEnd /\ DefaultLength \in Nat \ {0} /\ MaxLength \in Nat
    /\ LinkWord \subseteq Nat
    /\ Device \subseteq [Cell -> Nat]

\* Of the places P, those where a capability is read: the others end the walk.
Readable(P) == P \intersect 1 .. SpaceEnd - 2

\* The registers the walk reads when the list leads to the places P.
ListCells(P) ==
    {StatusCell, PtrCell} \union Readable(P) \union {p + NextCell : p \in Readable(P)}

\* The list of device d leads to places of P and may be circular.  Its
\* registers are read-only and none is a link status register, a PCIe
\* capability lies within the space, and the walk has a hop for every place
\* (48 are all that 192 bytes have room for).
SoundList(d, P) ==
    /\ 0 \in P /\ d[PtrCell] \in P
    /\ \A p \in Readable(P) :
         /\ d[p + NextCell] \in P
         /\ d[p] = PcieCapId => p <= SpaceEnd - 4
    /\ \A p \in P \ {0} : p + LnkSta \notin ListCells(P)
    /\ ListCells(P) \intersect Writable = {}
    /\ Cardinality(P \ {0}) <= MaxHops

ASSUME ListAssumption == \A d \in Device : \E P \in SUBSET Cell : SoundList(d, P)

ASSUME RequestAssumption ==
    \A r \in Request :
        /\ r.op = "write" => r.off \in Nat /\ r.data \in Seq(Nat)
        /\ r.op = "read" => r.off \in Nat /\ r.len \in Nat
        /\ r.op \in {"status", "check"} => r.target \in Wanted

VARIABLES
    cells,      \* the config space of the device
    visible,    \* cells this process may read
    call,       \* the call in progress
    io,         \* its access of the config file
    reply       \* what the last call returned

\* History: what the properties compare the state with.
VARIABLES
    cap,        \* where the device has its PCIe capability, 0 for nowhere
    before,     \* the config space when the call began
    seen,       \* link words the device had since then
    failed      \* an access of the call failed

pciVars == <<cells, visible, call, io, reply, cap, before, seen, failed>>

Idle == [op |-> "none", phase |-> "idle", ptr |-> 0, hops |-> 0, word |-> 0,
         target |-> [gen |-> 0, width |-> 0]]

\* No file open: nothing wanted, nothing transferred.
NoIo == [open |-> FALSE, start |-> 0, off |-> 0, left |-> 0, got |-> <<>>, put |-> <<>>]

NoReply == [op |-> "none", rc |-> 0, has |-> FALSE, status |-> NoStatus, pass |-> FALSE,
            target |-> Idle.target]

Busy == call.op # "none"

-----------------------------------------------------------------------------
(* The device.                                                              *)

\* The pointer stored in the capability at p.
Follow(p) == IF p \in 1 .. SpaceEnd - 2 THEN cells[p + NextCell] ELSE 0

\* The chain of capability pointers, as the device stores it.
Chain ==
    LET at[k \in 0 .. SpaceEnd] == IF k = 0 THEN cells[PtrCell] ELSE Follow(at[k - 1])
    IN  at

\* The place of the PCIe capability: the first one on the chain, 0 for none.
PcieCap ==
    LET chain == Chain
        on == {k \in DOMAIN chain : chain[k] \in 1 .. SpaceEnd - 4 /\ cells[chain[k]] = PcieCapId}
    IN  IF cells[StatusCell] = 0 \/ on = {} THEN 0
        ELSE chain[CHOOSE k \in on : \A j \in on : k <= j]

LinkNow == IF cap = 0 THEN {} ELSE {cells[cap + LnkSta]}

\* The link of the device retrains.
Retrain ==
    /\ cap # 0
    /\ \E w \in LinkWord : cells' = [cells EXCEPT ![cap + LnkSta] = w]
    /\ seen' = seen \union {cells'[cap + LnkSta]}
    /\ UNCHANGED <<visible, call, io, reply, cap, before, failed>>

-----------------------------------------------------------------------------
(* pci_access_config.                                                       *)

Access(off, len, put) ==
    io' = [NoIo EXCEPT !.start = off, !.off = off, !.left = len, !.put = put]

OpenConfig ==
    /\ Busy /\ ~io.open /\ io.left > 0
    /\ io' = [io EXCEPT !.open = TRUE]
    /\ UNCHANGED <<cells, visible, call, reply, cap, before, seen, failed>>

\* Fault: after a short transfer the rest goes to the place of the first part.
TransferRewound(n) ==
    /\ io.open /\ n \in 1 .. io.left /\ io.off + n <= visible
    /\ LET part == io.off .. io.off + n - 1
           done == Len(io.put) - io.left
       IN  /\ cells' = [c \in Cell |->
                 IF io.put # <<>> /\ c \in part \cap Writable
                 THEN io.put[done + c - io.off + 1] ELSE cells[c]]
           /\ io' = [io EXCEPT !.left = @ - n,
                 !.got = IF io.put = <<>> THEN @ \o [i \in 1 .. n |-> cells[io.off + i - 1]] ELSE @]
    /\ UNCHANGED <<visible, call, reply, cap, before, seen, failed>>

\* One pread or pwrite moves n of the cells that are left.
Transfer(n) ==
    /\ io.open /\ n \in 1 .. io.left /\ io.off + n <= visible
    /\ LET part == io.off .. io.off + n - 1
           done == Len(io.put) - io.left
       IN  /\ cells' = [c \in Cell |->
                 IF io.put # <<>> /\ c \in part \cap Writable
                 THEN io.put[done + c - io.off + 1] ELSE cells[c]]
           /\ io' = [io EXCEPT !.left = @ - n, !.off = @ + n,
                 !.got = IF io.put = <<>> THEN @ \o [i \in 1 .. n |-> cells[io.off + i - 1]] ELSE @]
    /\ UNCHANGED <<visible, call, reply, cap, before, seen, failed>>

\* All that is left of the access, as far as the file goes.
Rest == IF io.left <= visible - io.off THEN io.left ELSE visible - io.off

-----------------------------------------------------------------------------
(* The end of a call.                                                       *)

Reply(r) ==
    /\ reply' = [r EXCEPT !.op = call.op, !.target = call.target]
    /\ call' = Idle
    /\ io' = NoIo
    /\ UNCHANGED <<cells, visible, cap, before, seen>>

Returns(rc) == Reply([NoReply EXCEPT !.rc = rc]) /\ UNCHANGED failed

\* pci_find_pcie_capability returns without a capability: device info is
\* complete all the same, a link status is refused.
NoCapability == Reply([NoReply EXCEPT !.rc = IF call.op = "info" THEN 0 ELSE -1])

\* open or a transfer fails, or the file ends before the access does.
AccessFails ==
    /\ Busy /\ io.left > 0
    /\ failed' = TRUE
    /\ IF call.phase \in {"space", "hop"} THEN NoCapability
       ELSE Reply([NoReply EXCEPT !.rc = -1])

-----------------------------------------------------------------------------
(* The calls: pci_send, pci_device_info, pci_link_status.                   *)

Begin(op, phase, target) ==
    /\ call' = [Idle EXCEPT !.op = op, !.phase = phase, !.target = target]
    /\ before' = cells
    /\ seen' = LinkNow
    /\ failed' = FALSE
    /\ UNCHANGED <<cells, visible, cap, reply>>

Refuse(op) ==
    /\ reply' = [NoReply EXCEPT !.op = op, !.rc = -1]
    /\ before' = cells /\ seen' = LinkNow /\ failed' = FALSE
    /\ UNCHANGED <<cells, visible, cap, call, io>>

\* A config write needs data.
CfgWrite(r) ==
    /\ r.op = "write"
    /\ IF r.data = <<>> THEN Refuse("write")
       ELSE Begin("write", "transfer", Idle.target) /\ Access(r.off, Len(r.data), r.data)

\* A config read has a default and a longest length; the buffer it needs when
\* the client gave none may be refused.
CfgRead(r) ==
    /\ r.op = "read"
    /\ LET len == IF r.len = 0 THEN DefaultLength ELSE r.len
       IN  \/ len > MaxLength /\ Refuse("read")
           \/ ~r.buffer /\ Refuse("read")
           \/ /\ len <= MaxLength
              /\ Begin("read", "transfer", Idle.target)
              /\ Access(r.off, len, <<>>)

\* Every other TLP type is refused.
OtherTlp(r) == r.op = "other" /\ Refuse("other")

GetDeviceInfo(r) ==
    /\ r.op = "info"
    /\ Begin("info", "ids", Idle.target)
    /\ Access(0, HeaderCells - 1, <<>>)

\* pcie_get_link_status and pcie_check_link_target begin with the walk.
GetLinkStatus(r) ==
    /\ r.op \in {"status", "check"}
    /\ Begin(r.op, "space", r.target)
    /\ Access(0, SpaceEnd, <<>>)

Call == ~Busy /\ \E r \in Request :
    CfgWrite(r) \/ CfgRead(r) \/ OtherTlp(r) \/ GetDeviceInfo(r) \/ GetLinkStatus(r)

Over(phase) == Busy /\ call.phase = phase /\ io.left = 0

TransferOver == Over("transfer") /\ Returns(0)

IdsOver ==
    /\ Over("ids")
    /\ call' = [call EXCEPT !.phase = "space"]
    /\ Access(0, SpaceEnd, <<>>)
    /\ UNCHANGED <<cells, visible, reply, cap, before, seen, failed>>

\* The walk goes on at the capability p.
Visit(p, hops) ==
    /\ call' = [call EXCEPT !.phase = "hop", !.ptr = p, !.hops = hops]
    /\ Access(p, 2, <<>>)
    /\ UNCHANGED <<cells, visible, reply, cap, before, seen, failed>>

SpaceOver ==
    /\ Over("space")
    /\ LET first == io.got[PtrCell + 1]
       IN  IF io.got[StatusCell + 1] = 0 \/ first = 0
           THEN NoCapability /\ UNCHANGED failed
           ELSE Visit(first, 1)

\* The walk has found its capability.
Found ==
    IF call.op = "info"
    THEN Reply([NoReply EXCEPT !.has = TRUE]) /\ UNCHANGED failed
    ELSE /\ call' = [call EXCEPT !.phase = "lnkcap"]
         /\ Access(call.ptr + LnkCap, 1, <<>>)
         /\ UNCHANGED <<cells, visible, reply, cap, before, seen, failed>>

\* Fault: nothing counts the hops.
HopOverUncounted ==
    /\ Over("hop")
    /\ IF io.got[1] = PcieCapId THEN Found
       ELSE IF io.got[2] = 0 THEN NoCapability /\ UNCHANGED failed
       ELSE Visit(io.got[2], 1)

\* Fault: the last capability is not looked at.
HopOverEarly ==
    /\ Over("hop")
    /\ IF io.got[2] = 0 \/ call.hops = MaxHops THEN NoCapability /\ UNCHANGED failed
       ELSE IF io.got[1] = PcieCapId THEN Found
       ELSE Visit(io.got[2], call.hops + 1)

HopOver ==
    /\ Over("hop")
    /\ IF io.got[1] = PcieCapId THEN Found
       ELSE IF io.got[2] = 0 \/ call.hops = MaxHops THEN NoCapability /\ UNCHANGED failed
       ELSE Visit(io.got[2], call.hops + 1)

LnkCapOver ==
    /\ Over("lnkcap")
    /\ call' = [call EXCEPT !.phase = "lnksta", !.word = io.got[1]]
    /\ Access(call.ptr + LnkSta, 1, <<>>)
    /\ UNCHANGED <<cells, visible, reply, cap, before, seen, failed>>

\* The two registers, read one after the other.
StatusOf(max, sta) ==
    [maxGen |-> GenFromCode(max % 16), negGen |-> GenFromCode(sta % 16),
     maxWidth |-> (max \div 16) % 64, negWidth |-> (sta \div 16) % 64]

\* A code the library does not know fails the call.
LnkStaOver ==
    /\ Over("lnksta")
    /\ LET s == StatusOf(call.word, io.got[1])
       IN  IF UnknownGen \in {s.maxGen, s.negGen} THEN Returns(-1)
           ELSE /\ Reply([NoReply EXCEPT !.status = s,
                        !.pass = (call.op = "check" /\ MeetsTarget(s, call.target))])
                /\ UNCHANGED failed

-----------------------------------------------------------------------------
PciInit ==
    /\ cells \in Device
    /\ visible \in {HeaderEnd, SpaceEnd}
    /\ call = Idle /\ io = NoIo /\ reply = NoReply
    /\ cap = PcieCap
    /\ before = cells /\ seen = LinkNow /\ failed = FALSE

Moves == OpenConfig \/ AccessFails \/ \E n \in Part \union {Rest} : Transfer(n)

Ends == TransferOver \/ IdsOver \/ SpaceOver \/ HopOver \/ LnkCapOver \/ LnkStaOver

PciStep == Moves \/ Ends

PciNext == Call \/ PciStep \/ Retrain

-----------------------------------------------------------------------------
(* Properties.                                                              *)

\* Types of the variables of the PCI backend.
PciTypeOK ==
    /\ cells \in [Cell -> Nat] /\ before \in [Cell -> Nat]
    /\ visible \in {HeaderEnd, SpaceEnd}
    /\ failed \in BOOLEAN
    /\ call.phase \in {"idle", "transfer", "ids", "space", "hop", "lnkcap", "lnksta"}
    /\ call.hops \in 0 .. MaxHops /\ (Busy <=> call.phase # "idle")
    /\ io.got \in Seq(Nat) /\ io.left \in Nat
    /\ reply.rc \in {0, -1} /\ cap \in Cell
    /\ seen \subseteq Nat

\* However a transfer is cut into parts, every cell of it is read from its own
\* place, or written to it, and no other cell is touched: a config write that
\* fails half way has written exactly a first part (pci_access_config).
TransfersInPlace ==
    LET volatile == IF cap = 0 THEN {} ELSE {cap + LnkSta}
        done == Len(io.put) - io.left
    IN  /\ \A i \in DOMAIN io.got :
             io.start + i - 1 \notin volatile => io.got[i] = before[io.start + i - 1]
        /\ call.op = "write" => \A c \in Cell \ volatile :
             cells[c] = IF c \in Writable /\ c \in io.start .. io.start + done - 1
                        THEN io.put[c - io.start + 1] ELSE before[c]

\* Device info names a PCIe capability only when one is on the list, and denies
\* it only when there is none or the list could not be read: a list that is
\* circular, or leads out of the space, changes neither (the walk's 48 hops).
CapabilityIsThere ==
    reply.op = "info" /\ reply.rc = 0 /\ ~Busy =>
        (reply.has <=> cap # 0) \/ (~reply.has /\ failed)

\* A link check that passes, and one that fails, tells of a link the device
\* had during the call, whatever retrains between its accesses; a refused call
\* never leaves a pass behind (pcie_check_link_target over pci_link_status).
VerdictWasTrue ==
    reply.op = "check" /\ ~Busy =>
        \/ reply.rc = -1 /\ ~reply.pass
        \/ \E w \in seen :
             reply.pass <=> /\ w % 16 >= reply.target.gen
                            /\ (w \div 16) % 64 >= reply.target.width

\* Every call returns: also on a circular capability list.
CallsReturn == Busy ~> ~Busy
=============================================================================
