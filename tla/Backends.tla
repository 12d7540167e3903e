------------------------------ MODULE Backends -------------------------------
(***************************************************************************)
(* A program on one context of the library: pcie_open chooses the backend, *)
(* and every later call goes to that one (src/src/pcapcie.c).  The program *)
(* makes calls of its own and, at some time, the checks of                 *)
(* examples/pci_link_matrix.c: every case of its table, one after another, *)
(* each reading the link anew, and an exit code for all of them.           *)
(***************************************************************************)
EXTENDS PciBackend, DummyBackend

CONSTANTS
    Case,       \* the table of cases, from the easiest to the hardest
    Name        \* the backend names a program may be given

ASSUME CaseAssumption ==
    /\ Case \in Seq(Wanted)
    /\ \A i, j \in 1 .. Len(Case) :
         i < j => Case[i].gen <= Case[j].gen /\ Case[i].width <= Case[j].width

VARIABLES
    name,       \* the backend name the program is given (argv[1])
    opened,     \* the backend of the context, "none" while there is none
    next,       \* the next case of the matrix, 0 before it is begun
    verdicts,   \* the outcomes of the cases so far
    exit        \* exit code of the program

\* History: link words the device had since the matrix was begun.
VARIABLE links

program == <<name, opened, next, verdicts, exit, links>>
vars == <<pciVars, dummyVars, program>>

\* pcie_open: a name the library does not know opens nothing.
Open ==
    /\ opened = "none" /\ exit = -1
    /\ \/ name \in {"dummy", "golden"} /\ opened' = "golden" /\ exit' = exit
       \/ name = "pci" /\ opened' = "pci" /\ exit' = exit
       \/ name = "unknown" /\ exit' = 1 /\ opened' = opened
    /\ UNCHANGED <<pciVars, dummyVars, name, next, verdicts, links>>

\* Calls on the backend that is open, and what happens to its device.
PciWorks ==
    /\ opened = "pci" /\ next = 0
    /\ Call
    /\ UNCHANGED <<dummyVars, program>>

\* A step of the call in progress, or of the device.
Within(step) ==
    /\ opened = "pci"
    /\ step
    /\ links' = IF next = 0 THEN links ELSE links \union LinkNow \union LinkNow'
    /\ UNCHANGED <<dummyVars, name, opened, next, verdicts, exit>>

GoldenWorks ==
    /\ opened = "golden" /\ next = 0
    /\ DummyNext
    /\ UNCHANGED <<pciVars, program>>

-----------------------------------------------------------------------------
(* The matrix.                                                              *)

InMatrix == next \in DOMAIN Case

BeginMatrix ==
    /\ opened # "none" /\ next = 0 /\ ~Busy
    /\ next' = 1
    /\ reply' = NoReply
    /\ links' = IF opened = "pci" THEN LinkNow ELSE {}
    /\ UNCHANGED <<cells, visible, cap, call, io, before, seen, failed,
                   dummyVars, name, opened, verdicts, exit>>

\* A case on the PCI backend: the call, and its verdict when it has returned.
AskPci ==
    /\ opened = "pci" /\ InMatrix /\ ~Busy /\ reply.op = "none"
    /\ GetLinkStatus([op |-> "check", target |-> Case[next]])
    /\ UNCHANGED <<dummyVars, program>>

NotePci ==
    /\ opened = "pci" /\ InMatrix /\ ~Busy /\ reply.op = "check"
    /\ verdicts' = Append(verdicts, IF reply.rc # 0 THEN "unread"
                                    ELSE IF reply.pass THEN "pass" ELSE "fail")
    /\ next' = next + 1
    /\ reply' = NoReply
    /\ UNCHANGED <<cells, visible, cap, call, io, before, seen, failed,
                   dummyVars, name, opened, exit, links>>

\* A case on the golden backend.
CheckGolden ==
    /\ opened = "golden" /\ InMatrix
    /\ DummyCheckLink(Case[next])
    /\ verdicts' = Append(verdicts, IF link'.pass THEN "pass" ELSE "fail")
    /\ next' = next + 1
    /\ UNCHANGED <<pciVars, name, opened, exit, links>>

\* The program closes its context and returns 0 or 3: a case that could not
\* be read is one that failed.
EndMatrix ==
    /\ next = Len(Case) + 1 /\ exit = -1
    /\ exit' = IF \A i \in DOMAIN verdicts : verdicts[i] = "pass" THEN 0 ELSE 3
    /\ opened' = "none"
    /\ UNCHANGED <<pciVars, dummyVars, name, next, verdicts, links>>

-----------------------------------------------------------------------------
\* A device or an environment that the backend will not look at is any one.
Init ==
    /\ PciInit /\ DummyInit
    /\ name \in Name
    /\ name # "pci" => cells = (CHOOSE d \in Device : TRUE) /\ visible = SpaceEnd
    /\ name = "pci" => env = (CHOOSE e \in Env : TRUE)
    /\ opened = "none" /\ next = 0 /\ verdicts = <<>> /\ exit = -1
    /\ links = {}

Next ==
    \/ Open
    \/ PciWorks \/ Within(PciStep) \/ Within(Retrain)
    \/ GoldenWorks
    \/ BeginMatrix \/ AskPci \/ NotePci \/ CheckGolden \/ EndMatrix

Spec == Init /\ [][Next]_vars

\* The library runs its calls to the end.
FairSpec == Spec /\ WF_vars(Within(PciStep))

-----------------------------------------------------------------------------
(* Properties.                                                              *)

\* Types of the variables of the program.
TypeOK ==
    /\ PciTypeOK /\ DummyTypeOK
    /\ name \in Name /\ opened \in {"none", "pci", "golden"}
    /\ next \in 0 .. Len(Case) + 1
    /\ verdicts \in Seq({"pass", "fail", "unread"}) /\ Len(verdicts) <= Len(Case)
    /\ exit \in {-1, 0, 1, 3}
    /\ opened # "pci" => ~Busy

\* Every case of the matrix reads the link anew.  While the link does not
\* retrain and no access fails, the answers agree with each other: a link that
\* meets a harder case meets the easier ones, and "Overall: PASS" is given for
\* a link that meets them all.
MatrixIsConsistent ==
    /\ exit = 0 => Len(verdicts) = Len(Case) /\ \A i \in DOMAIN verdicts : verdicts[i] = "pass"
    /\ Cardinality(links) <= 1 =>
         \A i, j \in DOMAIN verdicts : i < j /\ verdicts[j] = "pass" => verdicts[i] # "fail"
=============================================================================
