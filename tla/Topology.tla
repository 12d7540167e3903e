------------------------------ MODULE Topology -------------------------------
(***************************************************************************)
(* The fabric model of src/pcie_topology.c: reading a description,         *)
(* completing it with default parents, and walking it.                     *)
(*                                                                         *)
(* The description is a tree only by the names in it: a switch names the   *)
(* root port it hangs from, an endpoint a root port or the downstream port *)
(* of a switch.  Names that are missing are assigned in turn; nothing      *)
(* checks the names that are given.  The reader takes the sections in any  *)
(* order and any number of times, so each element is one step here; what   *)
(* the fields that play no part in the walk hold is left out.              *)
(***************************************************************************)
EXTENDS Naturals, Sequences, FiniteSets

CONSTANTS
    MAX_RC, MAX_PORTS, MAX_SWITCHES, MAX_DEVICES,   \* sizes of the arrays
    PortName,       \* names a description gives a root port
    SwitchName,     \* names of switches
    Parent          \* names a description gives as parents

NoName == <<>>

ASSUME SizeAssumption == {MAX_RC, MAX_PORTS, MAX_SWITCHES, MAX_DEVICES} \subseteq Nat \ {0}
ASSUME NameAssumption == NoName \notin Parent

\* Ids made up by the reader: "rp<n>" for a root port, "<switch>_dp<d>".
RootPortId(n) == <<"rp", n>>
DownstreamId(name, d) == <<name, d>>

VARIABLES
    phase,      \* "closed", "reading", "failed", "loaded"
    rcs,        \* root_complexes: for each, the ids of its root ports
    switches,   \* [name, parent, downs]: downs is downstream_port_count
    endpoints,  \* for each, its parent
    given       \* history: the parents as the description has them

topo == <<rcs, switches, endpoints>>
vars == <<phase, topo, given>>

RootPorts == UNION {{r} \X DOMAIN rcs[r] : r \in DOMAIN rcs}
IdOf(rp) == rcs[rp[1]][rp[2]]

DownstreamPorts ==
    UNION {{s} \X (1 .. switches[s].downs) : s \in DOMAIN switches}
DownIdOf(dp) == DownstreamId(switches[dp[1]].name, dp[2])

-----------------------------------------------------------------------------
(* load_topology_from_json.                                                 *)

Fail == phase' = "failed" /\ UNCHANGED <<topo, given>>

\* A file that cannot be read fails before anything is filled in.
Open ==
    /\ phase = "closed"
    /\ \/ phase' = "reading" /\ UNCHANGED <<topo, given>>
       \/ Fail

\* parse_root_complex with parse_root_port: a port without a name of its own
\* is called after its place in its root complex.
ReadRootComplex(names) ==
    /\ phase = "reading"
    /\ \/ (Len(rcs) >= MAX_RC \/ Len(names) > MAX_PORTS) /\ Fail
       \/ /\ Len(rcs) < MAX_RC /\ Len(names) <= MAX_PORTS
          /\ rcs' = Append(rcs, [p \in DOMAIN names |->
                        IF names[p] = NoName THEN RootPortId(p) ELSE names[p]])
          /\ UNCHANGED <<phase, switches, endpoints, given>>

\* Fault: the limit is tested after the element is in.
ReadSwitchLate(name, parent, downs) ==
    /\ phase = "reading"
    /\ \/ (Len(switches) > MAX_SWITCHES \/ downs > MAX_PORTS) /\ Fail
       \/ /\ Len(switches) <= MAX_SWITCHES /\ downs <= MAX_PORTS
          /\ switches' = Append(switches, [name |-> name, parent |-> parent, downs |-> downs])
          /\ UNCHANGED <<phase, rcs, endpoints, given>>

\* parse_switch.
ReadSwitch(name, parent, downs) ==
    /\ phase = "reading"
    /\ \/ (Len(switches) >= MAX_SWITCHES \/ downs > MAX_PORTS) /\ Fail
       \/ /\ Len(switches) < MAX_SWITCHES /\ downs <= MAX_PORTS
          /\ switches' = Append(switches, [name |-> name, parent |-> parent, downs |-> downs])
          /\ UNCHANGED <<phase, rcs, endpoints, given>>

\* parse_endpoint.
ReadEndpoint(parent) ==
    /\ phase = "reading"
    /\ \/ Len(endpoints) >= MAX_DEVICES /\ Fail
       \/ /\ Len(endpoints) < MAX_DEVICES
          /\ endpoints' = Append(endpoints, parent)
          /\ UNCHANGED <<phase, rcs, switches, given>>

\* Text that is no JSON leaves what was read before it.
BadText == phase = "reading" /\ Fail

-----------------------------------------------------------------------------
(* assign_default_parents.                                                  *)

\* The elements of a finite set of pairs of naturals, row by row.
InOrder(pairs) ==
    LET Before(a, b) == a[1] < b[1] \/ (a[1] = b[1] /\ a[2] <= b[2])
        Place(a) == Cardinality({b \in pairs : Before(b, a)})
    IN  [n \in 1 .. Cardinality(pairs) |-> CHOOSE a \in pairs : Place(a) = n]

FirstOf(n, s) == SubSeq(s, 1, IF Len(s) < n THEN Len(s) ELSE n)

\* rp_ids and slots: the root ports, and the downstream ports of all switches
\* or, if there are none, the root ports again.
RpIds == [n \in DOMAIN FirstOf(MAX_PORTS, InOrder(RootPorts)) |-> IdOf(InOrder(RootPorts)[n])]

Slots ==
    LET dps == FirstOf(MAX_DEVICES, InOrder(DownstreamPorts))
    IN  IF dps = <<>> THEN FirstOf(MAX_DEVICES, RpIds)
                      ELSE [n \in DOMAIN dps |-> DownIdOf(dps[n])]

\* Fault: the turn moves on with every element, named or not.
InTurnAlways(parents, choices) ==
    [i \in DOMAIN parents |->
        IF parents[i] # NoName \/ choices = <<>> THEN parents[i]
        ELSE choices[((i - 1) % Len(choices)) + 1]]

\* The elements without a parent get the choices in turn.
InTurn(parents, choices) ==
    [i \in DOMAIN parents |->
        IF parents[i] # NoName \/ choices = <<>> THEN parents[i]
        ELSE LET turn == Cardinality({j \in 1 .. i - 1 : parents[j] = NoName})
             IN  choices[(turn % Len(choices)) + 1]]

ParentsOf(sws) == [s \in DOMAIN sws |-> sws[s].parent]

\* Fault: endpoints are placed on root ports even where there are switches
\* and switches keep no parent.
FinishEndpointsOnly ==
    /\ phase = "reading"
    /\ phase' = "loaded"
    /\ given' = [switches |-> ParentsOf(switches), endpoints |-> endpoints]
    /\ endpoints' = InTurn(endpoints, Slots)
    /\ UNCHANGED <<rcs, switches>>

\* Fault: defaults replace the parents that are given.
FinishForgetful ==
    /\ phase = "reading"
    /\ phase' = "loaded"
    /\ given' = [switches |-> ParentsOf(switches), endpoints |-> endpoints]
    /\ switches' = [s \in DOMAIN switches |->
            [switches[s] EXCEPT !.parent =
                InTurn([i \in DOMAIN switches |-> NoName], RpIds)[s]]]
    /\ endpoints' = InTurn(endpoints, Slots)
    /\ UNCHANGED rcs

\* The end of the description.
Finish ==
    /\ phase = "reading"
    /\ phase' = "loaded"
    /\ given' = [switches |-> ParentsOf(switches), endpoints |-> endpoints]
    /\ switches' = [s \in DOMAIN switches |->
            [switches[s] EXCEPT !.parent = InTurn(ParentsOf(switches), RpIds)[s]]]
    /\ endpoints' = InTurn(endpoints, Slots)
    /\ UNCHANGED rcs

-----------------------------------------------------------------------------
(* topology_function_count and run_pcie_fabric_enumeration_to.              *)

Switches == DOMAIN switches
Endpoints == DOMAIN endpoints

FunctionCount ==
    Cardinality(RootPorts) + Cardinality(Switches)
        + Cardinality(DownstreamPorts) + Cardinality(Endpoints)

\* The walk goes over the root ports; below each, over the switches that name
\* it, their downstream ports, the endpoints that name one of these, and at
\* last the endpoints that name the root port itself.  A line of its output is
\* a pair: what is shown above it, and the element it shows.
SwitchLines == {l \in RootPorts \X Switches : switches[l[2]].parent = IdOf(l[1])}

\* Fault: the downstream ports of every switch are shown below each.
PortLinesOfAll == SwitchLines \X DownstreamPorts

PortLines == {l \in SwitchLines \X DownstreamPorts : l[2][1] = l[1][2]}

EndpointLines ==
    {l \in PortLines \X Endpoints : endpoints[l[2]] = DownIdOf(l[1][2])}

RootEndpointLines ==
    {l \in RootPorts \X Endpoints : endpoints[l[2]] = IdOf(l[1])}

TimesShown(lines, x) == Cardinality({l \in lines : l[2] = x})

LinesShown ==
    Cardinality(RootPorts) + Cardinality(SwitchLines)
        + Cardinality(PortLines) + Cardinality(EndpointLines)
        + Cardinality(RootEndpointLines)

-----------------------------------------------------------------------------
Init ==
    /\ phase = "closed"
    /\ rcs = <<>> /\ switches = <<>> /\ endpoints = <<>>
    /\ given = [switches |-> <<>>, endpoints |-> <<>>]

PortLists == UNION {[1 .. n -> PortName \union {NoName}] : n \in 0 .. MAX_PORTS + 1}

Next ==
    \/ Open
    \/ \E names \in PortLists : ReadRootComplex(names)
    \/ \E name \in SwitchName, parent \in Parent \union {NoName}, downs \in 0 .. MAX_PORTS + 1 :
            ReadSwitch(name, parent, downs)
    \/ \E parent \in Parent \union {NoName} : ReadEndpoint(parent)
    \/ BadText
    \/ Finish

Spec == Init /\ [][Next]_vars

-----------------------------------------------------------------------------
(* Properties.                                                              *)

\* Types; the arrays are never written past their ends.
TypeOK ==
    /\ phase \in {"closed", "reading", "failed", "loaded"}
    /\ Len(rcs) <= MAX_RC /\ \A r \in DOMAIN rcs : Len(rcs[r]) <= MAX_PORTS
    /\ Len(switches) <= MAX_SWITCHES
    /\ \A s \in Switches : switches[s].downs \in 0 .. MAX_PORTS
    /\ Len(endpoints) <= MAX_DEVICES
    /\ DOMAIN given.switches \subseteq Switches
    /\ DOMAIN given.endpoints \subseteq Endpoints

\* Names are unambiguous: root ports by their ids, switches with downstream
\* ports by their names, and no root port is called like a downstream port.
Unambiguous ==
    /\ \A a, b \in RootPorts : IdOf(a) = IdOf(b) => a = b
    /\ \A a, b \in DownstreamPorts : DownIdOf(a) = DownIdOf(b) => a = b
    /\ \A a \in RootPorts, b \in DownstreamPorts : IdOf(a) # DownIdOf(b)

\* A fabric whose names are unambiguous is walked without showing a function
\* twice, whatever parents it names (run_pcie_fabric_enumeration_to).
NothingShownTwice ==
    phase = "loaded" /\ Unambiguous =>
        /\ \A s \in Switches : TimesShown(SwitchLines, s) <= 1
        /\ \A dp \in DownstreamPorts : TimesShown(PortLines, dp) <= 1
        /\ \A e \in Endpoints :
             TimesShown(EndpointLines, e) + TimesShown(RootEndpointLines, e) <= 1

\* If moreover the description names no parents and has a root port, the
\* defaults make one tree of it: the walk shows as many functions as its
\* heading counts (assign_default_parents against topology_function_count).
DefaultsMakeOneTree ==
    /\ phase = "loaded" /\ Unambiguous /\ RootPorts # {}
    /\ \A s \in Switches : given.switches[s] = NoName
    /\ \A e \in Endpoints : given.endpoints[e] = NoName
    => LinesShown = FunctionCount

\* A parent that is given stays, and as soon as there is a root port every
\* switch and endpoint has one.
ParentsCompleted ==
    phase = "loaded" =>
        /\ \A s \in Switches :
             /\ given.switches[s] # NoName => switches[s].parent = given.switches[s]
             /\ RootPorts # {} => switches[s].parent # NoName
        /\ \A e \in Endpoints :
             /\ given.endpoints[e] # NoName => endpoints[e] = given.endpoints[e]
             /\ RootPorts # {} => endpoints[e] # NoName

\* The defaults are spread evenly: of two downstream ports no one gets two
\* unnamed endpoints more than the other, wherever named ones come between.
DefaultsAreSpread ==
    LET unnamed(dp) == {e \in Endpoints :
                          /\ given.endpoints[e] = NoName
                          /\ endpoints[e] = DownIdOf(dp)}
    IN  phase = "loaded" /\ Unambiguous =>
            \A a, b \in DownstreamPorts :
                Cardinality(unnamed(a)) <= Cardinality(unnamed(b)) + 1
=============================================================================
