---------------------------- MODULE TopologyProofs ----------------------------
(***************************************************************************)
(* Proofs about Topology, for arrays of any size and every description:    *)
(* the arrays hold, default parents complete the tree and are spread       *)
(* evenly, and the walk shows each function at most once, and exactly once *)
(* where the defaults have made the tree.                                  *)
(*                                                                         *)
(* The invariant is short: a loaded topology is its description, completed *)
(* by InTurn.  The properties are facts about that, most of them by        *)
(* counting.                                                               *)
(***************************************************************************)
EXTENDS Topology, FiniteSetTheorems, SequenceTheorems, TLAPS

-----------------------------------------------------------------------------
(* Counting.                                                                *)

LEMMA AtMostOne ==
    ASSUME NEW S, \A x, y \in S : x = y
    PROVE  IsFiniteSet(S) /\ Cardinality(S) \in Nat /\ Cardinality(S) <= 1
<1>1. CASE S = {}
    BY <1>1, FS_EmptySet
<1>2. CASE S # {}
    <2>1. PICK x : S = {x}
        BY <1>2
    <2> QED BY <2>1, FS_Singleton
<1> QED BY <1>1, <1>2

LEMMA GridIsFinite ==
    ASSUME NEW m \in Nat, NEW n \in Nat
    PROVE  IsFiniteSet((1 .. m) \X (1 .. n))
<1>1. IsFiniteSet(1 .. m) /\ IsFiniteSet(1 .. n)
    BY FS_Interval
<1> QED BY <1>1, FS_Product

\* Lines that show each x at most once are as many as what they show.
LEMMA LinesCount ==
    ASSUME NEW lines, NEW X, IsFiniteSet(X),
           \A l \in lines : l[2] \in X,
           \A l, m \in lines : l[2] = m[2] => l = m
    PROVE  /\ IsFiniteSet(lines)
           /\ (\A x \in X : \E l \in lines : l[2] = x) => Cardinality(lines) = Cardinality(X)
<1> DEFINE f == [l \in lines |-> l[2]]
<1>1. f \in Injection(lines, X)
    BY DEF Injection, IsInjective
<1>2. ASSUME \A x \in X : \E l \in lines : l[2] = x
      PROVE  f \in Surjection(lines, X)
    BY <1>2 DEF Surjection
<1>3. IsFiniteSet(lines)
    BY <1>1, FS_Injection
<1>4. Cardinality(lines) = Cardinality(X) <=> f \in Surjection(lines, X)
    BY <1>1, FS_Injection
<1> QED BY <1>2, <1>3, <1>4

\* Quotient and remainder are unique.
LEMMA DivisionUnique ==
    ASSUME NEW L \in Nat \ {0}, NEW x \in Int, NEW y \in Int,
           NEW k \in 0 .. L - 1, NEW m \in 0 .. L - 1, L * x + k = L * y + m
    PROVE  x = y /\ k = m
<1>1. L * (x - y) = m - k
    OBVIOUS
<1>2. CASE x - y >= 1
    <2>1. L * (x - y) >= L
        BY <1>2, SMTT(30)
    <2> QED BY <2>1, <1>1
<1>3. CASE x - y <= -1
    <2>1. L * (y - x) >= L
        BY <1>3, SMTT(30)
    <2>2. L * (y - x) = k - m
        BY <1>1, SMTT(30)
    <2> QED BY <2>1, <2>2
<1>4. CASE x = y
    BY <1>4
<1> QED BY <1>2, <1>3, <1>4

LEMMA Division ==
    ASSUME NEW t \in Nat, NEW L \in Nat \ {0}
    PROVE  t % L \in 0 .. L - 1 /\ t \div L \in Nat /\ t = L * (t \div L) + (t % L)
OBVIOUS

\* Numbers below L are their own remainders, and the number that lies in the
\* place k of the round before is found by subtraction.
LEMMA RoundBefore ==
    ASSUME NEW t \in Nat, NEW L \in Nat \ {0}, NEW k \in 0 .. L - 1
    PROVE  /\ t < L => t % L = t
           /\ t >= L => /\ t - (t % L) - L + k \in 0 .. t - 1
                        /\ (t - (t % L) - L + k) % L = k
<1>1. PICK q \in Nat, r \in 0 .. L - 1 : q = t \div L /\ r = t % L /\ t = L * q + r
    BY Division
<1>2. ASSUME t < L
      PROVE  t % L = t
    <2>1. L * 0 + t = L * q + r /\ t \in 0 .. L - 1
        BY <1>1, <1>2
    <2>2. t = r
        BY <2>1, DivisionUnique
    <2> QED BY <1>1, <2>2
<1>3. ASSUME t >= L
      PROVE  /\ t - (t % L) - L + k \in 0 .. t - 1
             /\ (t - (t % L) - L + k) % L = k
    <2>1. q >= 1
        <3>1. CASE q = 0
            <4>1. t = r
                BY <3>1, <1>1
            <4> QED BY <4>1, <1>3
        <3> QED BY <3>1
    <2>2. PICK s : s = L * (q - 1) + k
        OBVIOUS
    <2>3. L * (q - 1) \in Nat /\ L * (q - 1) = L * q - L
        BY <2>1, SMTT(30)
    <2>4. s \in Nat /\ s = t - r - L + k
        BY <1>1, <2>2, <2>3
    <2>5. PICK p \in Nat, m \in 0 .. L - 1 : m = s % L /\ s = L * p + m
        <3>1. s \in Nat
            BY <2>4
        <3>2. s % L \in 0 .. L - 1 /\ s \div L \in Nat /\ s = L * (s \div L) + (s % L)
            BY <3>1, Division
        <3> QED BY <3>2, ZenonT(30)
    <2>6. m = k
        <3>1. L * (q - 1) + k = L * p + m /\ q - 1 \in Int /\ p \in Int
            BY <2>2, <2>5
        <3> QED BY <3>1, DivisionUnique
    <2>7. s < t
        BY <2>4
    <2> QED BY <1>1, <2>4, <2>5, <2>6, <2>7
<1> QED BY <1>2, <1>3

-----------------------------------------------------------------------------
(* InOrder lists a finite set of pairs, each once.                          *)

Before(a, b) == a[1] < b[1] \/ (a[1] = b[1] /\ a[2] <= b[2])
Place(pairs, a) == Cardinality({b \in pairs : Before(b, a)})

LEMMA BeforeIsOrder ==
    /\ \A a \in Nat \X Nat : Before(a, a)
    /\ \A a, b \in Nat \X Nat : /\ Before(a, b) \/ Before(b, a)
                                /\ Before(a, b) /\ Before(b, a) => a = b
    /\ \A a, b, c \in Nat \X Nat : Before(a, b) /\ Before(b, c) => Before(a, c)
BY DEF Before

LEMMA PlacesDiffer ==
    ASSUME NEW pairs \in SUBSET (Nat \X Nat), IsFiniteSet(pairs),
           NEW a \in pairs, NEW b \in pairs, Place(pairs, a) = Place(pairs, b)
    PROVE  a = b
<1>1. ASSUME NEW x \in pairs, NEW y \in pairs, Before(x, y), Place(pairs, x) = Place(pairs, y)
      PROVE  x = y
    <2>1. PICK X, Y : X = {z \in pairs : Before(z, x)} /\ Y = {z \in pairs : Before(z, y)}
        OBVIOUS
    <2>2. X \subseteq Y
        BY <2>1, <1>1, BeforeIsOrder
    <2>3. IsFiniteSet(Y)
        BY <2>1, FS_Subset
    <2>4. Cardinality(X) = Cardinality(Y)
        BY <2>1, <1>1 DEF Place
    <2>5. X = Y
        BY <2>2, <2>3, <2>4, FS_Subset
    <2>6. y \in Y
        BY <2>1, BeforeIsOrder
    <2>7. Before(y, x)
        BY <2>1, <2>5, <2>6
    <2> QED BY <2>7, <1>1, BeforeIsOrder
<1>2. Before(a, b) \/ Before(b, a)
    BY BeforeIsOrder
<1> QED BY <1>1, <1>2

LEMMA InOrderLists ==
    ASSUME NEW pairs \in SUBSET (Nat \X Nat), IsFiniteSet(pairs)
    PROVE  /\ InOrder(pairs) \in Seq(pairs) /\ Len(InOrder(pairs)) = Cardinality(pairs)
           /\ \A m, n \in DOMAIN InOrder(pairs) :
                InOrder(pairs)[m] = InOrder(pairs)[n] => m = n
           /\ \A a \in pairs : \E n \in DOMAIN InOrder(pairs) : InOrder(pairs)[n] = a
<1>1. PICK N \in Nat : N = Cardinality(pairs)
    BY FS_CardinalityType
<1>2. PICK place : place = [a \in pairs |-> Place(pairs, a)]
    OBVIOUS
<1>3. \A a \in pairs : place[a] \in 1 .. N
    <2> SUFFICES ASSUME NEW a \in pairs
                 PROVE  Place(pairs, a) \in 1 .. N
        BY <1>2
    <2>1. PICK X : X = {z \in pairs : Before(z, a)}
        OBVIOUS
    <2>2. IsFiniteSet(X) /\ Cardinality(X) <= N
        BY <2>1, <1>1, FS_Subset
    <2>3. a \in X
        BY <2>1, BeforeIsOrder
    <2>4. Cardinality(X) \in Nat /\ Cardinality(X) # 0
        BY <2>2, <2>3, FS_CardinalityType, FS_EmptySet
    <2> QED BY <2>1, <2>2, <2>4 DEF Place
<1>4. \A a, b \in pairs : place[a] = place[b] => a = b
    BY <1>2, PlacesDiffer
<1>5. \A n \in 1 .. N : \E a \in pairs : place[a] = n
    <2>1. place \in Injection(pairs, 1 .. N)
        BY <1>2, <1>3, <1>4 DEF Injection, IsInjective
    <2>2. IsFiniteSet(1 .. N) /\ Cardinality(1 .. N) = N
        BY FS_Interval
    <2>3. place \in Surjection(pairs, 1 .. N)
        BY <2>1, <2>2, <1>1, FS_Injection
    <2> QED BY <2>3 DEF Surjection
<1>6. PICK s : s = InOrder(pairs)
    OBVIOUS
<1>7. s = [n \in 1 .. N |-> CHOOSE a \in pairs : Place(pairs, a) = n]
    BY <1>1, <1>6 DEF InOrder, Place, Before
<1>8. \A n \in 1 .. N : s[n] \in pairs /\ place[s[n]] = n
    <2> SUFFICES ASSUME NEW n \in 1 .. N
                 PROVE  s[n] \in pairs /\ Place(pairs, s[n]) = n
        BY <1>2
    <2>1. \E a \in pairs : Place(pairs, a) = n
        BY <1>2, <1>5
    <2> QED BY <2>1, <1>7
<1>9. s \in Seq(pairs) /\ Len(s) = N /\ DOMAIN s = 1 .. N
    BY <1>7, <1>8
<1>10. \A a \in pairs : \E n \in 1 .. N : s[n] = a
    BY <1>3, <1>4, <1>8
<1>11. \A m, n \in 1 .. N : s[m] = s[n] => m = n
    BY <1>8
<1> QED BY <1>1, <1>6, <1>9, <1>10, <1>11

LEMMA FirstOfFacts ==
    ASSUME NEW S, NEW s \in Seq(S), NEW n \in Nat
    PROVE  /\ FirstOf(n, s) \in Seq(S)
           /\ Len(FirstOf(n, s)) = IF Len(s) < n THEN Len(s) ELSE n
           /\ \A i \in 1 .. Len(FirstOf(n, s)) : i \in DOMAIN s /\ FirstOf(n, s)[i] = s[i]
BY DEF FirstOf

-----------------------------------------------------------------------------
(* Names and ports.                                                         *)

PortId == (PortName \ {NoName}) \union {RootPortId(n) : n \in Nat}
DownId == {DownstreamId(name, d) : name \in SwitchName, d \in Nat}
Name == Parent \union PortId \union DownId \union {NoName}

RcTypes ==
    /\ rcs \in Seq(Seq(PortId)) /\ Len(rcs) <= MAX_RC
    /\ \A r \in DOMAIN rcs : Len(rcs[r]) <= MAX_PORTS
SwitchTypes ==
    /\ switches \in Seq([name : SwitchName, parent : Name, downs : 0 .. MAX_PORTS])
    /\ Len(switches) <= MAX_SWITCHES
EndTypes == endpoints \in Seq(Name) /\ Len(endpoints) <= MAX_DEVICES

LEMMA Sizes ==
    /\ MAX_RC \in Nat \ {0} /\ MAX_PORTS \in Nat \ {0}
    /\ MAX_SWITCHES \in Nat \ {0} /\ MAX_DEVICES \in Nat \ {0}
    /\ {MAX_RC, MAX_PORTS, MAX_SWITCHES, MAX_DEVICES} \subseteq Nat
BY SizeAssumption

LEMMA IdsAreNames == NoName \notin PortId \union DownId
<1>1. \A n : RootPortId(n) # NoName
    BY DEF RootPortId, NoName
<1>2. \A name, d : DownstreamId(name, d) # NoName
    BY DEF DownstreamId, NoName
<1> QED BY <1>1, <1>2 DEF PortId, DownId

LEMMA RootPortFacts ==
    ASSUME RcTypes
    PROVE  /\ RootPorts \in SUBSET (Nat \X Nat) /\ IsFiniteSet(RootPorts)
           /\ \A rp \in RootPorts : IdOf(rp) \in PortId
<1>1. \A a : a \in RootPorts <=> \E r \in DOMAIN rcs : \E p \in DOMAIN rcs[r] : a = <<r, p>>
    BY DEF RootPorts
<1>2. /\ DOMAIN rcs = 1 .. Len(rcs) /\ Len(rcs) \in Nat
      /\ \A r \in DOMAIN rcs : rcs[r] \in Seq(PortId) /\ Len(rcs[r]) <= MAX_PORTS
    BY DEF RcTypes
<1>3. \A r \in DOMAIN rcs : /\ DOMAIN rcs[r] \in SUBSET (1 .. MAX_PORTS)
                            /\ \A p \in DOMAIN rcs[r] : rcs[r][p] \in PortId
    <2> SUFFICES ASSUME NEW r \in DOMAIN rcs
                 PROVE  /\ DOMAIN rcs[r] \in SUBSET (1 .. MAX_PORTS)
                        /\ \A p \in DOMAIN rcs[r] : rcs[r][p] \in PortId
        OBVIOUS
    <2>1. PICK t : t = rcs[r]
        OBVIOUS
    <2>2. t \in Seq(PortId) /\ Len(t) <= MAX_PORTS
        BY <1>2, <2>1
    <2>3. DOMAIN t \in SUBSET (1 .. MAX_PORTS) /\ \A p \in DOMAIN t : t[p] \in PortId
        BY <2>2, Sizes
    <2> QED BY <2>1, <2>3
<1>4. RootPorts \in SUBSET ((1 .. Len(rcs)) \X (1 .. MAX_PORTS))
    <2> SUFFICES ASSUME NEW a \in RootPorts
                 PROVE  a \in (1 .. Len(rcs)) \X (1 .. MAX_PORTS)
        OBVIOUS
    <2>1. PICK r \in DOMAIN rcs : \E p \in DOMAIN rcs[r] : a = <<r, p>>
        BY <1>1
    <2>2. PICK p \in DOMAIN rcs[r] : a = <<r, p>>
        BY <2>1
    <2>3. r \in 1 .. Len(rcs) /\ p \in 1 .. MAX_PORTS
        BY <1>2, <1>3
    <2> QED BY <2>2, <2>3
<1>5. IsFiniteSet((1 .. Len(rcs)) \X (1 .. MAX_PORTS))
    BY <1>2, Sizes, GridIsFinite
<1>6. IsFiniteSet(RootPorts)
    BY <1>4, <1>5, FS_Subset
<1>7. RootPorts \in SUBSET (Nat \X Nat)
    BY <1>4
<1>8. \A rp \in RootPorts : IdOf(rp) \in PortId
    BY <1>1, <1>3 DEF IdOf
<1> QED BY <1>6, <1>7, <1>8

LEMMA DownPortElements ==
    ASSUME NEW dp
    PROVE  dp \in DownstreamPorts
             <=> \E s \in DOMAIN switches : \E d \in 1 .. switches[s].downs : dp = <<s, d>>
BY DEF DownstreamPorts

LEMMA DownPortFacts ==
    ASSUME SwitchTypes
    PROVE  /\ DownstreamPorts \in SUBSET (Nat \X Nat) /\ IsFiniteSet(DownstreamPorts)
           /\ \A dp \in DownstreamPorts : dp[1] \in DOMAIN switches /\ DownIdOf(dp) \in DownId
<1>1. /\ DOMAIN switches = 1 .. Len(switches) /\ Len(switches) \in Nat
      /\ \A s \in DOMAIN switches : /\ switches[s].downs \in 0 .. MAX_PORTS
                                    /\ switches[s].name \in SwitchName
    <2>1. PICK R : R = [name : SwitchName, parent : Name, downs : 0 .. MAX_PORTS]
        OBVIOUS
    <2>2. switches \in Seq(R)
        BY <2>1 DEF SwitchTypes
    <2>3. \A x \in R : x.downs \in 0 .. MAX_PORTS /\ x.name \in SwitchName
        BY <2>1
    <2> QED BY <2>2, <2>3
<1>2. DownstreamPorts \in SUBSET ((1 .. Len(switches)) \X (1 .. MAX_PORTS))
    <2> SUFFICES ASSUME NEW a \in DownstreamPorts
                 PROVE  a \in (1 .. Len(switches)) \X (1 .. MAX_PORTS)
        OBVIOUS
    <2>1. PICK r \in DOMAIN switches : \E p \in 1 .. switches[r].downs : a = <<r, p>>
        BY DownPortElements
    <2>2. PICK p \in 1 .. switches[r].downs : a = <<r, p>>
        BY <2>1
    <2>3. switches[r].downs \in 0 .. MAX_PORTS
        BY <1>1
    <2>4. r \in 1 .. Len(switches) /\ p \in 1 .. MAX_PORTS
        BY <1>1, <2>3, Sizes
    <2> QED BY <2>2, <2>4
<1>3. IsFiniteSet((1 .. Len(switches)) \X (1 .. MAX_PORTS))
    BY <1>1, Sizes, GridIsFinite
<1>4. IsFiniteSet(DownstreamPorts)
    BY <1>2, <1>3, FS_Subset
<1>5. DownstreamPorts \in SUBSET (Nat \X Nat)
    BY <1>2
<1>6. \A dp \in DownstreamPorts : dp[1] \in DOMAIN switches /\ dp[2] \in Nat
    BY <1>1, <1>2
<1>7. \A dp \in DownstreamPorts : DownIdOf(dp) \in DownId
    BY <1>1, <1>6 DEF DownIdOf, DownId
<1> QED BY <1>4, <1>5, <1>6, <1>7

\* The choices for switches, and for endpoints without switches, are root ports.
LEMMA RpIdsFacts ==
    ASSUME RcTypes
    PROVE  /\ RpIds \in Seq(PortId)
           /\ \A n \in DOMAIN RpIds : \E rp \in RootPorts : RpIds[n] = IdOf(rp)
           /\ RootPorts # {} => RpIds # <<>>
<1>1. PICK P, s : P = RootPorts /\ s = InOrder(P)
    OBVIOUS
<1>2. /\ P \in SUBSET (Nat \X Nat) /\ IsFiniteSet(P)
      /\ \A rp \in P : IdOf(rp) \in PortId
    BY <1>1, RootPortFacts
<1>3. s \in Seq(P) /\ Len(s) = Cardinality(P)
    BY <1>1, <1>2, InOrderLists
<1>4. PICK t : t = FirstOf(MAX_PORTS, s)
    OBVIOUS
<1>5. /\ t \in Seq(P) /\ Len(t) = (IF Len(s) < MAX_PORTS THEN Len(s) ELSE MAX_PORTS)
      /\ \A n \in 1 .. Len(t) : n \in DOMAIN s /\ t[n] = s[n]
    BY <1>3, <1>4, Sizes, FirstOfFacts, SMTT(30)
<1>6. RpIds = [n \in 1 .. Len(t) |-> IdOf(s[n])]
    BY <1>1, <1>4, <1>5 DEF RpIds
<1>7. \A n \in 1 .. Len(t) : s[n] \in P
    BY <1>3, <1>5
<1>8. RpIds \in Seq(PortId) /\ Len(RpIds) = Len(t)
    <2>1. PICK n \in Nat : n = Len(t)
        BY <1>5
    <2>2. RpIds \in [1 .. n -> PortId]
        BY <1>2, <1>6, <1>7, <2>1
    <2> QED BY <2>1, <2>2
<1>9. \A n \in DOMAIN RpIds : \E rp \in RootPorts : RpIds[n] = IdOf(rp)
    BY <1>1, <1>6, <1>7
<1>10. ASSUME RootPorts # {}
       PROVE  RpIds # <<>>
    <2>1. Cardinality(P) # 0
        BY <1>10, <1>1, <1>2, FS_EmptySet
    <2>2. Len(t) # 0
        BY <2>1, <1>3, <1>5, Sizes
    <2> QED BY <2>2, <1>8
<1> QED BY <1>8, <1>9, <1>10

\* The choices for endpoints: downstream ports, each once, all of them if
\* there are not too many; without any, the root ports.
ListsDowns(d) ==
    /\ d \in Seq(DownstreamPorts) /\ Len(d) = Len(Slots) /\ d # <<>>
    /\ \A n \in DOMAIN d : Slots[n] = DownIdOf(d[n])
    /\ \A m, n \in DOMAIN d : d[m] = d[n] => m = n
    /\ Len(d) = MAX_DEVICES \/ \A dp \in DownstreamPorts : \E n \in DOMAIN d : d[n] = dp

LEMMA SlotsOfPorts ==
    ASSUME SwitchTypes, DownstreamPorts # {}
    PROVE  Slots \in Seq(DownId) /\ \E d : ListsDowns(d)
<1>1. PICK P, s : P = DownstreamPorts /\ s = InOrder(P)
    OBVIOUS
<1>2. /\ P \in SUBSET (Nat \X Nat) /\ IsFiniteSet(P) /\ P # {}
      /\ \A dp \in P : DownIdOf(dp) \in DownId
    BY <1>1, DownPortFacts
<1>3. /\ s \in Seq(P) /\ Len(s) = Cardinality(P)
      /\ \A m, n \in DOMAIN s : s[m] = s[n] => m = n
      /\ \A a \in P : \E n \in DOMAIN s : s[n] = a
    BY <1>1, <1>2, InOrderLists, SMTT(30)
<1>4. PICK d : d = FirstOf(MAX_DEVICES, s)
    OBVIOUS
<1>5. /\ d \in Seq(P) /\ Len(d) = (IF Len(s) < MAX_DEVICES THEN Len(s) ELSE MAX_DEVICES)
      /\ \A n \in 1 .. Len(d) : n \in DOMAIN s /\ d[n] = s[n]
    BY <1>3, <1>4, Sizes, FirstOfFacts, SMTT(30)
<1>6. Len(d) # 0 /\ d # <<>>
    <2>1. Cardinality(P) # 0
        BY <1>2, FS_EmptySet
    <2>2. Len(d) # 0
        BY <2>1, <1>3, <1>5, Sizes
    <2> QED BY <2>2
<1>7. Slots = [n \in 1 .. Len(d) |-> DownIdOf(d[n])]
    BY <1>1, <1>4, <1>5, <1>6 DEF Slots
<1>8. Slots \in Seq(DownId) /\ Len(Slots) = Len(d)
    <2>1. PICK n \in Nat : n = Len(d)
        BY <1>5
    <2>2. \A i \in 1 .. n : d[i] \in P
        BY <1>5, <2>1
    <2>3. Slots \in [1 .. n -> DownId]
        BY <1>2, <1>7, <2>1, <2>2
    <2> QED BY <2>1, <2>3
<1>9. \A m, n \in DOMAIN d : d[m] = d[n] => m = n
    <2>1. DOMAIN d = 1 .. Len(d)
        BY <1>5
    <2> QED BY <1>3, <1>5, <2>1
<1>10. Len(d) = MAX_DEVICES \/ \A dp \in P : \E n \in DOMAIN d : d[n] = dp
    BY <1>3, <1>5
<1>11. ListsDowns(d)
    BY <1>1, <1>5, <1>6, <1>7, <1>8, <1>9, <1>10 DEF ListsDowns
<1> QED BY <1>8, <1>11

LEMMA SlotsOfRoots ==
    ASSUME RcTypes, SwitchTypes, DownstreamPorts = {}
    PROVE  /\ Slots \in Seq(PortId)
           /\ \A n \in DOMAIN Slots : \E rp \in RootPorts : Slots[n] = IdOf(rp)
           /\ RootPorts # {} => Slots # <<>>
<1>1. InOrder(DownstreamPorts) \in Seq(DownstreamPorts) /\ Len(InOrder(DownstreamPorts)) = 0
    BY DownPortFacts, InOrderLists, FS_EmptySet
<1>2. FirstOf(MAX_DEVICES, InOrder(DownstreamPorts)) = <<>>
    <2>1. PICK s : s = InOrder(DownstreamPorts)
        OBVIOUS
    <2>2. Len(FirstOf(MAX_DEVICES, s)) = 0 /\ FirstOf(MAX_DEVICES, s) \in Seq(DownstreamPorts)
        BY <1>1, <2>1, Sizes, FirstOfFacts
    <2> QED BY <2>1, <2>2
<1>3. Slots = FirstOf(MAX_DEVICES, RpIds)
    BY <1>2 DEF Slots
<1>4. /\ RpIds \in Seq(PortId) /\ (RootPorts # {} => RpIds # <<>>)
      /\ \A n \in DOMAIN RpIds : \E rp \in RootPorts : RpIds[n] = IdOf(rp)
    BY RpIdsFacts
<1>5. /\ Slots \in Seq(PortId)
      /\ Len(Slots) = IF Len(RpIds) < MAX_DEVICES THEN Len(RpIds) ELSE MAX_DEVICES
      /\ \A i \in 1 .. Len(Slots) : i \in DOMAIN RpIds /\ Slots[i] = RpIds[i]
    <2>1. PICK t : t = RpIds
        OBVIOUS
    <2>2. t \in Seq(PortId) /\ Slots = FirstOf(MAX_DEVICES, t)
        BY <1>3, <1>4, <2>1
    <2> QED BY <2>1, <2>2, Sizes, FirstOfFacts
<1>6. RootPorts # {} => Slots # <<>>
    <2>1. RpIds # <<>> => Len(RpIds) # 0
        BY <1>4
    <2> QED BY <2>1, <1>4, <1>5, Sizes
<1> QED BY <1>4, <1>5, <1>6

-----------------------------------------------------------------------------
(* InTurn.                                                                  *)

Unnamed(parents, n) == {j \in 1 .. n : parents[j] = NoName}
Turn(parents, i) == Cardinality(Unnamed(parents, i - 1))

LEMMA TurnFacts ==
    ASSUME NEW parents, NEW n \in Nat, NEW i \in 1 .. n
    PROVE  /\ Turn(parents, i) \in 0 .. i - 1
           /\ IsFiniteSet(Unnamed(parents, n)) /\ Cardinality(Unnamed(parents, n)) \in Nat
           /\ parents[i] = NoName => Turn(parents, i) < Cardinality(Unnamed(parents, n))
<1>1. \A m \in 0 .. n : /\ IsFiniteSet(Unnamed(parents, m))
                        /\ Cardinality(Unnamed(parents, m)) \in 0 .. m
    <2> SUFFICES ASSUME NEW m \in 0 .. n
                 PROVE  /\ IsFiniteSet(Unnamed(parents, m))
                        /\ Cardinality(Unnamed(parents, m)) \in 0 .. m
        OBVIOUS
    <2>1. IsFiniteSet(1 .. m) /\ Cardinality(1 .. m) = m
        BY FS_Interval
    <2>2. Unnamed(parents, m) \in SUBSET (1 .. m)
        BY DEF Unnamed
    <2>3. IsFiniteSet(Unnamed(parents, m)) /\ Cardinality(Unnamed(parents, m)) <= m
        BY <2>1, <2>2, FS_Subset
    <2> QED BY <2>3, FS_CardinalityType
<1>2. i - 1 \in 0 .. n /\ n \in 0 .. n
    OBVIOUS
<1>3. ASSUME parents[i] = NoName
      PROVE  Turn(parents, i) < Cardinality(Unnamed(parents, n))
    <2>1. PICK U, V : U = Unnamed(parents, i - 1) /\ V = Unnamed(parents, n)
        OBVIOUS
    <2>2. U \in SUBSET V /\ i \in V /\ i \notin U
        BY <2>1, <1>3 DEF Unnamed
    <2>3. IsFiniteSet(V) /\ Cardinality(U) \in Nat /\ Cardinality(V) \in Nat
        BY <2>1, <1>1, <1>2
    <2>4. Cardinality(U) <= Cardinality(V) /\ (Cardinality(V) = Cardinality(U) => V = U)
        BY <2>2, <2>3, FS_Subset
    <2> QED BY <2>1, <2>2, <2>3, <2>4 DEF Turn
<1> QED BY <1>1, <1>2, <1>3 DEF Turn

LEMMA TurnsAscend ==
    ASSUME NEW parents, NEW n \in Nat, NEW i \in 1 .. n, NEW j \in 1 .. n, i < j,
           parents[i] = NoName
    PROVE  Turn(parents, i) < Turn(parents, j)
<1>1. j - 1 \in Nat /\ i \in 1 .. j - 1
    OBVIOUS
<1>2. Turn(parents, i) < Cardinality(Unnamed(parents, j - 1))
    BY <1>1, TurnFacts
<1> QED BY <1>2 DEF Turn

\* The unnamed are numbered 0, 1, ..., each number once.
LEMMA TurnsAreNumbers ==
    ASSUME NEW parents, NEW n \in Nat
    PROVE  /\ \A i, j \in Unnamed(parents, n) : Turn(parents, i) = Turn(parents, j) => i = j
           /\ \A t \in 0 .. Cardinality(Unnamed(parents, n)) - 1 :
                \E i \in Unnamed(parents, n) : Turn(parents, i) = t
<1>1. PICK U : U = Unnamed(parents, n)
    OBVIOUS
<1>2. \A i \in U : i \in 1 .. n /\ parents[i] = NoName
    BY <1>1 DEF Unnamed
<1>3. ASSUME NEW i \in U, NEW j \in U, Turn(parents, i) = Turn(parents, j)
      PROVE  i = j
    <2>1. i \in 1 .. n /\ j \in 1 .. n /\ parents[i] = NoName /\ parents[j] = NoName
        BY <1>2
    <2>2. Turn(parents, i) \in Nat /\ Turn(parents, j) \in Nat
        BY <2>1, TurnFacts
    <2>3. ~(i < j) /\ ~(j < i)
        BY <2>1, <2>2, <1>3, TurnsAscend
    <2> QED BY <2>1, <2>3
<1>4. CASE U = {}
    <2>1. Cardinality(U) = 0
        BY <1>4, FS_EmptySet
    <2> QED BY <2>1, <1>1, <1>3
<1>5. CASE U # {}
    <2>1. PICK u \in U : TRUE
        BY <1>5
    <2>2. u \in 1 .. n
        BY <1>2
    <2>3. IsFiniteSet(U) /\ Cardinality(U) \in Nat
        BY <1>1, <2>2, TurnFacts
    <2>4. PICK N \in Nat : N = Cardinality(U)
        BY <2>3
    <2>5. PICK turn : turn = [i \in U |-> Turn(parents, i)]
        OBVIOUS
    <2>6. \A i \in U : turn[i] \in 0 .. N - 1
        <3> SUFFICES ASSUME NEW i \in U
                     PROVE  Turn(parents, i) \in 0 .. N - 1
            BY <2>5
        <3>1. i \in 1 .. n /\ parents[i] = NoName
            BY <1>2
        <3>2. Turn(parents, i) \in Nat /\ Turn(parents, i) < N
            BY <3>1, <1>1, <2>4, TurnFacts
        <3> QED BY <3>2
    <2>7. turn \in Injection(U, 0 .. N - 1)
        BY <2>5, <2>6, <1>3 DEF Injection, IsInjective
    <2>8. IsFiniteSet(0 .. N - 1) /\ Cardinality(0 .. N - 1) = N
        <3>1. N - 1 \in Int /\ 0 \in Int
            OBVIOUS
        <3>2. IsFiniteSet(0 .. N - 1) /\ Cardinality(0 .. N - 1) = IF 0 > N - 1 THEN 0 ELSE N - 1 - 0 + 1
            BY <3>1, FS_Interval
        <3> QED BY <3>2
    <2>9. turn \in Surjection(U, 0 .. N - 1)
        BY <2>3, <2>4, <2>7, <2>8, FS_Injection
    <2>10. \A t \in 0 .. N - 1 : \E i \in U : turn[i] = t
        BY <2>9 DEF Surjection
    <2> QED BY <1>1, <1>3, <2>4, <2>5, <2>10
<1> QED BY <1>4, <1>5

LEMMA TurnInRange ==
    ASSUME NEW parents, NEW n \in Nat, NEW i \in 1 .. n, NEW L \in Nat \ {0}
    PROVE  (Turn(parents, i) % L) + 1 \in 1 .. L
<1>1. Turn(parents, i) \in 0 .. i - 1
    BY TurnFacts
<1>2. Turn(parents, i) \in Nat
    BY <1>1
<1>3. Turn(parents, i) % L \in 0 .. L - 1
    BY <1>2, Division
<1> QED BY <1>3

LEMMA InTurnGives ==
    ASSUME NEW parents, NEW choices, NEW i \in DOMAIN parents
    PROVE  InTurn(parents, choices)[i] =
             IF parents[i] # NoName \/ choices = <<>> THEN parents[i]
             ELSE choices[(Turn(parents, i) % Len(choices)) + 1]
BY DEF InTurn, Turn, Unnamed

LEMMA InTurnTyped ==
    ASSUME NEW S, NEW parents \in Seq(S), NEW choices \in Seq(S)
    PROVE  /\ InTurn(parents, choices) \in Seq(S)
           /\ Len(InTurn(parents, choices)) = Len(parents)
<1>1. PICK n \in Nat : n = Len(parents) /\ DOMAIN parents = 1 .. n
    OBVIOUS
<1>2. PICK p : p = InTurn(parents, choices)
    OBVIOUS
<1>3. p = [i \in 1 .. n |-> p[i]]
    BY <1>1, <1>2 DEF InTurn
<1>4. ASSUME NEW i \in 1 .. n
      PROVE  p[i] \in S
    <2>1. CASE parents[i] # NoName \/ choices = <<>>
        BY <2>1, <1>1, <1>2, InTurnGives
    <2>2. CASE ~(parents[i] # NoName \/ choices = <<>>)
        <3>1. Len(choices) \in Nat \ {0}
            BY <2>2
        <3>2. PICK k : k = (Turn(parents, i) % Len(choices)) + 1
            OBVIOUS
        <3>3. k \in 1 .. Len(choices)
            BY <3>1, <3>2, TurnInRange
        <3>4. p[i] = choices[k]
            BY <2>2, <3>2, <1>1, <1>2, InTurnGives
        <3> QED BY <3>3, <3>4
    <2> QED BY <2>1, <2>2
<1>5. p \in Seq(S) /\ Len(p) = n
    BY <1>3, <1>4
<1> QED BY <1>1, <1>2, <1>5

-----------------------------------------------------------------------------
(* The invariant: what is loaded is the description, completed in turn.     *)

NotGiven == [switches |-> <<>>, endpoints |-> <<>>]

Completed ==
    /\ given.switches \in Seq(Name) /\ Len(given.switches) = Len(switches)
    /\ given.endpoints \in Seq(Name)
    /\ \A s \in DOMAIN switches : switches[s].parent = InTurn(given.switches, RpIds)[s]
    /\ endpoints = InTurn(given.endpoints, Slots)

TopoTypes ==
    /\ phase \in {"closed", "reading", "failed", "loaded"}
    /\ RcTypes /\ SwitchTypes /\ EndTypes

TopoInv ==
    /\ TopoTypes
    /\ phase # "loaded" => given = NotGiven
    /\ phase = "loaded" => Completed

\* The choices come from what Finish leaves alone.
LEMMA ChoicesStay ==
    ASSUME rcs' = rcs, DOMAIN switches' = DOMAIN switches,
           \A s \in DOMAIN switches : /\ switches'[s].name = switches[s].name
                                      /\ switches'[s].downs = switches[s].downs,
           SwitchTypes
    PROVE  RpIds' = RpIds /\ Slots' = Slots
<1>1. RpIds' = RpIds
    BY DEF RpIds, RootPorts, IdOf
<1>2. DownstreamPorts' = DownstreamPorts
    BY DEF DownstreamPorts
<1>3. PICK P, d : P = DownstreamPorts /\ d = FirstOf(MAX_DEVICES, InOrder(P))
    OBVIOUS
<1>4. \A n \in DOMAIN d : d[n] \in P
    <2>1. P \in SUBSET (Nat \X Nat) /\ IsFiniteSet(P)
        BY <1>3, DownPortFacts
    <2>2. InOrder(P) \in Seq(P)
        BY <2>1, InOrderLists
    <2>3. d \in Seq(P)
        BY <2>2, <1>3, Sizes, FirstOfFacts
    <2> QED BY <2>3
<1>5. \A dp \in P : DownIdOf(dp)' = DownIdOf(dp)
    <2> SUFFICES ASSUME NEW dp \in P
                 PROVE  DownIdOf(dp)' = DownIdOf(dp)
        OBVIOUS
    <2>1. dp[1] \in DOMAIN switches
        BY <1>3, DownPortFacts
    <2> QED BY <2>1 DEF DownIdOf
<1>6. Slots = IF d = <<>> THEN FirstOf(MAX_DEVICES, RpIds) ELSE [n \in DOMAIN d |-> DownIdOf(d[n])]
    BY <1>3 DEF Slots
<1>7. Slots' = IF d = <<>> THEN FirstOf(MAX_DEVICES, RpIds) ELSE [n \in DOMAIN d |-> DownIdOf(d[n])']
    BY <1>1, <1>2, <1>3 DEF Slots
<1> QED BY <1>1, <1>4, <1>5, <1>6, <1>7

LEMMA TopoStart == Init => TopoInv
<1> SUFFICES ASSUME Init
             PROVE  TopoInv
    OBVIOUS
<1>1. \A S : <<>> \in Seq(S)
    BY EmptySeq
<1>2. RcTypes /\ SwitchTypes /\ EndTypes
    BY <1>1, Sizes DEF Init, RcTypes, SwitchTypes, EndTypes
<1> QED BY <1>2 DEF Init, TopoInv, TopoTypes, NotGiven

LEMMA OpenOrFail ==
    ASSUME TopoInv, phase # "loaded", phase' \in {"reading", "failed"}, UNCHANGED <<topo, given>>
    PROVE  TopoInv'
BY DEF TopoInv, TopoTypes, RcTypes, SwitchTypes, EndTypes, topo

LEMMA RootComplexStep ==
    ASSUME TopoInv, NEW names \in PortLists, ReadRootComplex(names)
    PROVE  TopoInv'
<1>1. phase = "reading"
    BY DEF ReadRootComplex
<1>2. CASE Fail
    BY <1>1, <1>2, OpenOrFail DEF Fail
<1>3. ASSUME Len(rcs) < MAX_RC, Len(names) <= MAX_PORTS,
             rcs' = Append(rcs, [p \in DOMAIN names |->
                        IF names[p] = NoName THEN RootPortId(p) ELSE names[p]]),
             UNCHANGED <<phase, switches, endpoints, given>>
      PROVE  TopoInv'
    <2>1. PICK n \in Nat : names \in [1 .. n -> PortName \union {NoName}]
        BY Sizes DEF PortLists
    <2>2. PICK ids : ids = [p \in 1 .. n |-> IF names[p] = NoName THEN RootPortId(p) ELSE names[p]]
        OBVIOUS
    <2>3. \A p \in 1 .. n : ids[p] \in PortId
        BY <2>1, <2>2 DEF PortId
    <2>4. ids \in Seq(PortId) /\ Len(ids) = n /\ n <= MAX_PORTS
        BY <2>1, <2>2, <2>3, <1>3
    <2>5. rcs' = Append(rcs, ids)
        BY <2>1, <2>2, <1>3
    <2>6. rcs \in Seq(Seq(PortId)) /\ \A r \in DOMAIN rcs : Len(rcs[r]) <= MAX_PORTS
        BY DEF TopoInv, TopoTypes, RcTypes
    <2>7. RcTypes'
        <3>1. rcs' \in Seq(Seq(PortId)) /\ Len(rcs') = Len(rcs) + 1
            BY <2>4, <2>5, <2>6
        <3>2. \A r \in DOMAIN rcs' : rcs'[r] = IF r \in DOMAIN rcs THEN rcs[r] ELSE ids
            BY <2>4, <2>5, <2>6
        <3>3. Len(rcs) \in Nat /\ Len(rcs') <= MAX_RC
            BY <2>6, <3>1, <1>3, Sizes
        <3> QED BY <2>4, <2>6, <3>1, <3>2, <3>3 DEF RcTypes
    <2> QED BY <2>7, <1>1, <1>3 DEF TopoInv, TopoTypes, SwitchTypes, EndTypes
<1> QED BY <1>2, <1>3 DEF ReadRootComplex

LEMMA SwitchStep ==
    ASSUME TopoInv, NEW name \in SwitchName, NEW parent \in Parent \union {NoName},
           NEW downs \in 0 .. MAX_PORTS + 1, ReadSwitch(name, parent, downs)
    PROVE  TopoInv'
<1>1. phase = "reading"
    BY DEF ReadSwitch
<1>2. CASE Fail
    BY <1>1, <1>2, OpenOrFail DEF Fail
<1>3. ASSUME Len(switches) < MAX_SWITCHES, downs <= MAX_PORTS,
             switches' = Append(switches, [name |-> name, parent |-> parent, downs |-> downs]),
             UNCHANGED <<phase, rcs, endpoints, given>>
      PROVE  TopoInv'
    <2>1. PICK R : R = [name : SwitchName, parent : Name, downs : 0 .. MAX_PORTS]
        OBVIOUS
    <2>2. PICK sw : sw = [name |-> name, parent |-> parent, downs |-> downs]
        OBVIOUS
    <2>3. downs \in 0 .. MAX_PORTS
        BY <1>3, Sizes
    <2>4. sw \in R
        BY <2>1, <2>2, <2>3 DEF Name
    <2>5. switches \in Seq(R)
        BY <2>1 DEF TopoInv, TopoTypes, SwitchTypes
    <2>6. switches' \in Seq(R) /\ Len(switches') <= MAX_SWITCHES
        BY <1>3, <2>2, <2>4, <2>5, Sizes
    <2>7. SwitchTypes'
        BY <2>1, <2>6 DEF SwitchTypes
    <2> QED BY <2>7, <1>1, <1>3 DEF TopoInv, TopoTypes, RcTypes, EndTypes
<1> QED BY <1>2, <1>3 DEF ReadSwitch

LEMMA EndpointStep ==
    ASSUME TopoInv, NEW parent \in Parent \union {NoName}, ReadEndpoint(parent)
    PROVE  TopoInv'
<1>1. phase = "reading"
    BY DEF ReadEndpoint
<1>2. CASE Fail
    BY <1>1, <1>2, OpenOrFail DEF Fail
<1>3. ASSUME Len(endpoints) < MAX_DEVICES, endpoints' = Append(endpoints, parent),
             UNCHANGED <<phase, rcs, switches, given>>
      PROVE  TopoInv'
    <2>1. endpoints \in Seq(Name) /\ parent \in Name
        BY DEF TopoInv, TopoTypes, EndTypes, Name
    <2>2. endpoints' \in Seq(Name) /\ Len(endpoints') <= MAX_DEVICES
        BY <2>1, <1>3, Sizes
    <2> QED BY <2>2, <1>1, <1>3 DEF TopoInv, TopoTypes, RcTypes, SwitchTypes, EndTypes
<1> QED BY <1>2, <1>3 DEF ReadEndpoint

LEMMA FinishStep ==
    ASSUME TopoInv, Finish
    PROVE  TopoInv'
<1>1. RcTypes /\ SwitchTypes /\ EndTypes
    BY DEF TopoInv, TopoTypes
<1>2. PICK p : p = ParentsOf(switches)
    OBVIOUS
<1>3. /\ phase' = "loaded" /\ rcs' = rcs
      /\ given' = [switches |-> p, endpoints |-> endpoints]
      /\ switches' = [s \in DOMAIN switches |-> [switches[s] EXCEPT !.parent = InTurn(p, RpIds)[s]]]
      /\ endpoints' = InTurn(endpoints, Slots)
    BY <1>2 DEF Finish
<1>4. PICK R : R = [name : SwitchName, parent : Name, downs : 0 .. MAX_PORTS]
    OBVIOUS
<1>5. switches \in Seq(R) /\ Len(switches) <= MAX_SWITCHES
    BY <1>1, <1>4 DEF SwitchTypes
<1>6. PICK n \in Nat : n = Len(switches) /\ DOMAIN switches = 1 .. n
    BY <1>5
<1>7. p \in Seq(Name) /\ Len(p) = n
    <2>1. p = [s \in 1 .. n |-> switches[s].parent]
        BY <1>2, <1>6 DEF ParentsOf
    <2>2. \A s \in 1 .. n : switches[s] \in R
        BY <1>5, <1>6
    <2>3. \A s \in 1 .. n : p[s] \in Name
        BY <2>1, <2>2, <1>4
    <2> QED BY <2>1, <2>3
<1>8. RpIds \in Seq(PortId)
    BY <1>1, RpIdsFacts
<1>9. PICK q : q = InTurn(p, RpIds)
    OBVIOUS
<1>10. q \in Seq(Name) /\ Len(q) = n
    <2>1. PortId \in SUBSET Name
        BY DEF Name
    <2>2. RpIds \in Seq(Name)
        BY <2>1, <1>8, SeqMonotonic
    <2> QED BY <2>2, <1>7, <1>9, InTurnTyped
<1>11. \A s \in 1 .. n : /\ switches'[s] \in R /\ switches'[s].parent = q[s]
                         /\ switches'[s].name = switches[s].name
                         /\ switches'[s].downs = switches[s].downs
    <2> SUFFICES ASSUME NEW s \in 1 .. n
                 PROVE  /\ switches'[s] \in R /\ switches'[s].parent = q[s]
                        /\ switches'[s].name = switches[s].name
                        /\ switches'[s].downs = switches[s].downs
        OBVIOUS
    <2>1. switches[s] \in R /\ q[s] \in Name
        BY <1>5, <1>6, <1>10
    <2>2. switches'[s] = [switches[s] EXCEPT !.parent = q[s]]
        BY <1>3, <1>6, <1>9
    <2> QED BY <2>1, <2>2, <1>4
<1>12. switches' \in Seq(R) /\ Len(switches') = n /\ DOMAIN switches' = 1 .. n
    <2>1. switches' = [s \in 1 .. n |-> switches'[s]]
        BY <1>3, <1>6
    <2> QED BY <2>1, <1>11
<1>13. RpIds' = RpIds /\ Slots' = Slots
    BY <1>1, <1>3, <1>6, <1>11, <1>12, ChoicesStay
<1>14. endpoints \in Seq(Name) /\ Len(endpoints) <= MAX_DEVICES
    BY <1>1 DEF EndTypes
<1>15. EndTypes'
    <2>1. PortId \in SUBSET Name /\ DownId \in SUBSET Name
        BY DEF Name
    <2>2. Slots \in Seq(PortId) \/ Slots \in Seq(DownId)
        BY <1>1, SlotsOfPorts, SlotsOfRoots
    <2>3. Slots \in Seq(Name)
        BY <2>1, <2>2, SeqMonotonic
    <2>4. endpoints' \in Seq(Name) /\ Len(endpoints') = Len(endpoints)
        BY <1>3, <1>14, <2>3, InTurnTyped
    <2> QED BY <2>4, <1>14 DEF EndTypes
<1>16. TopoTypes'
    BY <1>1, <1>3, <1>4, <1>5, <1>6, <1>12, <1>15 DEF TopoTypes, RcTypes, SwitchTypes
<1>17. Completed'
    BY <1>3, <1>6, <1>7, <1>9, <1>11, <1>12, <1>13, <1>14 DEF Completed
<1> QED BY <1>3, <1>16, <1>17 DEF TopoInv

LEMMA TopoStep == TopoInv /\ [Next]_vars => TopoInv'
<1> SUFFICES ASSUME TopoInv, [Next]_vars
             PROVE  TopoInv'
    OBVIOUS
<1>1. CASE UNCHANGED vars
    <2>1. UNCHANGED <<phase, rcs, switches, endpoints, given>>
        BY <1>1 DEF vars, topo
    <2>2. TopoTypes' = TopoTypes /\ Completed' = Completed
        BY <2>1 DEF TopoTypes, RcTypes, SwitchTypes, EndTypes, Completed, RpIds, Slots,
                    RootPorts, IdOf, DownstreamPorts, DownIdOf
    <2> QED BY <2>1, <2>2 DEF TopoInv
<1>2. CASE Open \/ BadText
    BY <1>2, OpenOrFail DEF Open, BadText, Fail
<1> QED BY <1>1, <1>2, RootComplexStep, SwitchStep, EndpointStep, FinishStep DEF Next

-----------------------------------------------------------------------------
(* What the defaults are.                                                   *)

LEMMA LoadedTypes ==
    ASSUME TopoInv, phase = "loaded"
    PROVE  /\ RcTypes /\ SwitchTypes /\ EndTypes /\ Completed
           /\ IsFiniteSet(Switches) /\ IsFiniteSet(Endpoints)
           /\ DOMAIN given.switches = Switches /\ DOMAIN given.endpoints = Endpoints
           /\ given.endpoints \in Seq(Name) /\ given.switches \in Seq(Name)
<1>1. RcTypes /\ SwitchTypes /\ EndTypes /\ Completed
    BY DEF TopoInv, TopoTypes
<1>2. PICK n \in Nat : n = Len(switches) /\ Switches = 1 .. n
    BY <1>1 DEF SwitchTypes, Switches
<1>3. PICK m \in Nat : m = Len(endpoints) /\ Endpoints = 1 .. m
    BY <1>1 DEF EndTypes, Endpoints
<1>4. /\ given.switches \in Seq(Name) /\ Len(given.switches) = n
      /\ given.endpoints \in Seq(Name) /\ endpoints = InTurn(given.endpoints, Slots)
    BY <1>1, <1>2 DEF Completed
<1>5. DOMAIN given.endpoints = Endpoints
    BY <1>4 DEF InTurn, Endpoints
<1>6. DOMAIN given.switches = Switches
    BY <1>2, <1>4
<1>7. IsFiniteSet(Switches) /\ IsFiniteSet(Endpoints)
    BY <1>2, <1>3, FS_Interval
<1> QED BY <1>1, <1>4, <1>5, <1>6, <1>7

LEMMA SwitchDefaults ==
    ASSUME TopoInv, phase = "loaded", NEW s \in Switches
    PROVE  /\ given.switches[s] # NoName => switches[s].parent = given.switches[s]
           /\ given.switches[s] = NoName /\ RootPorts # {} =>
                \E rp \in RootPorts : switches[s].parent = IdOf(rp)
<1>1. PICK g : g = given.switches
    OBVIOUS
<1>2. s \in DOMAIN g /\ g \in Seq(Name)
    BY <1>1, LoadedTypes
<1>3. switches[s].parent = InTurn(g, RpIds)[s]
    BY <1>1, LoadedTypes DEF Completed, Switches
<1>4. ASSUME g[s] = NoName, RootPorts # {}
      PROVE  \E rp \in RootPorts : switches[s].parent = IdOf(rp)
    <2>1. /\ RpIds \in Seq(PortId) /\ RpIds # <<>>
          /\ \A n \in DOMAIN RpIds : \E rp \in RootPorts : RpIds[n] = IdOf(rp)
        BY <1>4, LoadedTypes, RpIdsFacts
    <2>2. Len(RpIds) \in Nat \ {0} /\ DOMAIN RpIds = 1 .. Len(RpIds)
        BY <2>1
    <2>3. s \in 1 .. Len(g) /\ Len(g) \in Nat
        BY <1>2
    <2>4. PICK k : k = (Turn(g, s) % Len(RpIds)) + 1
        OBVIOUS
    <2>5. k \in DOMAIN RpIds
        BY <2>2, <2>3, <2>4, TurnInRange
    <2>6. switches[s].parent = RpIds[k]
        BY <1>2, <1>3, <1>4, <2>1, <2>4, InTurnGives
    <2> QED BY <2>1, <2>5, <2>6
<1>5. g[s] # NoName => switches[s].parent = g[s]
    BY <1>2, <1>3, InTurnGives
<1> QED BY <1>1, <1>4, <1>5

LEMMA EndpointDefaults ==
    ASSUME TopoInv, phase = "loaded", NEW e \in Endpoints
    PROVE  /\ given.endpoints[e] # NoName => endpoints[e] = given.endpoints[e]
           /\ given.endpoints[e] = NoName /\ Slots # <<>> =>
                /\ (Turn(given.endpoints, e) % Len(Slots)) + 1 \in DOMAIN Slots
                /\ endpoints[e] = Slots[(Turn(given.endpoints, e) % Len(Slots)) + 1]
<1>1. PICK g : g = given.endpoints
    OBVIOUS
<1>2. e \in DOMAIN g /\ g \in Seq(Name) /\ endpoints = InTurn(g, Slots)
    BY <1>1, LoadedTypes DEF Completed
<1>3. ASSUME g[e] = NoName, Slots # <<>>
      PROVE  /\ (Turn(g, e) % Len(Slots)) + 1 \in DOMAIN Slots
             /\ endpoints[e] = Slots[(Turn(g, e) % Len(Slots)) + 1]
    <2>1. Slots \in Seq(PortId) \/ Slots \in Seq(DownId)
        BY LoadedTypes, SlotsOfPorts, SlotsOfRoots
    <2>2. Len(Slots) \in Nat \ {0} /\ DOMAIN Slots = 1 .. Len(Slots)
        BY <2>1, <1>3
    <2>3. e \in 1 .. Len(g) /\ Len(g) \in Nat
        BY <1>2
    <2>4. (Turn(g, e) % Len(Slots)) + 1 \in DOMAIN Slots
        BY <2>2, <2>3, TurnInRange
    <2>5. endpoints[e] = Slots[(Turn(g, e) % Len(Slots)) + 1]
        BY <1>2, <1>3, InTurnGives
    <2> QED BY <2>4, <2>5
<1>4. g[e] # NoName => endpoints[e] = g[e]
    BY <1>2, InTurnGives
<1> QED BY <1>1, <1>3, <1>4

\* An endpoint without a parent gets a downstream port or, without switches,
\* a root port.
LEMMA EndpointPlaces ==
    ASSUME TopoInv, phase = "loaded", NEW e \in Endpoints, given.endpoints[e] = NoName
    PROVE  /\ DownstreamPorts # {} => \E dp \in DownstreamPorts : endpoints[e] = DownIdOf(dp)
           /\ DownstreamPorts = {} /\ RootPorts # {} =>
                \E rp \in RootPorts : endpoints[e] = IdOf(rp)
<1>1. RcTypes /\ SwitchTypes
    BY LoadedTypes
<1>2. ASSUME DownstreamPorts # {}
      PROVE  \E dp \in DownstreamPorts : endpoints[e] = DownIdOf(dp)
    <2>1. PICK d : ListsDowns(d)
        BY <1>1, <1>2, SlotsOfPorts
    <2>2. Slots \in Seq(DownId)
        BY <1>1, <1>2, SlotsOfPorts
    <2>3. /\ d \in Seq(DownstreamPorts) /\ Len(d) = Len(Slots) /\ d # <<>>
          /\ \A n \in DOMAIN d : Slots[n] = DownIdOf(d[n])
        BY <2>1 DEF ListsDowns
    <2>4. DOMAIN d = DOMAIN Slots /\ Slots # <<>>
        BY <2>2, <2>3
    <2>5. PICK k \in DOMAIN Slots : endpoints[e] = Slots[k]
        BY <2>4, EndpointDefaults
    <2>6. d[k] \in DownstreamPorts /\ endpoints[e] = DownIdOf(d[k])
        BY <2>3, <2>4, <2>5
    <2> QED BY <2>6
<1>3. ASSUME DownstreamPorts = {}, RootPorts # {}
      PROVE  \E rp \in RootPorts : endpoints[e] = IdOf(rp)
    <2>1. /\ \A n \in DOMAIN Slots : \E rp \in RootPorts : Slots[n] = IdOf(rp)
          /\ Slots # <<>>
        BY <1>1, <1>3, SlotsOfRoots
    <2> QED BY <2>1, EndpointDefaults
<1> QED BY <1>2, <1>3

LEMMA AllCompleted == TopoInv => ParentsCompleted
<1> SUFFICES ASSUME TopoInv, phase = "loaded"
             PROVE  ParentsCompleted
    BY DEF ParentsCompleted
<1>1. RcTypes /\ SwitchTypes
    BY LoadedTypes
<1>2. \A rp \in RootPorts : IdOf(rp) # NoName
    BY <1>1, RootPortFacts, IdsAreNames
<1>3. \A dp \in DownstreamPorts : DownIdOf(dp) # NoName
    BY <1>1, DownPortFacts, IdsAreNames
<1>4. ASSUME NEW s \in Switches
      PROVE  /\ given.switches[s] # NoName => switches[s].parent = given.switches[s]
             /\ RootPorts # {} => switches[s].parent # NoName
    BY <1>2, SwitchDefaults
<1>5. ASSUME NEW e \in Endpoints
      PROVE  /\ given.endpoints[e] # NoName => endpoints[e] = given.endpoints[e]
             /\ RootPorts # {} => endpoints[e] # NoName
    <2>1. given.endpoints[e] # NoName => endpoints[e] = given.endpoints[e]
        BY EndpointDefaults
    <2>2. ASSUME given.endpoints[e] = NoName, RootPorts # {}
          PROVE  endpoints[e] # NoName
        BY <2>2, <1>2, <1>3, EndpointPlaces
    <2> QED BY <2>1, <2>2
<1> QED BY <1>4, <1>5 DEF ParentsCompleted

-----------------------------------------------------------------------------
(* The walk.                                                                *)

LEMMA LineShapes ==
    /\ \A l \in SwitchLines : /\ l[1] \in RootPorts /\ l[2] \in Switches /\ l = <<l[1], l[2]>>
                              /\ switches[l[2]].parent = IdOf(l[1])
    /\ \A l \in PortLines : /\ l[1] \in SwitchLines /\ l[2] \in DownstreamPorts
                            /\ l = <<l[1], l[2]>> /\ l[2][1] = l[1][2]
    /\ \A l \in EndpointLines : /\ l[1] \in PortLines /\ l[2] \in Endpoints
                                /\ l = <<l[1], l[2]>> /\ endpoints[l[2]] = DownIdOf(l[1][2])
    /\ \A l \in RootEndpointLines : /\ l[1] \in RootPorts /\ l[2] \in Endpoints
                                    /\ l = <<l[1], l[2]>> /\ endpoints[l[2]] = IdOf(l[1])
<1>1. \A l \in SwitchLines : /\ l[1] \in RootPorts /\ l[2] \in Switches /\ l = <<l[1], l[2]>>
                             /\ switches[l[2]].parent = IdOf(l[1])
    BY DEF SwitchLines
<1>2. \A l \in PortLines : /\ l[1] \in SwitchLines /\ l[2] \in DownstreamPorts
                           /\ l = <<l[1], l[2]>> /\ l[2][1] = l[1][2]
    BY DEF PortLines
<1>3. \A l \in EndpointLines : /\ l[1] \in PortLines /\ l[2] \in Endpoints
                               /\ l = <<l[1], l[2]>> /\ endpoints[l[2]] = DownIdOf(l[1][2])
    BY DEF EndpointLines
<1>4. \A l \in RootEndpointLines : /\ l[1] \in RootPorts /\ l[2] \in Endpoints
                                   /\ l = <<l[1], l[2]>> /\ endpoints[l[2]] = IdOf(l[1])
    BY DEF RootEndpointLines
<1> QED BY <1>1, <1>2, <1>3, <1>4

\* Where names tell elements apart, what is shown tells the line.
LEMMA LinesTold ==
    ASSUME Unambiguous
    PROVE  /\ \A l, m \in SwitchLines : l[2] = m[2] => l = m
           /\ \A l, m \in PortLines : l[2] = m[2] => l = m
           /\ \A l, m \in EndpointLines : l[2] = m[2] => l = m
           /\ \A l, m \in RootEndpointLines : l[2] = m[2] => l = m
           /\ \A l \in EndpointLines, m \in RootEndpointLines : l[2] # m[2]
<1>1. /\ \A a, b \in RootPorts : IdOf(a) = IdOf(b) => a = b
      /\ \A a, b \in DownstreamPorts : DownIdOf(a) = DownIdOf(b) => a = b
      /\ \A a \in RootPorts, b \in DownstreamPorts : IdOf(a) # DownIdOf(b)
    BY DEF Unambiguous
<1>2. \A l, m \in SwitchLines : l[2] = m[2] => l = m
    <2> SUFFICES ASSUME NEW l \in SwitchLines, NEW m \in SwitchLines, l[2] = m[2]
                 PROVE  l = m
        OBVIOUS
    <2>1. l[1] = m[1]
        BY <1>1, LineShapes
    <2> QED BY <2>1, LineShapes
<1>3. \A l, m \in PortLines : l[2] = m[2] => l = m
    <2> SUFFICES ASSUME NEW l \in PortLines, NEW m \in PortLines, l[2] = m[2]
                 PROVE  l = m
        OBVIOUS
    <2>1. l[1][2] = m[1][2] /\ l[1] \in SwitchLines /\ m[1] \in SwitchLines
        BY LineShapes
    <2>2. l[1] = m[1]
        BY <2>1, <1>2
    <2> QED BY <2>2, LineShapes
<1>4. \A l, m \in EndpointLines : l[2] = m[2] => l = m
    <2> SUFFICES ASSUME NEW l \in EndpointLines, NEW m \in EndpointLines, l[2] = m[2]
                 PROVE  l = m
        OBVIOUS
    <2>1. l[1] \in PortLines /\ m[1] \in PortLines /\ DownIdOf(l[1][2]) = DownIdOf(m[1][2])
        BY LineShapes
    <2>2. l[1][2] \in DownstreamPorts /\ m[1][2] \in DownstreamPorts
        BY <2>1, LineShapes
    <2>3. l[1][2] = m[1][2]
        BY <2>1, <2>2, <1>1
    <2>4. l[1] = m[1]
        BY <2>1, <2>3, <1>3
    <2> QED BY <2>4, LineShapes
<1>5. \A l, m \in RootEndpointLines : l[2] = m[2] => l = m
    <2> SUFFICES ASSUME NEW l \in RootEndpointLines, NEW m \in RootEndpointLines, l[2] = m[2]
                 PROVE  l = m
        OBVIOUS
    <2>1. l[1] = m[1]
        BY <1>1, LineShapes
    <2> QED BY <2>1, LineShapes
<1>6. \A l \in EndpointLines, m \in RootEndpointLines : l[2] # m[2]
    <2> SUFFICES ASSUME NEW l \in EndpointLines, NEW m \in RootEndpointLines, l[2] = m[2]
                 PROVE  FALSE
        OBVIOUS
    <2>1. DownIdOf(l[1][2]) = IdOf(m[1]) /\ l[1] \in PortLines /\ m[1] \in RootPorts
        BY LineShapes
    <2>2. l[1][2] \in DownstreamPorts
        BY <2>1, LineShapes
    <2> QED BY <2>1, <2>2, <1>1
<1> QED BY <1>2, <1>3, <1>4, <1>5, <1>6

LEMMA ShownOnce ==
    ASSUME NEW lines, \A l, m \in lines : l[2] = m[2] => l = m
    PROVE  /\ \A x : TimesShown(lines, x) \in Nat /\ TimesShown(lines, x) <= 1
           /\ \A x : (\A l \in lines : l[2] # x) => TimesShown(lines, x) = 0
<1>1. ASSUME NEW x
      PROVE  TimesShown(lines, x) \in Nat /\ TimesShown(lines, x) <= 1
    <2>1. \A l, m \in {k \in lines : k[2] = x} : l = m
        OBVIOUS
    <2> QED BY <2>1, AtMostOne DEF TimesShown
<1>2. ASSUME NEW x, \A l \in lines : l[2] # x
      PROVE  TimesShown(lines, x) = 0
    <2>1. {k \in lines : k[2] = x} = {}
        BY <1>2
    <2> QED BY <2>1, FS_EmptySet DEF TimesShown
<1> QED BY <1>1, <1>2

LEMMA ShownAtMostOnce == NothingShownTwice
<1> SUFFICES ASSUME Unambiguous
             PROVE  NothingShownTwice
    BY DEF NothingShownTwice
<1>1. \A s \in Switches : TimesShown(SwitchLines, s) <= 1
    BY LinesTold, ShownOnce
<1>2. \A dp \in DownstreamPorts : TimesShown(PortLines, dp) <= 1
    BY LinesTold, ShownOnce
<1>3. ASSUME NEW e \in Endpoints
      PROVE  TimesShown(EndpointLines, e) + TimesShown(RootEndpointLines, e) <= 1
    <2>1. /\ TimesShown(EndpointLines, e) \in Nat /\ TimesShown(EndpointLines, e) <= 1
          /\ TimesShown(RootEndpointLines, e) \in Nat /\ TimesShown(RootEndpointLines, e) <= 1
        BY LinesTold, ShownOnce
    <2>2. CASE \E l \in EndpointLines : l[2] = e
        <3>1. \A m \in RootEndpointLines : m[2] # e
            BY <2>2, LinesTold
        <3>2. TimesShown(RootEndpointLines, e) = 0
            BY <3>1, LinesTold, ShownOnce
        <3> QED BY <2>1, <3>2
    <2>3. CASE ~\E l \in EndpointLines : l[2] = e
        <3>1. TimesShown(EndpointLines, e) = 0
            BY <2>3, LinesTold, ShownOnce
        <3> QED BY <2>1, <3>1
    <2> QED BY <2>2, <2>3
<1> QED BY <1>1, <1>2, <1>3 DEF NothingShownTwice

\* Without parents in the description, every function is shown.
LEMMA OneTree == TopoInv => DefaultsMakeOneTree
<1> SUFFICES ASSUME TopoInv, phase = "loaded", Unambiguous, RootPorts # {},
                    \A s \in Switches : given.switches[s] = NoName,
                    \A e \in Endpoints : given.endpoints[e] = NoName
             PROVE  LinesShown = FunctionCount
    BY DEF DefaultsMakeOneTree
<1>1. /\ RcTypes /\ SwitchTypes
      /\ IsFiniteSet(Switches) /\ IsFiniteSet(Endpoints) /\ IsFiniteSet(DownstreamPorts)
    BY LoadedTypes, DownPortFacts
<1>2. \A s \in Switches : \E l \in SwitchLines : l[2] = s
    <2> SUFFICES ASSUME NEW s \in Switches
                 PROVE  \E l \in SwitchLines : l[2] = s
        OBVIOUS
    <2>1. PICK rp \in RootPorts : switches[s].parent = IdOf(rp)
        BY SwitchDefaults
    <2>2. <<rp, s>> \in SwitchLines
        BY <2>1 DEF SwitchLines
    <2> QED BY <2>2
<1>3. \A dp \in DownstreamPorts : \E l \in PortLines : l[2] = dp
    <2> SUFFICES ASSUME NEW dp \in DownstreamPorts
                 PROVE  \E l \in PortLines : l[2] = dp
        OBVIOUS
    <2>1. dp[1] \in Switches
        BY <1>1, DownPortFacts DEF Switches
    <2>2. PICK k \in SwitchLines : k[2] = dp[1]
        BY <2>1, <1>2
    <2>3. <<k, dp>> \in PortLines
        BY <2>2 DEF PortLines
    <2> QED BY <2>3
<1>4. Cardinality(SwitchLines) = Cardinality(Switches)
    <2>1. \A l \in SwitchLines : l[2] \in Switches
        BY LineShapes
    <2>2. \A l, m \in SwitchLines : l[2] = m[2] => l = m
        BY LinesTold
    <2> QED BY <1>1, <1>2, <2>1, <2>2, LinesCount, SMTT(30)
<1>5. Cardinality(PortLines) = Cardinality(DownstreamPorts)
    <2>1. \A l \in PortLines : l[2] \in DownstreamPorts
        BY LineShapes
    <2>2. \A l, m \in PortLines : l[2] = m[2] => l = m
        BY LinesTold
    <2> QED BY <1>1, <1>3, <2>1, <2>2, LinesCount, ZenonT(30)
<1>6. /\ Cardinality(EndpointLines) \in Nat /\ Cardinality(RootEndpointLines) \in Nat
      /\ Cardinality(EndpointLines) + Cardinality(RootEndpointLines) = Cardinality(Endpoints)
    <2>1. CASE DownstreamPorts # {}
        <3>1. \A e \in Endpoints : \E l \in EndpointLines : l[2] = e
            <4> SUFFICES ASSUME NEW e \in Endpoints
                         PROVE  \E l \in EndpointLines : l[2] = e
                OBVIOUS
            <4>1. PICK dp \in DownstreamPorts : endpoints[e] = DownIdOf(dp)
                BY <2>1, EndpointPlaces
            <4>2. PICK k \in PortLines : k[2] = dp
                BY <1>3
            <4>3. <<k, e>> \in EndpointLines
                BY <4>1, <4>2 DEF EndpointLines
            <4> QED BY <4>3
        <3>2. Cardinality(EndpointLines) = Cardinality(Endpoints)
            <4>1. \A l \in EndpointLines : l[2] \in Endpoints
                BY LineShapes
            <4>2. \A l, m \in EndpointLines : l[2] = m[2] => l = m
                BY LinesTold
            <4> QED BY <1>1, <3>1, <4>1, <4>2, LinesCount, SMTT(30)
        <3>3. RootEndpointLines = {}
            <4> SUFFICES ASSUME NEW m \in RootEndpointLines
                         PROVE  FALSE
                OBVIOUS
            <4>1. m[2] \in Endpoints
                BY LineShapes
            <4>2. PICK l \in EndpointLines : l[2] = m[2]
                BY <4>1, <3>1
            <4> QED BY <4>2, LinesTold
        <3>4. Cardinality(RootEndpointLines) = 0
            BY <3>3, FS_EmptySet
        <3> QED BY <3>2, <3>4, <1>1, FS_CardinalityType
    <2>2. CASE DownstreamPorts = {}
        <3>1. EndpointLines = {}
            BY <2>2, LineShapes
        <3>2. Cardinality(EndpointLines) = 0
            BY <3>1, FS_EmptySet
        <3>3. \A e \in Endpoints : \E l \in RootEndpointLines : l[2] = e
            <4> SUFFICES ASSUME NEW e \in Endpoints
                         PROVE  \E l \in RootEndpointLines : l[2] = e
                OBVIOUS
            <4>1. PICK rp \in RootPorts : endpoints[e] = IdOf(rp)
                BY <2>2, EndpointPlaces
            <4>2. <<rp, e>> \in RootEndpointLines
                BY <4>1 DEF RootEndpointLines
            <4> QED BY <4>2
        <3>4. Cardinality(RootEndpointLines) = Cardinality(Endpoints)
            <4>1. \A l \in RootEndpointLines : l[2] \in Endpoints
                BY LineShapes
            <4>2. \A l, m \in RootEndpointLines : l[2] = m[2] => l = m
                BY LinesTold
            <4> QED BY <1>1, <3>3, <4>1, <4>2, LinesCount, SMTT(30)
        <3> QED BY <3>2, <3>4, <1>1, FS_CardinalityType
    <2> QED BY <2>1, <2>2
<1>7. /\ Cardinality(RootPorts) \in Nat /\ Cardinality(Switches) \in Nat
      /\ Cardinality(DownstreamPorts) \in Nat
    BY <1>1, RootPortFacts, FS_CardinalityType
<1> QED BY <1>4, <1>5, <1>6, <1>7 DEF LinesShown, FunctionCount

-----------------------------------------------------------------------------
(* The spread.  An endpoint with turn t goes to slot t % L; taking the      *)
(* endpoints of one slot to those of another in the round before misses     *)
(* only the one of the first round.                                         *)

PlacedOn(dp) ==
    {e \in Endpoints : given.endpoints[e] = NoName /\ endpoints[e] = DownIdOf(dp)}

\* The unnamed endpoints of the k-th of L slots.
InSlot(g, n, L, k) == {e \in Unnamed(g, n) : Turn(g, e) % L = k - 1}

LEMMA FirstRound ==
    ASSUME NEW g, NEW n \in Nat, NEW L \in Nat \ {0}, NEW k \in 1 .. L
    PROVE  LET F == {e \in InSlot(g, n, L, k) : Turn(g, e) < L}
           IN  IsFiniteSet(F) /\ Cardinality(F) \in Nat /\ Cardinality(F) <= 1
<1>1. PICK F : F = {e \in InSlot(g, n, L, k) : Turn(g, e) < L}
    OBVIOUS
<1>2. ASSUME NEW i \in F, NEW j \in F
      PROVE  i = j
    <2>1. /\ i \in Unnamed(g, n) /\ Turn(g, i) % L = k - 1 /\ Turn(g, i) < L
          /\ j \in Unnamed(g, n) /\ Turn(g, j) % L = k - 1 /\ Turn(g, j) < L
        BY <1>1 DEF InSlot
    <2>2. i \in 1 .. n /\ j \in 1 .. n
        BY <2>1 DEF Unnamed
    <2>3. Turn(g, i) \in 0 .. i - 1 /\ Turn(g, j) \in 0 .. j - 1
        BY <2>2, TurnFacts
    <2>4. Turn(g, i) \in Nat /\ Turn(g, j) \in Nat /\ 0 \in 0 .. L - 1
        BY <2>2, <2>3
    <2>5. Turn(g, i) = k - 1 /\ Turn(g, j) = k - 1
        BY <2>1, <2>4, RoundBefore
    <2> QED BY <2>1, <2>5, TurnsAreNumbers
<1> QED BY <1>1, <1>2, AtMostOne

LEMMA SlotsAreEven ==
    ASSUME NEW g, NEW n \in Nat, NEW L \in Nat \ {0}, NEW k \in 1 .. L, NEW m \in 1 .. L
    PROVE  Cardinality(InSlot(g, n, L, k)) <= Cardinality(InSlot(g, n, L, m)) + 1
<1>1. PICK A, B, U : /\ A = InSlot(g, n, L, k) /\ B = InSlot(g, n, L, m)
                     /\ U = Unnamed(g, n)
    OBVIOUS
<1>2. PICK F, R : F = {e \in A : Turn(g, e) < L} /\ R = {e \in A : ~(Turn(g, e) < L)}
    OBVIOUS
<1>3. IsFiniteSet(U)
    <2>1. IsFiniteSet(1 .. n) /\ U \in SUBSET (1 .. n)
        BY <1>1, FS_Interval DEF Unnamed
    <2> QED BY <2>1, FS_Subset
<1>4. IsFiniteSet(A) /\ IsFiniteSet(B) /\ IsFiniteSet(R)
    <2>1. A \in SUBSET U /\ B \in SUBSET U /\ R \in SUBSET U
        BY <1>1, <1>2 DEF InSlot
    <2> QED BY <2>1, <1>3, FS_Subset
<1>5. IsFiniteSet(F) /\ Cardinality(F) \in Nat /\ Cardinality(F) <= 1
    BY <1>1, <1>2, FirstRound
<1>6. \A e \in U : /\ Turn(g, e) \in Nat
                   /\ Turn(g, e) < Cardinality(U) /\ Cardinality(U) \in Nat
    <2> SUFFICES ASSUME NEW e \in U
                 PROVE  /\ Turn(g, e) \in Nat
                        /\ Turn(g, e) < Cardinality(U) /\ Cardinality(U) \in Nat
        OBVIOUS
    <2>1. e \in 1 .. n /\ g[e] = NoName
        BY <1>1 DEF Unnamed
    <2>2. /\ Turn(g, e) \in 0 .. e - 1 /\ Turn(g, e) < Cardinality(U)
          /\ Cardinality(U) \in Nat
        BY <2>1, <1>1, TurnFacts
    <2> QED BY <2>1, <2>2
<1>7. ASSUME NEW e \in R
      PROVE  \E b \in B : Turn(g, b) = Turn(g, e) - (k - 1) - L + (m - 1)
    <2>1. PICK t \in Nat : t = Turn(g, e) /\ t % L = k - 1 /\ t >= L /\ t < Cardinality(U)
        BY <1>1, <1>2, <1>6 DEF InSlot
    <2>2. PICK u : u = t - (k - 1) - L + (m - 1)
        OBVIOUS
    <2>3. m - 1 \in 0 .. L - 1
        OBVIOUS
    <2>4. t - (t % L) - L + (m - 1) \in 0 .. t - 1 /\ (t - (t % L) - L + (m - 1)) % L = m - 1
        BY <2>1, <2>3, RoundBefore
    <2>5. u \in 0 .. t - 1 /\ u % L = m - 1
        BY <2>1, <2>2, <2>4
    <2>6. Cardinality(U) \in Nat
        BY <1>3, FS_CardinalityType
    <2>7. u \in 0 .. Cardinality(U) - 1
        BY <2>1, <2>5, <2>6
    <2>8. PICK b \in U : Turn(g, b) = u
        BY <2>7, <1>1, TurnsAreNumbers
    <2>9. b \in B
        BY <2>5, <2>8, <1>1 DEF InSlot
    <2> QED BY <2>1, <2>2, <2>8, <2>9
<1>8. Cardinality(R) <= Cardinality(B)
    <2>1. PICK f : f = [e \in R |-> CHOOSE b \in B :
                          Turn(g, b) = Turn(g, e) - (k - 1) - L + (m - 1)]
        OBVIOUS
    <2>2. \A e \in R : f[e] \in B /\ Turn(g, f[e]) = Turn(g, e) - (k - 1) - L + (m - 1)
        BY <2>1, <1>7
    <2>3. ASSUME NEW i \in R, NEW j \in R, f[i] = f[j]
          PROVE  i = j
        <3>1. i \in U /\ j \in U
            BY <1>1, <1>2 DEF InSlot
        <3>2. Turn(g, i) \in Nat /\ Turn(g, j) \in Nat
            BY <3>1, <1>6
        <3>3. Turn(g, i) - (k - 1) - L + (m - 1) = Turn(g, j) - (k - 1) - L + (m - 1)
            BY <2>2, <2>3
        <3>4. Turn(g, i) = Turn(g, j)
            BY <3>2, <3>3
        <3> QED BY <3>1, <3>4, <1>1, TurnsAreNumbers
    <2>4. f \in Injection(R, B)
        BY <2>1, <2>2, <2>3 DEF Injection, IsInjective
    <2> QED BY <2>4, <1>4, FS_Injection
<1>9. A = F \union R /\ F \intersect R = {}
    BY <1>2
<1>10. Cardinality(A) = Cardinality(F) + Cardinality(R)
    <2>1. Cardinality(F \union R) = Cardinality(F) + Cardinality(R) - Cardinality(F \intersect R)
        BY <1>4, <1>5, FS_Union
    <2>2. Cardinality(F \intersect R) = 0
        BY <1>9, FS_EmptySet
    <2> QED BY <2>1, <2>2, <1>4, <1>5, <1>9, FS_CardinalityType
<1> QED BY <1>1, <1>4, <1>5, <1>8, <1>10, FS_CardinalityType

\* With as many slots as endpoints there is no second round.
LEMMA SlotsEnough ==
    ASSUME NEW g, NEW n \in Nat, NEW L \in Nat \ {0}, NEW k \in 1 .. L, n <= L
    PROVE  Cardinality(InSlot(g, n, L, k)) \in Nat /\ Cardinality(InSlot(g, n, L, k)) <= 1
<1>1. \A e \in InSlot(g, n, L, k) : Turn(g, e) < L
    <2> SUFFICES ASSUME NEW e \in InSlot(g, n, L, k)
                 PROVE  Turn(g, e) < L
        OBVIOUS
    <2>1. e \in 1 .. n
        BY DEF InSlot, Unnamed
    <2>2. Turn(g, e) \in 0 .. e - 1
        BY <2>1, TurnFacts
    <2> QED BY <2>1, <2>2
<1>2. {e \in InSlot(g, n, L, k) : Turn(g, e) < L} = InSlot(g, n, L, k)
    BY <1>1
<1> QED BY <1>2, FirstRound

LEMMA Spread == TopoInv => DefaultsAreSpread
<1> SUFFICES ASSUME TopoInv, phase = "loaded", Unambiguous,
                    NEW a \in DownstreamPorts, NEW b \in DownstreamPorts
             PROVE  Cardinality(PlacedOn(a)) <= Cardinality(PlacedOn(b)) + 1
    BY DEF DefaultsAreSpread, PlacedOn
<1>1. RcTypes /\ SwitchTypes /\ EndTypes /\ IsFiniteSet(Endpoints)
    BY LoadedTypes
<1>2. PICK d : ListsDowns(d)
    BY <1>1, SlotsOfPorts
<1>3. PICK L \in Nat \ {0} : L = Len(d) /\ L = Len(Slots) /\ DOMAIN d = 1 .. L
    BY <1>2 DEF ListsDowns
<1>4. PICK n \in Nat : n = Len(endpoints) /\ Endpoints = 1 .. n /\ n <= MAX_DEVICES
    BY <1>1 DEF EndTypes, Endpoints
<1>5. PICK g : g = given.endpoints
    OBVIOUS
<1>6. /\ \A i \in 1 .. L : d[i] \in DownstreamPorts /\ Slots[i] = DownIdOf(d[i])
      /\ \A i, j \in 1 .. L : d[i] = d[j] => i = j
      /\ L = MAX_DEVICES \/ \A dp \in DownstreamPorts : \E i \in 1 .. L : d[i] = dp
    BY <1>2, <1>3 DEF ListsDowns
<1>7. Slots # <<>>
    <2>1. Slots \in Seq(DownId)
        BY <1>1, SlotsOfPorts
    <2> QED BY <2>1, <1>3
<1>8. \A dp, dq \in DownstreamPorts : DownIdOf(dp) = DownIdOf(dq) => dp = dq
    BY DEF Unambiguous
<1>9. ASSUME NEW e \in Unnamed(g, n), NEW i \in 1 .. L
      PROVE  endpoints[e] = DownIdOf(d[i]) <=> Turn(g, e) % L = i - 1
    <2>1. e \in Endpoints /\ given.endpoints[e] = NoName
        BY <1>4, <1>5 DEF Unnamed
    <2>2. endpoints[e] = Slots[(Turn(g, e) % L) + 1]
        BY <2>1, <1>3, <1>5, <1>7, EndpointDefaults
    <2>3. PICK j : j = (Turn(g, e) % L) + 1
        OBVIOUS
    <2>4. e \in 1 .. n
        BY <2>1, <1>4
    <2>5. j \in 1 .. L
        BY <2>3, <2>4, TurnInRange
    <2>6. endpoints[e] = DownIdOf(d[j])
        BY <2>2, <2>3, <2>5, <1>6
    <2>7. endpoints[e] = DownIdOf(d[i]) <=> i = j
        BY <2>5, <2>6, <1>6, <1>8
    <2>8. Turn(g, e) % L \in Int
        <3>1. Turn(g, e) \in 0 .. e - 1
            BY <2>4, TurnFacts
        <3>2. Turn(g, e) \in Nat
            BY <3>1
        <3> QED BY <3>2, Division
    <2>9. i = j <=> Turn(g, e) % L = i - 1
        BY <2>3, <2>8
    <2> QED BY <2>7, <2>9
<1>10. \A i \in 1 .. L : PlacedOn(d[i]) = InSlot(g, n, L, i)
    <2> SUFFICES ASSUME NEW i \in 1 .. L
                 PROVE  PlacedOn(d[i]) = InSlot(g, n, L, i)
        OBVIOUS
    <2>1. PlacedOn(d[i]) = {e \in Unnamed(g, n) : endpoints[e] = DownIdOf(d[i])}
        BY <1>4, <1>5 DEF PlacedOn, Unnamed
    <2> QED BY <2>1, <1>9 DEF InSlot
<1>11. Cardinality(PlacedOn(b)) \in Nat
    <2>1. PlacedOn(b) \in SUBSET Endpoints
        BY DEF PlacedOn
    <2> QED BY <2>1, <1>1, FS_Subset, FS_CardinalityType
<1>12. CASE \E i \in 1 .. L : d[i] = a
    <2>1. PICK i \in 1 .. L : d[i] = a
        BY <1>12
    <2>2. CASE \E j \in 1 .. L : d[j] = b
        <3>1. PICK j \in 1 .. L : d[j] = b
            BY <2>2
        <3> QED BY <2>1, <3>1, <1>10, SlotsAreEven
    <2>3. CASE ~\E j \in 1 .. L : d[j] = b
        <3>1. n <= L
            BY <2>3, <1>4, <1>6
        <3>2. Cardinality(PlacedOn(a)) \in Nat /\ Cardinality(PlacedOn(a)) <= 1
            BY <2>1, <3>1, <1>10, SlotsEnough
        <3> QED BY <3>2, <1>11
    <2> QED BY <2>2, <2>3
<1>13. CASE ~\E i \in 1 .. L : d[i] = a
    <2>1. ASSUME NEW e \in PlacedOn(a)
          PROVE  FALSE
        <3>1. e \in Endpoints /\ e \in 1 .. n /\ given.endpoints[e] = NoName
              /\ endpoints[e] = DownIdOf(a)
            BY <1>4 DEF PlacedOn
        <3>2. PICK j : j = (Turn(g, e) % L) + 1
            OBVIOUS
        <3>3. j \in 1 .. L
            BY <3>1, <3>2, TurnInRange
        <3>4. endpoints[e] = Slots[j]
            BY <3>1, <3>2, <1>3, <1>5, <1>7, EndpointDefaults
        <3>5. DownIdOf(d[j]) = DownIdOf(a) /\ d[j] \in DownstreamPorts
            BY <3>1, <3>3, <3>4, <1>6
        <3> QED BY <3>3, <3>5, <1>8, <1>13
    <2>2. PlacedOn(a) = {}
        BY <2>1
    <2>3. Cardinality(PlacedOn(a)) = 0
        BY <2>2, FS_EmptySet
    <2> QED BY <2>3, <1>11
<1> QED BY <1>12, <1>13

-----------------------------------------------------------------------------
\* The arrays of the fabric model hold, whatever their sizes and whatever the
\* description, and the fields read keep their types (pcie_topology.c,
\* parse_root_complex, parse_switch, parse_endpoint).
THEOREM TypeCorrect == Spec => []TypeOK
<1>1. TopoInv => TypeOK
    <2> SUFFICES ASSUME TopoInv
                 PROVE  TypeOK
        OBVIOUS
    <2>1. RcTypes /\ SwitchTypes /\ EndTypes
        BY DEF TopoInv, TopoTypes
    <2>2. \A s \in Switches : switches[s].downs \in 0 .. MAX_PORTS
        <3>1. PICK R : R = [name : SwitchName, parent : Name, downs : 0 .. MAX_PORTS]
            OBVIOUS
        <3>2. switches \in Seq(R)
            BY <2>1, <3>1 DEF SwitchTypes
        <3>3. \A x \in R : x.downs \in 0 .. MAX_PORTS
            BY <3>1
        <3> QED BY <3>2, <3>3 DEF Switches
    <2>3. DOMAIN given.switches \subseteq Switches /\ DOMAIN given.endpoints \subseteq Endpoints
        <3>1. CASE phase = "loaded"
            BY <3>1, LoadedTypes
        <3>2. CASE phase # "loaded"
            <4>1. given = NotGiven
                BY <3>2 DEF TopoInv
            <4>2. DOMAIN given.switches = {} /\ DOMAIN given.endpoints = {}
                BY <4>1 DEF NotGiven
            <4> QED BY <4>2
        <3> QED BY <3>1, <3>2
    <2> QED BY <2>1, <2>2, <2>3 DEF TopoInv, TopoTypes, RcTypes, SwitchTypes, EndTypes, TypeOK
<1> QED BY TopoStart, TopoStep, <1>1, PTL DEF Spec

\* A parent that is given stays, and with a root port every switch and endpoint
\* gets one, for every description (assign_default_parents).
THEOREM DefaultsComplete == Spec => []ParentsCompleted
BY TopoStart, TopoStep, AllCompleted, PTL DEF Spec

\* Whatever parents a description names, dangling ones included, the walk shows
\* no function twice as long as the names are unambiguous
\* (run_pcie_fabric_enumeration_to).
THEOREM WalkShowsOnce == Spec => []NothingShownTwice
BY ShownAtMostOnce, PTL

\* Without any parents in the description the walk shows as many functions as
\* the heading counts: each root port, switch, downstream port and endpoint
\* once (assign_default_parents against topology_function_count).
THEOREM DefaultsAreOneTree == Spec => []DefaultsMakeOneTree
BY TopoStart, TopoStep, OneTree, PTL DEF Spec

\* Of two downstream ports no one gets two unnamed endpoints more than the
\* other, however many ports and endpoints there are (assign_default_parents).
THEOREM DefaultsSpread == Spec => []DefaultsAreSpread
BY TopoStart, TopoStep, Spread, PTL DEF Spec

=============================================================================
