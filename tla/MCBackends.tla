----------------------------- MODULE MCBackends ------------------------------
(* A small instance of Backends for TLC.                                    *)
EXTENDS Backends

Link(code, width) == code + 16 * width

\* Header of 5 cells, two capabilities of 4.  Pointer 12 is the last cell: a
\* capability there does not fit.
A == 5
B == 9

Space(listed, ptr, idA, nextA, idB, nextB, word) ==
    [c \in 0 .. 12 |->
        CASE c = StatusCell -> listed
          [] c = PtrCell -> ptr
          [] c = A -> idA [] c = A + NextCell -> nextA
          [] c = B -> idB [] c = B + NextCell -> nextB
          [] c \in {A + LnkCap, B + LnkCap} -> Link(5, 4)
          [] c \in {A + LnkSta, B + LnkSta} -> word
          [] OTHER -> c]

MCLinkWord == {Link(5, 4), Link(3, 1)}

Full == Link(5, 4)

\* The capability is the first, the second, in a cycle, out of the space or
\* nowhere; an empty list, no list, and a link of a speed nobody knows.
MCDevice ==
    {Space(1, A, 5, nextA, idB, nextB, Full) :
        nextA \in {0, A, B, 12}, idB \in {PcieCapId, 5}, nextB \in {0, A}}
    \union {Space(1, A, PcieCapId, nextA, PcieCapId, 0, Full) : nextA \in {0, B}}
    \union {Space(1, ptr, 5, 0, 5, 0, Full) : ptr \in {0, 12}}
    \union {Space(0, A, PcieCapId, 0, 5, 0, Full), Space(1, A, PcieCapId, 0, 5, 0, Link(9, 1))}

Aim(g, w) == [gen |-> g, width |-> w]

MCRequest ==
    {[op |-> "write", off |-> 1, data |-> <<7, 8, 9>>],
     [op |-> "write", off |-> 3, data |-> <<>>],
     [op |-> "read", off |-> 0, len |-> 0, buffer |-> FALSE],
     [op |-> "read", off |-> 3, len |-> 3, buffer |-> TRUE],
     [op |-> "read", off |-> 0, len |-> 5, buffer |-> TRUE],
     [op |-> "other"], [op |-> "info"],
     [op |-> "status", target |-> Aim(0, 0)], [op |-> "check", target |-> Aim(4, 2)]}

MCCase == <<Aim(3, 1), Aim(5, 4)>>

MCTarget == {Aim(4, 2)}

P(s, w) == [speed |-> s, width |-> w]

\* Environments: nothing set, single variables, profiles, scenarios.
Plain == [maxSpeed |-> Unset, negSpeed |-> Unset, maxWidth |-> Unset, negWidth |-> Unset,
          latency |-> Unset, tps |-> Unset, profile |-> NoName, scenario |-> <<>>]

Word(n) == [key |-> "word", value |-> n]
Named(n) == [key |-> "profile", value |-> n]
Tps(n) == [key |-> "tps", value |-> n]
Latency(n) == [key |-> "latency", value |-> n]

Scenario(s) == [Plain EXCEPT !.profile = P(6, 16), !.scenario = s]

MCEnv ==
    {Scenario(<<Word(P(8, 4)), Tps(2), Latency(1)>>),
     Scenario(<<Tps(4), Named(P(3, 1)), Word(P(8, 4))>>),
     Scenario(<<Word(P(8, 4)), Named(P(3, 1)), Tps(Garbage)>>),
     Scenario(<<Named(P(8, 4)), Named(P(9, 1)), Tps(1)>>),
     [Plain EXCEPT !.negSpeed = 9, !.tps = 2],
     [Plain EXCEPT !.maxWidth = 256, !.negWidth = Garbage]}
=============================================================================
