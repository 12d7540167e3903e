------------------------------ MODULE MCTopology -----------------------------
(* Small instances of Topology for TLC.                                     *)
EXTENDS Topology, TLC

MCPortName == {<<"x">>}
MCSwitchName == {"A", "B"}
MCParent == {<<"x">>, <<"A", 1>>}
=============================================================================
