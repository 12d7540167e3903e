---------------------------- MODULE MCTraceFiles -----------------------------
(* Small instances of TraceFiles for TLC.                                   *)
EXTENDS TraceFiles, TLC

LOCAL Rec(usec, direction, type, length, payload) ==
    [sec |-> 1, usec |-> usec, direction |-> direction, type |-> type,
     requester |-> 1, length |-> length, payload |-> payload]

\* A config read, a completion with data and one whose length is not set, at
\* times whose microseconds a misplaced reader takes for lengths: none, the
\* shortest body, and one that is too long.
MCRecord ==
    {Rec(0, 1, 4, 0, <<0, 0, 0, 0>>),
     Rec(20, 2, 10, 4, <<0, 1, 2, 0>>),
     Rec(5000, 2, 10, 0, <<0, 1, 0, 0>>)}

MCLiveRow == {Row(<<0, 7>>, "RX", "CfgRd", "gpu", 4, <<<<1, 0, 0, 0>>>>)}

\* Rows of other tools: a payload with a comma, requests nobody answered.
MCForeignRow ==
    {Row(<<0, 3>>, "TX", "MemRd", 2, 4, <<>>),
     Row(<<0, 4>>, "TX", "MemWr", 2, 4, <<<<1>>, <<2>>>>)}

MCTypeShown == {"CfgRd"}
=============================================================================
