------------------------- MODULE MCTraceMatchQueues --------------------------
(* Small instance of TraceMatchQueues for TLC: the rows of MCTraceMatch.    *)
EXTENDS TraceMatchQueues, MCTraceMatch
=============================================================================
