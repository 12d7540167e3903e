----------------------------- MODULE MCPcieCtx ------------------------------
(* Small instances of PcieCtx for TLC.                                      *)
EXTENDS PcieCtx

CONSTANTS c1, c2   \* context handles

MCClientTlp == {[type |-> "CfgWr", addr |-> 0]}

\* PCIE_MATCH_TYPE(MEM_READ) and a filter that the golden backend never meets.
MCFilter == {{MemRd}, {"Cpl"}}

MCNoSniffers == [c \in Ctx |-> 0]

\* Two sniffers in one context, one in the other.
MCSniffers == [c \in Ctx |-> IF c = c1 THEN 2 ELSE 1]
=============================================================================
