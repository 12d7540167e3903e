---------------------------- MODULE MCTraceMatch ----------------------------
(* Small instances of TraceMatch for TLC: rows of the two GUIs.             *)
EXTENDS TraceMatch

LOCAL RowOf(type, tag, addr, ids, payload) ==
    [type |-> type, tag |-> tag, addr |-> addr, ids |-> ids, payload |-> payload]

\* The same address written twice, and no address at all.
LOCAL Both == {"host", "gpu"}

MCCoreRow ==
    {RowOf("CfgRd", 0, "0x4", Both, FALSE),
     RowOf("CfgRd", 0, "0x04", Both, FALSE),
     RowOf("CfgRd", 0, "", Both, FALSE),
     RowOf("Cpl", 0, "0x4", Both, FALSE),
     RowOf("Cpl", 0, "", Both, TRUE)}

MCRow ==
    MCCoreRow \union
    {RowOf("MemRd", 1, "0x4", Both, FALSE),
     RowOf("CfgRd", 0, "0x4", Both, TRUE),
     RowOf("MemWr", 0, "0x4", Both, TRUE),
     RowOf("Cpl", 1, "0x4", {"nvme"}, TRUE),
     RowOf("Unknown", 0, "0x4", Both, TRUE)}

MCNormAddrPython == [text \in {"0x4", "0x04", ""} |-> IF text = "" THEN "0" ELSE "4"]

MCNormAddrCpp == [text \in {"0x4", "0x04", ""} |-> IF text = "" THEN "" ELSE "4"]
=============================================================================
