----------------------------- MODULE MCArmdsLink -----------------------------
(* Small instances of ArmdsLink for TLC: TLPs without a payload, with one,   *)
(* and reads, whose length field is set and which carry no data.             *)
EXTENDS ArmdsLink, TLC

WithData == {[len |-> 0, data |-> FALSE], [len |-> 1, data |-> TRUE], [len |-> 3, data |-> TRUE]}
WithReads == {[len |-> 2, data |-> FALSE], [len |-> 2, data |-> TRUE]}
=============================================================================
