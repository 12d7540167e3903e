----------------------------- MODULE LinkTarget ------------------------------
(***************************************************************************)
(* The link queries of the library (src/src/pcapcie.c) that every backend  *)
(* answers in the same form: how a speed code is read, and when a link     *)
(* meets the generation and width a client asks for.                       *)
(*                                                                         *)
(* pcie_gen_t and pcie_link_speed_t number the same speeds, so one number  *)
(* stands for both fields of a status.                                     *)
(***************************************************************************)
EXTENDS Integers

UnknownGen == 0

\* pcie_gen_from_speed_code and pcie_link_speed_from_code.
GenFromCode(code) == IF code \in 1 .. 8 THEN code ELSE UnknownGen

\* What a client asks of a link; 0 asks for nothing.
Wanted == [gen : Nat, width : Nat]

\* What the caller's structure holds before a backend fills it (memset).
NoStatus == [maxGen |-> 0, negGen |-> 0, maxWidth |-> 0, negWidth |-> 0]

\* Fault: the link's maximum is compared, not what was negotiated.
MeetsTargetAtMost(s, target) ==
    /\ (target.gen # UnknownGen /\ s.maxGen # UnknownGen) => s.maxGen >= target.gen
    /\ target.width > 0 => s.maxWidth >= target.width

\* Fault: the width must be the one asked for.
MeetsTargetExactly(s, target) ==
    /\ (target.gen # UnknownGen /\ s.negGen # UnknownGen) => s.negGen >= target.gen
    /\ target.width > 0 => s.negWidth = target.width

\* pcie_check_link_target, once the status is there: a generation that is not
\* known, on either side, is not compared.
MeetsTarget(s, target) ==
    /\ (target.gen # UnknownGen /\ s.negGen # UnknownGen) => s.negGen >= target.gen
    /\ target.width > 0 => s.negWidth >= target.width
=============================================================================
