---------------------------- MODULE MCLiveRunner -----------------------------
(* Small instances of LiveRunner for TLC.                                   *)
EXTENDS LiveRunner, TLC

MCLine == {"a", "b"}
=============================================================================
