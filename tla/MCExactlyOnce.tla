--------------------------- MODULE MCExactlyOnce ---------------------------
(* ExactlyOnce for TLC: the ids are told apart by the liveness property, so *)
(* they are not declared interchangeable.                                   *)
EXTENDS ExactlyOnce
=============================================================================
