--------------------------- MODULE MCWorkStealing ---------------------------
(* WorkStealing for TLC: the workers are told apart by the liveness         *)
(* property, so nothing is declared interchangeable.                        *)
EXTENDS WorkStealing
=============================================================================
