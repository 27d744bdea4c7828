------------------------------- MODULE MCSaga -------------------------------
(* Saga for TLC: the steps are ordered, nothing is interchangeable.         *)
EXTENDS Saga
=============================================================================
