------------------------------ MODULE MCTwoPC ------------------------------
(* TwoPC on small instances.  The runs check temporal formulas, for which   *)
(* symmetry of the participants would not be sound.                         *)
EXTENDS TwoPC
=============================================================================
