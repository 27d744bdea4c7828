--------------------------- MODULE MCQuorumStore ----------------------------
(* QuorumStore for TLC: replicas are interchangeable.                       *)
EXTENDS QuorumStore, TLC

Symmetry == Permutations(Replicas)
=============================================================================
