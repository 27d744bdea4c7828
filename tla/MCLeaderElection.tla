-------------------------- MODULE MCLeaderElection --------------------------
(* LeaderElection on small instances; nodes are polled in the order of their *)
(* numbers, so they are not interchangeable.                                 *)
EXTENDS LeaderElection
=============================================================================
