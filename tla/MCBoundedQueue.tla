--------------------------- MODULE MCBoundedQueue ---------------------------
(* BoundedQueue on small instances: the threads are interchangeable. *)
EXTENDS BoundedQueue, TLC

\* For runs of invariants only: the liveness runs take every thread as it is.
Symmetric == Permutations(Threads)
=============================================================================
