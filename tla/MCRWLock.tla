------------------------------ MODULE MCRWLock ------------------------------
(* RWLock on small instances: the threads are interchangeable. *)
EXTENDS RWLock, TLC

\* For runs of invariants only: the liveness runs take every thread as it is.
Symmetric == Permutations(Threads)
=============================================================================
