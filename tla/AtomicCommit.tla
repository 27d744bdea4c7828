---------------------------- MODULE AtomicCommit ----------------------------
(***************************************************************************)
(* What two-phase commit promises, without a coordinator, a log or votes:  *)
(* every participant moves along INITIAL -> PREPARED -> COMMITTED/ABORTED, *)
(* nobody commits before everyone has prepared, and nobody aborts after    *)
(* somebody has committed.  TwoPC.tla is shown to implement it.            *)
(***************************************************************************)
CONSTANT RM            \* the participants enlisted in the transaction

VARIABLE rmState       \* the state of every participant's state machine

RMStates == {"INITIAL", "PREPARED", "COMMITTED", "ABORTED"}

ACInit == rmState = [r \in RM |-> "INITIAL"]

EveryonePrepared == \A r \in RM : rmState[r] \in {"PREPARED", "COMMITTED"}

NobodyCommitted == \A r \in RM : rmState[r] # "COMMITTED"

Prepare(r) == /\ rmState[r] = "INITIAL"
              /\ rmState' = [rmState EXCEPT ![r] = "PREPARED"]

Commit(r) == /\ rmState[r] = "PREPARED"
             /\ EveryonePrepared
             /\ rmState' = [rmState EXCEPT ![r] = "COMMITTED"]

Abort(r) == /\ rmState[r] \in {"INITIAL", "PREPARED"}
            /\ NobodyCommitted
            /\ rmState' = [rmState EXCEPT ![r] = "ABORTED"]

ACNext == \E r \in RM : Prepare(r) \/ Commit(r) \/ Abort(r)

ACSpec == ACInit /\ [][ACNext]_rmState
=============================================================================
