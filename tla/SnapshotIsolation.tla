------------------------- MODULE SnapshotIsolation -------------------------
(***************************************************************************)
(* What a store with snapshot isolation promises its writers: commits form *)
(* one log, a transaction starts at a position of it, and it is appended   *)
(* only when nothing after that position wrote a key it writes (the first  *)
(* committer wins).  Versions, tombstones and their collection do not show *)
(* here.                                                                   *)
(***************************************************************************)
EXTENDS Integers, Sequences

CONSTANTS Keys, Txns

NoStart == -1
Marks == {"none", "put", "delete"}
NoWrites == [k \in Keys |-> "none"]

VARIABLES
  log,     \* the commits in their order: what each did to each key
  start,   \* the position each transaction started at, NoStart when idle
  writes   \* what each transaction will do to each key

vars == <<log, start, writes>>

Init ==
  /\ log = <<>>
  /\ start = [t \in Txns |-> NoStart]
  /\ writes = [t \in Txns |-> NoWrites]

Begin(t) ==
  /\ start[t] = NoStart
  /\ start' = [start EXCEPT ![t] = Len(log)]
  /\ UNCHANGED <<log, writes>>

Buffer(t, k, m) ==
  /\ start[t] # NoStart
  /\ writes' = [writes EXCEPT ![t][k] = m]
  /\ UNCHANGED <<log, start>>

End(t) ==
  /\ start' = [start EXCEPT ![t] = NoStart]
  /\ writes' = [writes EXCEPT ![t] = NoWrites]

\* Nobody has written one of t's keys since t started.
FirstCommitter(t) ==
  \A i \in (start[t] + 1)..Len(log), k \in Keys :
    writes[t][k] = "none" \/ log[i][k] = "none"

Commit(t) ==
  /\ start[t] # NoStart
  /\ FirstCommitter(t)
  /\ log' = Append(log, writes[t])
  /\ End(t)

Rollback(t) ==
  /\ start[t] # NoStart
  /\ End(t)
  /\ UNCHANGED log

Clear ==
  /\ log' = <<>>
  /\ start' = [t \in Txns |-> NoStart]
  /\ writes' = [t \in Txns |-> NoWrites]

Next ==
  \/ Clear
  \/ \E t \in Txns :
       \/ Begin(t) \/ Commit(t) \/ Rollback(t)
       \/ \E k \in Keys, m \in {"put", "delete"} : Buffer(t, k, m)

Spec == Init /\ [][Next]_vars
=============================================================================
