-------------------------------- MODULE MVCC --------------------------------
(***************************************************************************)
(* The store of src/src/solocoder_py/mvcc: versions of every key, buffered *)
(* transactions, snapshots, and the collection of old versions.  Every     *)
(* operation holds the store's lock from end to end, so an operation is a  *)
(* step; what interleaves are the operations of several transactions and   *)
(* readers.  Reads change nothing: they are operators, and the properties  *)
(* say what they return.                                                   *)
(*                                                                         *)
(* A value is named by the number of the commit that wrote it.  A version  *)
(* in the store always belongs to a committed transaction whose number is  *)
(* above the start of everybody who was active then, so the transaction    *)
(* ids a version and a snapshot carry decide nothing and are left out.     *)
(***************************************************************************)
EXTENDS Integers, Sequences

CONSTANTS Keys,        \* the keys
          Txns,        \* transaction objects that may be active at a time
          Readers,     \* snapshot objects that may be held at a time
          MaxVersion   \* bound: no commit takes a number above this one

ASSUME BoundAssumption == MaxVersion \in Nat

Versions == 1..MaxVersion
NoStart == -1          \* of a transaction that is not active
NoSnapshot == -1
Marks == {"none", "put", "delete"}
NoWrites == [k \in Keys |-> "none"]

VARIABLES
  data,       \* _data: the set of versions of each key
  start,      \* start_version of each active transaction
  writes,     \* its writes, by key
  snapshot,   \* _active_snapshots: the version of each snapshot held
  committed,  \* _committed_version; _next_version is one more
  reclaimed,  \* _reclaimed_versions
  log         \* history: what each commit did to each key

vars == <<data, start, writes, snapshot, committed, reclaimed, log>>

Version == [version : Versions, tombstone : BOOLEAN]

TypeOK ==
  /\ data \in [Keys -> SUBSET Version]
  /\ start \in [Txns -> Versions \cup {0, NoStart}]
  /\ writes \in [Txns -> [Keys -> Marks]]
  /\ snapshot \in [Readers -> Versions \cup {0, NoSnapshot}]
  /\ committed \in Versions \cup {0}
  /\ reclaimed \subseteq Versions
  /\ log \in Seq([Keys -> Marks])
  /\ Len(log) = committed

Init ==
  /\ data = [k \in Keys |-> {}]
  /\ start = [t \in Txns |-> NoStart]
  /\ writes = [t \in Txns |-> NoWrites]
  /\ snapshot = [r \in Readers |-> NoSnapshot]
  /\ committed = 0
  /\ reclaimed = {}
  /\ log = <<>>

Active == {t \in Txns : start[t] # NoStart}
Held == {r \in Readers : snapshot[r] # NoSnapshot}

\* The versions somebody reads at.
Live == {start[t] : t \in Active} \cup {snapshot[r] : r \in Held}
-----------------------------------------------------------------------------
(* Reads.                                                                   *)

NotFound == 0      \* KeyNotFoundError
Gone == -1         \* VersionReclaimedError

Newest(S) == CHOOSE v \in S : \A w \in S : w.version <= v.version

\* What the newest of a set of versions says of its key.
Shown(S) == IF S = {} \/ Newest(S).tombstone THEN NotFound ELSE Newest(S).version

\* read without a snapshot
Read(k) == Shown({v \in data[k] : v.version \notin reclaimed})

Upto(k, s) == {v \in data[k] : v.version <= s}

\* read with a snapshot of version s
ReadAt(k, s) ==
  IF data[k] # {} /\ ( \/ s \in reclaimed
                       \/ Upto(k, s) # {} /\ Newest(Upto(k, s)).version \in reclaimed )
  THEN Gone
  ELSE Shown(Upto(k, s))
\* transaction_read: the transaction's own write, or the state it started from.
Own == -2
TransactionRead(t, k) ==
  CASE writes[t][k] = "put" -> Own
    [] writes[t][k] = "delete" -> NotFound
    [] writes[t][k] = "none" -> ReadAt(k, start[t])
-----------------------------------------------------------------------------
(* Transactions and snapshots.                                              *)

BeginTransaction(t) ==
  /\ start[t] = NoStart
  /\ start' = [start EXCEPT ![t] = committed]
  /\ UNCHANGED <<data, writes, snapshot, committed, reclaimed, log>>

CreateSnapshot(r) ==
  /\ snapshot[r] = NoSnapshot
  /\ snapshot' = [snapshot EXCEPT ![r] = committed]
  /\ UNCHANGED <<data, start, writes, committed, reclaimed, log>>

ReleaseSnapshot(r) ==
  /\ snapshot[r] # NoSnapshot
  /\ snapshot' = [snapshot EXCEPT ![r] = NoSnapshot]
  /\ UNCHANGED <<data, start, writes, committed, reclaimed, log>>

Buffer(t, k, mark) ==
  /\ t \in Active
  /\ writes' = [writes EXCEPT ![t][k] = mark]
  /\ UNCHANGED <<data, start, snapshot, committed, reclaimed, log>>

Write(t, k) == Buffer(t, k, "put")
Delete(t, k) == Buffer(t, k, "delete")

\* mutation: only the keys of live values are compared
ConflictOnValue(t, k) == Read(k) > start[t]

\* _check_write_conflicts: the newest version of the key that is not marked
\* as reclaimed was committed after the transaction started.
Conflict(t, k) == \E v \in data[k] : v.version > start[t] /\ v.version \notin reclaimed

Written(t) == {k \in Keys : writes[t][k] # "none"}

\* The transaction object is used up: its slot is free for another.
Finish(t) ==
  /\ start' = [start EXCEPT ![t] = NoStart]
  /\ writes' = [writes EXCEPT ![t] = NoWrites]
  /\ UNCHANGED snapshot

\* A commit that meets a conflict raises and changes nothing: the transaction
\* stays active until it is rolled back.
Commit(t) ==
  /\ t \in Active
  /\ committed < MaxVersion
  /\ \A k \in Written(t) : ~Conflict(t, k)
  /\ data' = [k \in Keys |->
                IF k \in Written(t)
                THEN data[k] \cup {[version |-> committed + 1,
                                    tombstone |-> writes[t][k] = "delete"]}
                ELSE data[k]]
  /\ committed' = committed + 1
  /\ log' = Append(log, writes[t])
  /\ Finish(t)
  /\ UNCHANGED reclaimed

Rollback(t) ==
  /\ t \in Active
  /\ Finish(t)
  /\ UNCHANGED <<data, committed, reclaimed, log>>
-----------------------------------------------------------------------------
(* The collection of old versions.                                          *)

Least(S) == CHOOSE x \in S : \A y \in S : x <= y

\* mutation: the snapshots hold nothing back
SafeOfTxns == Least({start[t] : t \in Active} \cup {committed + 1})

\* Nobody reads below this version: the least of the versions read at, or one
\* above the last commit.
SafeVersion == Least(Live \cup {committed + 1})

\* mutation: everything below the safe version is dropped
OnlyRecent(k, v) == v.version >= SafeVersion

\* collect_garbage keeps v: nobody is past it; or it is the last value below
\* the safe version; or it is a tombstone with nothing older under it.
IsKept(k, v) ==
  \/ v.version >= SafeVersion
  \/ /\ ~v.tombstone
     /\ \A o \in data[k] : o.version > v.version /\ o.version < SafeVersion => o.tombstone
  \/ /\ v.tombstone
     /\ \A o \in data[k] : o.version >= v.version

Kept(k) == {v \in data[k] : IsKept(k, v)}

\* The number of a dropped version counts as reclaimed for every key.
CollectGarbage ==
  /\ data' = [k \in Keys |-> Kept(k)]
  /\ reclaimed' = reclaimed \cup {v.version : v \in UNION {data[k] \ Kept(k) : k \in Keys}}
  /\ UNCHANGED <<start, writes, snapshot, committed, log>>

\* clear: everybody's transactions and snapshots are void.
Clear ==
  /\ data' = [k \in Keys |-> {}]
  /\ start' = [t \in Txns |-> NoStart]
  /\ writes' = [t \in Txns |-> NoWrites]
  /\ snapshot' = [r \in Readers |-> NoSnapshot]
  /\ committed' = 0
  /\ reclaimed' = {}
  /\ log' = <<>>

Next ==
  \/ \E t \in Txns :
       \/ BeginTransaction(t)
       \/ \E k \in Keys : Write(t, k) \/ Delete(t, k)
       \/ Commit(t)
       \/ Rollback(t)
  \/ \E r \in Readers : CreateSnapshot(r) \/ ReleaseSnapshot(r)
  \/ CollectGarbage
  \/ Clear

Spec == Init /\ [][Next]_vars
-----------------------------------------------------------------------------
(* What the history says.                                                   *)

WritesTo(k, s) == {v \in 1..s : log[v][k] # "none"}

\* The value of k when s commits had been made.
Promised(k, s) ==
  IF WritesTo(k, s) = {} THEN NotFound
  ELSE LET v == CHOOSE v \in WritesTo(k, s) : \A w \in WritesTo(k, s) : w <= v
       IN IF log[v][k] = "delete" THEN NotFound ELSE v

\* No commit has deleted a key or written two of them.
Plain ==
  \A v \in 1..Len(log) : \A k \in Keys :
    /\ log[v][k] # "delete"
    /\ log[v][k] = "put" => \A j \in Keys \ {k} : log[v][j] = "none"

\* Everybody reads what had been committed when they started, to the key,
\* and a read without a snapshot what is committed now.
ViewsAreRight ==
  \A k \in Keys :
    /\ Read(k) = Promised(k, committed)
    /\ \A r \in Held : ReadAt(k, snapshot[r]) = Promised(k, snapshot[r])
    /\ \A t \in Active :
         writes[t][k] = "none" => TransactionRead(t, k) = Promised(k, start[t])

\* Snapshot reads and reads of the latest state are right as long as nothing
\* has been collected, and for ever, whatever is collected and when, in a store
\* whose commits each put one key (store.py:119, :299).
ViewsAreTrue == (Plain \/ reclaimed = {}) => ViewsAreRight

\* Whatever has been deleted, written together and collected, the version that
\* holds the value of a key for somebody who reads it is still in the store
\* (store.py:300).
NothingNeededIsDropped ==
  \A k \in Keys, s \in Live \cup {committed} :
    LET v == Promised(k, s)
    IN v # NotFound => [version |-> v, tombstone |-> FALSE] \in data[k]

\* The collection cannot make a conflict disappear: the versions a transaction
\* must not overwrite are all there and none of them counts as reclaimed, so
\* the first committer wins (store.py:202).
SI == INSTANCE SnapshotIsolation
ImplementsSI == SI!Spec

\* README.md of the package, on the collection: no version that is still in
\* use is deleted by mistake.
GCSparesReaders == ViewsAreRight
=============================================================================
