---------------------------- MODULE QuorumStore -----------------------------
(***************************************************************************)
(* The coordinator and the replicas of src/src/solocoder_py/quorum, for    *)
(* one key: keys share nothing but the replicas' states.  The coordinator  *)
(* calls the replicas one after another on the caller's thread, without a  *)
(* lock and for one caller, so an operation is a step.  Which replicas can *)
(* be reached, and which fail reads or writes, may be changed before every *)
(* operation (mark_replica_unreachable, set_fail_reads, set_fail_writes):  *)
(* each operation chooses the set of replicas that answer it.              *)
(***************************************************************************)
EXTENDS Integers, FiniteSets

CONSTANTS Replicas,
          MaxVersion,  \* bound: versions written are at most this
          MaxClock     \* bound: operations that write to a replica

ASSUME ReplicasAssumption == IsFiniteSet(Replicas) /\ Replicas # {}
ASSUME BoundAssumption == MaxVersion \in Nat /\ MaxClock \in Nat

N == Cardinality(Replicas)

VARIABLES
  w, r,     \* the quorum sizes the coordinator was made with
  stored,   \* what each replica stores, version 0 when nothing
  counter,  \* _key_versions
  clock,    \* the time: operations that have written
  acked,    \* history: the last write, by version and time, that was confirmed
  seen,     \* history: the highest version a fully repaired read returned
  missed,   \* history: a write with an explicit version missed its quorum
  rewrote   \* history: resolve_conflict ran when a version had been used twice

vars == <<w, r, stored, counter, clock, acked, seen, missed, rewrote>>

\* A StoredValue: the value is named by the time of the write that made it,
\* the timestamp is the time the replica was last written.
Value == [version : 0..MaxVersion, value : 0..MaxClock, timestamp : 0..MaxClock]
Nothing == [version |-> 0, value |-> 0, timestamp |-> 0]

TypeOK ==
  /\ w \in 1..N /\ r \in 1..N /\ w + r > N
  /\ stored \in [Replicas -> Value]
  /\ counter \in 0..MaxVersion
  /\ clock \in 0..MaxClock
  /\ acked \in [version : 0..MaxVersion, value : 0..MaxClock]
  /\ seen \in 0..MaxVersion
  /\ missed \in BOOLEAN
  /\ rewrote \in BOOLEAN

\* __post_init__ refuses every other pair of sizes.
Init ==
  /\ w \in 1..N /\ r \in 1..N /\ w + r > N
  /\ stored = [q \in Replicas |-> Nothing]
  /\ counter = 0
  /\ clock = 0
  /\ acked = [version |-> 0, value |-> 0]
  /\ seen = 0
  /\ missed = FALSE
  /\ rewrote = FALSE
-----------------------------------------------------------------------------
(* Writing.                                                                 *)

\* What a replica stores when it is written now.
Stamped(version, value) ==
  [version |-> version, value |-> value, timestamp |-> clock + 1]

\* mutation: a replica takes every version
AcceptsAll(q, version) == TRUE

\* Replica.write refuses a version below the one it stores.
Accepts(q, version) == version >= stored[q].version

Store(S, version, value) ==
  /\ clock < MaxClock
  /\ clock' = clock + 1
  /\ stored' = [q \in Replicas |-> IF q \in S THEN Stamped(version, value) ELSE stored[q]]

\* The counter after a write that was confirmed.
Raised(version) == IF version > counter THEN version ELSE counter

\* acked and the confirmed write, whichever is later by version and time.
LaterOf(version, value) ==
  IF version >= acked.version THEN [version |-> version, value |-> value] ELSE acked

\* The write reaches the replicas in S.  It is confirmed when w of them took
\* it; when they are fewer nobody takes it back, and the counter stays at kept.
WriteTo(S, version, kept) ==
  LET took == {q \in S : Accepts(q, version)}
      confirmed == Cardinality(took) >= w
  IN /\ version <= MaxVersion
     /\ Store(took, version, clock + 1)
     /\ counter' = IF confirmed THEN Raised(version) ELSE kept
     /\ acked' = IF confirmed THEN LaterOf(version, clock + 1) ELSE acked
     /\ missed' = (missed \/ (~confirmed /\ kept # version))
     /\ UNCHANGED <<w, r, seen, rewrote>>

\* write: the next version is taken before the first replica is called.
Write(S) == WriteTo(S, counter + 1, counter + 1)

\* write with a version of the caller's choice
WriteVersion(S, version) == WriteTo(S, version, counter)
-----------------------------------------------------------------------------
(* Reading.                                                                 *)

\* mutation: equal versions are not told apart
WinsByVersion(a, b) == a.version >= b.version

Wins(a, b) ==
  \/ a.version > b.version
  \/ a.version = b.version /\ a.timestamp >= b.timestamp

\* The highest version among the answers, the last stored of equal ones.
Winner(Q) == LET q == CHOOSE p \in Q : \A o \in Q : Wins(stored[p], stored[o])
             IN stored[q]

\* mutation: only replicas without a value are repaired
Missing(Q) == {q \in Q : stored[q].version = 0 /\ Winner(Q).version > 0}

\* The replicas a read has to repair.
Lagging(Q) == {q \in Q : stored[q].version < Winner(Q).version}

\* read, answered by Q; of the replicas to repair only those in F take writes,
\* none of them when perform_repair is false.
Read(Q, F) ==
  /\ Cardinality(Q) >= r
  /\ F \subseteq Lagging(Q)
  /\ IF F = {} THEN UNCHANGED <<stored, clock>>
     ELSE Store(F, Winner(Q).version, Winner(Q).value)
  /\ seen' = IF F = Lagging(Q) /\ Winner(Q).version > seen THEN Winner(Q).version ELSE seen
  /\ UNCHANGED <<w, r, counter, acked, missed, rewrote>>

\* Two of the stored values have one version.
VersionUsedTwice ==
  \E p, q \in Replicas :
    stored[p].version = stored[q].version /\ stored[p].value # stored[q].value

\* resolve_conflict: the replicas in Q answer with a value, however few they
\* are, and the winner is written to those in F, with the time of now.
ResolveConflict(Q, F) ==
  /\ F # {}
  /\ \A q \in Q : stored[q].version > 0
  /\ Store(F, Winner(Q).version, Winner(Q).value)
  /\ rewrote' = (rewrote \/ VersionUsedTwice)
  /\ UNCHANGED <<w, r, counter, acked, seen, missed>>

Next ==
  \/ \E S \in SUBSET Replicas :
       Write(S) \/ \E version \in 1..MaxVersion : WriteVersion(S, version)
  \/ \E Q \in SUBSET Replicas :
     \E F \in SUBSET Q : Read(Q, F) \/ ResolveConflict(Q, F)

Spec == Init /\ [][Next]_vars
-----------------------------------------------------------------------------
(* What is promised.                                                        *)

ReadQuorums == {Q \in SUBSET Replicas : Cardinality(Q) >= r}

AtLeastAcked(v) ==
  \/ v.version > acked.version
  \/ v.version = acked.version /\ v.value >= acked.value

\* Whoever answers a read, it returns the last confirmed write or a later one
\* (one that missed its quorum, say), and of two writes with one version the
\* later, as long as resolve_conflict is kept away from the latter
\* (coordinator.py:121).
LastWriteWins == ~rewrote => \A Q \in ReadQuorums : AtLeastAcked(Winner(Q))

\* A confirmed version is never lost: w replicas have it or a later one, also
\* after partial writes, old explicit versions and repairs (coordinator.py:70).
AcknowledgedIsKept ==
  Cardinality({q \in Replicas : stored[q].version >= acked.version}) >= w

\* When two reads always share a replica, reads do not go back once a read has
\* repaired everybody who answered it: a write that missed its quorum, once
\* returned, stays (coordinator.py:156).
RepairedReadsStay ==
  2 * r > N => \A Q \in ReadQuorums : Winner(Q).version >= seen

\* A write that takes the next version is refused by no replica it reaches,
\* unless an explicit version missed its quorum (coordinator.py:73).
NextVersionIsAccepted ==
  ~missed => \A q \in Replicas : Accepts(q, counter + 1)

\* README.md of the package: the higher version wins, and of equal versions
\* the last write.
LastWriteWinsAlways == \A Q \in ReadQuorums : AtLeastAcked(Winner(Q))
=============================================================================
