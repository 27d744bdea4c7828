-------------------------- MODULE QuorumStoreProofs --------------------------
(***************************************************************************)
(* Theorems about QuorumStore for every set of replicas, every valid pair  *)
(* of quorum sizes and every bound.                                        *)
(***************************************************************************)
EXTENDS QuorumStore, FiniteSetTheorems, WellFoundedInduction, TLAPS

\* A value is as old as the write that made it, and no replica was written later
\* than now.
TimesArePast ==
  /\ acked.value <= clock
  /\ \A q \in Replicas : stored[q].value <= clock /\ stored[q].timestamp <= clock

\* The replicas that have the last confirmed write or a later one.
Current == {q \in Replicas : AtLeastAcked(stored[q])}

\* Of the replicas with the confirmed version, those with a value from before the
\* last confirmed write were written before the others: a read prefers the latter.
OldValuesLose ==
  \A p \in Current, q \in Replicas \ Current :
    stored[p].version = acked.version /\ stored[q].version = acked.version
      => stored[q].timestamp < stored[p].timestamp

\* A write quorum is current, and looks it.
CurrentIsFound == ~rewrote => Cardinality(Current) >= w /\ OldValuesLose

\* The replicas of a read quorum have what a repaired read returned.
Repaired == {q \in Replicas : stored[q].version >= seen}
SeenIsKept == Cardinality(Repaired) >= r

IInv ==
  /\ TypeOK
  /\ TimesArePast
  /\ AcknowledgedIsKept
  /\ CurrentIsFound
  /\ SeenIsKept
  /\ NextVersionIsAccepted
-----------------------------------------------------------------------------
\* A set of naturals below a bound that is not empty has a greatest element.
LEMMA HasGreatest ==
  ASSUME NEW n \in Nat, NEW S \in SUBSET (0..n), S # {}
  PROVE  \E x \in S : \A y \in S : y <= x
<1> DEFINE D == {n - x : x \in S}
           R == {ss \in Nat \X Nat : ss[1] < ss[2]}
<1>1. IsWellFoundedOn(R, Nat)
  <2>1. OpToRel(<, Nat) = R
    BY DEF OpToRel
  <2> QED
    BY <2>1, NatLessThanWellFounded
<1>2. D \in SUBSET Nat /\ D # {}
  <2>1. \A x \in S : n - x \in Nat
    OBVIOUS
  <2> QED
    BY <2>1
<1>3. PICK d \in D : \A y \in D : ~(<<y, d>> \in R)
  BY <1>1, <1>2, WFMin
<1>4. PICK m \in S : d = n - m
  BY <1>3
<1>5. ASSUME NEW y \in S PROVE y <= m
  <2>1. n - y \in D /\ n - y \in Nat /\ n - m \in Nat
    OBVIOUS
  <2>2. ~(n - y < n - m)
    BY <1>3, <1>4, <2>1
  <2> QED
    BY <2>2
<1> QED
  BY <1>5

\* The numbers of replicas are natural numbers, and sets of them grow with them.
LEMMA Counting ==
  /\ N \in Nat \ {0}
  /\ \A A \in SUBSET Replicas : Cardinality(A) \in Nat /\ Cardinality(A) <= N
  /\ \A A, B \in SUBSET Replicas : A \subseteq B => Cardinality(A) <= Cardinality(B)
<1>1. N \in Nat /\ N # 0
  BY ReplicasAssumption, FS_CardinalityType, FS_EmptySet DEF N
<1>2. ASSUME NEW B \in SUBSET Replicas, NEW A \in SUBSET B
      PROVE  Cardinality(A) \in Nat /\ Cardinality(A) <= Cardinality(B)
  BY ReplicasAssumption, FS_Subset, FS_CardinalityType
<1> QED
  BY <1>1, <1>2 DEF N

\* Sets that have more replicas between them than there are share one.
LEMMA QuorumsMeet ==
  ASSUME NEW A \in SUBSET Replicas, NEW B \in SUBSET Replicas,
         Cardinality(A) + Cardinality(B) > N
  PROVE  \E q \in A : q \in B
BY ReplicasAssumption, FS_MajoritiesIntersect DEF N

\* The winner among some answers is one of them, and none of them beats it.
LEMMA WinnerWins ==
  ASSUME TypeOK, NEW Q \in SUBSET Replicas, Q # {}
  PROVE  \E p \in Q : Winner(Q) = stored[p] /\ \A o \in Q : Wins(stored[p], stored[o])
<1>1. \A q \in Replicas : stored[q].version \in 0..MaxVersion /\ stored[q].timestamp \in 0..MaxClock
  BY DEF TypeOK, Value
<1> DEFINE V == {stored[q].version : q \in Q}
<1>2. V \in SUBSET (0..MaxVersion) /\ V # {}
  BY <1>1
<1>3. PICK v \in V : \A y \in V : y <= v
  BY <1>2, HasGreatest, BoundAssumption
<1> DEFINE H == {q \in Q : stored[q].version = v}
           T == {stored[q].timestamp : q \in H}
<1>4. T \in SUBSET (0..MaxClock) /\ T # {}
  BY <1>1, <1>3
<1>5. PICK t \in T : \A y \in T : y <= t
  BY <1>4, HasGreatest, BoundAssumption
<1>6. PICK p \in H : stored[p].timestamp = t
  BY <1>5
<1>7. ASSUME NEW o \in Q PROVE Wins(stored[p], stored[o])
  <2>1. stored[o].version \in V /\ stored[o].version <= v
    BY <1>3
  <2>2. stored[o].version = v => stored[o].timestamp \in T
    OBVIOUS
  <2>3. stored[p].version = v /\ stored[p].timestamp = t
    BY <1>6
  <2> QED
    BY <1>1, <1>5, <2>1, <2>2, <2>3 DEF Wins
<1> QED
  BY <1>6, <1>7 DEF Winner
-----------------------------------------------------------------------------
\* Replicas that nobody wrote to are in the invariant.
LEMMA InitHolds == Init => IInv
<1> SUFFICES ASSUME Init PROVE IInv
  OBVIOUS
<1>0. /\ 0 \in 0..MaxVersion /\ 0 \in 0..MaxClock
      /\ N \in Nat /\ w \in 1..N /\ r \in 1..N
  BY BoundAssumption, Counting DEF Init
<1>1. \A q \in Replicas : stored[q] = Nothing
  BY DEF Init
<1>2. TypeOK
  <2>1. Nothing \in Value
    BY <1>0 DEF Nothing, Value
  <2> QED
    BY <1>0, <2>1 DEF Init, TypeOK
<1>3. TimesArePast /\ NextVersionIsAccepted
  BY <1>1 DEF Init, TimesArePast, NextVersionIsAccepted, Accepts, Nothing
<1>4. /\ {q \in Replicas : stored[q].version >= acked.version} = Replicas
      /\ Current = Replicas
      /\ Repaired = Replicas
  BY <1>1 DEF Init, Current, Repaired, AtLeastAcked, Nothing
<1>5. OldValuesLose
  BY <1>4, Zenon DEF OldValuesLose
<1>6. Cardinality(Replicas) >= w /\ Cardinality(Replicas) >= r
  BY <1>0 DEF N
<1>7. AcknowledgedIsKept /\ CurrentIsFound /\ SeenIsKept
  BY <1>4, <1>5, <1>6, Zenon DEF AcknowledgedIsKept, CurrentIsFound, SeenIsKept
<1> QED
  BY <1>2, <1>3, <1>7 DEF IInv

\* What every operation that writes to replicas does: those it writes have the
\* version and the value, and the time of now; the others keep what they have.
LEMMA StoreWrites ==
  ASSUME TypeOK, NEW S \in SUBSET Replicas,
         NEW version \in 0..MaxVersion, NEW value \in 0..MaxClock,
         Store(S, version, value)
  PROVE  /\ clock' = clock + 1 /\ clock' \in 0..MaxClock
         /\ stored' \in [Replicas -> Value]
         /\ \A q \in S : /\ stored'[q].version = version
                         /\ stored'[q].value = value
                         /\ stored'[q].timestamp = clock + 1
         /\ \A q \in Replicas \ S : stored'[q] = stored[q]
<1>1. clock' = clock + 1 /\ clock' \in 0..MaxClock
  BY BoundAssumption DEF Store, TypeOK
<1>2. Stamped(version, value) \in Value
  BY <1>1 DEF Stamped, Value
<1> QED
  BY <1>1, <1>2 DEF Store, Stamped, TypeOK

\* What a write does, confirmed or not.
LEMMA WriteTakes ==
  ASSUME IInv, NEW S \in SUBSET Replicas, NEW version \in 1..MaxVersion,
         NEW kept \in 0..MaxVersion, WriteTo(S, version, kept)
  PROVE  LET took == {q \in S : Accepts(q, version)}
         IN  /\ took \in SUBSET Replicas
             /\ \A q \in took : /\ stored[q].version <= version
                                /\ stored'[q].version = version
                                /\ stored'[q].value = clock + 1
                                /\ stored'[q].timestamp = clock + 1
             /\ \A q \in Replicas \ took : stored'[q] = stored[q]
             /\ clock' = clock + 1
             /\ IF Cardinality(took) >= w
                THEN /\ counter' = (IF version > counter THEN version ELSE counter)
                     /\ acked' = LaterOf(version, clock + 1)
                ELSE /\ counter' = kept
                     /\ acked' = acked
             /\ missed' = (missed \/ (~(Cardinality(took) >= w) /\ kept # version))
             /\ UNCHANGED <<w, r, seen, rewrote>>
             /\ TypeOK'
<1> DEFINE took == {q \in S : Accepts(q, version)}
<1>0. TypeOK
  BY DEF IInv
<1>1. Store(took, version, clock + 1)
  BY DEF WriteTo
<1>2. clock + 1 \in 0..MaxClock
  BY <1>0, <1>1, BoundAssumption DEF Store, TypeOK
<1>3. /\ clock' = clock + 1 /\ clock' \in 0..MaxClock
      /\ stored' \in [Replicas -> Value]
      /\ \A q \in took : /\ stored'[q].version = version
                         /\ stored'[q].value = clock + 1
                         /\ stored'[q].timestamp = clock + 1
      /\ \A q \in Replicas \ took : stored'[q] = stored[q]
  <2>1. took \in SUBSET Replicas /\ version \in 0..MaxVersion
    OBVIOUS
  <2> HIDE DEF took
  <2> QED
    BY <1>0, <1>1, <1>2, <2>1, StoreWrites
<1>4. \A q \in took : stored[q].version <= version
  BY <1>0 DEF Accepts, TypeOK, Value
<1>5. /\ IF Cardinality(took) >= w
         THEN /\ counter' = (IF version > counter THEN version ELSE counter)
              /\ acked' = LaterOf(version, clock + 1)
         ELSE /\ counter' = kept
              /\ acked' = acked
      /\ missed' = (missed \/ (~(Cardinality(took) >= w) /\ kept # version))
      /\ UNCHANGED <<w, r, seen, rewrote>>
  BY DEF WriteTo, Raised
<1>6. TypeOK'
  <2>1. acked' \in [version : 0..MaxVersion, value : 0..MaxClock]
    BY <1>0, <1>2, <1>5 DEF LaterOf, TypeOK
  <2>2. counter' \in 0..MaxVersion
    BY <1>0, <1>5 DEF TypeOK
  <2>3. missed' \in BOOLEAN
    BY <1>5
  <2> QED
    BY <1>0, <1>3, <1>5, <2>1, <2>2, <2>3 DEF TypeOK
<1> QED
  BY <1>3, <1>4, <1>5, <1>6
-----------------------------------------------------------------------------
\* A write, confirmed or not.
LEMMA WriteStep ==
  ASSUME IInv, NEW S \in SUBSET Replicas, NEW version \in 1..MaxVersion,
         NEW kept \in 0..MaxVersion,
         kept = counter \/ (kept = version /\ version = counter + 1),
         WriteTo(S, version, kept)
  PROVE  IInv'
<1> DEFINE took == {q \in S : Accepts(q, version)}
           confirmed == Cardinality(took) >= w
<1>1. /\ took \in SUBSET Replicas
      /\ \A q \in took : /\ stored[q].version <= version
                         /\ stored'[q].version = version
                         /\ stored'[q].value = clock + 1
                         /\ stored'[q].timestamp = clock + 1
      /\ \A q \in Replicas \ took : stored'[q] = stored[q]
      /\ clock' = clock + 1
      /\ IF confirmed
         THEN /\ counter' = (IF version > counter THEN version ELSE counter)
              /\ acked' = LaterOf(version, clock + 1)
         ELSE /\ counter' = kept
              /\ acked' = acked
      /\ missed' = (missed \/ (~confirmed /\ kept # version))
      /\ UNCHANGED <<w, r, seen, rewrote>>
      /\ TypeOK'
  BY WriteTakes
<1> HIDE DEF took
<1>2. TypeOK /\ TimesArePast
  BY DEF IInv
<1>3. /\ version \in Nat /\ kept \in Nat /\ counter \in Nat /\ clock \in Nat /\ seen \in Nat
      /\ acked.version \in Nat /\ acked.value \in Nat /\ acked.value <= clock
      /\ \A q \in Replicas : /\ stored[q].version \in Nat
                             /\ stored[q].value \in Nat /\ stored[q].value <= clock
                             /\ stored[q].timestamp \in Nat /\ stored[q].timestamp <= clock
  BY <1>2, BoundAssumption DEF TypeOK, TimesArePast, Value
<1>4. \/ /\ confirmed /\ version >= acked.version
         /\ acked'.version = version /\ acked'.value = clock + 1
      \/ /\ ~(confirmed /\ version >= acked.version)
         /\ acked' = acked
  BY <1>1 DEF LaterOf
<1>5. \A q \in Replicas : stored'[q].version >= stored[q].version
  BY <1>1, <1>3
<1>6. TimesArePast'
  <2>1. acked'.value <= clock'
    BY <1>1, <1>3, <1>4
  <2>2. \A q \in Replicas : stored'[q].value <= clock' /\ stored'[q].timestamp <= clock'
    BY <1>1, <1>3
  <2> QED
    BY <2>1, <2>2 DEF TimesArePast
<1>7. AcknowledgedIsKept'
  <2> DEFINE A == {q \in Replicas : stored[q].version >= acked.version}
             B == {q \in Replicas : stored'[q].version >= acked'.version}
  <2>1. Cardinality(A) >= w /\ w \in Nat
    BY <1>2, Counting DEF IInv, AcknowledgedIsKept, TypeOK
  <2>2. (took \subseteq B /\ confirmed) \/ A \subseteq B
    BY <1>1, <1>3, <1>4, <1>5
  <2>3. Cardinality(B) >= w
    BY <1>1, <2>1, <2>2, Counting
  <2> QED
    BY <1>1, <2>3 DEF AcknowledgedIsKept
<1>8. CurrentIsFound'
  <2> SUFFICES ASSUME ~rewrote PROVE (Cardinality(Current) >= w /\ OldValuesLose)'
    BY <1>1 DEF CurrentIsFound
  <2>0. Cardinality(Current) >= w /\ OldValuesLose /\ w \in Nat
    BY <1>2, Counting DEF IInv, CurrentIsFound, TypeOK
  \* A replica is current afterwards when it was, unless this write is confirmed.
  <2>1. \A q \in Replicas :
          q \in Current' <=> \/ stored'[q].version > acked'.version
                             \/ stored'[q].version = acked'.version /\ stored'[q].value >= acked'.value
    BY DEF Current, AtLeastAcked
  <2>2. \A q \in Replicas :
          q \in Current <=> \/ stored[q].version > acked.version
                            \/ stored[q].version = acked.version /\ stored[q].value >= acked.value
    BY DEF Current, AtLeastAcked
  <2>3. (took \subseteq Current' /\ confirmed) \/ Current \subseteq Current'
    BY <1>1, <1>3, <1>4, <2>1, <2>2 DEF Current
  <2>4. Cardinality(Current') >= w
    <3>1. Current \in SUBSET Replicas /\ Current' \in SUBSET Replicas
      BY DEF Current
    <3> QED
      BY <1>1, <2>0, <2>3, <3>1, Counting
  <2>5. ASSUME NEW p \in Current', NEW q \in Replicas \ Current',
               stored'[p].version = acked'.version, stored'[q].version = acked'.version
        PROVE  stored'[q].timestamp < stored'[p].timestamp
    <3>0. p \in Replicas
      BY DEF Current
    <3>1. q \notin took /\ stored'[q] = stored[q]
      BY <1>1, <1>3, <1>4, <2>1, <2>5
    <3>2. CASE p \in took
      BY <1>1, <1>3, <3>1, <3>2
    <3>3. CASE p \notin took
      <4>1. stored'[p] = stored[p]
        BY <1>1, <3>0, <3>3
      <4>2. acked' = acked
        BY <1>3, <1>4, <2>1, <2>5, <3>0, <4>1
      <4> QED
        BY <2>0, <2>1, <2>2, <2>5, <3>0, <3>1, <4>1, <4>2 DEF OldValuesLose
    <3> QED
      BY <3>2, <3>3
  <2>6. OldValuesLose'
    BY <2>5 DEF OldValuesLose
  <2> QED
    BY <1>1, <2>4, <2>6
<1>9. SeenIsKept'
  <2>1. Repaired \subseteq Repaired' /\ Repaired \in SUBSET Replicas /\ Repaired' \in SUBSET Replicas
    BY <1>1, <1>3, <1>5 DEF Repaired
  <2>2. Cardinality(Repaired) >= r /\ r \in Nat
    BY <1>2, Counting DEF IInv, SeenIsKept, TypeOK
  <2>3. Cardinality(Repaired') >= r
    BY <2>1, <2>2, Counting
  <2> QED
    BY <1>1, <2>3 DEF SeenIsKept
<1>10. NextVersionIsAccepted'
  <2>1. ~missed => \A q \in Replicas : counter + 1 >= stored[q].version
    BY DEF IInv, NextVersionIsAccepted, Accepts
  <2>2. ASSUME ~missed', NEW q \in Replicas PROVE counter' + 1 >= stored'[q].version
    <3>1. ~missed /\ (confirmed \/ kept = version)
      BY <1>1, <2>2
    <3>2. counter' \in Nat /\ counter' >= counter /\ counter' >= version
      BY <1>1, <1>3, <3>1
    <3>3. CASE q \in took
      BY <1>1, <1>3, <3>2, <3>3
    <3>4. CASE q \notin took
      BY <1>1, <1>3, <2>1, <3>1, <3>2, <3>4
    <3> QED
      BY <3>3, <3>4
  <2> QED
    BY <2>2 DEF NextVersionIsAccepted, Accepts
<1> QED
  BY <1>1, <1>6, <1>7, <1>8, <1>9, <1>10 DEF IInv

\* A read that repairs, or a resolved conflict: F, part of what answered, is given
\* the winner.  No version goes back, and what the winner is decides who is current.
LEMMA CopyStep ==
  ASSUME IInv, NEW Q \in SUBSET Replicas, Q # {}, NEW F \in SUBSET Q,
         Store(F, Winner(Q).version, Winner(Q).value),
         UNCHANGED <<w, r, counter, acked, missed>>
  PROVE  /\ seen' \in 0..MaxVersion /\ rewrote' \in BOOLEAN => TypeOK'
         /\ TimesArePast'
         /\ \A q \in Replicas : stored'[q].version >= stored[q].version
         /\ \A q \in F : stored'[q].version = Winner(Q).version
         /\ \A q \in Replicas \ F : stored'[q] = stored[q]
         /\ AcknowledgedIsKept'
         /\ NextVersionIsAccepted'
         /\ CurrentIsFound /\ ~rewrote /\ (AtLeastAcked(Winner(Q)) \/ ~VersionUsedTwice)
              => (Cardinality(Current) >= w /\ OldValuesLose)'
<1>1. TypeOK /\ TimesArePast
  BY DEF IInv
<1>2. PICK p \in Q : Winner(Q) = stored[p] /\ \A o \in Q : Wins(stored[p], stored[o])
  BY <1>1, WinnerWins
<1>3. /\ clock \in Nat /\ acked.version \in Nat /\ acked.value \in Nat /\ acked.value <= clock
      /\ counter \in Nat
      /\ \A q \in Replicas : /\ stored[q].version \in 0..MaxVersion
                             /\ stored[q].value \in 0..MaxClock /\ stored[q].value <= clock
                             /\ stored[q].timestamp \in 0..MaxClock /\ stored[q].timestamp <= clock
  BY <1>1, BoundAssumption DEF TypeOK, TimesArePast, Value
<1>4. /\ clock' = clock + 1 /\ clock' \in 0..MaxClock
      /\ stored' \in [Replicas -> Value]
      /\ \A q \in F : /\ stored'[q].version = stored[p].version
                      /\ stored'[q].value = stored[p].value
                      /\ stored'[q].timestamp = clock + 1
      /\ \A q \in Replicas \ F : stored'[q] = stored[q]
  <2>1. F \in SUBSET Replicas /\ p \in Replicas
    OBVIOUS
  <2>2. stored[p].version \in 0..MaxVersion /\ stored[p].value \in 0..MaxClock
    BY <1>3, <2>1
  <2>3. Store(F, stored[p].version, stored[p].value)
    BY <1>2
  <2> QED
    BY <1>1, <1>2, <2>1, <2>2, <2>3, StoreWrites
<1>5. \A q \in F : stored[q].version <= stored[p].version
  BY <1>2, <1>3 DEF Wins
<1>6. \A q \in Replicas : stored'[q].version >= stored[q].version
  BY <1>3, <1>4, <1>5
<1>7. TimesArePast'
  BY <1>3, <1>4 DEF TimesArePast
<1>8. AcknowledgedIsKept'
  <2> DEFINE A == {q \in Replicas : stored[q].version >= acked.version}
             B == {q \in Replicas : stored'[q].version >= acked.version}
  <2>1. Cardinality(A) >= w /\ w \in Nat
    BY <1>1, Counting DEF IInv, AcknowledgedIsKept, TypeOK
  <2>2. A \subseteq B
    <3>1. \A q \in Replicas : stored'[q].version \in Nat /\ stored[q].version \in Nat
      BY <1>3, <1>4, BoundAssumption DEF Value
    <3> QED
      BY <1>3, <1>6, <3>1
  <2>3. Cardinality(B) >= w
    BY <2>1, <2>2, Counting
  <2> QED
    BY <2>3 DEF AcknowledgedIsKept
<1>9. NextVersionIsAccepted'
  <2>1. ~missed => \A q \in Replicas : counter + 1 >= stored[q].version
    BY DEF IInv, NextVersionIsAccepted, Accepts
  <2>2. ~missed => \A q \in Replicas : counter + 1 >= stored'[q].version
    BY <1>2, <1>4, <2>1
  <2> QED
    BY <2>2 DEF NextVersionIsAccepted, Accepts
<1>10. ASSUME CurrentIsFound, ~rewrote, AtLeastAcked(Winner(Q)) \/ ~VersionUsedTwice
       PROVE  (Cardinality(Current) >= w /\ OldValuesLose)'
  <2>0. Cardinality(Current) >= w /\ OldValuesLose /\ w \in Nat
    BY <1>1, <1>10, Counting DEF CurrentIsFound, TypeOK
  <2>1. \A q \in Replicas :
          q \in Current' <=> \/ stored'[q].version > acked.version
                             \/ stored'[q].version = acked.version /\ stored'[q].value >= acked.value
    BY DEF Current, AtLeastAcked
  <2>2. \A q \in Replicas :
          q \in Current <=> \/ stored[q].version > acked.version
                            \/ stored[q].version = acked.version /\ stored[q].value >= acked.value
    BY DEF Current, AtLeastAcked
  \* The winner is current; or it is old and nobody has its version with another value.
  <2>3. \/ p \in Current
        \/ /\ p \notin Current
           /\ \A q \in Replicas : stored[q].version = stored[p].version => stored[q].value = stored[p].value
    BY <1>2, <1>10 DEF Current, VersionUsedTwice
  \* Who was current stays so.
  <2>4. Current \subseteq Current'
    <3> SUFFICES ASSUME NEW q \in Current PROVE q \in Current'
      OBVIOUS
    <3>0. q \in Replicas
      BY DEF Current
    <3>1. CASE q \in F
      BY <1>3, <1>4, <1>5, <2>1, <2>2, <2>3, <3>0, <3>1
    <3>2. CASE q \notin F
      BY <1>4, <2>1, <2>2, <3>0, <3>2
    <3> QED
      BY <3>1, <3>2
  <2>5. (Cardinality(Current) >= w)'
    <3>1. Current \in SUBSET Replicas /\ Current' \in SUBSET Replicas
      BY DEF Current
    <3>2. Cardinality(Current') >= w
      BY <2>0, <2>4, <3>1, Counting
    <3> QED
      BY <3>2
  <2>6. ASSUME NEW a \in Current', NEW b \in Replicas \ Current',
               stored'[a].version = acked.version, stored'[b].version = acked.version
        PROVE  stored'[b].timestamp < stored'[a].timestamp
    <3>0. a \in Replicas
      BY DEF Current
    <3>1. CASE p \in Current
      \* b was not written: it would be current.
      <4>1. b \notin F /\ stored'[b] = stored[b]
        BY <1>3, <1>4, <2>1, <2>2, <2>6, <3>1
      <4>2. CASE a \in F
        BY <1>3, <1>4, <4>1, <4>2
      <4>3. CASE a \notin F
        BY <1>4, <2>0, <2>1, <2>2, <2>6, <3>0, <4>1, <4>3 DEF OldValuesLose
      <4> QED
        BY <4>2, <4>3
    <3>2. CASE p \notin Current
      \* a was not written: it would be old.  Nor was b, as a has its version.
      <4>1. a \notin F /\ stored'[a] = stored[a]
        BY <1>3, <1>4, <2>1, <2>2, <2>6, <3>0, <3>2
      <4>2. b \notin F /\ stored'[b] = stored[b]
        BY <1>3, <1>4, <2>1, <2>2, <2>3, <2>6, <3>0, <3>2, <4>1
      <4> QED
        BY <2>0, <2>1, <2>2, <2>6, <3>0, <4>1, <4>2 DEF OldValuesLose
    <3> QED
      BY <3>1, <3>2
  <2>7. OldValuesLose'
    BY <2>6 DEF OldValuesLose
  <2> QED
    BY <2>5, <2>7
<1>11. seen' \in 0..MaxVersion /\ rewrote' \in BOOLEAN => TypeOK'
  BY <1>1, <1>4 DEF TypeOK
<1> QED
  BY <1>2, <1>4, <1>6, <1>7, <1>8, <1>9, <1>10, <1>11

\* The current replicas are found by every read quorum.
LEMMA ReadsAreCurrent ==
  ASSUME IInv, ~rewrote, NEW Q \in ReadQuorums
  PROVE  AtLeastAcked(Winner(Q))
<1>1. TypeOK /\ Cardinality(Current) >= w /\ OldValuesLose
  BY DEF IInv, CurrentIsFound
<1>2. Q \in SUBSET Replicas /\ Current \in SUBSET Replicas /\ Cardinality(Q) >= r
  BY DEF ReadQuorums, Current
<1>3. Cardinality(Current) + Cardinality(Q) > N
  BY <1>1, <1>2, Counting DEF TypeOK
<1>4. PICK c \in Current : c \in Q
  BY <1>2, <1>3, QuorumsMeet
<1>5. PICK p \in Q : Winner(Q) = stored[p] /\ \A o \in Q : Wins(stored[p], stored[o])
  BY <1>1, <1>2, <1>4, WinnerWins
<1>6. /\ acked.version \in Nat /\ acked.value \in Nat
      /\ \A q \in Replicas : /\ stored[q].version \in Nat /\ stored[q].value \in Nat
                             /\ stored[q].timestamp \in Nat
  BY <1>1, BoundAssumption DEF TypeOK, Value
<1>7. p \in Replicas /\ c \in Replicas /\ Wins(stored[p], stored[c])
  BY <1>2, <1>4, <1>5
<1>8. AtLeastAcked(stored[c])
  BY DEF Current
<1>9. CASE stored[p].version > acked.version
  BY <1>5, <1>9 DEF AtLeastAcked
<1>10. CASE ~(stored[p].version > acked.version)
  <2>1. stored[p].version = acked.version /\ stored[c].version = acked.version
    BY <1>6, <1>7, <1>8, <1>10 DEF Wins, AtLeastAcked
  <2>2. stored[p].timestamp >= stored[c].timestamp
    BY <1>6, <1>7, <2>1 DEF Wins
  <2>3. p \in Current
    BY <1>1, <1>6, <1>7, <2>1, <2>2 DEF OldValuesLose
  <2> QED
    BY <1>5, <2>3 DEF Current
<1> QED
  BY <1>9, <1>10

\* When two reads share a replica, a read finds what a repaired one returned.
LEMMA ReadsDoNotGoBack ==
  ASSUME IInv, 2 * r > N, NEW Q \in ReadQuorums
  PROVE  Winner(Q).version >= seen
<1>1. TypeOK /\ Cardinality(Repaired) >= r
  BY DEF IInv, SeenIsKept
<1>2. Q \in SUBSET Replicas /\ Repaired \in SUBSET Replicas /\ Cardinality(Q) >= r
  BY DEF ReadQuorums, Repaired
<1>3. Cardinality(Repaired) + Cardinality(Q) > N
  BY <1>1, <1>2, Counting DEF TypeOK
<1>4. PICK c \in Repaired : c \in Q
  BY <1>2, <1>3, QuorumsMeet
<1>5. PICK p \in Q : Winner(Q) = stored[p] /\ \A o \in Q : Wins(stored[p], stored[o])
  BY <1>1, <1>2, <1>4, WinnerWins
<1>6. seen \in Nat /\ \A q \in Replicas : stored[q].version \in Nat
  BY <1>1, BoundAssumption DEF TypeOK, Value
<1>7. stored[p].version >= stored[c].version /\ stored[c].version >= seen
  BY <1>2, <1>4, <1>5, <1>6 DEF Wins, Repaired
<1> QED
  BY <1>2, <1>5, <1>6, <1>7

\* A read, with whatever repairs succeed.
LEMMA ReadStep ==
  ASSUME IInv, NEW Q \in SUBSET Replicas, NEW F \in SUBSET Q, Read(Q, F)
  PROVE  IInv'
<1>1. TypeOK /\ TimesArePast /\ AcknowledgedIsKept /\ CurrentIsFound /\ SeenIsKept /\ NextVersionIsAccepted
  BY DEF IInv
<1>2. Q \in ReadQuorums /\ Q # {}
  BY <1>1, Counting, FS_EmptySet DEF Read, ReadQuorums, TypeOK
<1>3. PICK p \in Q : Winner(Q) = stored[p] /\ \A o \in Q : Wins(stored[p], stored[o])
  BY <1>1, <1>2, WinnerWins
<1>4. /\ F \subseteq Lagging(Q)
      /\ UNCHANGED <<w, r, counter, acked, missed, rewrote>>
      /\ seen' = IF F = Lagging(Q) /\ Winner(Q).version > seen THEN Winner(Q).version ELSE seen
  BY DEF Read
<1>5. /\ seen \in 0..MaxVersion /\ Winner(Q).version \in 0..MaxVersion
      /\ \A q \in Replicas : stored[q].version \in 0..MaxVersion
      /\ r \in Nat
  BY <1>1, <1>3, Counting DEF TypeOK, Value
<1>6. seen' \in 0..MaxVersion /\ rewrote' \in BOOLEAN
  BY <1>1, <1>4, <1>5 DEF TypeOK
\* The versions afterwards, repaired or not.
<1>7. /\ \A q \in Replicas : stored'[q].version >= stored[q].version
      /\ \A q \in F : stored'[q].version = Winner(Q).version
      /\ TypeOK' /\ TimesArePast' /\ AcknowledgedIsKept' /\ NextVersionIsAccepted' /\ CurrentIsFound'
  <2>1. CASE F = {}
    <3>1. UNCHANGED <<stored, clock>>
      BY <2>1 DEF Read
    <3>2. TypeOK' /\ \A q \in Replicas : stored'[q].version >= stored[q].version
      BY <1>1, <1>4, <1>5, <1>6, <3>1 DEF TypeOK
    <3>3. TimesArePast'
      BY <1>1, <1>4, <3>1 DEF TimesArePast
    <3>4. AcknowledgedIsKept' /\ NextVersionIsAccepted' /\ CurrentIsFound'
      BY <1>1, <1>4, <3>1 DEF AcknowledgedIsKept, NextVersionIsAccepted, Accepts, CurrentIsFound,
                             Current, AtLeastAcked, OldValuesLose
    <3> QED
      BY <2>1, <3>2, <3>3, <3>4
  <2>2. CASE F # {}
    <3>1. Store(F, Winner(Q).version, Winner(Q).value)
      BY <2>2 DEF Read
    <3>2. ~rewrote => AtLeastAcked(Winner(Q))
      BY <1>2, ReadsAreCurrent
    <3>3. UNCHANGED <<w, r, counter, acked, missed>>
      BY <1>4
    <3>4. /\ TypeOK' /\ TimesArePast' /\ AcknowledgedIsKept' /\ NextVersionIsAccepted'
          /\ \A q \in Replicas : stored'[q].version >= stored[q].version
          /\ \A q \in F : stored'[q].version = Winner(Q).version
          /\ ~rewrote => (Cardinality(Current) >= w /\ OldValuesLose)'
      BY <1>1, <1>2, <1>6, <3>1, <3>2, <3>3, CopyStep
    <3>5. CurrentIsFound'
      BY <1>4, <3>4 DEF CurrentIsFound
    <3> QED
      BY <3>4, <3>5
  <2> QED
    BY <2>1, <2>2
<1>8. SeenIsKept'
  <2>0. \A q \in Replicas : stored'[q].version \in 0..MaxVersion
    BY <1>7 DEF TypeOK, Value
  <2>1. Repaired \in SUBSET Replicas /\ Repaired' \in SUBSET Replicas
    BY DEF Repaired
  <2>2. CASE seen' = seen
    <3>1. Repaired \subseteq Repaired'
      BY <1>5, <1>7, <2>0, <2>2 DEF Repaired
    <3>2. Cardinality(Repaired') >= r
      BY <1>1, <1>5, <2>1, <3>1, Counting DEF SeenIsKept
    <3> QED
      BY <1>4, <3>2 DEF SeenIsKept
  <2>3. CASE seen' # seen
    <3>1. F = Lagging(Q) /\ seen' = Winner(Q).version
      BY <1>4, <2>3
    <3>2. Q \subseteq Repaired'
      <4> SUFFICES ASSUME NEW q \in Q PROVE stored'[q].version >= seen'
        BY DEF Repaired
      <4>1. CASE q \in F
        BY <1>5, <1>7, <3>1, <4>1
      <4>2. CASE q \notin F
        BY <1>5, <1>7, <2>0, <3>1, <4>2 DEF Lagging
      <4> QED
        BY <4>1, <4>2
    <3>3. Cardinality(Repaired') >= r
      BY <1>2, <1>5, <2>1, <3>2, Counting DEF ReadQuorums
    <3> QED
      BY <1>4, <3>3 DEF SeenIsKept
  <2> QED
    BY <2>2, <2>3
<1> QED
  BY <1>7, <1>8 DEF IInv

\* resolve_conflict, with however few answers.
LEMMA ResolveStep ==
  ASSUME IInv, NEW Q \in SUBSET Replicas, NEW F \in SUBSET Q, ResolveConflict(Q, F)
  PROVE  IInv'
<1>1. TypeOK /\ CurrentIsFound /\ SeenIsKept
  BY DEF IInv
<1>2. /\ Q # {}
      /\ Store(F, Winner(Q).version, Winner(Q).value)
      /\ rewrote' = (rewrote \/ VersionUsedTwice)
      /\ UNCHANGED <<w, r, counter, acked, seen, missed>>
  BY DEF ResolveConflict
<1>3. seen' \in 0..MaxVersion /\ rewrote' \in BOOLEAN
  BY <1>1, <1>2 DEF TypeOK
<1>4. /\ TypeOK' /\ TimesArePast' /\ AcknowledgedIsKept' /\ NextVersionIsAccepted'
      /\ \A q \in Replicas : stored'[q].version >= stored[q].version
      /\ ~rewrote /\ ~VersionUsedTwice => (Cardinality(Current) >= w /\ OldValuesLose)'
  BY <1>1, <1>2, <1>3, CopyStep
<1>5. CurrentIsFound'
  BY <1>2, <1>4 DEF CurrentIsFound
<1>6. SeenIsKept'
  <2>1. Repaired \in SUBSET Replicas /\ Repaired' \in SUBSET Replicas
    BY DEF Repaired
  <2>2. /\ seen \in Nat /\ r \in Nat
        /\ \A q \in Replicas : stored[q].version \in Nat /\ stored'[q].version \in Nat
    BY <1>1, <1>4, Counting, BoundAssumption DEF TypeOK, Value
  <2>3. Repaired \subseteq Repaired'
    BY <1>2, <1>4, <2>2 DEF Repaired
  <2>4. Cardinality(Repaired') >= r
    BY <1>1, <2>1, <2>2, <2>3, Counting DEF SeenIsKept
  <2> QED
    BY <1>2, <2>4 DEF SeenIsKept
<1> QED
  BY <1>4, <1>5, <1>6 DEF IInv
-----------------------------------------------------------------------------
\* Every state of the replicas satisfies the inductive invariant.
LEMMA Invariance == Spec => []IInv
<1>1. IInv /\ [Next]_vars => IInv'
  <2> SUFFICES ASSUME IInv, [Next]_vars PROVE IInv'
    OBVIOUS
  <2>0. TypeOK
    BY DEF IInv
  <2>1. ASSUME NEW S \in SUBSET Replicas, Write(S) PROVE IInv'
    <3>1. WriteTo(S, counter + 1, counter + 1) /\ counter + 1 <= MaxVersion
      BY <2>1 DEF Write, WriteTo
    <3>2. counter + 1 \in 1..MaxVersion /\ counter + 1 \in 0..MaxVersion
      BY <2>0, <3>1, BoundAssumption DEF TypeOK
    <3> QED
      BY <3>1, <3>2, WriteStep
  <2>2. ASSUME NEW S \in SUBSET Replicas, NEW version \in 1..MaxVersion, WriteVersion(S, version)
        PROVE  IInv'
    <3>1. WriteTo(S, version, counter) /\ counter \in 0..MaxVersion
      BY <2>0, <2>2 DEF WriteVersion, TypeOK
    <3> QED
      BY <3>1, WriteStep
  <2>3. ASSUME NEW Q \in SUBSET Replicas, NEW F \in SUBSET Q, Read(Q, F) PROVE IInv'
    BY <2>3, ReadStep
  <2>4. ASSUME NEW Q \in SUBSET Replicas, NEW F \in SUBSET Q, ResolveConflict(Q, F) PROVE IInv'
    BY <2>4, ResolveStep
  <2>5. CASE UNCHANGED vars
    BY <2>5 DEF vars, IInv, TypeOK, TimesArePast, AcknowledgedIsKept, CurrentIsFound, SeenIsKept,
                NextVersionIsAccepted, Accepts, Current, AtLeastAcked, OldValuesLose, Repaired
  <2> QED
    BY <2>1, <2>2, <2>3, <2>4, <2>5 DEF Next
<1> QED
  BY <1>1, InitHolds, PTL DEF Spec

\* Every variable keeps its type: the quorum sizes stay a valid pair, and versions
\* and times within their bounds.
THEOREM TypeCorrect == Spec => []TypeOK
<1>1. IInv => TypeOK
  BY DEF IInv
<1> QED
  BY <1>1, Invariance, PTL

\* A confirmed version is at a write quorum, or a later one is: partial writes, old
\* explicit versions, repairs and resolved conflicts take none back
\* (coordinator.py:70, replica.py).
THEOREM ConfirmedStays == Spec => []AcknowledgedIsKept
<1>1. IInv => AcknowledgedIsKept
  BY DEF IInv
<1> QED
  BY <1>1, Invariance, PTL

\* Every read quorum returns the last confirmed write or a later one
\* (coordinator.py:121), unless resolve_conflict ran on a version used twice.
THEOREM ReadsReturnLastWrite == Spec => []LastWriteWins
<1>1. IInv => LastWriteWins
  BY ReadsAreCurrent DEF LastWriteWins
<1> QED
  BY <1>1, Invariance, PTL

\* When two reads share a replica, no read returns less than a read that repaired
\* everybody who answered it (coordinator.py:156).
THEOREM RepairsLast == Spec => []RepairedReadsStay
<1>1. IInv => RepairedReadsStay
  BY ReadsDoNotGoBack DEF RepairedReadsStay
<1> QED
  BY <1>1, Invariance, PTL

\* Nobody refuses the next version, unless an explicit one missed its quorum
\* (coordinator.py:73).
THEOREM NextIsAccepted == Spec => []NextVersionIsAccepted
<1>1. IInv => NextVersionIsAccepted
  BY DEF IInv
<1> QED
  BY <1>1, Invariance, PTL
=============================================================================
