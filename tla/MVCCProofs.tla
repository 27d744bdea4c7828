----------------------------- MODULE MVCCProofs -----------------------------
(***************************************************************************)
(* Theorems about MVCC for any keys, transactions and readers, and any     *)
(* number of commits: what readers see, what the collection leaves, and    *)
(* that the writers have snapshot isolation.                               *)
(***************************************************************************)
EXTENDS MVCC, SequenceTheorems, WellFoundedInduction, TLAPS

\* Nobody reads at a version that has not been committed.
LiveArePast == Live \subseteq 0..committed

\* The version of k that commit i made.
Entry(k, i) == [version |-> i, tombstone |-> log[i][k] = "delete"]

\* The versions of a key are what commits made of it, and only they are reclaimed.
DataAreLogged ==
  /\ reclaimed \subseteq 1..committed
  /\ \A k \in Keys : \A v \in data[k] :
       v.version \in 1..committed /\ log[v.version][k] # "none" /\ v = Entry(k, v.version)

\* Commit i is in the store as it was made.
IsStored(i) ==
  i \notin reclaimed /\ \A k \in Keys : log[i][k] # "none" => Entry(k, i) \in data[k]

\* What was committed after somebody's start is stored: conflicts are found.
RecentAreStored == \A s \in Live : \A i \in (s + 1)..committed : IsStored(i)

\* Nothing is dropped without being marked as reclaimed.
UncollectedAreStored == reclaimed = {} => \A i \in 1..committed : IsStored(i)

\* A number that counts as reclaimed is no number of a version in the store, nor
\* one that somebody reads at, when every commit puts a single key.
PlainIsSpared ==
  Plain => /\ \A k \in Keys : \A v \in data[k] : v.version \notin reclaimed
           /\ \A s \in Live \cup {committed} : s \notin reclaimed

IInv ==
  /\ TypeOK
  /\ LiveArePast
  /\ DataAreLogged
  /\ RecentAreStored
  /\ UncollectedAreStored
  /\ PlainIsSpared
  /\ NothingNeededIsDropped
-----------------------------------------------------------------------------
\* A set of naturals that is not empty has a least element.
LEMMA HasLeast ==
  ASSUME NEW S \in SUBSET Nat, S # {}
  PROVE  Least(S) \in S /\ \A y \in S : Least(S) <= y
<1> DEFINE R == {ss \in Nat \X Nat : ss[1] < ss[2]}
<1>1. IsWellFoundedOn(R, Nat)
  <2>1. OpToRel(<, Nat) = R
    BY DEF OpToRel
  <2> QED
    BY <2>1, NatLessThanWellFounded
<1>2. PICK x \in S : \A y \in S : ~(<<y, x>> \in R)
  BY <1>1, WFMin
<1>3. ASSUME NEW y \in S PROVE x <= y
  <2>1. <<y, x>> \in Nat \X Nat /\ ~(<<y, x>> \in R)
    BY <1>2
  <2>2. ~(y < x)
    BY <2>1
  <2> QED
    BY <2>2
<1> QED
  BY <1>3 DEF Least

\* When it is bounded it has a greatest one.
LEMMA HasGreatest ==
  ASSUME NEW n \in Nat, NEW S \in SUBSET (0..n), S # {}
  PROVE  \E x \in S : \A y \in S : y <= x
<1> DEFINE D == {n - x : x \in S}
<1>1. D \in SUBSET Nat /\ D # {}
  <2>1. \A x \in S : n - x \in Nat
    OBVIOUS
  <2> QED
    BY <2>1
<1>2. Least(D) \in D /\ \A y \in D : Least(D) <= y
  BY <1>1, HasLeast
<1>3. PICK m \in S : Least(D) = n - m
  BY <1>2
<1>4. ASSUME NEW y \in S PROVE y <= m
  <2>1. n - y \in D
    OBVIOUS
  <2>2. n - m <= n - y
    BY <1>2, <1>3, <2>1
  <2> QED
    BY <2>2
<1> QED
  BY <1>4
-----------------------------------------------------------------------------
\* The commit that last wrote k before s.
Last(k, s) == CHOOSE v \in WritesTo(k, s) : \A w \in WritesTo(k, s) : w <= v

\* What was written to a key has a last commit, which is one of them.
LEMMA LastIsLast ==
  ASSUME NEW k \in Keys, NEW s \in Nat, WritesTo(k, s) # {}
  PROVE  /\ Last(k, s) \in 1..s
         /\ log[Last(k, s)][k] # "none"
         /\ \A w \in WritesTo(k, s) : w <= Last(k, s)
<1>1. WritesTo(k, s) \in SUBSET (0..s)
  BY DEF WritesTo
<1>2. \E v \in WritesTo(k, s) : \A w \in WritesTo(k, s) : w <= v
  BY <1>1, HasGreatest
<1>3. Last(k, s) \in WritesTo(k, s) /\ \A w \in WritesTo(k, s) : w <= Last(k, s)
  BY <1>2 DEF Last
<1> QED
  BY <1>3 DEF WritesTo

\* A set of versions of k up to s, the last of them among it, shows what was
\* promised.
LEMMA ShowsPromised ==
  ASSUME DataAreLogged, committed \in Nat,
         NEW k \in Keys, NEW s \in 0..committed, NEW S \in SUBSET Upto(k, s),
         WritesTo(k, s) # {} => Entry(k, Last(k, s)) \in S
  PROVE  /\ Shown(S) = Promised(k, s)
         /\ S # {} => Newest(S) \in S
<1>1. \A v \in S : /\ v.version \in 1..s /\ log[v.version][k] # "none" /\ v = Entry(k, v.version)
                   /\ v.version \in WritesTo(k, s)
  BY DEF DataAreLogged, Upto, WritesTo
<1>2. CASE WritesTo(k, s) = {}
  <2>1. S = {}
    BY <1>1, <1>2
  <2> QED
    BY <1>2, <2>1 DEF Shown, Promised
<1>3. CASE WritesTo(k, s) # {}
  <2> DEFINE m == Last(k, s)
  <2>1. m \in 1..s /\ Entry(k, m) \in S /\ \A w \in WritesTo(k, s) : w <= m
    BY <1>3, LastIsLast
  <2>2. Entry(k, m).version = m /\ Entry(k, m).tombstone = (log[m][k] = "delete")
    BY DEF Entry
  <2>3. \A v \in S : v.version <= Entry(k, m).version
    BY <1>1, <2>1, <2>2
  <2>4. Newest(S) \in S /\ \A v \in S : v.version <= Newest(S).version
    BY <2>1, <2>3 DEF Newest
  <2>5. Newest(S).version = m
    <3>1. Newest(S).version <= m /\ m <= Newest(S).version
      BY <1>1, <2>1, <2>2, <2>4
    <3>2. Newest(S).version \in Int /\ m \in Int
      BY <1>1, <2>1, <2>4
    <3> QED
      BY <3>1, <3>2
  <2>6. Newest(S) = Entry(k, m)
    BY <1>1, <2>4, <2>5
  <2>7. Promised(k, s) = IF log[m][k] = "delete" THEN NotFound ELSE m
    BY <1>3 DEF Promised, Last
  <2> HIDE DEF m
  <2> QED
    BY <2>1, <2>2, <2>4, <2>6, <2>7 DEF Shown
<1> QED
  BY <1>2, <1>3

\* What was promised of a key, by its last write.
LEMMA PromisedIsLast ==
  ASSUME NEW k \in Keys, NEW s \in Nat
  PROVE  /\ WritesTo(k, s) = {} => Promised(k, s) = NotFound
         /\ WritesTo(k, s) # {} =>
              Promised(k, s) = IF log[Last(k, s)][k] = "delete" THEN NotFound ELSE Last(k, s)
BY DEF Promised, Last

\* What a new commit leaves of the past.
LEMMA PromiseStands ==
  ASSUME NEW k \in Keys, NEW s \in Nat,
         \A i \in 1..s : log'[i] = log[i]
  PROVE  Promised(k, s)' = Promised(k, s)
<1>1. WritesTo(k, s)' = WritesTo(k, s)
  BY DEF WritesTo
<1>2. CASE WritesTo(k, s) = {}
  BY <1>1, <1>2 DEF Promised
<1>3. CASE WritesTo(k, s) # {}
  <2>1. Last(k, s)' = Last(k, s)
    BY <1>1 DEF Last
  <2>2. Last(k, s) \in 1..s
    BY <1>3, LastIsLast
  <2>3. Promised(k, s)' = IF log'[Last(k, s)'][k] = "delete" THEN NotFound ELSE Last(k, s)'
    BY <1>1, <1>3 DEF Promised, Last
  <2>4. Promised(k, s) = IF log[Last(k, s)][k] = "delete" THEN NotFound ELSE Last(k, s)
    BY <1>3, PromisedIsLast
  <2> QED
    BY <2>1, <2>2, <2>3, <2>4
<1> QED
  BY <1>2, <1>3
-----------------------------------------------------------------------------
\* The bounds of numbers, in the words of the arithmetic below.
LEMMA Numbers ==
  ASSUME TypeOK
  PROVE  /\ committed \in Nat /\ committed = Len(log)
         /\ log \in Seq([Keys -> Marks])
         /\ \A i \in 1..committed : log[i] \in [Keys -> Marks]
BY BoundAssumption DEF TypeOK, Versions

\* The empty store is in the invariant.
LEMMA InitHolds == Init => IInv
<1> SUFFICES ASSUME Init PROVE IInv
  OBVIOUS
<1>1. TypeOK
  <2>1. <<>> \in Seq([Keys -> Marks]) /\ Len(<<>>) = 0
    BY EmptySeq
  <2>2. NoWrites \in [Keys -> Marks]
    BY DEF NoWrites, Marks
  <2> QED
    BY <2>1, <2>2 DEF Init, TypeOK
<1>2. Live = {}
  BY DEF Init, Live, Active, Held
<1>3. LiveArePast /\ RecentAreStored
  BY <1>2 DEF LiveArePast, RecentAreStored
<1>4. DataAreLogged /\ UncollectedAreStored /\ PlainIsSpared
  BY DEF Init, DataAreLogged, UncollectedAreStored, PlainIsSpared
<1>5. NothingNeededIsDropped
  <2> SUFFICES ASSUME NEW k \in Keys PROVE Promised(k, 0) = NotFound
    BY <1>2 DEF Init, NothingNeededIsDropped
  <2>1. WritesTo(k, 0) = {}
    BY DEF WritesTo
  <2> QED
    BY <2>1 DEF Promised
<1> QED
  BY <1>1, <1>3, <1>4, <1>5 DEF IInv

\* Steps that leave the store alone, whose readers start at its present state.
LEMMA StoreUntouched ==
  ASSUME IInv, TypeOK', UNCHANGED <<data, committed, reclaimed, log>>,
         Live' \subseteq Live \cup {committed}
  PROVE  IInv'
<1>0. TypeOK /\ committed \in Nat
  BY Numbers DEF IInv
<1>1. LiveArePast'
  BY <1>0 DEF IInv, LiveArePast
<1>2. DataAreLogged'
  BY DEF IInv, DataAreLogged, Entry
<1>3. /\ \A i \in 1..committed : IsStored(i)' <=> IsStored(i)
      /\ Plain' <=> Plain
      /\ \A k \in Keys, s \in Nat : Promised(k, s)' = Promised(k, s)
  BY DEF IsStored, Entry, Plain, Promised, WritesTo
<1>4. RecentAreStored'
  <2> SUFFICES ASSUME NEW s \in Live', NEW i \in (s + 1)..committed PROVE IsStored(i)'
    BY DEF RecentAreStored
  <2>1. s \in 0..committed
    BY <1>0, <1>1 DEF LiveArePast
  <2>2. s \in Live /\ i \in 1..committed
    BY <1>0, <2>1
  <2> QED
    BY <1>3, <2>2 DEF IInv, RecentAreStored
<1>5. UncollectedAreStored' /\ PlainIsSpared'
  BY <1>3 DEF IInv, UncollectedAreStored, PlainIsSpared
<1>6. NothingNeededIsDropped'
  <2> SUFFICES ASSUME NEW k \in Keys, NEW s \in Live' \cup {committed},
                      Promised(k, s)' # NotFound
               PROVE  [version |-> Promised(k, s)', tombstone |-> FALSE] \in data[k]
    BY DEF NothingNeededIsDropped
  <2>1. s \in Nat /\ s \in Live \cup {committed}
    BY <1>0, <1>1 DEF LiveArePast
  <2>2. Promised(k, s)' = Promised(k, s)
    BY <1>3, <2>1
  <2> QED
    BY <2>1, <2>2 DEF IInv, NothingNeededIsDropped
<1> QED
  BY <1>1, <1>2, <1>4, <1>5, <1>6 DEF IInv

\* A transaction that begins needs what is stored now.
LEMMA BeginStep == ASSUME IInv, NEW t \in Txns, BeginTransaction(t) PROVE IInv'
<1>1. TypeOK
  BY DEF IInv
<1>2. TypeOK' /\ UNCHANGED <<data, committed, reclaimed, log>>
  BY <1>1 DEF BeginTransaction, TypeOK
<1>3. Live' \subseteq Live \cup {committed}
  BY <1>1 DEF BeginTransaction, Live, Active, Held, TypeOK
<1> QED
  BY <1>2, <1>3, StoreUntouched

\* So does a new snapshot.
LEMMA CreateStep == ASSUME IInv, NEW r \in Readers, CreateSnapshot(r) PROVE IInv'
<1>1. TypeOK
  BY DEF IInv
<1>2. TypeOK' /\ UNCHANGED <<data, committed, reclaimed, log>>
  BY <1>1 DEF CreateSnapshot, TypeOK
<1>3. Live' \subseteq Live \cup {committed}
  BY <1>1 DEF CreateSnapshot, Live, Active, Held, TypeOK
<1> QED
  BY <1>2, <1>3, StoreUntouched

\* Releasing a snapshot only makes fewer versions needed.
LEMMA ReleaseStep == ASSUME IInv, NEW r \in Readers, ReleaseSnapshot(r) PROVE IInv'
<1>1. TypeOK
  BY DEF IInv
<1>2. TypeOK' /\ UNCHANGED <<data, committed, reclaimed, log>>
  BY <1>1 DEF ReleaseSnapshot, TypeOK
<1>3. Live' \subseteq Live \cup {committed}
  BY <1>1 DEF ReleaseSnapshot, Live, Active, Held, TypeOK
<1> QED
  BY <1>2, <1>3, StoreUntouched

\* A buffered write changes no version.
LEMMA BufferStep ==
  ASSUME IInv, NEW t \in Txns, NEW k \in Keys, NEW mark \in Marks, Buffer(t, k, mark)
  PROVE  IInv'
<1>1. TypeOK
  BY DEF IInv
<1>2. TypeOK' /\ UNCHANGED <<data, committed, reclaimed, log>>
  BY <1>1 DEF Buffer, TypeOK
<1>3. Live' \subseteq Live \cup {committed}
  BY DEF Buffer, Live, Active, Held
<1> QED
  BY <1>2, <1>3, StoreUntouched

\* Who is left when a transaction ends.
LEMMA FinishLeaves ==
  ASSUME TypeOK, NEW t \in Txns, Finish(t)
  PROVE  /\ Live' \subseteq Live
         /\ start' \in [Txns -> Versions \cup {0, NoStart}]
         /\ writes' \in [Txns -> [Keys -> Marks]]
         /\ snapshot' = snapshot
<1>1. NoWrites \in [Keys -> Marks]
  BY DEF NoWrites, Marks
<1>2. start'[t] = NoStart /\ \A u \in Txns \ {t} : start'[u] = start[u]
  BY DEF TypeOK, Finish
<1> QED
  BY <1>1, <1>2 DEF TypeOK, Finish, Live, Active, Held

\* Neither does a rollback.
LEMMA RollbackStep == ASSUME IInv, NEW t \in Txns, Rollback(t) PROVE IInv'
<1>1. TypeOK
  BY DEF IInv
<1>2. Finish(t) /\ UNCHANGED <<data, committed, reclaimed, log>>
  BY DEF Rollback
<1>3. TypeOK' /\ Live' \subseteq Live
  BY <1>1, <1>2, FinishLeaves DEF TypeOK
<1> QED
  BY <1>2, <1>3, StoreUntouched
-----------------------------------------------------------------------------
\* What a commit does to the log and to the store.
LEMMA CommitWrites ==
  ASSUME TypeOK, NEW t \in Txns, Commit(t)
  PROVE  /\ committed' = committed + 1 /\ committed + 1 \in Versions
         /\ Len(log') = committed + 1
         /\ log' \in Seq([Keys -> Marks])
         /\ \A i \in 1..committed : log'[i] = log[i]
         /\ log'[committed + 1] = writes[t]
         /\ data' \in [Keys -> SUBSET Version]
         /\ \A k \in Keys : writes[t][k] = "none" => data'[k] = data[k]
         /\ \A k \in Keys : writes[t][k] # "none" =>
              data'[k] = data[k] \cup {[version |-> committed + 1, tombstone |-> writes[t][k] = "delete"]}
         /\ Live' \subseteq Live
         /\ reclaimed' = reclaimed
         /\ TypeOK'
<1>1. committed \in Nat /\ committed = Len(log) /\ log \in Seq([Keys -> Marks])
  BY Numbers
<1>2. committed' = committed + 1 /\ committed < MaxVersion /\ log' = Append(log, writes[t]) /\ Finish(t)
  BY DEF Commit
<1>3. committed + 1 \in Versions
  BY <1>1, <1>2, BoundAssumption DEF Versions
<1>4. writes[t] \in [Keys -> Marks]
  BY DEF TypeOK
<1>5. /\ log' \in Seq([Keys -> Marks]) /\ Len(log') = committed + 1
      /\ \A i \in 1..committed : log'[i] = log[i]
      /\ log'[committed + 1] = writes[t]
  BY <1>1, <1>2, <1>4, AppendProperties
<1>6. [version |-> committed + 1, tombstone |-> TRUE] \in Version
      /\ [version |-> committed + 1, tombstone |-> FALSE] \in Version
  BY <1>3 DEF Version
<1>7. /\ \A k \in Keys : writes[t][k] = "none" => data'[k] = data[k]
      /\ \A k \in Keys : writes[t][k] # "none" =>
           data'[k] = data[k] \cup {[version |-> committed + 1, tombstone |-> writes[t][k] = "delete"]}
  BY DEF Commit, Written
<1>8. data' \in [Keys -> SUBSET Version]
  <2>1. data' = [k \in Keys |-> data'[k]]
    BY DEF Commit
  <2>2. ASSUME NEW k \in Keys PROVE data'[k] \in SUBSET Version
    <3>1. data[k] \in SUBSET Version
      BY DEF TypeOK
    <3>2. [version |-> committed + 1, tombstone |-> writes[t][k] = "delete"] \in Version
      BY <1>6
    <3> QED
      BY <1>7, <3>1, <3>2
  <2> QED
    BY <2>1, <2>2
<1>9. Live' \subseteq Live /\ start' \in [Txns -> Versions \cup {0, NoStart}]
      /\ writes' \in [Txns -> [Keys -> Marks]] /\ snapshot' = snapshot
  BY <1>2, FinishLeaves
<1>10. reclaimed' = reclaimed
  BY DEF Commit
<1>11. TypeOK'
  BY <1>2, <1>3, <1>5, <1>8, <1>9, <1>10 DEF TypeOK
<1> QED
  BY <1>2, <1>3, <1>5, <1>7, <1>8, <1>9, <1>10, <1>11

\* A commit adds one version to each key it writes, later than all others of the key.
LEMMA CommitStep == ASSUME IInv, NEW t \in Txns, Commit(t) PROVE IInv'
<1>0. TypeOK /\ LiveArePast /\ DataAreLogged /\ committed \in Nat /\ Len(log) = committed
  BY Numbers DEF IInv
\* The number of this commit and of the one before, as they are now.
<1>a. PICK b \in Nat, c \in Nat : b = committed /\ c = committed + 1
  BY <1>0
<1>1. /\ committed' = c
      /\ Len(log') = c
      /\ \A i \in 1..committed : log'[i] = log[i]
      /\ log'[c] = writes[t]
      /\ \A k \in Keys : writes[t][k] = "none" => data'[k] = data[k]
      /\ \A k \in Keys : writes[t][k] # "none" =>
           data'[k] = data[k] \cup {[version |-> c, tombstone |-> writes[t][k] = "delete"]}
      /\ Live' \subseteq Live
      /\ reclaimed' = reclaimed
      /\ TypeOK'
  BY <1>0, <1>a, CommitWrites
<1>2. c \in Nat /\ c \notin 1..committed /\ \A i \in 1..c : i \in 1..committed \/ i = c
  BY <1>a
<1>3. /\ \A k \in Keys : \A i \in 1..committed : Entry(k, i)' = Entry(k, i)
      /\ \A k \in Keys : Entry(k, c)' = [version |-> c, tombstone |-> writes[t][k] = "delete"]
  <2>1. ASSUME NEW k \in Keys, NEW i \in 1..committed PROVE Entry(k, i)' = Entry(k, i)
    BY <1>1 DEF Entry
  <2>2. ASSUME NEW k \in Keys
        PROVE  Entry(k, c)' = [version |-> c, tombstone |-> writes[t][k] = "delete"]
    BY <1>1 DEF Entry
  <2> QED
    BY <2>1, <2>2
<1>4. LiveArePast'
  <2>1. 0..committed \subseteq 0..c
    BY <1>a
  <2> QED
    BY <1>0, <1>1, <2>1 DEF LiveArePast
<1>5. DataAreLogged'
  <2>1. 1..committed \subseteq 1..c /\ c \in 1..c
    BY <1>a
  <2>2. ASSUME NEW k \in Keys, NEW v \in data'[k]
        PROVE  v.version \in 1..c /\ log'[v.version][k] # "none" /\ v = Entry(k, v.version)'
    <3>1. CASE v \in data[k]
      BY <1>0, <1>1, <1>3, <2>1, <3>1 DEF DataAreLogged
    <3>2. CASE v \notin data[k]
      <4>1. writes[t][k] # "none" /\ v = [version |-> c, tombstone |-> writes[t][k] = "delete"]
        BY <1>1, <2>2, <3>2
      <4>2. v.version = c
        BY <4>1
      <4> QED
        BY <1>1, <1>3, <2>1, <4>1, <4>2
    <3> QED
      BY <3>1, <3>2
  <2>3. reclaimed' \subseteq 1..c
    BY <1>0, <1>1, <2>1 DEF DataAreLogged
  <2> QED
    BY <1>1, <2>2, <2>3 DEF DataAreLogged
<1>6. /\ \A i \in 1..committed : IsStored(i) => IsStored(i)'
      /\ IsStored(c)'
  <2>1. \A k \in Keys : data[k] \subseteq data'[k]
    BY <1>1
  <2>2. ASSUME NEW i \in 1..committed, IsStored(i) PROVE IsStored(i)'
    BY <1>1, <1>3, <2>1, <2>2 DEF IsStored
  <2>3. c \notin reclaimed'
    BY <1>0, <1>1, <1>2 DEF DataAreLogged
  <2>4. \A k \in Keys : log'[c][k] # "none" => Entry(k, c)' \in data'[k]
    BY <1>1, <1>3
  <2> QED
    BY <2>2, <2>3, <2>4 DEF IsStored
<1>7. RecentAreStored'
  <2> SUFFICES ASSUME NEW s \in Live', NEW i \in (s + 1)..c PROVE IsStored(i)'
    BY <1>1 DEF RecentAreStored
  <2>1. s \in Live /\ s \in 0..committed
    BY <1>0, <1>1 DEF LiveArePast
  <2>2. i = c \/ (i \in (s + 1)..committed /\ i \in 1..committed)
    BY <1>a, <2>1
  <2> QED
    BY <1>6, <2>1, <2>2 DEF IInv, RecentAreStored
<1>8. UncollectedAreStored'
  <2>1. reclaimed = {} => \A i \in 1..committed : IsStored(i)
    BY DEF IInv, UncollectedAreStored
  <2>2. ASSUME reclaimed = {}, NEW i \in 1..c PROVE IsStored(i)'
    BY <1>2, <1>6, <2>1, <2>2
  <2> QED
    BY <1>1, <2>2 DEF UncollectedAreStored
<1>9. PlainIsSpared'
  <2> SUFFICES ASSUME Plain'
               PROVE  /\ \A k \in Keys : \A v \in data'[k] : v.version \notin reclaimed
                      /\ \A s \in Live' \cup {c} : s \notin reclaimed
    BY <1>1 DEF PlainIsSpared
  <2>1. Plain
    <3>1. 1..committed \subseteq 1..c
      BY <1>a
    <3> QED
      BY <1>0, <1>1, <3>1 DEF Plain
  <2>2. c \notin reclaimed
    BY <1>0, <1>2 DEF DataAreLogged
  <2>3. \A k \in Keys : \A v \in data'[k] : v \in data[k] \/ v.version = c
    BY <1>1
  <2> QED
    BY <1>1, <2>1, <2>2, <2>3 DEF IInv, PlainIsSpared
<1>10. NothingNeededIsDropped'
  <2> SUFFICES ASSUME NEW k \in Keys, NEW s \in Live' \cup {c},
                      Promised(k, s)' # NotFound
               PROVE  [version |-> Promised(k, s)', tombstone |-> FALSE] \in data'[k]
    BY <1>1 DEF NothingNeededIsDropped
  <2>0. NothingNeededIsDropped /\ data[k] \subseteq data'[k]
    BY <1>1 DEF IInv
  \* What was needed before is there as before.
  <2>1. ASSUME NEW o \in Live \cup {committed}, Promised(k, s)' = Promised(k, o)
        PROVE  [version |-> Promised(k, s)', tombstone |-> FALSE] \in data'[k]
    BY <2>0, <2>1 DEF NothingNeededIsDropped
  <2>2. CASE s \in Live
    <3>1. s \in Nat /\ \A i \in 1..s : log'[i] = log[i]
      <4>1. s \in 0..committed
        BY <1>0, <2>2 DEF LiveArePast
      <4>2. s \in Nat /\ 1..s \subseteq 1..committed
        BY <1>0, <4>1
      <4> QED
        BY <1>1, <4>2
    <3>2. Promised(k, s)' = Promised(k, s)
      BY <3>1, PromiseStands
    <3> QED
      BY <2>1, <2>2, <3>2
  <2>3. CASE s = c /\ writes[t][k] = "none"
    <3>1. Promised(k, b)' = Promised(k, b)
      BY <1>1, <1>a, PromiseStands
    <3>2. {v \in 1..c : log'[v][k] # "none"} = {v \in 1..b : log'[v][k] # "none"}
      <4>1. 1..b \subseteq 1..c
        BY <1>a
      <4> QED
        BY <1>1, <1>2, <1>a, <2>3, <4>1
    <3>3. Promised(k, c)' = Promised(k, b)'
      <4>1. WritesTo(k, c)' = WritesTo(k, b)'
        BY <3>2 DEF WritesTo
      <4> QED
        BY <4>1 DEF Promised
    <3> QED
      BY <1>a, <2>1, <2>3, <3>1, <3>3
  <2>4. CASE s = c /\ writes[t][k] # "none"
    <3> DEFINE W == {v \in 1..c : log'[v][k] # "none"}
    <3>1. c \in W /\ W # {} /\ \A v \in W : v \in Nat /\ v <= c
      <4>1. c \in 1..c /\ \A v \in 1..c : v \in Nat /\ v <= c
        BY <1>a
      <4> QED
        BY <1>1, <2>4, <4>1
    <3> HIDE DEF W
    <3>2. (CHOOSE v \in W : \A w \in W : w <= v) = c
      <4>1. \A v \in W : (\A w \in W : w <= v) => v = c
        BY <1>2, <3>1
      <4>2. \A w \in W : w <= c
        BY <3>1
      <4> QED
        BY <3>1, <4>1, <4>2
    <3>3. Promised(k, c)' = IF log'[c][k] = "delete" THEN NotFound ELSE c
      BY <3>1, <3>2 DEF Promised, WritesTo, W
    <3>4. Promised(k, s)' = c /\ writes[t][k] # "delete"
      BY <1>1, <2>4, <3>3
    <3> QED
      BY <1>1, <2>4, <3>4
  <2> QED
    BY <1>1, <2>2, <2>3, <2>4
<1> QED
  BY <1>1, <1>4, <1>5, <1>7, <1>8, <1>9, <1>10 DEF IInv
-----------------------------------------------------------------------------
\* Nobody reads below the safe version, which is at most the next one.
LEMMA SafeIsSafe ==
  ASSUME LiveArePast, committed \in Nat
  PROVE  /\ SafeVersion \in Nat /\ SafeVersion <= committed + 1
         /\ \A s \in Live : SafeVersion <= s
<1>1. Live \cup {committed + 1} \in SUBSET Nat
  BY DEF LiveArePast
<1> QED
  BY <1>1, HasLeast DEF SafeVersion

\* A collection keeps every version that a transaction or a reader still needs.
LEMMA CollectStep == ASSUME IInv, CollectGarbage PROVE IInv'
<1>0. /\ TypeOK /\ LiveArePast /\ DataAreLogged /\ committed \in Nat /\ Len(log) = committed
      /\ \A i \in 1..committed : log[i] \in [Keys -> Marks]
  BY Numbers DEF IInv
<1>1. /\ \A k \in Keys : data'[k] = Kept(k)
      /\ reclaimed' = reclaimed \cup {v.version : v \in UNION {data[k] \ Kept(k) : k \in Keys}}
      /\ committed' = committed /\ log' = log /\ Live' = Live
  BY DEF CollectGarbage, Live, Active, Held
<1>2. \A k \in Keys : Kept(k) \subseteq data[k]
  BY DEF Kept
<1>3. \A i \in reclaimed' : i \in reclaimed \/ \E k \in Keys : \E v \in data[k] \ Kept(k) : v.version = i
  BY <1>1
<1>4. /\ SafeVersion \in Nat /\ SafeVersion <= committed + 1
      /\ \A s \in Live : SafeVersion <= s
  BY <1>0, SafeIsSafe
<1>5. \A k \in Keys : \A v \in data[k] : v.version \in 1..committed /\ v = Entry(k, v.version)
  BY <1>0 DEF DataAreLogged
<1>6. \A k \in Keys : \A v \in data[k] : v.version >= SafeVersion => v \in Kept(k)
  BY DEF Kept, IsKept
\* What is dropped lies below the safe version.
<1>7. \A i \in reclaimed' : i \in reclaimed \/ i < SafeVersion
  BY <1>3, <1>4, <1>5, <1>6
<1>8. TypeOK'
  <2>1. data' \in [Keys -> SUBSET Version]
    BY <1>0, <1>2 DEF CollectGarbage, TypeOK
  <2>2. reclaimed' \subseteq Versions
    <3>1. 1..committed \subseteq Versions
      BY <1>0, BoundAssumption DEF TypeOK, Versions
    <3> QED
      BY <1>0, <1>3, <1>5, <3>1 DEF TypeOK
  <2> QED
    BY <1>0, <2>1, <2>2 DEF CollectGarbage, TypeOK
<1>9. LiveArePast'
  BY <1>0, <1>1 DEF LiveArePast
<1>10. DataAreLogged'
  <2>1. reclaimed' \subseteq 1..committed
    BY <1>0, <1>3, <1>5 DEF DataAreLogged
  <2> QED
    BY <1>0, <1>1, <1>2, <2>1 DEF DataAreLogged, Entry
\* Nothing from the safe version on is touched.
<1>11. ASSUME NEW i \in 1..committed, i >= SafeVersion, IsStored(i) PROVE IsStored(i)'
  <2>1. i \notin reclaimed'
    BY <1>4, <1>7, <1>11 DEF IsStored
  <2>2. ASSUME NEW k \in Keys, log[i][k] # "none" PROVE Entry(k, i) \in data'[k]
    <3>1. Entry(k, i) \in data[k] /\ Entry(k, i).version = i
      BY <1>11, <2>2 DEF IsStored, Entry
    <3> QED
      BY <1>1, <1>6, <1>11, <3>1
  <2> QED
    BY <1>1, <2>1, <2>2 DEF IsStored, Entry
<1>12. RecentAreStored'
  <2> SUFFICES ASSUME NEW s \in Live, NEW i \in (s + 1)..committed PROVE IsStored(i)'
    BY <1>1 DEF RecentAreStored
  <2>1. s \in 0..committed /\ SafeVersion <= s
    BY <1>0, <1>4 DEF LiveArePast
  <2>2. i \in 1..committed /\ i >= SafeVersion
    BY <1>0, <1>4, <2>1
  <2> QED
    BY <1>11, <2>2 DEF IInv, RecentAreStored
<1>13. UncollectedAreStored'
  <2> SUFFICES ASSUME reclaimed' = {}, NEW i \in 1..committed PROVE IsStored(i)'
    BY <1>1 DEF UncollectedAreStored
  <2>1. reclaimed = {} /\ \A k \in Keys : data[k] \ Kept(k) = {}
    BY <1>1
  <2>2. \A k \in Keys : data'[k] = data[k]
    BY <1>1, <1>2, <2>1
  <2>3. IsStored(i)
    BY <2>1 DEF IInv, UncollectedAreStored
  <2> QED
    BY <1>1, <2>2, <2>3 DEF IsStored, Entry
<1>14. PlainIsSpared'
  <2> SUFFICES ASSUME Plain
               PROVE  /\ \A k \in Keys : \A v \in Kept(k) : v.version \notin reclaimed'
                      /\ \A s \in Live \cup {committed} : s \notin reclaimed'
    BY <1>1 DEF PlainIsSpared, Plain
  <2>0. /\ \A k \in Keys : \A v \in data[k] : v.version \notin reclaimed
        /\ \A s \in Live \cup {committed} : s \notin reclaimed
    BY DEF IInv, PlainIsSpared
  <2>1. \A k \in Keys : \A v \in data[k] :
          log[v.version][k] = "put" /\ ~v.tombstone /\ \A j \in Keys \ {k} : log[v.version][j] = "none"
    <3> SUFFICES ASSUME NEW k \in Keys, NEW v \in data[k]
                 PROVE  log[v.version][k] = "put" /\ ~v.tombstone
                        /\ \A j \in Keys \ {k} : log[v.version][j] = "none"
      OBVIOUS
    <3>1. v.version \in 1..committed /\ log[v.version][k] # "none" /\ v = Entry(k, v.version)
      BY <1>0 DEF DataAreLogged
    <3>2. log[v.version][k] \in Marks /\ log[v.version][k] # "delete"
      BY <1>0, <3>1 DEF Plain
    <3>3. log[v.version][k] = "put"
      BY <3>1, <3>2 DEF Marks
    <3>4. \A j \in Keys \ {k} : log[v.version][j] = "none"
      BY <1>0, <3>1, <3>3 DEF Plain
    <3>5. Entry(k, v.version).tombstone = FALSE
      BY <3>3 DEF Entry
    <3>6. ~v.tombstone
      BY <3>1, <3>5
    <3> QED
      BY <3>3, <3>4, <3>6
  <2>2. ASSUME NEW k \in Keys, NEW v \in Kept(k), v.version \in reclaimed' PROVE FALSE
    <3>1. v \in data[k] /\ v.version \notin reclaimed
      BY <1>2, <2>0
    <3>2. PICK j \in Keys : \E u \in data[j] \ Kept(j) : u.version = v.version
      BY <1>3, <2>2, <3>1
    <3>3. PICK u \in data[j] \ Kept(j) : u.version = v.version
      BY <3>2
    <3>4. j = k
      BY <2>1, <3>1, <3>3
    <3>5. u = v
      BY <1>5, <3>1, <3>3, <3>4
    <3> QED
      BY <3>3, <3>4, <3>5
  <2>3. ASSUME NEW s \in Live \cup {committed}, s \in reclaimed' PROVE FALSE
    <3>1. PICK j \in Keys : \E u \in data[j] \ Kept(j) : u.version = s
      BY <1>3, <2>0, <2>3
    <3>2. PICK u \in data[j] \ Kept(j) : u.version = s
      BY <3>1
    <3>3. s < SafeVersion
      BY <1>4, <1>5, <1>6, <3>2
    <3>4. s = committed
      BY <1>4, <1>5, <2>3, <3>2, <3>3
    \* The last commit is a value with nothing after it.
    <3>5. ~u.tombstone /\ \A o \in data[j] : ~(o.version > u.version)
      BY <1>0, <1>5, <2>1, <3>2, <3>4
    <3>6. u \in Kept(j)
      BY <3>2, <3>5 DEF Kept, IsKept
    <3> QED
      BY <3>2, <3>6
  <2> QED
    BY <2>2, <2>3
<1>15. NothingNeededIsDropped'
  <2> SUFFICES ASSUME NEW k \in Keys, NEW s \in Live \cup {committed}, Promised(k, s) # NotFound
               PROVE  [version |-> Promised(k, s), tombstone |-> FALSE] \in Kept(k)
    BY <1>1 DEF NothingNeededIsDropped, Promised, WritesTo
  <2> DEFINE v == [version |-> Promised(k, s), tombstone |-> FALSE]
  <2>1. v \in data[k] /\ v.version = Promised(k, s) /\ ~v.tombstone
    BY DEF IInv, NothingNeededIsDropped
  <2>2. s \in Nat /\ s <= committed
    BY <1>0 DEF LiveArePast
  <2>3. WritesTo(k, s) # {} /\ v.version = Last(k, s)
    BY <2>1, <2>2, PromisedIsLast
  <2>4. \A w \in WritesTo(k, s) : w <= v.version
    BY <2>2, <2>3, LastIsLast
  <2> HIDE DEF v
  \* Anything newer is beyond s, where nothing is below the safe version.
  <2>5. ASSUME NEW o \in data[k], o.version > v.version, o.version < SafeVersion
        PROVE  FALSE
    <3>1. o.version \in 1..committed /\ log[o.version][k] # "none"
      BY <1>0 DEF DataAreLogged
    <3>2. o.version <= s
      BY <1>0, <1>4, <2>2, <2>5, <3>1
    <3>3. o.version \in WritesTo(k, s)
      BY <2>2, <3>1, <3>2 DEF WritesTo
    <3> QED
      BY <1>5, <2>1, <2>4, <2>5, <3>1, <3>3
  <2>6. v \in Kept(k)
    BY <2>1, <2>5 DEF Kept, IsKept
  <2> QED
    BY <2>6 DEF v
<1> QED
  BY <1>8, <1>9, <1>10, <1>12, <1>13, <1>14, <1>15 DEF IInv

\* A cleared store is a new one.
LEMMA ClearStep == Clear => IInv'
<1>1. Clear => Init'
  BY DEF Clear, Init
<1> QED
  BY <1>1, InitHolds, PTL

\* Every operation of the store keeps the invariant.
LEMMA IInvStep == IInv /\ [Next]_vars => IInv'
<1> SUFFICES ASSUME IInv, [Next]_vars PROVE IInv'
  OBVIOUS
<1>1. ASSUME NEW t \in Txns, BeginTransaction(t) PROVE IInv'
  BY <1>1, BeginStep
<1>2. ASSUME NEW t \in Txns, NEW k \in Keys, Write(t, k) \/ Delete(t, k) PROVE IInv'
  <2>1. "put" \in Marks /\ "delete" \in Marks
    BY DEF Marks
  <2> QED
    BY <1>2, <2>1, BufferStep DEF Write, Delete
<1>3. ASSUME NEW t \in Txns, Commit(t) PROVE IInv'
  BY <1>3, CommitStep
<1>4. ASSUME NEW t \in Txns, Rollback(t) PROVE IInv'
  BY <1>4, RollbackStep
<1>5. ASSUME NEW r \in Readers, CreateSnapshot(r) PROVE IInv'
  BY <1>5, CreateStep
<1>6. ASSUME NEW r \in Readers, ReleaseSnapshot(r) PROVE IInv'
  BY <1>6, ReleaseStep
<1>7. CASE CollectGarbage
  BY <1>7, CollectStep
<1>8. CASE Clear
  BY <1>8, ClearStep
<1>9. CASE UNCHANGED vars
  <2>1. TypeOK' /\ Live' \subseteq Live
    BY <1>9 DEF vars, IInv, TypeOK, Live, Active, Held
  <2> QED
    BY <1>9, <2>1, StoreUntouched DEF vars
<1> QED
  BY <1>1, <1>2, <1>3, <1>4, <1>5, <1>6, <1>7, <1>8, <1>9 DEF Next

\* Every state of the store satisfies the inductive invariant.
LEMMA Invariance == Spec => []IInv
BY InitHolds, IInvStep, PTL DEF Spec
-----------------------------------------------------------------------------
\* Every variable keeps its type, and the log has one entry per commit.
THEOREM TypeCorrect == Spec => []TypeOK
<1>1. IInv => TypeOK
  BY DEF IInv
<1> QED
  BY <1>1, Invariance, PTL

\* Whatever is written, deleted and collected, the version that holds the value of
\* a key for a snapshot, a transaction or a read of the present is in the store
\* (store.py:300).
THEOREM NeededStays == Spec => []NothingNeededIsDropped
<1>1. IInv => NothingNeededIsDropped
  BY DEF IInv
<1> QED
  BY <1>1, Invariance, PTL

\* The last write of a key before a version that is read is stored, and its number
\* does not count as reclaimed.
LEMMA LastIsStored ==
  ASSUME IInv, Plain \/ reclaimed = {}, NEW k \in Keys, NEW s \in Live \cup {committed},
         WritesTo(k, s) # {}
  PROVE  Entry(k, Last(k, s)) \in data[k] /\ Last(k, s) \notin reclaimed
<1>0. TypeOK /\ LiveArePast /\ committed \in Nat /\ Len(log) = committed
  BY Numbers DEF IInv
<1>1. s \in Nat /\ s <= committed
  BY <1>0 DEF LiveArePast
<1>2. Last(k, s) \in 1..committed /\ log[Last(k, s)][k] # "none"
  <2>1. Last(k, s) \in 1..s /\ log[Last(k, s)][k] # "none"
    BY <1>1, LastIsLast
  <2> QED
    BY <1>0, <1>1, <2>1
<1>3. CASE reclaimed = {}
  BY <1>2, <1>3 DEF IInv, UncollectedAreStored, IsStored
<1>4. CASE Plain
  <2>1. log[Last(k, s)][k] # "delete"
    BY <1>0, <1>2, <1>4 DEF Plain
  <2>2. Promised(k, s) = Last(k, s)
    BY <1>1, <2>1, PromisedIsLast
  <2>3. [version |-> Last(k, s), tombstone |-> FALSE] \in data[k]
    BY <1>2, <2>2 DEF IInv, NothingNeededIsDropped, NotFound
  <2>4. Entry(k, Last(k, s)) = [version |-> Last(k, s), tombstone |-> FALSE]
    BY <2>1 DEF Entry
  <2>5. [version |-> Last(k, s), tombstone |-> FALSE].version \notin reclaimed
    BY <1>4, <2>3 DEF IInv, PlainIsSpared
  <2> QED
    BY <2>3, <2>4, <2>5
<1> QED
  BY <1>3, <1>4

\* Reads at a version somebody holds.
LEMMA ReadsAtAreRight ==
  ASSUME IInv, Plain \/ reclaimed = {}, NEW k \in Keys, NEW s \in Live
  PROVE  ReadAt(k, s) = Promised(k, s)
<1>0. LiveArePast /\ DataAreLogged /\ committed \in Nat
  BY Numbers DEF IInv
<1>1. s \in 0..committed
  BY <1>0 DEF LiveArePast
<1>2. WritesTo(k, s) # {} => Entry(k, Last(k, s)) \in Upto(k, s)
  <2> SUFFICES ASSUME WritesTo(k, s) # {} PROVE Entry(k, Last(k, s)) \in Upto(k, s)
    OBVIOUS
  <2>1. Entry(k, Last(k, s)) \in data[k]
    BY LastIsStored
  <2>2. Last(k, s) \in 1..s
    BY <1>1, LastIsLast
  <2>3. Entry(k, Last(k, s)).version <= s
    BY <1>1, <2>2 DEF Entry
  <2> QED
    BY <2>1, <2>3 DEF Upto
<1>3. Shown(Upto(k, s)) = Promised(k, s) /\ (Upto(k, s) # {} => Newest(Upto(k, s)) \in Upto(k, s))
  BY <1>0, <1>1, <1>2, ShowsPromised
<1>4. s \notin reclaimed /\ \A v \in data[k] : v.version \notin reclaimed
  BY DEF IInv, PlainIsSpared
<1>5. Upto(k, s) # {} => Newest(Upto(k, s)).version \notin reclaimed
  BY <1>3, <1>4 DEF Upto
<1> QED
  BY <1>3, <1>4, <1>5 DEF ReadAt

\* Reads without a snapshot.
LEMMA ReadsAreRight ==
  ASSUME IInv, Plain \/ reclaimed = {}, NEW k \in Keys
  PROVE  Read(k) = Promised(k, committed)
<1> DEFINE S == {v \in data[k] : v.version \notin reclaimed}
<1>0. DataAreLogged /\ committed \in Nat /\ committed \in 0..committed
  BY Numbers DEF IInv
<1>1. S \in SUBSET Upto(k, committed)
  BY <1>0 DEF DataAreLogged, Upto
<1>2. WritesTo(k, committed) # {} => Entry(k, Last(k, committed)) \in S
  BY LastIsStored DEF Entry
<1> HIDE DEF S
<1>3. Shown(S) = Promised(k, committed)
  BY <1>0, <1>1, <1>2, ShowsPromised
<1> QED
  BY <1>3 DEF Read, S

\* Everybody reads what had been committed when they started, and the present reads
\* the last commit, as long as nothing has been collected, and always when every
\* commit puts one key (store.py:119, :299).
THEOREM ReadersSeeTheirPast == Spec => []ViewsAreTrue
<1>1. IInv => ViewsAreTrue
  <2> SUFFICES ASSUME IInv, Plain \/ reclaimed = {} PROVE ViewsAreRight
    BY DEF ViewsAreTrue
  <2>1. ASSUME NEW k \in Keys, NEW r \in Held
        PROVE  ReadAt(k, snapshot[r]) = Promised(k, snapshot[r])
    BY ReadsAtAreRight DEF Live
  <2>2. ASSUME NEW k \in Keys, NEW t \in Active, writes[t][k] = "none"
        PROVE  TransactionRead(t, k) = Promised(k, start[t])
    <3>1. ReadAt(k, start[t]) = Promised(k, start[t])
      BY ReadsAtAreRight DEF Live
    <3> QED
      BY <2>2, <3>1 DEF TransactionRead
  <2> QED
    BY <2>1, <2>2, ReadsAreRight DEF ViewsAreRight
<1> QED
  BY <1>1, Invariance, PTL

\* The writers have snapshot isolation: what the store commits is what
\* SnapshotIsolation may commit, in its order, whatever has been collected
\* (store.py:202).
THEOREM Refinement == Spec => ImplementsSI
<1>1. Init => SI!Init
  BY DEF Init, SI!Init, NoStart, SI!NoStart, NoWrites, SI!NoWrites
<1>2. IInv /\ [Next]_vars => [SI!Next]_(SI!vars)
  <2> SUFFICES ASSUME IInv, [Next]_vars PROVE SI!Next \/ UNCHANGED SI!vars
    OBVIOUS
  <2> USE DEF NoStart, SI!NoStart, NoWrites, SI!NoWrites
  <2>0. TypeOK /\ DataAreLogged /\ committed \in Nat /\ Len(log) = committed
    BY Numbers DEF IInv
  <2>1. ASSUME NEW t \in Txns, BeginTransaction(t) PROVE SI!Next
    <3>1. SI!Begin(t)
      BY <2>0, <2>1 DEF BeginTransaction, SI!Begin
    <3> QED
      BY <3>1 DEF SI!Next
  <2>2. ASSUME NEW t \in Txns, NEW k \in Keys, Write(t, k) \/ Delete(t, k) PROVE SI!Next
    <3>1. SI!Buffer(t, k, "put") \/ SI!Buffer(t, k, "delete")
      BY <2>2 DEF Write, Delete, Buffer, Active, SI!Buffer
    <3> QED
      BY <3>1 DEF SI!Next
  <2>3. ASSUME NEW t \in Txns, Commit(t) PROVE SI!Next
    <3>1. start[t] # NoStart /\ start[t] \in Live /\ start[t] \in 0..committed
      BY <2>3 DEF Commit, Active, Live, IInv, LiveArePast
    <3>2. SI!FirstCommitter(t)
      <4> SUFFICES ASSUME NEW i \in (start[t] + 1)..committed, NEW k \in Keys,
                          writes[t][k] # "none", log[i][k] # "none"
                   PROVE  FALSE
        BY <2>0 DEF SI!FirstCommitter
      <4>1. IsStored(i)
        BY <3>1 DEF IInv, RecentAreStored
      <4>2. Entry(k, i) \in data[k] /\ Entry(k, i).version = i /\ i \notin reclaimed
        BY <4>1 DEF IsStored, Entry
      <4>3. Conflict(t, k)
        BY <2>0, <3>1, <4>2 DEF Conflict
      <4> QED
        BY <2>3, <4>3 DEF Commit, Written
    <3>3. SI!Commit(t)
      BY <2>3, <3>1, <3>2 DEF Commit, Finish, SI!Commit, SI!End
    <3> QED
      BY <3>3 DEF SI!Next
  <2>4. ASSUME NEW t \in Txns, Rollback(t) PROVE SI!Next
    <3>1. SI!Rollback(t)
      BY <2>4 DEF Rollback, Finish, Active, SI!Rollback, SI!End
    <3> QED
      BY <3>1 DEF SI!Next
  <2>5. CASE Clear
    <3>1. SI!Clear
      BY <2>5 DEF Clear, SI!Clear
    <3> QED
      BY <3>1 DEF SI!Next
  \* Snapshots and the collection are invisible to the writers.
  <2>6. ASSUME NEW r \in Readers, CreateSnapshot(r) \/ ReleaseSnapshot(r) PROVE UNCHANGED SI!vars
    BY <2>6 DEF CreateSnapshot, ReleaseSnapshot, SI!vars
  <2>7. CASE CollectGarbage \/ UNCHANGED vars
    BY <2>7 DEF CollectGarbage, vars, SI!vars
  <2> QED
    BY <2>1, <2>2, <2>3, <2>4, <2>5, <2>6, <2>7 DEF Next
<1> QED
  BY <1>1, <1>2, Invariance, PTL DEF Spec, ImplementsSI, SI!Spec
=============================================================================
