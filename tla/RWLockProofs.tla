---------------------------- MODULE RWLockProofs ----------------------------
(***************************************************************************)
(* RWLock for any set of threads and any depth of re-entrance: exclusion,  *)
(* queues that match the scheduler, no lost wakeup, and the refinement of  *)
(* AbstractRWLock.                                                         *)
(***************************************************************************)
EXTENDS RWLock, TLAPS

IInv == TypeOK /\ Exclusion /\ QueuesMatchParked /\ NoLostWakeup

\* The queue of writers after the two things that happen to it.
LEMMA QueueAppend ==
  ASSUME NEW q \in Seq(Threads), NEW t \in Threads
  PROVE  /\ Append(q, t) \in Seq(Threads)
         /\ Members(Append(q, t)) = Members(q) \cup {t}
<1>1. Len(Append(q, t)) = Len(q) + 1 /\ Append(q, t)[Len(q) + 1] = t
  OBVIOUS
<1>2. \A i \in 1..Len(q) : Append(q, t)[i] = q[i]
  OBVIOUS
<1>3. 1..Len(q) + 1 = 1..Len(q) \cup {Len(q) + 1}
  OBVIOUS
<1> QED
  BY <1>1, <1>2, <1>3 DEF Members

\* Taking the head from a queue without duplicates leaves the others in it.
LEMMA QueueTail ==
  ASSUME NEW q \in Seq(Threads), q # <<>>,
         \A i, j \in 1..Len(q) : q[i] = q[j] => i = j
  PROVE  /\ Head(q) \in Threads /\ Tail(q) \in Seq(Threads)
         /\ Head(q) \in Members(q)
         /\ Members(Tail(q)) = Members(q) \ {Head(q)}
         /\ \A i, j \in 1..Len(Tail(q)) : Tail(q)[i] = Tail(q)[j] => i = j
<1>1. Len(q) \in Nat /\ Len(q) > 0 /\ Len(Tail(q)) = Len(q) - 1 /\ Head(q) = q[1]
  OBVIOUS
<1>2. \A i \in 1..Len(Tail(q)) : i + 1 \in 1..Len(q) /\ Tail(q)[i] = q[i + 1]
  BY <1>1
<1>3. \A i \in 1..Len(q) : i # 1 => i - 1 \in 1..Len(Tail(q)) /\ Tail(q)[i - 1] = q[i]
  BY <1>1
<1>4. Members(Tail(q)) = Members(q) \ {Head(q)}
  <2>1. ASSUME NEW x \in Members(Tail(q)) PROVE x \in Members(q) \ {Head(q)}
    <3>1. PICK i \in 1..Len(Tail(q)) : x = Tail(q)[i]
      BY DEF Members
    <3>2. i + 1 \in 1..Len(q) /\ x = q[i + 1] /\ i + 1 # 1 /\ 1 \in 1..Len(q)
      BY <1>1, <1>2, <3>1
    <3> QED
      BY <1>1, <3>2 DEF Members
  <2>2. ASSUME NEW x \in Members(q) \ {Head(q)} PROVE x \in Members(Tail(q))
    <3>1. PICK j \in 1..Len(q) : x = q[j]
      BY DEF Members
    <3>2. j - 1 \in 1..Len(Tail(q)) /\ Tail(q)[j - 1] = x
      BY <1>1, <1>3, <3>1
    <3> QED
      BY <3>2 DEF Members
  <2> QED
    BY <2>1, <2>2
<1>5. \A i, j \in 1..Len(Tail(q)) : Tail(q)[i] = Tail(q)[j] => i = j
  BY <1>1, <1>2
<1> QED
  BY <1>1, <1>4, <1>5 DEF Members
-----------------------------------------------------------------------------
\* Every variable keeps its type, the hold counts within their bound.
LEMMA TypeStep == TypeOK /\ [Next]_vars => TypeOK'
<1> SUFFICES ASSUME TypeOK, [Next]_vars PROVE TypeOK'
  OBVIOUS
<1> USE HoldsAssumption DEF TypeOK, Acquiring, MayRead, MayWrite, HoldsRead, HoldsWrite
<1>1. ASSUME NEW t \in Threads, GetRead(t) PROVE TypeOK'
  BY <1>1 DEF GetRead
<1>2. ASSUME NEW t \in Threads, ParkReader(t) PROVE TypeOK'
  BY <1>2 DEF ParkReader
<1>3. ASSUME NEW t \in Threads, ReenterWrite(t) PROVE TypeOK'
  BY <1>3 DEF ReenterWrite
<1>4. ASSUME NEW t \in Threads, GetWrite(t) PROVE TypeOK'
  BY <1>4 DEF GetWrite
<1>5. ASSUME NEW t \in Threads, ParkWriter(t) PROVE TypeOK'
  BY <1>5 DEF ParkWriter
<1>6. ASSUME NEW t \in Threads, ReleasePart(t) PROVE TypeOK'
  <2>1. CASE HoldsWrite(t) /\ wcount > 1 /\ wcount' = wcount - 1 /\ UNCHANGED readers
    BY <1>6, <2>1 DEF ReleasePart
  <2>2. CASE HoldsRead(t) /\ readers' = [readers EXCEPT ![t] = @ - 1] /\ UNCHANGED wcount
    <3>1. readers[t] - 1 \in 0..MaxHolds
      BY <2>2
    <3>2. readers' \in [Threads -> 0..MaxHolds]
      BY <2>2, <3>1
    <3> QED
      BY <1>6, <2>2, <3>2 DEF ReleasePart
  <2> QED
    BY <1>6, <2>1, <2>2 DEF ReleasePart
<1>7. ASSUME NEW t \in Threads, ReleaseLast(t) PROVE TypeOK'
  <2>1. /\ waitingReaders' \subseteq Threads /\ waitingWriters' \in Seq(Threads)
        /\ parked' \subseteq Threads
    <3>1. CASE WakeWriter
      BY <3>1 DEF WakeWriter
    <3>2. CASE WakeReaders
      BY <3>2 DEF WakeReaders, WithoutReaders
    <3> QED
      BY <1>7, <3>1, <3>2 DEF ReleaseLast, WakeWaiters
  <2>2. /\ mode' = "FREE" /\ writer' \in Threads \cup {NoThread}
        /\ wcount' \in 0..MaxHolds /\ readers' \in [Threads -> 0..MaxHolds] /\ want' = want
    BY <1>7 DEF ReleaseLast
  <2> QED
    BY <2>1, <2>2
<1>8. CASE UNCHANGED vars
  BY <1>8 DEF vars
<1> QED
  BY <1>1, <1>2, <1>3, <1>4, <1>5, <1>6, <1>7, <1>8 DEF Next, Acquire, Release

\* The free lock is in the invariant.
LEMMA InitHolds == Init => IInv
<1> SUFFICES ASSUME Init PROVE IInv
  OBVIOUS
<1>1. TypeOK
  BY HoldsAssumption DEF Init, TypeOK
<1>2. Exclusion
  BY DEF Init, Exclusion
<1>3. QueuesMatchParked /\ NoLostWakeup
  BY DEF Init, QueuesMatchParked, QueuedWriters, Members, NoLostWakeup
<1> QED
  BY <1>1, <1>2, <1>3 DEF IInv

\* No step lets a writer in beside another holder.
LEMMA ExclusionStep == IInv /\ TypeOK' /\ [Next]_vars => Exclusion'
<1> SUFFICES ASSUME IInv, TypeOK', [Next]_vars PROVE Exclusion'
  OBVIOUS
<1> USE ThreadAssumption, HoldsAssumption
    DEF IInv, TypeOK, Exclusion, Acquiring, MayRead, MayWrite, HoldsRead, HoldsWrite
<1>1. ASSUME NEW t \in Threads, GetRead(t) PROVE Exclusion'
  BY <1>1 DEF GetRead
<1>2. ASSUME NEW t \in Threads, ParkReader(t) \/ ParkWriter(t) PROVE Exclusion'
  BY <1>2 DEF ParkReader, ParkWriter
<1>3. ASSUME NEW t \in Threads, ReenterWrite(t) PROVE Exclusion'
  BY <1>3 DEF ReenterWrite
<1>4. ASSUME NEW t \in Threads, GetWrite(t) PROVE Exclusion'
  BY <1>4 DEF GetWrite
<1>5. ASSUME NEW t \in Threads, ReleasePart(t) PROVE Exclusion'
  BY <1>5 DEF ReleasePart
<1>6. ASSUME NEW t \in Threads, ReleaseLast(t) PROVE Exclusion'
  BY <1>6 DEF ReleaseLast
<1>7. CASE UNCHANGED vars
  BY <1>7 DEF vars
<1> QED
  BY <1>1, <1>2, <1>3, <1>4, <1>5, <1>6, <1>7 DEF Next, Acquire, Release

\* Every step queues whom it parks, and unparks whom it takes from a queue.
LEMMA QueuesStep == IInv /\ TypeOK' /\ [Next]_vars => QueuesMatchParked'
<1> SUFFICES ASSUME IInv, TypeOK', [Next]_vars PROVE QueuesMatchParked'
  OBVIOUS
<1>0. TypeOK /\ QueuesMatchParked
  BY DEF IInv
<1>1. ASSUME NEW t \in Threads, GetRead(t) \/ ReenterWrite(t) \/ GetWrite(t) PROVE QueuesMatchParked'
  <2>1. /\ t \notin parked /\ want' = [want EXCEPT ![t] = "none"]
        /\ UNCHANGED <<waitingReaders, waitingWriters, parked>>
    BY <1>1 DEF GetRead, ReenterWrite, GetWrite, Acquiring
  <2>2. \A u \in parked : want'[u] = want[u]
    BY <1>0, <2>1 DEF TypeOK
  <2> QED
    BY <1>0, <2>1, <2>2 DEF QueuesMatchParked, QueuedWriters
<1>2. ASSUME NEW t \in Threads, ParkReader(t) PROVE QueuesMatchParked'
  <2>1. /\ t \notin parked /\ want' = [want EXCEPT ![t] = "read"] /\ parked' = parked \cup {t}
        /\ waitingReaders' = waitingReaders \cup {t} /\ UNCHANGED waitingWriters
    BY <1>2 DEF ParkReader, Acquiring
  <2>2. want'[t] = "read" /\ \A u \in parked : want'[u] = want[u]
    BY <1>0, <2>1 DEF TypeOK
  <2> QED
    BY <1>0, <2>1, <2>2 DEF QueuesMatchParked, QueuedWriters
<1>3. ASSUME NEW t \in Threads, ParkWriter(t) PROVE QueuesMatchParked'
  <2>1. /\ waitingWriters' = Append(waitingWriters, t) /\ waitingReaders' = waitingReaders
        /\ parked' = parked \cup {t} /\ want' = [want EXCEPT ![t] = "write"] /\ t \notin parked
    BY <1>3 DEF ParkWriter, Acquiring
  <2>2. want'[t] = "write" /\ \A u \in parked : want'[u] = want[u]
    BY <1>0, <2>1 DEF TypeOK
  <2>3. QueuedWriters' = QueuedWriters \cup {t}
    BY <1>0, <2>1, QueueAppend DEF QueuedWriters, TypeOK
  <2>4. \A i, j \in 1..Len(waitingWriters') : waitingWriters'[i] = waitingWriters'[j] => i = j
    <3>1. \A i \in 1..Len(waitingWriters) : waitingWriters[i] # t
      BY <1>0, <2>1 DEF QueuesMatchParked, QueuedWriters, Members
    <3> QED
      BY <1>0, <2>1, <3>1 DEF QueuesMatchParked, TypeOK
  <2> QED
    BY <1>0, <2>1, <2>2, <2>3, <2>4 DEF QueuesMatchParked
<1>4. ASSUME NEW t \in Threads, ReleasePart(t) PROVE QueuesMatchParked'
  BY <1>0, <1>4 DEF ReleasePart, QueuesMatchParked, QueuedWriters
<1>5. ASSUME NEW t \in Threads, ReleaseLast(t) PROVE QueuesMatchParked'
  <2>0. want' = want
    BY <1>5 DEF ReleaseLast
  <2>1. CASE WakeWriter
    <3>1. /\ waitingWriters' = Tail(waitingWriters) /\ parked' = parked \ {Head(waitingWriters)}
          /\ waitingReaders' = waitingReaders /\ waitingWriters # <<>>
      BY <2>1 DEF WakeWriter
    <3>2. waitingWriters \in Seq(Threads)
          /\ \A i, j \in 1..Len(waitingWriters) : waitingWriters[i] = waitingWriters[j] => i = j
      BY <1>0 DEF TypeOK, QueuesMatchParked
    <3>3. QueuedWriters' = QueuedWriters \ {Head(waitingWriters)} /\ Head(waitingWriters) \in QueuedWriters
      BY <3>1, <3>2, QueueTail DEF QueuedWriters
    <3>4. \A i, j \in 1..Len(waitingWriters') : waitingWriters'[i] = waitingWriters'[j] => i = j
      BY <3>1, <3>2, QueueTail
    <3> QED
      BY <1>0, <2>0, <3>1, <3>3, <3>4 DEF QueuesMatchParked
  <2>2. CASE WakeReaders
    BY <1>0, <2>0, <2>2 DEF WakeReaders, WithoutReaders, QueuesMatchParked, QueuedWriters
  <2> QED
    BY <1>5, <2>1, <2>2 DEF ReleaseLast, WakeWaiters
<1>6. CASE UNCHANGED vars
  BY <1>0, <1>6 DEF vars, QueuesMatchParked, QueuedWriters
<1> QED
  BY <1>1, <1>2, <1>3, <1>4, <1>5, <1>6 DEF Next, Acquire, Release

\* After a step that leaves the lock free beside sleepers, somebody is on the way to it.
LEMMA WakeupStep == IInv /\ TypeOK' /\ [Next]_vars => NoLostWakeup'
<1> SUFFICES ASSUME IInv, TypeOK', [Next]_vars PROVE NoLostWakeup'
  OBVIOUS
<1> USE DEF IInv, TypeOK, NoLostWakeup, MayRead, MayWrite, HoldsRead, HoldsWrite
<1>1. ASSUME NEW t \in Threads, Acquire(t) PROVE NoLostWakeup'
  <2>1. mode' # "FREE"
    BY <1>1 DEF Acquire, GetRead, ParkReader, ReenterWrite, GetWrite, ParkWriter
  <2> QED
    BY <2>1
<1>2. ASSUME NEW t \in Threads, ReleasePart(t) PROVE NoLostWakeup'
  BY <1>2 DEF ReleasePart
<1>3. ASSUME NEW t \in Threads, ReleaseLast(t) PROVE NoLostWakeup'
  <2>0. want' = want
    BY <1>3 DEF ReleaseLast
  <2>1. CASE WakeWriter
    <3>1. Head(waitingWriters) \in Threads /\ Head(waitingWriters) \in QueuedWriters
      BY <2>1, QueueTail DEF WakeWriter, QueuesMatchParked, QueuedWriters
    <3>2. want[Head(waitingWriters)] = "write" /\ Head(waitingWriters) \notin parked'
      BY <2>1, <3>1 DEF WakeWriter, QueuesMatchParked
    <3> QED
      BY <2>0, <3>1, <3>2
  <2>2. CASE WakeReaders
    <3>1. QueuedWriters = {}
      BY <2>2 DEF WakeReaders, QueuedWriters, Members
    <3>2. parked \subseteq waitingReaders
      BY <3>1 DEF QueuesMatchParked
    <3> QED
      BY <2>2, <3>2 DEF WakeReaders, WithoutReaders
  <2> QED
    BY <1>3, <2>1, <2>2 DEF ReleaseLast, WakeWaiters
<1>4. CASE UNCHANGED vars
  BY <1>4 DEF vars
<1> QED
  BY <1>1, <1>2, <1>3, <1>4 DEF Next, Release

\* Every state of the lock satisfies the inductive invariant.
LEMMA Inductive == Spec => []IInv
<1>1. IInv /\ [Next]_vars => IInv'
  BY TypeStep, ExclusionStep, QueuesStep, WakeupStep DEF IInv
<1> QED
  BY InitHolds, <1>1, PTL DEF Spec

\* The types hold throughout.
THEOREM TypeCorrect == Spec => []TypeOK
BY Inductive, PTL DEF IInv

\* Writers exclude everybody, and the hold counts agree with the mode.
THEOREM WritersExclude == Spec => []Exclusion
BY Inductive, PTL DEF IInv

\* The scheduler's parked threads are exactly those in the queues.
THEOREM QueuesAgree == Spec => []QueuesMatchParked
BY Inductive, PTL DEF IInv

\* A free lock with waiters has one of them on its way.
THEOREM WakeupsArrive == Spec => []NoLostWakeup
BY Inductive, PTL DEF IInv
-----------------------------------------------------------------------------
\* Every step of the lock is a step of the abstract lock or leaves it alone.
LEMMA StepRefines == IInv /\ IInv' /\ [Next]_vars => [Abstract!Next]_Abstract!vars
<1> SUFFICES ASSUME IInv, IInv', [Next]_vars PROVE [Abstract!Next]_Abstract!vars
  OBVIOUS
<1> DEFINE Readers == {t \in Threads : readers[t] > 0}
           Writers == {t \in Threads : writer = t}
<1> USE ThreadAssumption DEF IInv, TypeOK, Exclusion, Abstract!vars
<1>1. ASSUME NEW t \in Threads, GetRead(t) PROVE Abstract!Read(t)
  <2>1. Writers = {} /\ Writers' = Writers
    BY <1>1 DEF GetRead, MayRead
  <2>2. Readers' = Readers \cup {t}
    BY <1>1 DEF GetRead
  <2> QED
    BY <2>1, <2>2 DEF Abstract!Read
<1>2. ASSUME NEW t \in Threads, ParkReader(t) \/ ParkWriter(t) \/ ReenterWrite(t)
      PROVE UNCHANGED Abstract!vars
  BY <1>2 DEF ParkReader, ParkWriter, ReenterWrite
<1>3. ASSUME NEW t \in Threads, GetWrite(t) PROVE Abstract!Write(t)
  <2>1. Readers = {} /\ Writers = {} /\ Readers' = Readers
    BY <1>3 DEF GetWrite, MayWrite
  <2>2. Writers' = {t}
    BY <1>3 DEF GetWrite
  <2> QED
    BY <2>1, <2>2 DEF Abstract!Write
<1>4. ASSUME NEW t \in Threads, Release(t) PROVE Abstract!Done(t) \/ UNCHANGED Abstract!vars
  <2>1. CASE HoldsWrite(t) /\ wcount > 1
    BY <1>4, <2>1 DEF Release, ReleasePart, ReleaseLast, HoldsWrite, HoldsRead
  <2>2. CASE HoldsWrite(t) /\ ~(wcount > 1)
    <3>1. ReleaseLast(t) /\ readers' = readers /\ writer' = NoThread
      BY <1>4, <2>2 DEF Release, ReleasePart, ReleaseLast, HoldsWrite, HoldsRead
    <3>2. Readers = {} /\ Readers' = {} /\ Writers = {t} /\ Writers' = {}
      BY <2>2, <3>1 DEF HoldsWrite
    <3> QED
      BY <3>2 DEF Abstract!Done
  <2>3. CASE HoldsRead(t)
    <3>1. readers' = [readers EXCEPT ![t] = @ - 1] /\ writer' = writer
      BY <1>4, <2>3 DEF Release, ReleasePart, ReleaseLast, HoldsWrite, HoldsRead
    <3>2. Writers = {} /\ Writers' = {} /\ t \in Readers
      BY <2>3, <3>1 DEF HoldsRead
    <3>3. Readers' = IF readers[t] = 1 THEN Readers \ {t} ELSE Readers
      BY <2>3, <3>1 DEF HoldsRead
    <3> QED
      BY <3>2, <3>3 DEF Abstract!Done
  <2> QED
    BY <1>4, <2>1, <2>2, <2>3 DEF Release, ReleasePart, ReleaseLast
<1>5. CASE UNCHANGED vars
  BY <1>5 DEF vars
<1> QED
  BY <1>1, <1>2, <1>3, <1>4, <1>5 DEF Next, Acquire, Abstract!Next

\* The lock implements the abstract readers-writer lock, re-entrance included.
THEOREM Refinement == Spec => ImplementsRWLock
<1>1. Init => Abstract!Init
  BY ThreadAssumption DEF Init, Abstract!Init
<1> QED
  BY <1>1, Inductive, StepRefines, PTL DEF Spec, ImplementsRWLock, Abstract!Spec
=============================================================================
