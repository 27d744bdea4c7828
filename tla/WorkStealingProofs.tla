------------------------- MODULE WorkStealingProofs -------------------------
(***************************************************************************)
(* WorkStealing for any number of workers, restarts and tasks, and any     *)
(* capacity: type correctness, that nobody takes from an empty deque, and  *)
(* that an accepted task is in one place until it has been executed.       *)
(***************************************************************************)
EXTENDS WorkStealing, SequenceTheorems, FiniteSetTheorems, TLAPS

\* The calls of start() that have passed its test stay within their bound.
StartsBounded == starts + starting <= MaxStarts

\* Who acts on a deque has the lock it took for that, and a thief has a victim.
LocksHeld ==
  \A p \in Threads :
    /\ pc[p] \in {"popFast", "popSlow"} => bottomLock[Index(p)] = p
    /\ pc[p] = "stealFast" => stealLock[victim[p]] = p
    /\ pc[p] = "stealBoth" => bottomLock[victim[p]] = p
    /\ pc[p] \in {"stealFast", "stealSlow", "stealBoth"} => victim[p] \in Workers

\* On a fast path the task that was seen is still there, and when both ends are
\* on theirs there are two.
Enough ==
  /\ \A p \in Threads : pc[p] = "popFast" => Len(deque[Index(p)]) >= 1
  /\ \A p \in Threads : pc[p] = "stealFast" => Len(deque[victim[p]]) >= 1
  /\ \A p, q \in Threads :
       pc[p] = "popFast" /\ pc[q] = "stealFast" /\ victim[q] = Index(p)
         => Len(deque[Index(p)]) >= 2

\* A thread has a task in hand when it executes one.
HandsFull == \A p \in Threads : hand[p] # None <=> pc[p] = "execute"

\* Two places never hold the same task.
OnePlace ==
  /\ \A w, u \in Workers : \A m \in 1..Len(deque[w]), n \in 1..Len(deque[u]) :
       deque[w][m] = deque[u][n] => w = u /\ m = n
  /\ \A w \in Workers, p \in Threads : \A n \in 1..Len(deque[w]) : hand[p] # deque[w][n]
  /\ \A p, q \in Threads : hand[p] = hand[q] /\ hand[p] # None => p = q

IsQueued(t) == \E w \in Workers : \E n \in 1..Len(deque[w]) : deque[w][n] = t
IsHeld(t) == \E p \in Threads : hand[p] = t

\* A task has a place as long as it has been accepted and not executed.
HasPlace == \A t \in Tasks : status[t] = "submitted" <=> (IsQueued(t) \/ IsHeld(t))

\* The threads of a start that is to come have not run.
NotStarted == \A p \in Threads : p[2] > starts => pc[p] = "idle"

Places == HandsFull /\ OnePlace /\ HasPlace

IInv ==
  /\ TypeOK
  /\ StartsBounded
  /\ LocksHeld
  /\ Enough
  /\ NobodyBreaks
-----------------------------------------------------------------------------
\* The worker of a thread is a worker.
LEMMA IndexIsWorker == \A p \in Threads : Index(p) \in Workers
BY DEF Threads, Index

\* A sequence without its n-th element.
LEMMA WithoutOne ==
  ASSUME NEW S, NEW s \in Seq(S), NEW n \in 1..Len(s)
  PROVE  /\ SubSeq(s, 1, n - 1) \o SubSeq(s, n + 1, Len(s)) \in Seq(S)
         /\ Len(SubSeq(s, 1, n - 1) \o SubSeq(s, n + 1, Len(s))) = Len(s) - 1
         /\ \A i \in 1..(Len(s) - 1) :
              (SubSeq(s, 1, n - 1) \o SubSeq(s, n + 1, Len(s)))[i] =
                s[IF i < n THEN i ELSE i + 1]
<1> DEFINE a == SubSeq(s, 1, n - 1)
           b == SubSeq(s, n + 1, Len(s))
<1>1. /\ Len(s) \in Nat /\ n \in Int
      /\ \A i \in 1..Len(s) : s[i] \in S
  OBVIOUS
<1>2. /\ a \in Seq(S) /\ Len(a) = n - 1
      /\ \A i \in 1..(n - 1) : a[i] = s[i]
  <2>1. \A i \in 1..(n - 1) : s[i] \in S
    BY <1>1
  <2>2. /\ a \in Seq(S)
        /\ Len(a) = IF 1 <= n - 1 THEN (n - 1) - 1 + 1 ELSE 0
        /\ \A i \in 1..((n - 1) - 1 + 1) : a[i] = s[1 + i - 1]
    BY <1>1, <2>1, SubSeqProperties
  <2> QED
    BY <1>1, <2>2
<1>3. /\ b \in Seq(S) /\ Len(b) = Len(s) - n
      /\ \A i \in 1..(Len(s) - n) : b[i] = s[n + i]
  <2>1. \A i \in (n + 1)..Len(s) : s[i] \in S
    BY <1>1
  <2>2. /\ b \in Seq(S)
        /\ Len(b) = IF n + 1 <= Len(s) THEN Len(s) - (n + 1) + 1 ELSE 0
        /\ \A i \in 1..(Len(s) - (n + 1) + 1) : b[i] = s[(n + 1) + i - 1]
    BY <1>1, <2>1, SubSeqProperties
  <2> QED
    BY <1>1, <2>2
<1>4. /\ a \o b \in Seq(S)
      /\ Len(a \o b) = Len(a) + Len(b)
      /\ \A i \in 1..(Len(a) + Len(b)) :
           (a \o b)[i] = IF i <= Len(a) THEN a[i] ELSE b[i - Len(a)]
  BY <1>2, <1>3, ConcatProperties
<1> HIDE DEF a, b
<1>5. \A i \in 1..(Len(s) - 1) : (a \o b)[i] = s[IF i < n THEN i ELSE i + 1]
  <2> TAKE i \in 1..(Len(s) - 1)
  <2>1. CASE i < n
    BY <1>1, <1>2, <1>3, <1>4, <2>1
  <2>2. CASE i >= n
    <3>1. (a \o b)[i] = b[i - (n - 1)]
      BY <1>1, <1>2, <1>3, <1>4, <2>2
    <3>2. b[i - (n - 1)] = s[n + (i - (n - 1))]
      BY <1>1, <1>3, <2>2
    <3>3. n + (i - (n - 1)) = i + 1
      BY <1>1
    <3> QED
      BY <1>1, <2>2, <3>1, <3>2, <3>3
  <2>3. i < n \/ i >= n
    BY <1>1
  <2> QED
    BY <2>1, <2>2, <2>3, Zenon
<1>6. Len(a \o b) = Len(s) - 1
  BY <1>1, <1>2, <1>3, <1>4
<1> QED
  BY <1>4, <1>5, <1>6, Zenon DEF a, b

\* What a take does to the deques and to the hands.
LEMMA TakesOne ==
  ASSUME TypeOK, NEW p \in Threads, NEW w \in Workers, NEW n \in 1..Len(deque[w]),
         Takes(p, w, n)
  PROVE  /\ deque' \in [Workers -> Seq(Tasks)]
         /\ Len(deque'[w]) = Len(deque[w]) - 1
         /\ \A i \in 1..Len(deque'[w]) : deque'[w][i] = deque[w][IF i < n THEN i ELSE i + 1]
         /\ \A u \in Workers \ {w} : deque'[u] = deque[u]
         /\ deque[w][n] \in Tasks
         /\ hand' = [hand EXCEPT ![p] = deque[w][n]]
         /\ pc' = [pc EXCEPT ![p] = "execute"]
<1>1. deque[w] \in Seq(Tasks)
  BY DEF TypeOK
<1> DEFINE s == deque[w]
           t == SubSeq(s, 1, n - 1) \o SubSeq(s, n + 1, Len(s))
<1>2. /\ t \in Seq(Tasks) /\ Len(t) = Len(s) - 1
      /\ \A i \in 1..(Len(s) - 1) : t[i] = s[IF i < n THEN i ELSE i + 1]
  BY <1>1, WithoutOne
<1>3. deque' = [deque EXCEPT ![w] = t]
  BY DEF Takes
<1> HIDE DEF t
<1>4. deque' \in [Workers -> Seq(Tasks)] /\ deque'[w] = t
      /\ \A u \in Workers \ {w} : deque'[u] = deque[u]
  BY <1>2, <1>3 DEF TypeOK
<1>5. deque[w][n] \in Tasks
  BY <1>1
<1> QED
  BY <1>2, <1>4, <1>5 DEF Takes, Goto
-----------------------------------------------------------------------------
\* A pool that was not started is in the invariant.
LEMMA InitHolds == Init => IInv
<1> SUFFICES ASSUME Init PROVE IInv
  OBVIOUS
<1>1. <<>> \in Seq(Tasks)
  OBVIOUS
<1>2. TypeOK
  <2>1. /\ deque \in [Workers -> Seq(Tasks)]
        /\ bottomLock \in [Workers -> Threads \cup {None}]
        /\ stealLock \in [Workers -> Threads \cup {None}]
    BY <1>1 DEF Init
  <2>2. running \in BOOLEAN /\ starts \in 0..MaxStarts /\ starting \in 0..MaxStarts /\ exits \in 0..MaxExits
    <3>1. 0 \in 0..MaxStarts /\ 0 \in 0..MaxExits
      BY BoundAssumption
    <3>2. running = FALSE /\ starts = 0 /\ starting = 0 /\ exits = 0
      BY DEF Init
    <3> QED
      BY <3>1, <3>2
  <2>3. /\ victim \in [Threads -> Workers \cup {None}]
        /\ rest \in [Threads -> SUBSET Workers]
        /\ hand \in [Threads -> Tasks \cup {None}]
    BY DEF Init
  <2> QED
    BY <2>1, <2>2, <2>3 DEF Init, TypeOK
<1>3. StartsBounded
  BY BoundAssumption DEF Init, StartsBounded
<1>4. LocksHeld /\ Enough /\ NobodyBreaks
  BY DEF Init, LocksHeld, Enough, NobodyBreaks
<1> QED
  BY <1>2, <1>3, <1>4 DEF IInv

\* Where a thread acts on a deque, that deque is a worker's and has what it saw.
LEMMA Acting ==
  ASSUME IInv, NEW p \in Threads
  PROVE  /\ Index(p) \in Workers
         /\ pc[p] = "popFast" => deque[Index(p)] # <<>> /\ Bottom(Index(p)) \in 1..Len(deque[Index(p)])
         /\ pc[p] = "popSlow" /\ deque[Index(p)] # <<>> => Bottom(Index(p)) \in 1..Len(deque[Index(p)])
         /\ pc[p] \in {"stealFast", "stealSlow", "stealBoth"} => victim[p] \in Workers
         /\ pc[p] = "stealFast" => deque[victim[p]] # <<>> /\ Top(victim[p]) \in 1..Len(deque[victim[p]])
         /\ pc[p] = "stealBoth" /\ deque[victim[p]] # <<>> => Top(victim[p]) \in 1..Len(deque[victim[p]])
<1>1. Index(p) \in Workers
  BY IndexIsWorker
<1>2. \A w \in Workers : /\ deque[w] \in Seq(Tasks)
                        /\ Len(deque[w]) \in Nat
                        /\ deque[w] # <<>> <=> Len(deque[w]) >= 1
  BY EmptySeq DEF IInv, TypeOK
<1>3. pc[p] \in {"stealFast", "stealSlow", "stealBoth"} => victim[p] \in Workers
  BY DEF IInv, LocksHeld
<1>4. \A w \in Workers : deque[w] # <<>> => Bottom(w) \in 1..Len(deque[w]) /\ Top(w) \in 1..Len(deque[w])
  BY <1>2 DEF Bottom, Top
<1>5. pc[p] = "popFast" => deque[Index(p)] # <<>>
  BY <1>1, <1>2 DEF IInv, Enough
<1>6. pc[p] = "stealFast" => deque[victim[p]] # <<>>
  BY <1>2, <1>3 DEF IInv, Enough
<1> QED
  BY <1>1, <1>3, <1>4, <1>5, <1>6

\* Every variable keeps its type, the starts their bound.
LEMMA TypeStep == IInv /\ [Next]_vars => TypeOK' /\ StartsBounded'
<1> SUFFICES ASSUME IInv, [Next]_vars PROVE TypeOK' /\ StartsBounded'
  OBVIOUS
<1> USE BoundAssumption DEF TypeOK, StartsBounded, Goto, locks, pool
<1>0. TypeOK /\ StartsBounded
  BY DEF IInv
<1>1. ASSUME NEW w \in Workers, NEW t \in Tasks, Submit(w, t) PROVE TypeOK' /\ StartsBounded'
  <2>1. Append(deque[w], t) \in Seq(Tasks)
    BY <1>0, <1>1
  <2>2. deque' \in [Workers -> Seq(Tasks)]
    BY <1>0, <1>1, <2>1 DEF Submit
  <2> QED
    BY <1>0, <1>1, <2>2 DEF Submit
<1>2. CASE CallStart
  BY <1>0, <1>2 DEF CallStart
<1>3. CASE StartThreads
  BY <1>0, <1>3 DEF StartThreads
<1>4. CASE Stop
  BY <1>0, <1>4 DEF Stop
<1>5. ASSUME NEW p \in Threads, Step(p) PROVE TypeOK' /\ StartsBounded'
  <2>1. Again \in {"pop", "ended"}
    BY DEF Again
  <2> Others(p) \in SUBSET Workers
    BY DEF Others
  <2>2. CASE Loop(p)
    BY <1>0, <2>1, <2>2 DEF Loop
  <2>3. CASE PopLooks(p)
    BY <1>0, <2>3, IndexIsWorker DEF PopLooks
  <2>4. CASE PopFast(p)
    <3>1. Takes(p, Index(p), Bottom(Index(p)))
      BY <2>4, Acting DEF PopFast
    <3>2. /\ deque' \in [Workers -> Seq(Tasks)]
          /\ deque[Index(p)][Bottom(Index(p))] \in Tasks
          /\ hand' = [hand EXCEPT ![p] = deque[Index(p)][Bottom(Index(p))]]
          /\ pc' = [pc EXCEPT ![p] = "execute"]
      BY <1>0, <2>4, <3>1, Acting, TakesOne DEF PopFast
    <3> QED
      BY <1>0, <2>4, <3>2, Acting DEF PopFast
  <2>5. CASE PopSlow(p)
    <3>1. CASE deque[Index(p)] = <<>>
      BY <1>0, <2>5, <3>1 DEF PopSlow
    <3>2. CASE deque[Index(p)] # <<>>
      <4>1. Takes(p, Index(p), Bottom(Index(p)))
        BY <2>5, <3>2 DEF PopSlow
      <4>2. /\ deque' \in [Workers -> Seq(Tasks)]
            /\ deque[Index(p)][Bottom(Index(p))] \in Tasks
            /\ hand' = [hand EXCEPT ![p] = deque[Index(p)][Bottom(Index(p))]]
            /\ pc' = [pc EXCEPT ![p] = "execute"]
        BY <1>0, <2>5, <3>2, <4>1, Acting, TakesOne DEF PopSlow
      <4> QED
        BY <1>0, <2>5, <3>2, <4>2 DEF PopSlow
    <3> QED
      BY <3>1, <3>2
  <2>6. CASE FindNothing(p)
    BY <1>0, <2>1, <2>6 DEF FindNothing
  <2>7. ASSUME NEW v \in Workers, StealLooks(p, v) PROVE TypeOK' /\ StartsBounded'
    BY <1>0, <2>7 DEF StealLooks
  <2>8. CASE StealFast(p)
    <3>1. Takes(p, victim[p], Top(victim[p]))
      BY <2>8, Acting DEF StealFast
    <3>2. /\ deque' \in [Workers -> Seq(Tasks)]
          /\ deque[victim[p]][Top(victim[p])] \in Tasks
          /\ hand' = [hand EXCEPT ![p] = deque[victim[p]][Top(victim[p])]]
          /\ pc' = [pc EXCEPT ![p] = "execute"]
      BY <1>0, <2>8, <3>1, Acting, TakesOne DEF StealFast
    <3> QED
      BY <1>0, <2>8, <3>2, Acting DEF StealFast
  <2>9. CASE StealSlow(p)
    BY <1>0, <2>9 DEF StealSlow
  <2>10. CASE StealBoth(p)
    <3>1. CASE deque[victim[p]] = <<>>
      BY <1>0, <2>10, <3>1 DEF StealBoth
    <3>2. CASE deque[victim[p]] # <<>>
      <4>1. Takes(p, victim[p], Top(victim[p]))
        BY <2>10, <3>2 DEF StealBoth
      <4>2. /\ deque' \in [Workers -> Seq(Tasks)]
            /\ deque[victim[p]][Top(victim[p])] \in Tasks
            /\ hand' = [hand EXCEPT ![p] = deque[victim[p]][Top(victim[p])]]
            /\ pc' = [pc EXCEPT ![p] = "execute"]
        BY <1>0, <2>10, <3>2, <4>1, Acting, TakesOne DEF StealBoth
      <4> QED
        BY <1>0, <2>10, <3>2, <4>2 DEF StealBoth
    <3> QED
      BY <3>1, <3>2
  <2>11. CASE HandlerEnds(p)
    BY <1>0, <2>1, <2>11 DEF HandlerEnds, Executed
  <2>12. CASE HandlerExits(p)
    <3>1. exits' \in 0..MaxExits
      BY <1>0, <2>12 DEF HandlerExits
    <3>2. status' \in [Tasks -> {"new", "submitted", "refused", "executed"}]
      BY <1>0, <2>12 DEF HandlerExits, Executed
    <3> QED
      BY <1>0, <2>12, <3>1, <3>2 DEF HandlerExits, Executed
  <2> QED
    BY <1>5, <2>2, <2>3, <2>4, <2>5, <2>6, <2>7, <2>8, <2>9, <2>10, <2>11, <2>12 DEF Step
<1>6. CASE UNCHANGED vars
  BY <1>0, <1>6 DEF vars
<1> QED
  BY <1>1, <1>2, <1>3, <1>4, <1>5, <1>6 DEF Next
-----------------------------------------------------------------------------
\* Locks change hands only when they are free or given up by their holder.
LEMMA LocksStep == IInv /\ TypeOK' /\ [Next]_vars => LocksHeld'
<1> SUFFICES ASSUME IInv, TypeOK', [Next]_vars PROVE LocksHeld'
  OBVIOUS
<1>0. TypeOK /\ LocksHeld
  BY DEF IInv
<1> USE <1>0, NoneAssumption, IndexIsWorker DEF TypeOK, LocksHeld, Goto, locks, pool
<1>1. ASSUME NEW w \in Workers, NEW t \in Tasks, Submit(w, t) PROVE LocksHeld'
  BY <1>1 DEF Submit
<1>2. CASE CallStart
  BY <1>2 DEF CallStart
<1>3. CASE StartThreads
  BY <1>3 DEF StartThreads
<1>4. CASE Stop
  BY <1>4 DEF Stop
<1>5. ASSUME NEW p \in Threads, Step(p) PROVE LocksHeld'
  <2>1. Again \in {"pop", "ended"}
    BY DEF Again
  <2>2. CASE Loop(p)
    BY <2>1, <2>2 DEF Loop
  <2>3. CASE PopLooks(p)
    BY <2>3 DEF PopLooks
  <2>4. CASE PopFast(p)
    BY <2>4 DEF PopFast, Takes, Breaks
  <2>5. CASE PopSlow(p)
    BY <2>5 DEF PopSlow, Takes
  <2>6. CASE FindNothing(p)
    BY <2>1, <2>6 DEF FindNothing
  <2>7. ASSUME NEW v \in Workers, StealLooks(p, v) PROVE LocksHeld'
    BY <2>7 DEF StealLooks
  <2>8. CASE StealFast(p)
    BY <2>8 DEF StealFast, Takes, Breaks
  <2>9. CASE StealSlow(p)
    BY <2>9 DEF StealSlow
  <2>10. CASE StealBoth(p)
    BY <2>10 DEF StealBoth, Takes
  <2>11. CASE HandlerEnds(p)
    BY <2>1, <2>11 DEF HandlerEnds, Executed
  <2>12. CASE HandlerExits(p)
    BY <2>12 DEF HandlerExits, Executed
  <2> QED
    BY <1>5, <2>2, <2>3, <2>4, <2>5, <2>6, <2>7, <2>8, <2>9, <2>10, <2>11, <2>12 DEF Step
<1>6. CASE UNCHANGED vars
  BY <1>6 DEF vars
<1> QED
  BY <1>1, <1>2, <1>3, <1>4, <1>5, <1>6 DEF Next

\* Nobody breaks: the thread that is about to take has seen a task that is there.
LEMMA BreakStep == IInv /\ TypeOK' /\ [Next]_vars => NobodyBreaks'
<1> SUFFICES ASSUME IInv, TypeOK', [Next]_vars PROVE NobodyBreaks'
  OBVIOUS
<1>0. TypeOK /\ NobodyBreaks
  BY DEF IInv
<1> USE <1>0 DEF TypeOK, NobodyBreaks, Goto
<1>1. ASSUME NEW w \in Workers, NEW t \in Tasks, Submit(w, t) PROVE NobodyBreaks'
  BY <1>1 DEF Submit
<1>2. CASE CallStart
  BY <1>2 DEF CallStart
<1>3. CASE StartThreads
  BY <1>3 DEF StartThreads
<1>4. CASE Stop
  BY <1>4 DEF Stop
<1>5. ASSUME NEW p \in Threads, Step(p) PROVE NobodyBreaks'
  <2>1. Again \in {"pop", "ended"}
    BY DEF Again
  <2>2. CASE Loop(p)
    BY <2>1, <2>2 DEF Loop
  <2>3. CASE PopLooks(p)
    BY <2>3 DEF PopLooks
  <2>4. CASE PopFast(p)
    BY <2>4, Acting DEF PopFast, Takes
  <2>5. CASE PopSlow(p)
    BY <2>5 DEF PopSlow, Takes
  <2>6. CASE FindNothing(p)
    BY <2>1, <2>6 DEF FindNothing
  <2>7. ASSUME NEW v \in Workers, StealLooks(p, v) PROVE NobodyBreaks'
    BY <2>7 DEF StealLooks
  <2>8. CASE StealFast(p)
    BY <2>8, Acting DEF StealFast, Takes
  <2>9. CASE StealSlow(p)
    BY <2>9 DEF StealSlow
  <2>10. CASE StealBoth(p)
    BY <2>10 DEF StealBoth, Takes
  <2>11. CASE HandlerEnds(p)
    BY <2>1, <2>11 DEF HandlerEnds, Executed
  <2>12. CASE HandlerExits(p)
    BY <2>12 DEF HandlerExits, Executed
  <2> QED
    BY <1>5, <2>2, <2>3, <2>4, <2>5, <2>6, <2>7, <2>8, <2>9, <2>10, <2>11, <2>12 DEF Step
<1>6. CASE UNCHANGED vars
  BY <1>6 DEF vars
<1> QED
  BY <1>1, <1>2, <1>3, <1>4, <1>5, <1>6 DEF Next

\* Nobody but the thread at work shortens the deque it works on, except from the
\* other end, which had its own task.
LEMMA EnoughStep == IInv /\ TypeOK' /\ LocksHeld' /\ [Next]_vars => Enough'
<1> SUFFICES ASSUME IInv, TypeOK', LocksHeld', [Next]_vars PROVE Enough'
  OBVIOUS
<1>0. TypeOK /\ LocksHeld /\ Enough
  BY DEF IInv
<1>a. /\ \A w \in Workers : Len(deque[w]) \in Nat
      /\ \A p \in Threads : Index(p) \in Workers
  BY <1>0, IndexIsWorker DEF TypeOK
\* A thread that takes from a deque leaves enough for the others that have looked.
<1>b. ASSUME NEW p \in Threads, NEW w \in Workers, NEW n \in 1..Len(deque[w]),
             Takes(p, w, n), victim' = [victim EXCEPT ![p] = victim'[p]],
             \A q \in Threads \ {p} : pc[q] = "popFast" /\ Index(q) = w =>
               pc[p] = "stealFast" /\ victim[p] = w,
             \A q \in Threads \ {p} : pc[q] = "stealFast" /\ victim[q] = w =>
               pc[p] = "popFast" /\ Index(p) = w,
             pc[p] = "popFast" => Index(p) = w,
             pc[p] = "stealFast" => victim[p] = w
      PROVE  Enough'
  <2>1. /\ Len(deque'[w]) = Len(deque[w]) - 1
        /\ \A u \in Workers \ {w} : deque'[u] = deque[u]
        /\ pc' = [pc EXCEPT ![p] = "execute"]
    BY <1>0, <1>b, TakesOne
  <2>2. /\ pc'[p] = "execute"
        /\ \A q \in Threads \ {p} : pc'[q] = pc[q] /\ victim'[q] = victim[q]
    BY <1>0, <1>b, <2>1 DEF TypeOK
  <2>3. ASSUME NEW q \in Threads, pc'[q] = "popFast"
        PROVE  Len(deque'[Index(q)]) >= 1
    <3>1. q # p /\ pc[q] = "popFast" /\ Index(q) \in Workers
      BY <1>a, <2>2, <2>3
    <3>2. CASE Index(q) = w
      BY <1>0, <1>a, <1>b, <2>1, <3>1, <3>2 DEF Enough
    <3>3. CASE Index(q) # w
      BY <1>0, <1>a, <2>1, <3>1, <3>3 DEF Enough
    <3> QED
      BY <3>2, <3>3
  <2>4. ASSUME NEW q \in Threads, pc'[q] = "stealFast"
        PROVE  Len(deque'[victim'[q]]) >= 1
    <3>1. q # p /\ pc[q] = "stealFast" /\ victim'[q] = victim[q] /\ victim[q] \in Workers
      BY <1>0, <2>2, <2>4 DEF LocksHeld
    <3>2. CASE victim[q] = w
      BY <1>0, <1>a, <1>b, <2>1, <3>1, <3>2 DEF Enough
    <3>3. CASE victim[q] # w
      BY <1>0, <1>a, <2>1, <3>1, <3>3 DEF Enough
    <3> QED
      BY <3>2, <3>3
  <2>5. ASSUME NEW q \in Threads, NEW r \in Threads,
               pc'[q] = "popFast", pc'[r] = "stealFast", victim'[r] = Index(q)
        PROVE  Len(deque'[Index(q)]) >= 2
    <3>1. /\ q # p /\ pc[q] = "popFast" /\ Index(q) \in Workers
          /\ r # p /\ pc[r] = "stealFast" /\ victim[r] = Index(q)
      BY <1>a, <2>2, <2>5
    <3>2. Index(q) # w
      BY <1>b, <3>1
    <3> QED
      BY <1>0, <2>1, <3>1, <3>2 DEF Enough
  <2> QED
    BY <2>3, <2>4, <2>5 DEF Enough
\* A step that takes nothing and puts nobody on a fast path.
<1>c. ASSUME UNCHANGED deque, UNCHANGED victim,
             \A q \in Threads : pc'[q] = pc[q] \/ pc'[q] \notin {"popFast", "stealFast"}
      PROVE  Enough'
  BY <1>0, <1>c DEF Enough
<1>1. ASSUME NEW w \in Workers, NEW t \in Tasks, Submit(w, t) PROVE Enough'
  <2>1. UNCHANGED pc /\ UNCHANGED victim
    BY <1>1 DEF Submit
  <2>2. \A u \in Workers : Len(deque'[u]) >= Len(deque[u]) /\ Len(deque'[u]) \in Nat
    <3>1. Len(Append(deque[w], t)) = Len(deque[w]) + 1
      BY <1>0 DEF TypeOK
    <3> QED
      BY <1>0, <1>a, <1>1, <3>1 DEF Submit, TypeOK
  <2> QED
    BY <1>0, <1>a, <2>1, <2>2 DEF Enough, LocksHeld
<1>2. CASE CallStart
  BY <1>c, <1>2 DEF CallStart
<1>3. CASE StartThreads
  BY <1>0, <1>c, <1>3 DEF StartThreads, TypeOK
<1>4. CASE Stop
  BY <1>c, <1>4 DEF Stop
<1>5. ASSUME NEW p \in Threads, Step(p) PROVE Enough'
  <2> USE DEF Goto
  <2>1. Again \in {"pop", "ended"}
    BY DEF Again
  <2>2. CASE Loop(p)
    BY <1>0, <1>c, <2>1, <2>2 DEF Loop, TypeOK
  <2>3. CASE PopLooks(p)
    <3>1. UNCHANGED deque /\ UNCHANGED victim
      BY <2>3 DEF PopLooks
    <3>2. \A q \in Threads \ {p} : pc'[q] = pc[q]
      BY <1>0, <2>3 DEF PopLooks, TypeOK
    <3>3. pc'[p] = "popFast" => Len(deque[Index(p)]) > 1
      BY <1>0, <2>3 DEF PopLooks, MoreThanOne, TypeOK
    <3>4. pc'[p] # "stealFast"
      BY <1>0, <2>3 DEF PopLooks, TypeOK
    <3> QED
      BY <1>0, <1>a, <3>1, <3>2, <3>3, <3>4 DEF Enough
  <2>4. CASE PopFast(p)
    <3>1. deque[Index(p)] # <<>> /\ Bottom(Index(p)) \in 1..Len(deque[Index(p)])
      BY <2>4, Acting DEF PopFast
    <3>2. Takes(p, Index(p), Bottom(Index(p))) /\ UNCHANGED victim /\ pc[p] = "popFast"
      BY <2>4, <3>1 DEF PopFast
    <3>3. victim' = [victim EXCEPT ![p] = victim'[p]]
      BY <1>0, <3>2 DEF TypeOK
    <3>4. \A q \in Threads \ {p} : ~(pc[q] = "popFast" /\ Index(q) = Index(p))
      BY <1>0, <3>2 DEF LocksHeld
    <3> QED
      BY <1>a, <1>b, <3>1, <3>2, <3>3, <3>4
  <2>5. CASE PopSlow(p)
    <3>1. CASE deque[Index(p)] = <<>>
      BY <1>0, <1>c, <2>5, <3>1 DEF PopSlow, TypeOK
    <3>2. CASE deque[Index(p)] # <<>>
      <4>1. Takes(p, Index(p), Bottom(Index(p))) /\ UNCHANGED victim /\ pc[p] = "popSlow"
        BY <2>5, <3>2 DEF PopSlow
      <4>2. Bottom(Index(p)) \in 1..Len(deque[Index(p)])
        BY <3>2, <4>1, Acting
      <4>3. victim' = [victim EXCEPT ![p] = victim'[p]]
        BY <1>0, <4>1 DEF TypeOK
      <4>4. \A q \in Threads \ {p} : ~(pc[q] = "popFast" /\ Index(q) = Index(p))
        BY <1>0, <4>1 DEF LocksHeld
      <4>5. \A q \in Threads \ {p} : ~(pc[q] = "stealFast" /\ victim[q] = Index(p))
        BY <1>0, <2>5, NoneAssumption DEF PopSlow, LocksHeld
      <4> QED
        BY <1>a, <1>b, <4>1, <4>2, <4>3, <4>4, <4>5
    <3> QED
      BY <3>1, <3>2
  <2>6. CASE FindNothing(p)
    BY <1>0, <1>c, <2>1, <2>6 DEF FindNothing, TypeOK
  <2>7. ASSUME NEW v \in Workers, StealLooks(p, v) PROVE Enough'
    <3>1. UNCHANGED deque
      BY <2>7 DEF StealLooks
    <3>2. \A q \in Threads \ {p} : pc'[q] = pc[q] /\ victim'[q] = victim[q]
      BY <1>0, <2>7 DEF StealLooks, TypeOK
    <3>3. pc'[p] = "stealFast" => victim'[p] = v /\ Len(deque[v]) > 1
      BY <1>0, <2>7 DEF StealLooks, MoreThanOne, TypeOK
    <3>4. pc'[p] # "popFast"
      BY <1>0, <2>7 DEF StealLooks, TypeOK
    <3> QED
      BY <1>0, <1>a, <3>1, <3>2, <3>3, <3>4 DEF Enough
  <2>8. CASE StealFast(p)
    <3>1. victim[p] \in Workers /\ deque[victim[p]] # <<>> /\ Top(victim[p]) \in 1..Len(deque[victim[p]])
      BY <2>8, Acting DEF StealFast
    <3>2. /\ Takes(p, victim[p], Top(victim[p])) /\ pc[p] = "stealFast"
          /\ victim' = [victim EXCEPT ![p] = None]
      BY <2>8, <3>1 DEF StealFast
    <3>3. victim' = [victim EXCEPT ![p] = victim'[p]]
      BY <1>0, <3>2 DEF TypeOK
    <3>4. \A q \in Threads \ {p} : ~(pc[q] = "stealFast" /\ victim[q] = victim[p])
      BY <1>0, <3>2 DEF LocksHeld
    <3> QED
      BY <1>b, <3>1, <3>2, <3>3, <3>4
  <2>9. CASE StealSlow(p)
    BY <1>0, <1>c, <2>9 DEF StealSlow, TypeOK
  <2>10. CASE StealBoth(p)
    <3>0. /\ pc[p] = "stealBoth" /\ victim[p] \in Workers
          /\ victim' = [victim EXCEPT ![p] = None]
          /\ stealLock[victim[p]] \in {None, p}
      BY <2>10, Acting DEF StealBoth
    <3>1. CASE deque[victim[p]] = <<>>
      <4>1. UNCHANGED deque /\ pc' = [pc EXCEPT ![p] = "steal"]
        BY <2>10, <3>1 DEF StealBoth
      <4>2. /\ pc'[p] = "steal"
            /\ \A q \in Threads \ {p} : pc'[q] = pc[q] /\ victim'[q] = victim[q]
        BY <1>0, <3>0, <4>1 DEF TypeOK
      <4> QED
        BY <1>0, <4>1, <4>2 DEF Enough
    <3>2. CASE deque[victim[p]] # <<>>
      <4>1. Takes(p, victim[p], Top(victim[p]))
        BY <2>10, <3>2 DEF StealBoth
      <4>2. Top(victim[p]) \in 1..Len(deque[victim[p]])
        BY <3>0, <3>2, Acting
      <4>3. victim' = [victim EXCEPT ![p] = victim'[p]]
        BY <1>0, <3>0 DEF TypeOK
      <4>4. \A q \in Threads \ {p} : ~(pc[q] = "popFast" /\ Index(q) = victim[p])
        BY <1>0, <3>0 DEF LocksHeld
      <4>5. \A q \in Threads \ {p} : ~(pc[q] = "stealFast" /\ victim[q] = victim[p])
        BY <1>0, <3>0, NoneAssumption DEF LocksHeld
      <4> QED
        BY <1>b, <3>0, <4>1, <4>2, <4>3, <4>4, <4>5
    <3> QED
      BY <3>1, <3>2
  <2>11. CASE HandlerEnds(p)
    BY <1>0, <1>c, <2>1, <2>11 DEF HandlerEnds, Executed, TypeOK
  <2>12. CASE HandlerExits(p)
    BY <1>0, <1>c, <2>12 DEF HandlerExits, Executed, TypeOK
  <2> QED
    BY <1>5, <2>2, <2>3, <2>4, <2>5, <2>6, <2>7, <2>8, <2>9, <2>10, <2>11, <2>12 DEF Step
<1>6. CASE UNCHANGED vars
  BY <1>c, <1>6 DEF vars
<1> QED
  BY <1>1, <1>2, <1>3, <1>4, <1>5, <1>6 DEF Next

\* What the steps preserve.
LEMMA Invariance == Spec => []IInv
<1>1. IInv /\ [Next]_vars => IInv'
  <2> SUFFICES ASSUME IInv, [Next]_vars PROVE IInv'
    OBVIOUS
  <2>1. TypeOK' /\ StartsBounded'
    BY TypeStep
  <2>2. LocksHeld'
    BY <2>1, LocksStep
  <2> QED
    BY <2>1, <2>2, EnoughStep, BreakStep DEF IInv
<1> QED
  BY <1>1, InitHolds, PTL DEF Spec

\* Every variable of the pool keeps its type: the deques hold tasks only, a lock is
\* held by a thread or by nobody, and the bounds are kept.
THEOREM TypeCorrect == Spec => []TypeOK
<1>1. IInv => TypeOK
  BY DEF IInv
<1> QED
  BY <1>1, Invariance, PTL

\* Nobody takes from an empty deque, for any number of workers, tasks and restarts:
\* what pop_bottom and steal saw under one lock is still there when they act on it
\* without the other (deque.py:88, deque.py:126).
THEOREM NobodyTakesFromEmpty == Spec => []NobodyBreaks
<1>1. IInv => NobodyBreaks
  BY DEF IInv
<1> QED
  BY <1>1, Invariance, PTL
-----------------------------------------------------------------------------
\* A deque holds tasks.
LEMMA QueuedAreTasks ==
  ASSUME TypeOK
  PROVE  \A w \in Workers : Len(deque[w]) \in Nat /\ \A n \in 1..Len(deque[w]) : deque[w][n] \in Tasks
BY DEF TypeOK

\* Two positions of the deques that hold the same task are one.
LEMMA NoTwoPositions ==
  ASSUME OnePlace, NEW u \in Workers, NEW v \in Workers,
         NEW k \in 1..Len(deque[u]), NEW l \in 1..Len(deque[v]), deque[u][k] = deque[v][l]
  PROVE  u = v /\ k = l
<1>1. \A m \in 1..Len(deque[u]), n \in 1..Len(deque[v]) :
        deque[u][m] = deque[v][n] => u = v /\ m = n
  BY DEF OnePlace
<1> QED
  BY <1>1

\* Steps that move no task.
LEMMA NothingMoves ==
  ASSUME Places, UNCHANGED <<deque, hand, status>>,
         \A p \in Threads : pc'[p] = "execute" <=> pc[p] = "execute"
  PROVE  Places'
BY DEF Places, HandsFull, OnePlace, HasPlace, IsQueued, IsHeld

\* A task that is taken moves from one place to another.
LEMMA TakeMoves ==
  ASSUME TypeOK, Places, NEW p \in Threads, NEW w \in Workers, NEW n \in 1..Len(deque[w]),
         Takes(p, w, n), pc[p] # "execute", UNCHANGED status
  PROVE  Places'
<1> DEFINE task == deque[w][n]
           old(i) == IF i < n THEN i ELSE i + 1
<1>0. Places /\ hand[p] = None
  BY DEF Places, HandsFull
<1>1. /\ deque' \in [Workers -> Seq(Tasks)]
      /\ Len(deque'[w]) = Len(deque[w]) - 1
      /\ \A i \in 1..Len(deque'[w]) : deque'[w][i] = deque[w][old(i)]
      /\ \A u \in Workers \ {w} : deque'[u] = deque[u]
      /\ task \in Tasks
      /\ hand' = [hand EXCEPT ![p] = task]
      /\ pc' = [pc EXCEPT ![p] = "execute"]
  BY TakesOne
<1>2. task # None /\ None \notin Tasks
  BY <1>1, NoneAssumption
<1>3. /\ hand'[p] = task /\ pc'[p] = "execute"
      /\ \A q \in Threads \ {p} : hand'[q] = hand[q] /\ pc'[q] = pc[q]
  BY <1>1 DEF TypeOK
<1>4. Len(deque[w]) \in Nat /\ n \in Nat /\ n >= 1 /\ n <= Len(deque[w])
  BY QueuedAreTasks
\* The places of what stays: the same in other deques, and those around n in w's.
<1>5. /\ \A i \in 1..Len(deque'[w]) : old(i) \in 1..Len(deque[w]) /\ old(i) # n
      /\ \A i, j \in 1..Len(deque'[w]) : old(i) = old(j) => i = j
      /\ \A m \in 1..Len(deque[w]) : m # n => \E i \in 1..Len(deque'[w]) : old(i) = m
  <2>1. \A i \in 1..Len(deque'[w]) : old(i) \in 1..Len(deque[w]) /\ old(i) # n
    BY <1>1, <1>4
  <2>2. \A i, j \in 1..Len(deque'[w]) : old(i) = old(j) => i = j
    BY <1>1, <1>4
  <2>3. ASSUME NEW m \in 1..Len(deque[w]), m # n
        PROVE  \E i \in 1..Len(deque'[w]) : old(i) = m
    <3>1. CASE m < n
      <4>1. m \in 1..Len(deque'[w]) /\ old(m) = m
        BY <1>1, <1>4, <3>1
      <4> QED
        BY <4>1
    <3>2. CASE m > n
      <4>1. m - 1 \in 1..Len(deque'[w]) /\ old(m - 1) = m
        BY <1>1, <1>4, <3>2
      <4> QED
        BY <4>1
    <3> QED
      BY <1>4, <2>3, <3>1, <3>2
  <2> QED
    BY <2>1, <2>2, <2>3
<1> HIDE DEF task, old
<1>6. \A u \in Workers : \A i \in 1..Len(deque'[u]) :
        \E m \in 1..Len(deque[u]) :
          /\ deque'[u][i] = deque[u][m]
          /\ u = w => m = old(i) /\ m # n
          /\ u # w => m = i
  <2> TAKE u \in Workers
  <2> TAKE i \in 1..Len(deque'[u])
  <2>1. CASE u = w
    <3>1. old(i) \in 1..Len(deque[u]) /\ old(i) # n
      BY <1>5, <2>1
    <3>2. deque'[u][i] = deque[u][old(i)]
      BY <1>1, <2>1 DEF old
    <3> QED
      BY <2>1, <3>1, <3>2
  <2>2. CASE u # w
    BY <1>1, <2>2
  <2> QED
    BY <2>1, <2>2
<1>7. HandsFull'
  BY <1>0, <1>2, <1>3 DEF Places, HandsFull
<1>8. OnePlace'
  <2>0. /\ \A u, v \in Workers : \A i \in 1..Len(deque[u]), j \in 1..Len(deque[v]) :
              deque[u][i] = deque[v][j] => u = v /\ i = j
        /\ \A u \in Workers, q \in Threads : \A i \in 1..Len(deque[u]) : hand[q] # deque[u][i]
        /\ \A q, r \in Threads : hand[q] = hand[r] /\ hand[q] # None => q = r
    BY DEF Places, OnePlace
  <2>1. ASSUME NEW u \in Workers, NEW v \in Workers,
               NEW i \in 1..Len(deque'[u]), NEW j \in 1..Len(deque'[v]), deque'[u][i] = deque'[v][j]
        PROVE  u = v /\ i = j
    <3>1. PICK k \in 1..Len(deque[u]) : /\ deque'[u][i] = deque[u][k]
                                        /\ u = w => k = old(i) /\ k # n
                                        /\ u # w => k = i
      BY <1>6
    <3>2. PICK l \in 1..Len(deque[v]) : /\ deque'[v][j] = deque[v][l]
                                        /\ v = w => l = old(j) /\ l # n
                                        /\ v # w => l = j
      BY <1>6
    <3>3. u = v /\ k = l
      <4>1. deque[u][k] = deque[v][l]
        BY <2>1, <3>1, <3>2
      <4> QED
        BY <4>1, NoTwoPositions DEF Places
    <3>4. CASE u = w
      <4>1. old(i) = old(j)
        BY <3>1, <3>2, <3>3, <3>4
      <4>2. i \in 1..Len(deque'[w]) /\ j \in 1..Len(deque'[w])
        BY <3>3, <3>4
      <4>3. i = j
        BY <1>5, <4>1, <4>2
      <4> QED
        BY <3>3, <4>3
    <3>5. CASE u # w
      BY <3>1, <3>2, <3>3, <3>5
    <3> QED
      BY <3>4, <3>5
  <2>2. ASSUME NEW u \in Workers, NEW q \in Threads, NEW i \in 1..Len(deque'[u])
        PROVE  hand'[q] # deque'[u][i]
    <3>1. PICK k \in 1..Len(deque[u]) : deque'[u][i] = deque[u][k] /\ (u = w => k # n)
      BY <1>6
    <3>2. CASE q = p
      BY <1>3, <2>0, <3>1, <3>2 DEF task
    <3>3. CASE q # p
      BY <1>3, <2>0, <3>1, <3>3
    <3> QED
      BY <3>2, <3>3
  <2>3. ASSUME NEW q \in Threads, NEW r \in Threads, hand'[q] = hand'[r], hand'[q] # None
        PROVE  q = r
    <3>1. \A o \in Threads : hand[o] # task
      BY <2>0 DEF task
    <3> QED
      BY <1>3, <2>0, <2>3, <3>1
  <2> QED
    BY <2>1, <2>2, <2>3 DEF OnePlace
<1>9. HasPlace'
  <2> SUFFICES ASSUME NEW t \in Tasks
               PROVE  (IsQueued(t) \/ IsHeld(t))' <=> (IsQueued(t) \/ IsHeld(t))
    BY DEF Places, HasPlace
  <2>1. ASSUME IsHeld(t) PROVE IsHeld(t)'
    <3>1. PICK q \in Threads : hand[q] = t
      BY <2>1 DEF IsHeld
    <3>2. q # p
      BY <1>0, <1>2, <3>1
    <3> QED
      BY <1>3, <3>1, <3>2 DEF IsHeld
  <2>2. ASSUME IsQueued(t) PROVE (IsQueued(t) \/ IsHeld(t))'
    <3>1. PICK u \in Workers : \E m \in 1..Len(deque[u]) : deque[u][m] = t
      BY <2>2 DEF IsQueued
    <3>2. PICK m \in 1..Len(deque[u]) : deque[u][m] = t
      BY <3>1
    <3>3. CASE u # w
      BY <1>1, <3>2, <3>3 DEF IsQueued
    <3>4. CASE u = w /\ m = n
      BY <1>3, <3>2, <3>4 DEF IsHeld, task
    <3>5. CASE u = w /\ m # n
      <4>1. PICK i \in 1..Len(deque'[w]) : old(i) = m
        BY <1>5, <3>5
      <4>2. deque'[w][i] = t
        BY <1>1, <3>2, <3>5, <4>1
      <4> QED
        BY <4>2 DEF IsQueued
    <3> QED
      BY <3>3, <3>4, <3>5
  <2>3. ASSUME IsHeld(t)' PROVE IsQueued(t) \/ IsHeld(t)
    <3>1. PICK q \in Threads : hand'[q] = t
      BY <2>3 DEF IsHeld
    <3> QED
      BY <1>3, <3>1 DEF IsHeld, IsQueued, task
  <2>4. ASSUME IsQueued(t)' PROVE IsQueued(t)
    <3>1. PICK u \in Workers : \E i \in 1..Len(deque'[u]) : deque'[u][i] = t
      BY <2>4 DEF IsQueued
    <3>2. PICK i \in 1..Len(deque'[u]) : deque'[u][i] = t
      BY <3>1
    <3>3. PICK m \in 1..Len(deque[u]) : deque'[u][i] = deque[u][m]
      BY <1>6
    <3> QED
      BY <3>2, <3>3 DEF IsQueued
  <2> QED
    BY <2>1, <2>2, <2>3, <2>4
<1> QED
  BY <1>7, <1>8, <1>9 DEF Places

\* Before the first start no thread runs and no task has a place.
LEMMA InitPlaces == Init => NotStarted /\ Places
<1> SUFFICES ASSUME Init PROVE NotStarted /\ Places
  OBVIOUS
<1>1. \A w \in Workers : Len(deque[w]) = 0
  BY DEF Init
<1>2. \A p \in Threads : hand[p] = None /\ pc[p] = "idle"
  BY DEF Init
<1>3. \A t \in Tasks : ~IsQueued(t) /\ ~IsHeld(t) /\ status[t] = "new"
  BY <1>1, <1>2, NoneAssumption DEF Init, IsQueued, IsHeld
<1> QED
  BY <1>1, <1>2, <1>3 DEF NotStarted, Places, HandsFull, OnePlace, HasPlace

\* A thread that has not been started takes no step.
LEMMA NotStartedStep == IInv /\ NotStarted /\ [Next]_vars => NotStarted'
<1> SUFFICES ASSUME TypeOK, NotStarted, [Next]_vars PROVE NotStarted'
  BY DEF IInv
<1> USE DEF TypeOK, NotStarted, Goto, pool
<1>1. ASSUME NEW w \in Workers, NEW t \in Tasks, Submit(w, t) PROVE NotStarted'
  BY <1>1 DEF Submit
<1>2. CASE CallStart
  BY <1>2 DEF CallStart
<1>3. CASE StartThreads
  <2>1. \A p \in Threads : p[2] \in Int
    BY BoundAssumption DEF Threads
  <2> QED
    BY <1>3, <2>1 DEF StartThreads
<1>4. CASE Stop
  BY <1>4 DEF Stop
<1>5. ASSUME NEW p \in Threads, Step(p) PROVE NotStarted'
  <2>1. pc[p] # "idle"
    BY <1>5 DEF Step, Loop, PopLooks, PopFast, PopSlow, FindNothing, StealLooks, StealFast,
                StealSlow, StealBoth, HandlerEnds, HandlerExits, Executed
  <2>2. UNCHANGED starts
    BY <1>5 DEF Step, Loop, PopLooks, PopFast, PopSlow, FindNothing, StealLooks, StealFast,
                StealSlow, StealBoth, HandlerEnds, HandlerExits, Executed
  <2>3. \A q \in Threads \ {p} : pc'[q] = pc[q]
    BY <1>5 DEF Step, Loop, PopLooks, PopFast, PopSlow, FindNothing, StealLooks, StealFast,
                StealSlow, StealBoth, HandlerEnds, HandlerExits, Executed, Takes, Breaks
  <2> QED
    BY <2>1, <2>2, <2>3
<1>6. CASE UNCHANGED vars
  BY <1>6 DEF vars
<1> QED
  BY <1>1, <1>2, <1>3, <1>4, <1>5, <1>6 DEF Next

\* submit gives its task a place, or none when the deque is full.
LEMMA SubmitPlaces ==
  ASSUME TypeOK, Places, NEW w \in Workers, NEW t \in Tasks, Submit(w, t)
  PROVE  Places'
<1>0. /\ status[t] = "new"
      /\ UNCHANGED <<hand, pc>>
      /\ HandsFull'
  BY DEF Submit, Places, HandsFull
<1>1. ~IsQueued(t) /\ ~IsHeld(t)
  BY <1>0 DEF Places, HasPlace
<1>2. CASE Len(deque[w]) < Capacity
  <2>1. /\ deque' = [deque EXCEPT ![w] = Append(@, t)]
        /\ status' = [status EXCEPT ![t] = "submitted"]
    BY <1>2 DEF Submit
  <2> DEFINE n == Len(deque[w])
             added(u, i) == u = w /\ i = n + 1
  <2>2. deque[w] \in Seq(Tasks) /\ n \in Nat
    BY DEF TypeOK
  <2>3. /\ Len(Append(deque[w], t)) = n + 1
        /\ Append(deque[w], t)[n + 1] = t
        /\ \A i \in 1..n : Append(deque[w], t)[i] = deque[w][i]
    BY <2>2
  <2>4. /\ deque'[w] = Append(deque[w], t)
        /\ \A u \in Workers \ {w} : deque'[u] = deque[u]
    BY <2>1 DEF TypeOK
  <2>5. /\ n + 1 \in 1..Len(deque'[w]) /\ deque'[w][n + 1] = t
        /\ \A u \in Workers : \A i \in 1..Len(deque[u]) :
             i \in 1..Len(deque'[u]) /\ deque'[u][i] = deque[u][i] /\ ~added(u, i)
    <3>1. n + 1 \in 1..Len(deque'[w]) /\ deque'[w][n + 1] = t
      BY <2>2, <2>3, <2>4
    <3>2. ASSUME NEW u \in Workers, NEW i \in 1..Len(deque[u])
          PROVE  i \in 1..Len(deque'[u]) /\ deque'[u][i] = deque[u][i] /\ ~added(u, i)
      <4>1. CASE u = w
        BY <2>2, <2>3, <2>4, <4>1
      <4>2. CASE u # w
        BY <2>4, <4>2
      <4> QED
        BY <4>1, <4>2
    <3> QED
      BY <3>1, <3>2
  <2>6. \A u \in Workers : \A i \in 1..Len(deque'[u]) :
          \/ i \in 1..Len(deque[u]) /\ deque'[u][i] = deque[u][i]
          \/ added(u, i) /\ deque'[u][i] = t
    <3> TAKE u \in Workers
    <3> TAKE i \in 1..Len(deque'[u])
    <3>1. CASE u = w
      <4>1. i \in 1..n \/ i = n + 1
        BY <2>2, <2>3, <2>4, <3>1
      <4> QED
        BY <2>3, <2>4, <3>1, <4>1
    <3>2. CASE u # w
      BY <2>4, <3>2
    <3> QED
      BY <3>1, <3>2
  <2>7. /\ \A u \in Workers : \A i \in 1..Len(deque[u]) : deque[u][i] # t
        /\ \A p \in Threads : hand[p] # t
    BY <1>1 DEF IsQueued, IsHeld
  <2>8. OnePlace'
    <3>0. /\ \A u, v \in Workers : \A i \in 1..Len(deque[u]), j \in 1..Len(deque[v]) :
                deque[u][i] = deque[v][j] => u = v /\ i = j
          /\ \A u \in Workers, q \in Threads : \A i \in 1..Len(deque[u]) : hand[q] # deque[u][i]
          /\ \A q, r \in Threads : hand[q] = hand[r] /\ hand[q] # None => q = r
      BY DEF Places, OnePlace
    <3> HIDE DEF n
    <3>1. ASSUME NEW u \in Workers, NEW v \in Workers,
                 NEW i \in 1..Len(deque'[u]), NEW j \in 1..Len(deque'[v]), deque'[u][i] = deque'[v][j]
          PROVE  u = v /\ i = j
      <4>1. CASE added(u, i) /\ deque'[u][i] = t
        <5>1. added(v, j)
          BY <2>6, <2>7, <3>1, <4>1
        <5> QED
          BY <4>1, <5>1
      <4>2. CASE i \in 1..Len(deque[u]) /\ deque'[u][i] = deque[u][i]
        <5>1. j \in 1..Len(deque[v]) /\ deque'[v][j] = deque[v][j]
          BY <2>6, <2>7, <3>1, <4>2
        <5>2. deque[u][i] = deque[v][j]
          BY <3>1, <4>2, <5>1
        <5>3. i \in 1..Len(deque[u]) /\ j \in 1..Len(deque[v])
          BY <4>2, <5>1
        <5> QED
          BY <5>2, <5>3, NoTwoPositions DEF Places
      <4> QED
        BY <2>6, <4>1, <4>2
    <3>2. ASSUME NEW u \in Workers, NEW q \in Threads, NEW i \in 1..Len(deque'[u])
          PROVE  hand'[q] # deque'[u][i]
      BY <1>0, <2>6, <2>7, <3>0
    <3>3. \A q, r \in Threads : hand'[q] = hand'[r] /\ hand'[q] # None => q = r
      BY <1>0, <3>0
    <3> QED
      BY <3>1, <3>2, <3>3 DEF OnePlace
  <2>9. HasPlace'
    <3> SUFFICES ASSUME NEW o \in Tasks
                 PROVE  status'[o] = "submitted" <=> (IsQueued(o) \/ IsHeld(o))'
      BY DEF HasPlace
    <3>1. CASE o = t
      <4>1. IsQueued(t)'
        BY <2>5 DEF IsQueued
      <4> QED
        BY <2>1, <3>1, <4>1 DEF TypeOK
    <3>2. CASE o # t
      <4>1. IsQueued(o)' <=> IsQueued(o)
        <5>1. ASSUME IsQueued(o) PROVE IsQueued(o)'
          BY <2>5, <5>1 DEF IsQueued
        <5>2. ASSUME IsQueued(o)' PROVE IsQueued(o)
          <6>1. PICK u \in Workers : \E i \in 1..Len(deque'[u]) : deque'[u][i] = o
            BY <5>2 DEF IsQueued
          <6>2. PICK i \in 1..Len(deque'[u]) : deque'[u][i] = o
            BY <6>1
          <6>3. i \in 1..Len(deque[u]) /\ deque'[u][i] = deque[u][i]
            BY <2>6, <3>2, <6>2
          <6> QED
            BY <6>2, <6>3 DEF IsQueued
        <5> QED
          BY <5>1, <5>2
      <4>2. IsHeld(o)' <=> IsHeld(o)
        BY <1>0 DEF IsHeld
      <4>3. status'[o] = status[o]
        BY <2>1, <3>2 DEF TypeOK
      <4> QED
        BY <4>1, <4>2, <4>3 DEF Places, HasPlace
    <3> QED
      BY <3>1, <3>2
  <2> QED
    BY <1>0, <2>8, <2>9 DEF Places
<1>3. CASE ~(Len(deque[w]) < Capacity)
  <2>1. UNCHANGED deque /\ status' = [status EXCEPT ![t] = "refused"]
    BY <1>3 DEF Submit
  <2>2. \A o \in Tasks : status'[o] = "submitted" <=> status[o] = "submitted"
    BY <1>0, <2>1 DEF TypeOK
  <2> QED
    BY <1>0, <2>1, <2>2 DEF Places, HandsFull, OnePlace, HasPlace, IsQueued, IsHeld
<1> QED
  BY <1>2, <1>3

\* A task that has been executed is nowhere.
LEMMA ExecutedPlaces ==
  ASSUME TypeOK, Places, NEW p \in Threads, NEW l, l # "execute", Executed(p, l)
  PROVE  Places'
<1>0. /\ pc[p] = "execute"
      /\ status' = [status EXCEPT ![hand[p]] = "executed"]
      /\ hand' = [hand EXCEPT ![p] = None]
      /\ pc' = [pc EXCEPT ![p] = l]
      /\ UNCHANGED deque
  BY DEF Executed, Goto
<1>1. /\ hand'[p] = None /\ pc'[p] = l
      /\ \A q \in Threads \ {p} : hand'[q] = hand[q] /\ pc'[q] = pc[q]
  BY <1>0 DEF TypeOK
<1>2. hand[p] \in Tasks /\ IsHeld(hand[p])
  BY <1>0 DEF Places, HandsFull, TypeOK, IsHeld
<1>3. HandsFull'
  BY <1>1 DEF Places, HandsFull
<1>4. OnePlace'
  <2>1. /\ \A u, v \in Workers : \A i \in 1..Len(deque[u]), j \in 1..Len(deque[v]) :
              deque[u][i] = deque[v][j] => u = v /\ i = j
        /\ \A u \in Workers, q \in Threads : \A i \in 1..Len(deque[u]) : hand[q] # deque[u][i]
        /\ \A q, r \in Threads : hand[q] = hand[r] /\ hand[q] # None => q = r
    BY DEF Places, OnePlace
  <2>2. \A u \in Workers : \A i \in 1..Len(deque[u]) : deque[u][i] # None
    BY QueuedAreTasks, NoneAssumption
  <2>3. \A u \in Workers, q \in Threads : \A i \in 1..Len(deque[u]) : hand'[q] # deque[u][i]
    BY <1>1, <2>1, <2>2
  <2>4. \A q, r \in Threads : hand'[q] = hand'[r] /\ hand'[q] # None => q = r
    BY <1>1, <2>1
  <2> QED
    BY <1>0, <2>1, <2>3, <2>4 DEF OnePlace
<1>5. HasPlace'
  <2> SUFFICES ASSUME NEW t \in Tasks
               PROVE  status'[t] = "submitted" <=> (IsQueued(t) \/ IsHeld(t))'
    BY DEF HasPlace
  <2>1. IsQueued(t)' <=> IsQueued(t)
    BY <1>0 DEF IsQueued
  <2>2. CASE t = hand[p]
    <3>1. ~IsQueued(t)
      BY <2>2 DEF Places, OnePlace, IsQueued
    <3>2. ~IsHeld(t)'
      BY <1>1, <1>2, <2>2, NoneAssumption DEF Places, OnePlace, IsHeld
    <3>3. status'[t] = "executed"
      BY <1>0, <2>2 DEF TypeOK
    <3> QED
      BY <2>1, <3>1, <3>2, <3>3
  <2>3. CASE t # hand[p]
    <3>1. IsHeld(t)' <=> IsHeld(t)
      BY <1>1, <2>3, NoneAssumption DEF IsHeld
    <3>2. status'[t] = status[t]
      BY <1>0, <1>2, <2>3 DEF TypeOK
    <3> QED
      BY <2>1, <3>1, <3>2 DEF Places, HasPlace
  <2> QED
    BY <2>2, <2>3
<1> QED
  BY <1>3, <1>4, <1>5 DEF Places

\* Every task keeps the one place it has, until it has been executed.
LEMMA PlacesStep == IInv /\ NotStarted /\ Places /\ [Next]_vars => Places'
<1> SUFFICES ASSUME IInv, NotStarted, Places, [Next]_vars PROVE Places'
  OBVIOUS
<1>0. TypeOK
  BY DEF IInv
<1>1. ASSUME NEW w \in Workers, NEW t \in Tasks, Submit(w, t) PROVE Places'
  BY <1>0, <1>1, SubmitPlaces
<1>2. CASE CallStart
  BY <1>2, NothingMoves DEF CallStart
<1>3. CASE StartThreads
  <2>1. \A p \in Threads : p[2] \in Int
    BY BoundAssumption DEF Threads
  <2>2. \A p \in Threads : pc'[p] = "execute" <=> pc[p] = "execute"
    <3> TAKE p \in Threads
    <3>1. pc'[p] = IF p[2] = starts + 1 THEN "loop" ELSE pc[p]
      BY <1>0, <1>3 DEF StartThreads, TypeOK
    <3>2. p[2] = starts + 1 => pc[p] = "idle"
      BY <1>0, <2>1 DEF NotStarted, TypeOK
    <3> QED
      BY <3>1, <3>2
  <2> QED
    BY <1>3, <2>2, NothingMoves DEF StartThreads
<1>4. CASE Stop
  BY <1>4, NothingMoves DEF Stop
<1>5. ASSUME NEW p \in Threads, Step(p) PROVE Places'
  <2>1. Again \in {"pop", "ended"}
    BY DEF Again
\* A step of p that takes nothing and executes nothing.
  <2>a. ASSUME UNCHANGED <<deque, hand, status>>, pc[p] # "execute",
               NEW l, l # "execute", Goto(p, l) \/ UNCHANGED pc
        PROVE  Places'
    <3>1. \A q \in Threads : pc'[q] = "execute" <=> pc[q] = "execute"
      BY <1>0, <2>a DEF Goto, TypeOK
    <3> QED
      BY <2>a, <3>1, NothingMoves
  <2>2. CASE Loop(p)
    <3>1. /\ UNCHANGED <<deque, hand, status>> /\ pc[p] # "execute"
          /\ Goto(p, Again) /\ Again # "execute"
      BY <2>1, <2>2 DEF Loop
    <3> QED
      BY <2>a, <3>1
  <2>3. CASE PopLooks(p)
    <3>1. UNCHANGED <<deque, hand, status>> /\ pc[p] # "execute"
      BY <2>3 DEF PopLooks
    <3>2. Goto(p, "steal") \/ Goto(p, "popFast") \/ Goto(p, "popSlow")
      BY <2>3 DEF PopLooks
    <3> QED
      BY <2>a, <3>1, <3>2
  <2>4. CASE PopFast(p)
    <3>1. /\ Takes(p, Index(p), Bottom(Index(p)))
          /\ Index(p) \in Workers /\ Bottom(Index(p)) \in 1..Len(deque[Index(p)])
          /\ UNCHANGED status /\ pc[p] # "execute"
      BY <2>4, Acting DEF PopFast
    <3> QED
      BY <1>0, <3>1, TakeMoves
  <2>5. CASE PopSlow(p)
    <3>1. CASE deque[Index(p)] = <<>>
      <4>1. UNCHANGED <<deque, hand, status>> /\ pc[p] # "execute" /\ Goto(p, "steal")
        BY <2>5, <3>1 DEF PopSlow
      <4> QED
        BY <2>a, <4>1
    <3>2. CASE deque[Index(p)] # <<>>
      <4>1. /\ Takes(p, Index(p), Bottom(Index(p)))
            /\ Index(p) \in Workers /\ Bottom(Index(p)) \in 1..Len(deque[Index(p)])
            /\ UNCHANGED status /\ pc[p] # "execute"
        BY <2>5, <3>2, Acting DEF PopSlow
      <4> QED
        BY <1>0, <4>1, TakeMoves
    <3> QED
      BY <3>1, <3>2
  <2>6. CASE FindNothing(p)
    <3>1. /\ UNCHANGED <<deque, hand, status>> /\ pc[p] # "execute"
          /\ Goto(p, Again) /\ Again # "execute"
      BY <2>1, <2>6 DEF FindNothing
    <3> QED
      BY <2>a, <3>1
  <2>7. ASSUME NEW v \in Workers, StealLooks(p, v) PROVE Places'
    <3>1. UNCHANGED <<deque, hand, status>> /\ pc[p] # "execute"
      BY <2>7 DEF StealLooks
    <3>2. UNCHANGED pc \/ Goto(p, "stealFast") \/ Goto(p, "stealSlow")
      BY <2>7 DEF StealLooks
    <3> QED
      BY <2>a, <3>1, <3>2
  <2>8. CASE StealFast(p)
    <3>1. /\ Takes(p, victim[p], Top(victim[p]))
          /\ victim[p] \in Workers /\ Top(victim[p]) \in 1..Len(deque[victim[p]])
          /\ UNCHANGED status /\ pc[p] # "execute"
      BY <2>8, Acting DEF StealFast
    <3> QED
      BY <1>0, <3>1, TakeMoves
  <2>9. CASE StealSlow(p)
    <3>1. UNCHANGED <<deque, hand, status>> /\ pc[p] # "execute" /\ Goto(p, "stealBoth")
      BY <2>9 DEF StealSlow
    <3> QED
      BY <2>a, <3>1
  <2>10. CASE StealBoth(p)
    <3>1. CASE deque[victim[p]] = <<>>
      <4>1. UNCHANGED <<deque, hand, status>> /\ pc[p] # "execute" /\ Goto(p, "steal")
        BY <2>10, <3>1 DEF StealBoth
      <4> QED
        BY <2>a, <4>1
    <3>2. CASE deque[victim[p]] # <<>>
      <4>1. /\ Takes(p, victim[p], Top(victim[p]))
            /\ victim[p] \in Workers /\ Top(victim[p]) \in 1..Len(deque[victim[p]])
            /\ UNCHANGED status /\ pc[p] # "execute"
        BY <2>10, <3>2, Acting DEF StealBoth
      <4> QED
        BY <1>0, <4>1, TakeMoves
    <3> QED
      BY <3>1, <3>2
  <2>11. CASE HandlerEnds(p)
    <3>1. Executed(p, Again) /\ Again # "execute"
      BY <2>1, <2>11 DEF HandlerEnds
    <3> QED
      BY <1>0, <3>1, ExecutedPlaces
  <2>12. CASE HandlerExits(p)
    <3>1. Executed(p, "ended")
      BY <2>12 DEF HandlerExits
    <3> QED
      BY <1>0, <3>1, ExecutedPlaces
  <2> QED
    BY <1>5, <2>2, <2>3, <2>4, <2>5, <2>6, <2>7, <2>8, <2>9, <2>10, <2>11, <2>12 DEF Step
<1>6. CASE UNCHANGED vars
  BY <1>6, NothingMoves DEF vars
<1> QED
  BY <1>1, <1>2, <1>3, <1>4, <1>5, <1>6 DEF Next

\* Where a task is, counted: at most one position and one pair of hands.
LEMMA PlacesCount == TypeOK /\ Places => TakenOnce
<1> SUFFICES ASSUME TypeOK, Places, NEW t \in Tasks
             PROVE  Cardinality(Positions(t)) + Cardinality(Holders(t)) =
                      IF status[t] = "submitted" THEN 1 ELSE 0
  BY DEF TakenOnce
<1>1. \A x : x \in Positions(t) <=>
        \E w \in Workers : \E n \in 1..Len(deque[w]) : deque[w][n] = t /\ x = <<w, n>>
  BY DEF Positions
<1>2. Positions(t) = {} <=> ~IsQueued(t)
  BY <1>1 DEF IsQueued
<1>3. Holders(t) = {} <=> ~IsHeld(t)
  BY DEF Holders, IsHeld
<1>4. \A x, y \in Positions(t) : x = y
  BY <1>1 DEF Places, OnePlace
<1>5. \A x, y \in Holders(t) : x = y
  BY NoneAssumption DEF Holders, Places, OnePlace
<1>6. ~(IsQueued(t) /\ IsHeld(t))
  BY DEF Places, OnePlace, IsQueued, IsHeld
<1>7. \A S : S # {} /\ (\A x, y \in S : x = y) => Cardinality(S) = 1
  <2> TAKE S
  <2> HAVE S # {} /\ \A x, y \in S : x = y
  <2>1. PICK x : S = {x}
    OBVIOUS
  <2> QED
    BY <2>1, FS_Singleton
<1>8. Cardinality({}) = 0
  BY FS_EmptySet
<1>9. Cardinality(Positions(t)) = IF IsQueued(t) THEN 1 ELSE 0
  BY <1>2, <1>4, <1>7, <1>8
<1>10. Cardinality(Holders(t)) = IF IsHeld(t) THEN 1 ELSE 0
  BY <1>3, <1>5, <1>7, <1>8
<1> QED
  BY <1>6, <1>9, <1>10 DEF Places, HasPlace

\* An accepted task is in exactly one place until it has been executed, a deque or
\* the hands of a thread: nothing is lost and nothing taken twice, for any number of
\* workers, restarts and tasks, although the ends of a deque are taken under
\* different locks (deque.py:87, deque.py:125).
THEOREM EachTakenOnce == Spec => []TakenOnce
<1>1. Init => NotStarted /\ Places
  BY InitPlaces
<1>2. IInv /\ NotStarted /\ Places /\ [Next]_vars => (NotStarted /\ Places)'
  BY NotStartedStep, PlacesStep
<1>3. IInv /\ NotStarted /\ Places => TakenOnce
  BY PlacesCount DEF IInv
<1> QED
  BY <1>1, <1>2, <1>3, Invariance, PTL DEF Spec
=============================================================================
