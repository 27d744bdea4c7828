----------------------------- MODULE QueueProofs -----------------------------
(***************************************************************************)
(* BoundedQueue for any threads, capacity and watermark ratios: types and  *)
(* capacity, no lost wakeup, hysteresis of the watermark flag.             *)
(* Pipeline for any stages, items, capacity and retries: types, balance of *)
(* every stage, completeness of the result, order of the items.            *)
(***************************************************************************)
EXTENDS BoundedQueue, Pipeline, FunctionTheorems, FiniteSetTheorems, TLAPS

\* The marks lie within the queue, whatever the ratios.
LEMMA Marks == High \in 1..Capacity /\ Low \in 0..Capacity - 1
<1>1. (Capacity * HighPercent) \div 100 \in 0..Capacity
  BY CapacityAssumption, PercentAssumption
<1>2. (Capacity * LowPercent) \div 100 \in 0..Capacity
  BY CapacityAssumption, PercentAssumption
<1> QED
  BY <1>1, <1>2, CapacityAssumption DEF High, Low

\* Nobody outside a wait of dequeue has an epoch to compare.
ClearedWait == \A t \in cleared : pc[t] \in TakeWaiting

\* The inductive invariant of the queue.
IInv ==
  /\ TypeOK
  /\ ClearedWait
  /\ NoLostWakeup
  /\ Hysteresis
-----------------------------------------------------------------------------
\* The initial state is well typed.
LEMMA InitTypes == Init => TypeOK
<1> SUFFICES ASSUME Init PROVE TypeOK
  OBVIOUS
<1>1. size \in 0..Capacity
  BY CapacityAssumption DEF Init
<1>2. /\ pc \in [Threads -> {"idle", "entering"} \cup PutWaiting \cup TakeWaiting \cup Notifying]
      /\ mode \in [Threads -> Strategies]
      /\ timer \in [Threads -> Timers]
  BY DEF Init, Strategies, Timers
<1>3. inHigh \in BOOLEAN /\ strategy \in Strategies /\ cleared \subseteq Threads
  BY DEF Init
<1>4. balance \in Int
  BY DEF Init
<1> QED
  BY <1>1, <1>2, <1>3, <1>4 DEF TypeOK

\* Every variable keeps its type; in particular no step of any thread takes
\* the queue over its capacity or below zero.
THEOREM TypeCorrect == Spec => []TypeOK
<1> USE Marks, CapacityAssumption
        DEF TypeOK, Strategies, Timers, PutWaiting, TakeWaiting, Notifying
<1>1. Init => TypeOK
  BY InitTypes
<1>2. TypeOK /\ [Next]_vars => TypeOK'
  <2> SUFFICES ASSUME TypeOK, [Next]_vars PROVE TypeOK'
    OBVIOUS
  <2> USE DEF Goes, EndCall
  <2>0. \A u \in Threads : Woken(u) \in {"idle", "entering"} \cup PutWaiting \cup TakeWaiting \cup Notifying
    BY DEF Woken
  <2>1. ASSUME NEW t \in Threads, CallEnqueue(t) PROVE TypeOK'
    BY <2>1 DEF CallEnqueue
  <2>2. ASSUME NEW t \in Threads, CallEnqueueDefault(t) PROVE TypeOK'
    BY <2>2 DEF CallEnqueueDefault
  <2>3. ASSUME NEW t \in Threads, Put(t) PROVE TypeOK'
    BY <2>3 DEF Put, HasRoom, Moved, WokenByPut, CrossesHigh
  <2>4. ASSUME NEW t \in Threads, WaitForRoom(t) PROVE TypeOK'
    BY <2>4 DEF WaitForRoom
  <2>5. ASSUME NEW t \in Threads, TurnAway(t) PROVE TypeOK'
    BY <2>5 DEF TurnAway
  <2>6. ASSUME NEW t \in Threads, Popleft(t) PROVE TypeOK'
    BY <2>6 DEF Popleft, Moved, WokenByTake, CrossesLow
  <2>7. ASSUME NEW t \in Threads, StartWaiting(t) PROVE TypeOK'
    BY <2>7 DEF StartWaiting
  <2>8. ASSUME NEW t \in Threads, WaitAgain(t) PROVE TypeOK'
    BY <2>8 DEF WaitAgain
  <2>9. ASSUME NEW t \in Threads, ReturnEmpty(t) PROVE TypeOK'
    BY <2>9 DEF ReturnEmpty
  <2>10. ASSUME NEW t \in Threads, Expire(t) PROVE TypeOK'
    BY <2>10, <2>0 DEF Expire, WokenByClock
  <2>11. ASSUME NEW t \in Threads, Clear(t) PROVE TypeOK'
    <3>1. size' \in 0..Capacity
      BY <2>11 DEF Clear
    <3>2. pc' \in [Threads -> {"idle", "entering"} \cup PutWaiting \cup TakeWaiting \cup Notifying]
      BY <2>11, <2>0 DEF Clear, Moved, WokenByClear, AfterClear
    <3>3. cleared' \subseteq Threads /\ inHigh' \in BOOLEAN
      BY <2>11 DEF Clear
    <3> QED
      BY <2>11, <3>1, <3>2, <3>3 DEF Clear
  <2>12. ASSUME NEW t \in Threads, SetStrategy(t) PROVE TypeOK'
    BY <2>12 DEF SetStrategy
  <2>13. ASSUME NEW t \in Threads, RunCallbacks(t) PROVE TypeOK'
    BY <2>13 DEF RunCallbacks
  <2>14. CASE UNCHANGED vars
    BY <2>14 DEF vars
  <2> QED
    BY <2>1, <2>2, <2>3, <2>4, <2>5, <2>6, <2>7, <2>8, <2>9, <2>10, <2>11,
       <2>12, <2>13, <2>14 DEF Next, Proceed, Begin
<1> QED
  BY <1>1, <1>2, PTL DEF Spec

\* The inductive step of the invariants below.
LEMMA InvariantStep == IInv /\ TypeOK' /\ [Next]_vars => IInv'
<1> USE Marks, CapacityAssumption
        DEF IInv, ClearedWait, NoLostWakeup, Hysteresis, HasRoom,
            PutWaiting, TakeWaiting, Notifying, Goes, EndCall
<1> SUFFICES ASSUME IInv, TypeOK', [Next]_vars PROVE IInv'
  OBVIOUS
<1> USE DEF TypeOK
<1>1. ASSUME NEW t \in Threads, CallEnqueue(t) PROVE IInv'
  BY <1>1 DEF CallEnqueue
<1>2. ASSUME NEW t \in Threads, CallEnqueueDefault(t) PROVE IInv'
  BY <1>2 DEF CallEnqueueDefault
<1>3. ASSUME NEW t \in Threads, Put(t) PROVE IInv'
  <2>1. /\ size' = size + 1 /\ size < Capacity
        /\ cleared' = cleared
        /\ timer' = [timer EXCEPT ![t] = "none"]
        /\ pc[t] \in {"entering", "putWoken"}
        /\ pc'[t] \notin TakeWaiting \cup PutWaiting
    BY <1>3 DEF Put, Enqueueing, Moved
  <2>2. \A u \in Threads \ {t} : pc'[u] = WokenByPut(u)
    BY <1>3 DEF Put, Moved
  <2>3. NoLostWakeup' /\ ClearedWait'
    BY <2>1, <2>2 DEF WokenByPut
  <2>4. inHigh' <=> (inHigh \/ CrossesHigh)
    BY <1>3 DEF Put
  <2>5. Hysteresis'
    BY <2>1, <2>4 DEF CrossesHigh
  <2> QED
    BY <2>3, <2>5
<1>4. ASSUME NEW t \in Threads, WaitForRoom(t) PROVE IInv'
  BY <1>4 DEF WaitForRoom, Enqueueing
<1>5. ASSUME NEW t \in Threads, TurnAway(t) PROVE IInv'
  BY <1>5 DEF TurnAway, Enqueueing
<1>6. ASSUME NEW t \in Threads, Popleft(t) PROVE IInv'
  <2>0. inHigh' <=> (inHigh /\ ~CrossesLow)
    BY <1>6 DEF Popleft
  <2>1. Hysteresis'
    <3>1. size' = size - 1 /\ size > 0
      BY <1>6 DEF Popleft
    <3> QED
      BY <2>0, <3>1 DEF CrossesLow
  <2>2. /\ size' = size - 1 /\ size > 0
        /\ cleared' = cleared \ {t}
        /\ timer' = [timer EXCEPT ![t] = "none"]
        /\ pc'[t] \notin TakeWaiting \cup PutWaiting
    BY <1>6 DEF Popleft, Moved, CrossesLow
  <2>3. \A u \in Threads \ {t} : pc'[u] = WokenByTake(u)
    BY <1>6 DEF Popleft, Moved
  <2>4. NoLostWakeup' /\ ClearedWait'
    BY <2>2, <2>3 DEF WokenByTake
  <2> QED
    BY <2>1, <2>4
<1>7. ASSUME NEW t \in Threads, StartWaiting(t) PROVE IInv'
  BY <1>7 DEF StartWaiting
<1>8. ASSUME NEW t \in Threads, WaitAgain(t) PROVE IInv'
  BY <1>8 DEF WaitAgain, GivesUp
<1>9. ASSUME NEW t \in Threads, ReturnEmpty(t) PROVE IInv'
  BY <1>9 DEF ReturnEmpty
<1>10. ASSUME NEW t \in Threads, Expire(t) PROVE IInv'
  BY <1>10 DEF Expire, WokenByClock, Woken
<1>11. ASSUME NEW t \in Threads, Clear(t) PROVE IInv'
  <2>1. Hysteresis' /\ size' = 0
    BY <1>11 DEF Clear
  <2>2. /\ cleared' = {u \in Threads : pc[u] \in TakeWaiting}
        /\ pc[t] = "idle" /\ timer' = timer
        /\ pc'[t] \notin TakeWaiting \cup PutWaiting
    BY <1>11 DEF Clear, Moved, AfterClear
  <2>3. \A u \in Threads \ {t} : pc'[u] = Woken(u)
    BY <1>11 DEF Clear, Moved, WokenByClear
  <2>4. NoLostWakeup' /\ ClearedWait'
    BY <2>1, <2>2, <2>3 DEF Woken
  <2> QED
    BY <2>1, <2>4
<1>12. ASSUME NEW t \in Threads, SetStrategy(t) PROVE IInv'
  BY <1>12 DEF SetStrategy
<1>13. ASSUME NEW t \in Threads, RunCallbacks(t) PROVE IInv'
  BY <1>13 DEF RunCallbacks
<1>14. CASE UNCHANGED vars
  BY <1>14 DEF vars
<1> QED
  BY <1>1, <1>2, <1>3, <1>4, <1>5, <1>6, <1>7, <1>8, <1>9, <1>10, <1>11,
     <1>12, <1>13, <1>14 DEF Next, Proceed, Begin

\* IInv is an inductive invariant of the queue.
LEMMA Inductive == Spec => []IInv
<1>1. Init => IInv
  <2> SUFFICES ASSUME Init PROVE IInv
    OBVIOUS
  <2>1. size = 0 /\ ~inHigh /\ cleared = {}
    BY DEF Init
  <2>2. \A t \in Threads : pc[t] = "idle" /\ timer[t] = "none"
    BY DEF Init
  <2>3. Hysteresis
    BY <2>1, Marks, CapacityAssumption DEF Hysteresis
  <2> QED
    BY <2>1, <2>2, <2>3, InitTypes DEF IInv, ClearedWait, NoLostWakeup
<1> QED
  BY <1>1, InvariantStep, TypeCorrect, PTL DEF Spec

\* No thread ever sleeps on a condition that holds, nor through a clear().
THEOREM WakeupsArrive == Spec => []NoLostWakeup
BY Inductive, PTL DEF IInv

\* The high-watermark flag is up above the high mark and down below the low
\* one, whenever the two marks differ.
THEOREM FlagIsHysteretic == Spec => []Hysteresis
BY Inductive, PTL DEF IInv
-----------------------------------------------------------------------------
(* The callbacks still to run are counted, so the set of threads is finite. *)

\* Only t may start or finish a run of callbacks.
OnlyMoves(t) == \A u \in Threads \ {t} : pc[u] # pc'[u] => {pc[u], pc'[u]} \cap Notifying = {}

\* One more thread has callbacks of kind m to run, or one fewer, or neither.
LEMMA PendingChange ==
  ASSUME IsFiniteSet(Threads), TypeOK, TypeOK', NEW t \in Threads, OnlyMoves(t), NEW m \in Notifying
  PROVE  /\ Cardinality(Pending(m)) \in Nat /\ Cardinality(Pending(m)') \in Nat
         /\ pc[t] # m /\ pc'[t] # m => Cardinality(Pending(m)') = Cardinality(Pending(m))
         /\ pc[t] # m /\ pc'[t] = m => Cardinality(Pending(m)') = Cardinality(Pending(m)) + 1
         /\ pc[t] = m /\ pc'[t] # m => Cardinality(Pending(m)') = Cardinality(Pending(m)) - 1
<1>1. Pending(m) \subseteq Threads /\ Pending(m)' \subseteq Threads
  BY DEF Pending
<1>2. IsFiniteSet(Pending(m)) /\ IsFiniteSet(Pending(m)')
  BY <1>1, FS_Subset
<1>3. \A u \in Threads \ {t} : u \in Pending(m) <=> u \in Pending(m)'
  BY DEF Pending, OnlyMoves
<1>4. pc[t] # m /\ pc'[t] # m => Pending(m)' = Pending(m)
  BY <1>3 DEF Pending
<1>5. pc[t] # m /\ pc'[t] = m => Pending(m)' = Pending(m) \cup {t} /\ t \notin Pending(m)
  BY <1>3 DEF Pending
<1>6. pc[t] = m /\ pc'[t] # m => Pending(m)' = Pending(m) \ {t} /\ t \in Pending(m)
  BY <1>3 DEF Pending
<1> QED
  BY <1>2, <1>4, <1>5, <1>6, FS_AddElement, FS_RemoveElement, FS_CardinalityType

\* A step that neither schedules nor runs callbacks keeps the balance.
LEMMA QuietStep ==
  ASSUME IsFiniteSet(Threads), TypeOK, TypeOK', CallbacksBalance, NEW t \in Threads, OnlyMoves(t),
         {pc[t], pc'[t]} \cap Notifying = {}, inHigh' = inHigh, balance' = balance
  PROVE  CallbacksBalance'
<1>1. /\ Cardinality(Pending("notifyHigh")') = Cardinality(Pending("notifyHigh"))
      /\ Cardinality(Pending("notifyLow")') = Cardinality(Pending("notifyLow"))
  BY PendingChange DEF Notifying
<1> QED
  BY <1>1 DEF CallbacksBalance

\* The flag goes up or down as a high or low notice is scheduled.
LEMMA NoticeStep ==
  ASSUME IsFiniteSet(Threads), TypeOK, TypeOK', CallbacksBalance, NEW t \in Threads, OnlyMoves(t),
         pc[t] \notin Notifying, balance' = balance,
         \/ ~inHigh /\ inHigh' /\ pc'[t] = "notifyHigh"
         \/ inHigh /\ ~inHigh' /\ pc'[t] = "notifyLow"
  PROVE  CallbacksBalance'
<1> USE DEF Notifying
<1>0. balance \in Int
  BY DEF TypeOK
<1>1. CASE ~inHigh /\ inHigh' /\ pc'[t] = "notifyHigh"
  <2>1. balance + Cardinality(Pending("notifyHigh")) - Cardinality(Pending("notifyLow")) = 0
    BY <1>1 DEF CallbacksBalance
  <2>2. balance' + Cardinality(Pending("notifyHigh")') - Cardinality(Pending("notifyLow")') = 1
    BY <1>0, <1>1, <2>1, PendingChange
  <2> QED
    BY <1>1, <2>2 DEF CallbacksBalance
<1>2. CASE inHigh /\ ~inHigh' /\ pc'[t] = "notifyLow"
  <2>1. balance + Cardinality(Pending("notifyHigh")) - Cardinality(Pending("notifyLow")) = 1
    BY <1>2 DEF CallbacksBalance
  <2>2. balance' + Cardinality(Pending("notifyHigh")') - Cardinality(Pending("notifyLow")') = 0
    BY <1>0, <1>2, <2>1, PendingChange
  <2> QED
    BY <1>2, <2>2 DEF CallbacksBalance
<1> QED
  BY <1>1, <1>2

\* A notice is delivered.
LEMMA DeliveryStep ==
  ASSUME IsFiniteSet(Threads), TypeOK, TypeOK', CallbacksBalance, NEW t \in Threads, RunCallbacks(t)
  PROVE  CallbacksBalance'
<1>1. balance \in Int /\ pc[t] \in Notifying /\ pc'[t] = "idle" /\ OnlyMoves(t) /\ inHigh' = inHigh
  BY DEF RunCallbacks, Goes, OnlyMoves, TypeOK
<1>2. balance' = IF pc[t] = "notifyHigh" THEN balance + 1 ELSE balance - 1
  BY DEF RunCallbacks
<1>3. balance' + Cardinality(Pending("notifyHigh")') - Cardinality(Pending("notifyLow")')
        = balance + Cardinality(Pending("notifyHigh")) - Cardinality(Pending("notifyLow"))
  <2>1. CASE pc[t] = "notifyHigh"
    BY <1>1, <1>2, <2>1, PendingChange DEF Notifying
  <2>2. CASE pc[t] = "notifyLow"
    BY <1>1, <1>2, <2>2, PendingChange DEF Notifying
  <2> QED
    BY <1>1, <2>1, <2>2 DEF Notifying
<1> QED
  BY <1>1, <1>3 DEF CallbacksBalance

\* Every step keeps the notices balanced.
LEMMA BalanceStep ==
  ASSUME IsFiniteSet(Threads), TypeOK, TypeOK', CallbacksBalance, [Next]_vars
  PROVE  CallbacksBalance'
<1> USE DEF TypeOK, Goes, OnlyMoves, Notifying
<1>1. ASSUME NEW t \in Threads, CallEnqueue(t) \/ CallEnqueueDefault(t) PROVE CallbacksBalance'
  BY <1>1, QuietStep DEF CallEnqueue, CallEnqueueDefault
<1>2. ASSUME NEW t \in Threads, WaitForRoom(t) \/ TurnAway(t) PROVE CallbacksBalance'
  BY <1>2, QuietStep DEF WaitForRoom, TurnAway, Enqueueing
<1>3. ASSUME NEW t \in Threads, StartWaiting(t) \/ WaitAgain(t) \/ ReturnEmpty(t) PROVE CallbacksBalance'
  BY <1>3, QuietStep DEF StartWaiting, WaitAgain, ReturnEmpty
<1>4. ASSUME NEW t \in Threads, Put(t) PROVE CallbacksBalance'
  <2>1. pc[t] \notin Notifying /\ OnlyMoves(t) /\ balance' = balance
    BY <1>4 DEF Put, Enqueueing, Moved, WokenByPut
  <2>2. CASE CrossesHigh
    <3>1. pc'[t] = "notifyHigh" /\ ~inHigh /\ inHigh'
      BY <1>4, <2>2 DEF Put, Moved, CrossesHigh
    <3> QED
      BY <2>1, <3>1, NoticeStep
  <2>3. CASE ~CrossesHigh
    <3>1. pc'[t] = "idle" /\ inHigh' = inHigh
      BY <1>4, <2>3 DEF Put, Moved
    <3> QED
      BY <2>1, <3>1, QuietStep
  <2> QED
    BY <2>2, <2>3
<1>5. ASSUME NEW t \in Threads, Popleft(t) PROVE CallbacksBalance'
  <2>1. pc[t] \notin Notifying /\ OnlyMoves(t) /\ balance' = balance
    BY <1>5 DEF Popleft, Moved, WokenByTake
  <2>2. CASE CrossesLow
    <3>1. pc'[t] = "notifyLow" /\ inHigh /\ ~inHigh'
      BY <1>5, <2>2 DEF Popleft, Moved, CrossesLow
    <3> QED
      BY <2>1, <3>1, NoticeStep
  <2>3. CASE ~CrossesLow
    <3>1. pc'[t] = "idle" /\ inHigh' = inHigh
      BY <1>5, <2>3 DEF Popleft, Moved
    <3> QED
      BY <2>1, <3>1, QuietStep
  <2> QED
    BY <2>2, <2>3
<1>6. ASSUME NEW t \in Threads, Clear(t) PROVE CallbacksBalance'
  <2>1. pc[t] = "idle" /\ OnlyMoves(t) /\ balance' = balance /\ ~inHigh' /\ pc'[t] = AfterClear
    BY <1>6 DEF Clear, Moved, WokenByClear, Woken
  <2>2. CASE inHigh
    BY <2>1, <2>2, NoticeStep DEF AfterClear
  <2>3. CASE ~inHigh
    <3>1. inHigh' = inHigh /\ pc'[t] = "idle"
      BY <2>1, <2>3 DEF AfterClear
    <3> QED
      BY <2>1, <3>1, QuietStep
  <2> QED
    BY <2>2, <2>3
<1>7. ASSUME NEW t \in Threads, Expire(t) \/ SetStrategy(t) PROVE CallbacksBalance'
  <2>1. CASE SetStrategy(t)
    BY <2>1 DEF SetStrategy, CallbacksBalance, Pending
  <2>2. CASE Expire(t)
    <3>1. CASE pc[t] \in Notifying
      <4>1. pc' = pc /\ balance' = balance /\ inHigh' = inHigh
        BY <2>2, <3>1 DEF Expire, WokenByClock, Woken
      <4> QED
        BY <4>1 DEF CallbacksBalance, Pending
    <3>2. CASE pc[t] \notin Notifying
      BY <2>2, <3>2, QuietStep DEF Expire, WokenByClock, Woken
    <3> QED
      BY <3>1, <3>2
  <2> QED
    BY <1>7, <2>1, <2>2
<1>8. ASSUME NEW t \in Threads, RunCallbacks(t) PROVE CallbacksBalance'
  BY <1>8, DeliveryStep
<1>9. CASE UNCHANGED vars
  BY <1>9 DEF vars, CallbacksBalance, Pending
<1> QED
  BY <1>1, <1>2, <1>3, <1>4, <1>5, <1>6, <1>7, <1>8, <1>9 DEF Next, Proceed, Begin

\* No watermark notice is lost or repeated, however late the threads run them.
THEOREM NoticesAreBalanced ==
  ASSUME IsFiniteSet(Threads) PROVE Spec => []CallbacksBalance
<1>1. Init => CallbacksBalance
  <2> SUFFICES ASSUME Init PROVE CallbacksBalance
    OBVIOUS
  <2>1. Pending("notifyHigh") = {} /\ Pending("notifyLow") = {} /\ ~inHigh /\ balance = 0
    BY DEF Init, Pending
  <2> QED
    BY <2>1, FS_EmptySet DEF CallbacksBalance
<1>2. TypeOK /\ TypeOK' /\ CallbacksBalance /\ [Next]_vars => CallbacksBalance'
  BY BalanceStep
<1> QED
  BY <1>1, <1>2, TypeCorrect, PTL DEF Spec
-----------------------------------------------------------------------------
(* The pipeline: how many items are in a queue. *)

\* What a queue of a stage may hold.
Queues == Seq(Items \cup {Poison})

\* The positions of the items in a queue are finitely many.
LEMMA ItemsInType ==
  ASSUME NEW q \in Queues
  PROVE  /\ IsFiniteSet({n \in DOMAIN q : IsItem(q[n])})
         /\ ItemsIn(q) \in Nat
<1>1. DOMAIN q = 1..Len(q) /\ Len(q) \in Nat
  BY DEF Queues
<1>2. IsFiniteSet(1..Len(q))
  BY <1>1, FS_Interval
<1>3. IsFiniteSet({n \in DOMAIN q : IsItem(q[n])})
  BY <1>1, <1>2, FS_Subset
<1> QED
  BY <1>3, FS_CardinalityType DEF ItemsIn

\* There is none in an empty queue.
LEMMA ItemsInEmpty == ItemsIn(<<>>) = 0
<1>1. {n \in DOMAIN <<>> : IsItem(<<>>[n])} = {}
  OBVIOUS
<1> QED
  BY <1>1, FS_EmptySet DEF ItemsIn

\* A put adds one, unless it puts the marker.
LEMMA ItemsInAppend ==
  ASSUME NEW q \in Queues, NEW x \in Items \cup {Poison}
  PROVE  ItemsIn(Append(q, x)) = ItemsIn(q) + IF IsItem(x) THEN 1 ELSE 0
<1> DEFINE P == {n \in DOMAIN q : IsItem(q[n])}
           R == {n \in DOMAIN Append(q, x) : IsItem(Append(q, x)[n])}
           m == Len(q) + 1
<1>1. Len(q) \in Nat /\ DOMAIN q = 1..Len(q) /\ DOMAIN Append(q, x) = 1..m
  BY DEF Queues
<1>2. Append(q, x)[m] = x /\ \A n \in 1..Len(q) : Append(q, x)[n] = q[n]
  BY DEF Queues
<1>3. m \notin P
  BY <1>1
<1>4. R = IF IsItem(x) THEN P \cup {m} ELSE P
  <2>1. \A n : n \in 1..m <=> n \in 1..Len(q) \/ n = m
    BY <1>1
  <2> HIDE DEF m
  <2> QED
    BY <1>1, <1>2, <2>1
<1>5. IsFiniteSet(P) /\ Cardinality(P) \in Nat
  BY ItemsInType DEF ItemsIn
<1>6. Cardinality(P \cup {m}) = Cardinality(P) + 1
  BY <1>3, <1>5, FS_AddElement
<1>7. ItemsIn(q) = Cardinality(P) /\ ItemsIn(Append(q, x)) = Cardinality(R)
  BY DEF ItemsIn
<1> HIDE DEF P, R
<1> QED
  BY <1>4, <1>5, <1>6, <1>7

\* A take removes one, unless it takes the marker.
LEMMA ItemsInTail ==
  ASSUME NEW q \in Queues, q # <<>>
  PROVE  /\ Tail(q) \in Queues
         /\ ItemsIn(q) = ItemsIn(Tail(q)) + IF IsItem(Head(q)) THEN 1 ELSE 0
<1> DEFINE P == {n \in DOMAIN q : IsItem(q[n])}
           R == {n \in DOMAIN Tail(q) : IsItem(Tail(q)[n])}
           m == Len(q)
           f == [n \in R |-> n + 1]
<1>1. /\ m \in Nat \ {0} /\ DOMAIN q = 1..m /\ DOMAIN Tail(q) = 1..(m - 1)
      /\ Tail(q) \in Queues /\ \A n \in 1..(m - 1) : Tail(q)[n] = q[n + 1]
      /\ Head(q) = q[1]
  BY DEF Queues
<1> HIDE DEF m
<1>2. \A n \in R : n \in 1..(m - 1) /\ n + 1 \in P \ {1}
  BY <1>1
<1>3. \A k \in P \ {1} : k - 1 \in R /\ (k - 1) + 1 = k
  <2>1. TAKE k \in P \ {1}
  <2>2. k \in 1..m /\ k # 1 /\ IsItem(q[k])
    BY <1>1
  <2>3. k - 1 \in 1..(m - 1) /\ (k - 1) + 1 = k
    BY <1>1, <2>2
  <2>4. Tail(q)[k - 1] = q[k]
    BY <1>1, <2>3
  <2> QED
    BY <1>1, <2>2, <2>3, <2>4
<1>4. f \in Bijection(R, P \ {1})
  <2>1. f \in [R -> P \ {1}]
    BY <1>2
  <2>2. \A a, b \in R : f[a] = f[b] => a = b
    BY <1>2
  <2>3. \A k \in P \ {1} : \E n \in R : f[n] = k
    BY <1>3
  <2> QED
    BY <2>1, <2>2, <2>3, Fun_IsBij
<1>5. IsFiniteSet(R) /\ IsFiniteSet(P) /\ Cardinality(P) \in Nat /\ Cardinality(R) \in Nat
  BY <1>1, ItemsInType DEF ItemsIn
<1>6. Cardinality(R) = Cardinality(P \ {1})
  <2>1. ExistsBijection(R, P \ {1})
    BY <1>4 DEF ExistsBijection
  <2> QED
    BY <1>5, <2>1, FS_Bijection
<1>7. ItemsIn(q) = Cardinality(P) /\ ItemsIn(Tail(q)) = Cardinality(R)
  BY DEF ItemsIn
<1>8. CASE IsItem(Head(q))
  <2>1. 1 \in P
    BY <1>1, <1>8
  <2>2. Cardinality(P \ {1}) = Cardinality(P) - 1
    BY <1>5, <2>1, FS_RemoveElement
  <2> HIDE DEF P, R
  <2> QED
    BY <1>7, <1>1, <1>5, <1>6, <1>8, <2>2
<1>9. CASE ~IsItem(Head(q))
  <2>1. P \ {1} = P
    BY <1>1, <1>9
  <2>2. Cardinality(P \ {1}) = Cardinality(P)
    BY <2>1
  <2> HIDE DEF P, R
  <2> QED
    BY <1>7, <1>1, <1>5, <1>6, <1>9, <2>2
<1> QED
  BY <1>8, <1>9

\* Markers behind a queue are no items.
LEMMA ItemsInFilled ==
  ASSUME NEW q \in Queues, NEW k \in Nat
  PROVE  LET r == q \o [i \in 1..k |-> Poison]
         IN r \in Queues /\ Len(r) = Len(q) + k /\ ItemsIn(r) = ItemsIn(q)
<1> DEFINE g == [i \in 1..k |-> Poison]
           r == q \o g
<1>1. g \in Seq(Items \cup {Poison}) /\ Len(g) = k /\ Len(q) \in Nat /\ DOMAIN q = 1..Len(q)
  BY DEF Queues
<1>2. r \in Queues /\ Len(r) = Len(q) + k
  BY <1>1 DEF Queues
<1>3. DOMAIN r = 1..(Len(q) + k)
  BY <1>2 DEF Queues
<1>4. \A n \in 1..Len(q) : r[n] = q[n]
  BY <1>1 DEF Queues
<1>5. \A n \in (Len(q) + 1)..(Len(q) + k) : r[n] = Poison
  BY <1>1 DEF Queues
<1>6. \A n : n \in 1..(Len(q) + k) <=> n \in 1..Len(q) \/ n \in (Len(q) + 1)..(Len(q) + k)
  BY <1>1
<1> HIDE DEF r
<1>7. {n \in DOMAIN r : IsItem(r[n])} = {n \in DOMAIN q : IsItem(q[n])}
  BY <1>1, <1>3, <1>4, <1>5, <1>6 DEF IsItem
<1>8. ItemsIn(r) = ItemsIn(q)
  BY <1>7 DEF ItemsIn
<1> QED
  BY <1>2, <1>8 DEF r

-----------------------------------------------------------------------------
(* Its inductive invariant. *)

\* Where the threads are while execute() does not wait for them.
ThreadsInv ==
  /\ main \in {"created", "report", "returned"} =>
       feeder \in {"none", "dead"} /\ \A s \in Stages : worker[s] \in {"none", "dead"}
  /\ main = "created" =>
       /\ next = 1
       /\ \A s \in Stages : queue[s] = <<>> /\ success[s] = 0 /\ failed[s] = 0 /\ dropped[s] = 0
  /\ main \in {"poll", "join"} => feeder # "none" /\ \A s \in Stages : worker[s] # "none"

\* What a worker holds: an item in the middle of its work, and the last one hands nothing over.
HoldsInv ==
  \A s \in Stages : /\ worker[s] \in Working => cur[s] \in Items
                    /\ worker[s] \in Putting => s < NumStages

\* The feeder holds an item.
FeedInv == feeder = "feeding" => next <= NumItems

\* Nothing is stopped: an end marker has its effect only when all before it is done.
Runs == ~cancelled /\ main \in {"poll", "join"}

\* Nothing more is put into the queue of stage s.
BeforeEnded(s) == IF s = 1 THEN feeder = "dead" ELSE worker[s - 1] = "dead"

MarkerInv ==
  Runs =>
    /\ feeder \in {"last", "lasting", "dead"} => next = NumItems + 1
    /\ \A s \in Stages :
         /\ \A n \in DOMAIN queue[s] : queue[s][n] = Poison => n = Len(queue[s]) /\ BeforeEnded(s)
         /\ worker[s] = "dead" \/ (worker[s] \in Putting /\ cur[s] = Poison) =>
              queue[s] = <<>> /\ BeforeEnded(s)

\* The item is in a queue or with a worker.
Queued(i, s) == \E n \in DOMAIN queue[s] : queue[s][n] = i
Held(i, s) == worker[s] \in Working \cup Putting /\ cur[s] = i
Finished(i) == item[i] = "FAILED" \/ (item[i] = "SUCCESS" /\ passed[i] = NumStages)

\* No item that was fed is lost.
PlaceInv ==
  Runs => \A i \in 1..(next - 1) : Finished(i) \/ \E s \in Stages : Queued(i, s) \/ Held(i, s)

ResultInv ==
  main \in {"report", "returned"} =>
    /\ result # "none"
    /\ result # "FAILED" => \A i \in Items : item[i] \in Terminal
    /\ result = "COMPLETED" => \A i \in Items : Finished(i)

PipelineInv ==
  /\ PipelineTypeOK /\ ThreadsInv /\ HoldsInv /\ FeedInv
  /\ FlowIsConserved /\ MarkerInv /\ PlaceInv /\ ResultInv

-----------------------------------------------------------------------------
(* What the steps leave alone. *)

\* Steps of a worker that move no item: it looks, starts, retries or waits.
QuietWorker(s) ==
  \/ LooksForWork(s) \/ TakesNothing(s) \/ Begins(s) \/ StartsHandler(s)
  \/ RetryDelayEnds(s) \/ TriesToPut(s) \/ PutsNothing(s) \/ HandlerRaises(s)

\* Steps of the other threads that touch neither a worker, an item nor a queue.
Quiet ==
  \/ FeederLooks \/ FeederEnds \/ PollEnds \/ PollRunsOut \/ Returns \/ ExecuteFails
  \/ TimesOut \/ CancelIsCalled \/ CancelSets \/ CancelWrites

\* A worker at work runs in a pipeline that does, and changes nothing of another one.
LEMMA WorkerFrame ==
  ASSUME PipelineTypeOK, ThreadsInv, NEW s \in Stages, WorkerStep(s) \/ HandlerStep(s)
  PROVE  /\ main \in {"poll", "join"} /\ worker[s] \notin {"none", "dead"} /\ worker'[s] # "none"
         /\ UNCHANGED <<status, cancelled, timedOut, main, result, caller, feeder, next>>
         /\ \A t \in Stages \ {s} :
              /\ worker'[t] = worker[t] /\ cur'[t] = cur[t]
              /\ success'[t] = success[t] /\ failed'[t] = failed[t] /\ dropped'[t] = dropped[t]
<1>1. UNCHANGED <<status, cancelled, timedOut, main, result, caller, feeder, next>>
  BY
  DEF flags, WorkerStep, LooksForWork, Takes, TakesNothing, Begins, StartsHandler, RetryDelayEnds,
     AbandonsItem, TriesToPut, DropsOutput, Puts, PutsNothing, HandlerStep, HandlerReturns,
     HandlerRaises, HandlerFails
<1>2. worker[s] \notin {"none", "dead"}
  BY
  DEF WorkerStep, LooksForWork, Takes, TakesNothing, Begins, StartsHandler, RetryDelayEnds,
     AbandonsItem, TriesToPut, DropsOutput, Puts, PutsNothing, HandlerStep, HandlerReturns,
     HandlerRaises, HandlerFails, Interruptible, Working
<1>3. worker'[s] # "none" /\ \A t \in Stages \ {s} : worker'[t] = worker[t]
  BY
  DEF PipelineTypeOK, WorkerAt, AfterPut, AfterMarker, WorkerStep, LooksForWork, Takes,
     TakesNothing, Begins, StartsHandler, RetryDelayEnds, AbandonsItem, TriesToPut, DropsOutput,
     Puts, PutsNothing, HandlerStep, HandlerReturns, HandlerRaises, HandlerFails
<1>4. \A t \in Stages \ {s} : cur'[t] = cur[t]
  BY
  DEF PipelineTypeOK, WorkerStep, LooksForWork, Takes, TakesNothing, Begins, StartsHandler,
     RetryDelayEnds, AbandonsItem, TriesToPut, DropsOutput, Puts, PutsNothing, HandlerStep,
     HandlerReturns, HandlerRaises, HandlerFails
<1>5. \A t \in Stages \ {s} :
        success'[t] = success[t] /\ failed'[t] = failed[t] /\ dropped'[t] = dropped[t]
  BY
  DEF PipelineTypeOK, OneMore, Withdrawn, counts, WorkerStep, LooksForWork, Takes, TakesNothing,
     Begins, StartsHandler, RetryDelayEnds, AbandonsItem, TriesToPut, DropsOutput, Puts,
     PutsNothing, HandlerStep, HandlerReturns, HandlerRaises, HandlerFails
<1> QED
  BY <1>1, <1>2, <1>3, <1>4, <1>5 DEF ThreadsInv, PipelineTypeOK

\* A quiet worker keeps what it holds.
LEMMA QuietWorkerFrame ==
  ASSUME PipelineTypeOK, NEW s \in Stages, QuietWorker(s)
  PROVE  /\ WorkerStep(s) \/ HandlerStep(s)
         /\ UNCHANGED <<queue, cur, passed, success, failed, dropped>>
         /\ worker'[s] \in Working <=> worker[s] \in Working
         /\ worker'[s] \in Putting <=> worker[s] \in Putting
         /\ cancelled \/ worker'[s] # "dead"
         /\ worker[s] \in Working \/ item' = item
         /\ \A i \in Items \ {cur[s]} : item'[i] = item[i]
<1> USE DEF QuietWorker, LooksForWork, TakesNothing, Begins, StartsHandler, RetryDelayEnds,
            TriesToPut, PutsNothing, HandlerRaises
<1>1. WorkerStep(s) \/ HandlerStep(s)
  BY DEF WorkerStep, HandlerStep
<1>2. UNCHANGED <<queue, cur, passed, success, failed, dropped>>
  BY DEF counts
<1>3. /\ worker'[s] \in Working <=> worker[s] \in Working
      /\ worker'[s] \in Putting <=> worker[s] \in Putting
      /\ cancelled \/ worker'[s] # "dead"
  BY DEF WorkerAt, PipelineTypeOK, Working, Putting
<1>4. /\ worker[s] \in Working \/ item' = item
      /\ \A i \in Items \ {cur[s]} : item'[i] = item[i]
  BY DEF Working, PipelineTypeOK
<1> QED
  BY <1>1, <1>2, <1>3, <1>4

\* A quiet step of another thread leaves the workers and their queues alone.
LEMMA QuietFrame ==
  ASSUME Quiet
  PROVE  UNCHANGED <<next, queue, worker, cur, attempt, item, passed, success, failed, dropped>>
BY
DEF Quiet, FeederLooks, FeederEnds, PollEnds, PollRunsOut, Returns, ExecuteFails, TimesOut,
   CancelIsCalled, CancelSets, CancelWrites, workers, counts

-----------------------------------------------------------------------------
(* Types and threads. *)

\* What a stage has met: what waits for it, what it works on and what it has counted; and
\* what has left it for the next one.
Met(s) == ItemsIn(queue[s]) + Len(WorksOn(s)) + success[s] + failed[s] + dropped[s]
Left(s) == success[s] - Len(HandsOver(s))

\* The numbers in the balance of a stage.
LEMMA FlowTypes ==
  ASSUME PipelineTypeOK, NEW s \in Stages
  PROVE  /\ ItemsIn(queue[s]) \in Nat
         /\ Len(WorksOn(s)) = IF worker[s] \in Working THEN 1 ELSE 0
         /\ Len(HandsOver(s)) = IF worker[s] \in Putting /\ IsItem(cur[s]) THEN 1 ELSE 0
         /\ success[s] \in 0..NumItems /\ failed[s] \in 0..NumItems /\ dropped[s] \in 0..NumItems
         /\ s > 1 => s - 1 \in Stages
         /\ s < NumStages => s + 1 \in Stages
<1>1. queue[s] \in Queues
  BY DEF PipelineTypeOK, Queues
<1>2. ItemsIn(queue[s]) \in Nat
  BY <1>1, ItemsInType
<1>3. Len(<<>>) = 0 /\ Len(<<cur[s]>>) = 1
  OBVIOUS
<1>4. /\ Len(WorksOn(s)) = IF worker[s] \in Working THEN 1 ELSE 0
      /\ Len(HandsOver(s)) = IF worker[s] \in Putting /\ IsItem(cur[s]) THEN 1 ELSE 0
  BY <1>3 DEF WorksOn, HandsOver
<1>5. success[s] \in 0..NumItems /\ failed[s] \in 0..NumItems /\ dropped[s] \in 0..NumItems
  BY DEF PipelineTypeOK
<1>6. (s > 1 => s - 1 \in Stages) /\ (s < NumStages => s + 1 \in Stages)
  BY StagesAssumption DEF Stages
<1> QED
  BY <1>2, <1>4, <1>5, <1>6

\* No stage counts more items than there are.
LEMMA FlowBounds ==
  ASSUME PipelineTypeOK, FlowIsConserved, main \in {"poll", "join"}, NEW s \in Stages
  PROVE  /\ Met(s) <= NumItems
         /\ s > 1 => Left(s - 1) >= 0
<1>1. HandedTo(s) = Met(s) /\ Met(s) \in Nat
  BY FlowTypes DEF FlowIsConserved, Met
<1>2. HandedTo(s) <= NumItems
  <2>1. CASE s = 1
    BY <2>1, ItemsAssumption DEF HandedTo, PipelineTypeOK
  <2>2. CASE s # 1
    <3>1. s > 1 /\ s - 1 \in Stages
      BY <2>2, FlowTypes, StagesAssumption DEF Stages
    <3>2. success[s - 1] \in 0..NumItems /\ Len(HandsOver(s - 1)) \in Nat
      BY <3>1, FlowTypes
    <3> QED
      BY <2>2, <3>2, ItemsAssumption DEF HandedTo
  <2> QED
    BY <2>1, <2>2
<1>3. Met(s) <= NumItems
  BY <1>1, <1>2
<1>4. s > 1 => Left(s - 1) = HandedTo(s)
  BY DEF Left, HandedTo
<1> QED
  BY <1>1, <1>3, <1>4

\* Every step keeps the types.
LEMMA PipelineTypeStep == ASSUME PipelineInv, PipelineNext PROVE PipelineTypeOK'
<1> USE DEF PipelineInv
<1>1. ASSUME NEW s \in Stages, QuietWorker(s) PROVE PipelineTypeOK'
  <2>1. 1 \in 1..(MaxRetries + 1) /\ (~LastAttempt(s) => attempt[s] + 1 \in 1..(MaxRetries + 1))
    BY RetriesAssumption DEF LastAttempt, PipelineTypeOK
  <2>2. attempt' \in [Stages -> 1..(MaxRetries + 1)]
    BY <1>1, <2>1
    DEF PipelineTypeOK, QuietWorker, LooksForWork, TakesNothing, Begins, StartsHandler,
       RetryDelayEnds, TriesToPut, PutsNothing, HandlerRaises
  <2>3. item' \in [Items -> Terminal \cup {"PENDING", "PROCESSING", "RETRYING"}]
    BY <1>1
    DEF PipelineTypeOK, QuietWorker, LooksForWork, TakesNothing, Begins, StartsHandler,
       RetryDelayEnds, TriesToPut, PutsNothing, HandlerRaises
  <2>4. worker' \in [Stages -> {"none", "top", "take", "dead"} \cup Working \cup Putting]
    BY <1>1
    DEF WorkerAt, PipelineTypeOK, Working, Putting, QuietWorker, LooksForWork, TakesNothing,
       Begins, StartsHandler, RetryDelayEnds, TriesToPut, PutsNothing, HandlerRaises
  <2> QED
    BY <1>1, <2>2, <2>3, <2>4, WorkerFrame, QuietWorkerFrame DEF PipelineTypeOK
<1>2. ASSUME NEW s \in Stages, Takes(s) PROVE PipelineTypeOK'
  <2>1. queue[s] \in Queues /\ queue[s] # <<>> /\ Tail(queue[s]) \in Queues
    BY <1>2, ItemsInTail DEF Takes, PipelineTypeOK, Queues
  <2>2. Len(Tail(queue[s])) <= QueueCapacity /\ Head(queue[s]) \in Items \cup {Poison}
    BY <2>1, QueueCapacityAssumption DEF PipelineTypeOK, Queues
  <2> QED
    BY <1>2, <2>1, <2>2
    DEF Takes, Rest, AfterMarker, WorkerAt, PipelineTypeOK, flags, counts, Queues, Putting,
       Working
<1>3. ASSUME NEW s \in Stages, AbandonsItem(s) PROVE PipelineTypeOK'
  <2>1. main \in {"poll", "join"}
    BY <1>3, WorkerFrame DEF WorkerStep, HandlerStep
  <2>2. Len(WorksOn(s)) = 1
    BY <1>3, FlowTypes DEF AbandonsItem, Working, Interruptible
  <2>3. Met(s) <= NumItems
    BY <2>1, FlowBounds
  <2>4. dropped[s] + 1 \in 0..NumItems
    BY <2>3, <2>2, FlowTypes, ItemsAssumption DEF Met
  <2>5. dropped' \in [Stages -> 0..NumItems]
    BY <1>3, <2>4 DEF AbandonsItem, OneMore, PipelineTypeOK
  <2>6. item' \in [Items -> Terminal \cup {"PENDING", "PROCESSING", "RETRYING"}]
    BY <1>3 DEF AbandonsItem, PipelineTypeOK, Terminal
  <2> QED
    BY <1>3, <2>5, <2>6
    DEF AbandonsItem, WorkerAt, PipelineTypeOK, flags, counts, Putting, Working
<1>4. ASSUME NEW s \in Stages, DropsOutput(s) PROVE PipelineTypeOK'
  <2>1. CASE cur[s] = Poison
    BY <1>4, <2>1
    DEF DropsOutput, AfterPut, WorkerAt, PipelineTypeOK, flags, counts, Putting, Working
  <2>2. CASE cur[s] # Poison
    <3>1. main \in {"poll", "join"} /\ s < NumStages /\ s + 1 \in Stages
      BY <1>4, WorkerFrame, FlowTypes DEF DropsOutput, HoldsInv, Putting, WorkerStep
    <3>2. (s + 1) - 1 = s /\ s + 1 > 1
      BY DEF Stages
    <3>3. Left(s) >= 0
      BY <3>1, <3>2, FlowBounds
    <3>4. Len(HandsOver(s)) = 1
      BY <1>4, <2>2, FlowTypes DEF DropsOutput, IsItem, Putting
    <3>5. success[s] - 1 \in 0..NumItems
      BY <3>3, <3>4, FlowTypes, ItemsAssumption DEF Left
    <3>6. Met(s) <= NumItems
      BY <3>1, FlowBounds
    <3>7. dropped[s] + 1 \in 0..NumItems
      BY <3>5, <3>6, FlowTypes, ItemsAssumption DEF Met
    <3>8. success' \in [Stages -> 0..NumItems] /\ dropped' \in [Stages -> 0..NumItems]
      BY <1>4, <2>2, <3>5, <3>7 DEF DropsOutput, Withdrawn, OneMore, PipelineTypeOK
    <3>9. item' \in [Items -> Terminal \cup {"PENDING", "PROCESSING", "RETRYING"}]
      BY <1>4, <2>2 DEF DropsOutput, PipelineTypeOK, Terminal
    <3> QED
      BY <1>4, <3>8, <3>9
      DEF DropsOutput, AfterPut, WorkerAt, PipelineTypeOK, flags, counts, Putting, Working
  <2> QED
    BY <2>1, <2>2
<1>5. ASSUME NEW s \in Stages, Puts(s) PROVE PipelineTypeOK'
  <2>1. s + 1 \in Stages /\ queue[s + 1] \in Queues /\ Len(queue[s + 1]) < QueueCapacity
    BY <1>5, FlowTypes DEF Puts, HoldsInv, Putting, StageHasRoom, PipelineTypeOK, Queues
  <2>2. Append(queue[s + 1], cur[s]) \in Queues /\ Len(Append(queue[s + 1], cur[s])) <= QueueCapacity
    BY <2>1, QueueCapacityAssumption DEF PipelineTypeOK, Queues
  <2> QED
    BY <1>5, <2>1, <2>2
    DEF Puts, Enqueued, AfterPut, WorkerAt, PipelineTypeOK, flags, counts, Queues, Putting,
       Working
<1>6. ASSUME NEW s \in Stages, HandlerReturns(s) PROVE PipelineTypeOK'
  <2>1. main \in {"poll", "join"}
    BY <1>6, WorkerFrame DEF WorkerStep, HandlerStep
  <2>2. Len(WorksOn(s)) = 1
    BY <1>6, FlowTypes DEF HandlerReturns, Working
  <2>3. Met(s) <= NumItems
    BY <2>1, FlowBounds
  <2>4. success[s] + 1 \in 0..NumItems
    BY <2>3, <2>2, FlowTypes, ItemsAssumption DEF Met
  <2>5. success' \in [Stages -> 0..NumItems]
    BY <1>6, <2>4 DEF HandlerReturns, OneMore, PipelineTypeOK
  <2>6. s \in 0..NumStages
    BY StagesAssumption DEF Stages
  <2>7. /\ passed' \in [Items -> 0..NumStages]
        /\ item' \in [Items -> Terminal \cup {"PENDING", "PROCESSING", "RETRYING"}]
    BY <1>6, <2>6 DEF HandlerReturns, PipelineTypeOK, Terminal
  <2> QED
    BY <1>6, <2>5, <2>7
    DEF HandlerReturns, WorkerAt, PipelineTypeOK, flags, counts, Putting, Working
<1>7. ASSUME NEW s \in Stages, HandlerFails(s) PROVE PipelineTypeOK'
  <2>1. main \in {"poll", "join"}
    BY <1>7, WorkerFrame DEF WorkerStep, HandlerStep
  <2>2. Len(WorksOn(s)) = 1
    BY <1>7, FlowTypes DEF HandlerFails, Working, Interruptible
  <2>3. Met(s) <= NumItems
    BY <2>1, FlowBounds
  <2>4. failed[s] + 1 \in 0..NumItems
    BY <2>3, <2>2, FlowTypes, ItemsAssumption DEF Met
  <2>5. failed' \in [Stages -> 0..NumItems]
    BY <1>7, <2>4 DEF HandlerFails, OneMore, PipelineTypeOK
  <2>6. item' \in [Items -> Terminal \cup {"PENDING", "PROCESSING", "RETRYING"}]
    BY <1>7 DEF HandlerFails, PipelineTypeOK, Terminal
  <2> QED
    BY <1>7, <2>5, <2>6
    DEF HandlerFails, WorkerAt, PipelineTypeOK, flags, counts, Putting, Working
<1>8. CASE Quiet
  <2>1. status' \in {"CREATED", "RUNNING"} \cup (Ends \ {"none"})
    BY <1>8
    DEF PipelineTypeOK, ResultInv, Ends, Quiet, FeederLooks, FeederEnds, PollEnds, PollRunsOut,
       Returns, ExecuteFails, TimesOut, CancelIsCalled, CancelSets, CancelWrites, flags
  <2>2. cancelled' \in BOOLEAN /\ timedOut' \in BOOLEAN
    BY <1>8
    DEF PipelineTypeOK, Quiet, FeederLooks, FeederEnds, PollEnds, PollRunsOut, Returns,
       ExecuteFails, TimesOut, CancelIsCalled, CancelSets, CancelWrites, flags
  <2>3. main' \in {"created", "poll", "join", "report", "returned"} /\ result' \in Ends
    BY <1>8
    DEF PipelineTypeOK, Ends, Quiet, FeederLooks, FeederEnds, PollEnds, PollRunsOut, Returns,
       ExecuteFails, TimesOut, CancelIsCalled, CancelSets, CancelWrites, flags
  <2>4. /\ caller' \in {"away", "asked", "write"}
        /\ feeder' \in {"none", "feed", "feeding", "last", "lasting", "dead"}
    BY <1>8
    DEF PipelineTypeOK, Quiet, FeederLooks, FeederEnds, PollEnds, PollRunsOut, Returns,
       ExecuteFails, TimesOut, CancelIsCalled, CancelSets, CancelWrites, flags
  <2> QED
    BY <1>8, <2>1, <2>2, <2>3, <2>4, QuietFrame DEF PipelineTypeOK
<1>9. CASE Feeds
  <2>1. CASE StageHasRoom(1)
    <3>1. 1 \in Stages /\ queue[1] \in Queues /\ Len(queue[1]) < QueueCapacity
      BY <2>1, StagesAssumption DEF StageHasRoom, PipelineTypeOK, Queues, Stages
    <3>2. next \in Items /\ next + 1 \in 1..(NumItems + 1)
      BY <1>9, ItemsAssumption DEF Feeds, FeedInv, PipelineTypeOK, Items
    <3>3. Append(queue[1], next) \in Queues /\ Len(Append(queue[1], next)) <= QueueCapacity
      BY <3>1, <3>2, QueueCapacityAssumption DEF PipelineTypeOK, Queues
    <3> QED
      BY <1>9, <2>1, <3>1, <3>2, <3>3
      DEF Feeds, Enqueued, PipelineTypeOK, flags, workers, counts, Queues
  <2>2. CASE ~StageHasRoom(1)
    BY <1>9, <2>2 DEF Feeds, PipelineTypeOK, flags, workers, counts
  <2> QED
    BY <2>1, <2>2
<1>10. CASE FeedsMarker
  <2>1. CASE StageHasRoom(1)
    <3>1. 1 \in Stages /\ queue[1] \in Queues /\ Len(queue[1]) < QueueCapacity
      BY <2>1, StagesAssumption DEF StageHasRoom, PipelineTypeOK, Queues, Stages
    <3>2. Append(queue[1], Poison) \in Queues /\ Len(Append(queue[1], Poison)) <= QueueCapacity
      BY <3>1, QueueCapacityAssumption DEF PipelineTypeOK, Queues
    <3> QED
      BY <1>10, <2>1, <3>1, <3>2
      DEF FeedsMarker, Enqueued, PipelineTypeOK, flags, workers, counts, Queues
  <2>2. CASE ~StageHasRoom(1)
    BY <1>10, <2>2 DEF FeedsMarker, PipelineTypeOK, flags, workers, counts
  <2> QED
    BY <2>1, <2>2
<1>11. CASE Execute
  BY <1>11 DEF Execute, PipelineTypeOK, flags, workers, counts, Ends, Working, Putting
<1>12. CASE PollStops
  <2>1. ASSUME NEW s \in Stages
        PROVE  LET r == queue[s] \o [i \in 1..(QueueCapacity - Len(queue[s])) |-> Poison]
               IN r \in Seq(Items \cup {Poison}) /\ Len(r) = QueueCapacity
    <3>1. queue[s] \in Queues /\ Len(queue[s]) <= QueueCapacity /\ Len(queue[s]) \in Nat
      BY DEF PipelineTypeOK, Queues
    <3>2. QueueCapacity - Len(queue[s]) \in Nat
      BY <3>1, QueueCapacityAssumption
    <3>3. Len(queue[s]) + (QueueCapacity - Len(queue[s])) = QueueCapacity
      BY <3>1, QueueCapacityAssumption
    <3> QED
      BY <3>1, <3>2, <3>3, ItemsInFilled DEF Queues
  <2>2. \A s \in Stages :
          queue'[s] \in Seq(Items \cup {Poison}) /\ Len(queue'[s]) = QueueCapacity
    BY <1>12, <2>1 DEF PollStops
  <2>3. queue' = [s \in Stages |-> queue'[s]]
    BY <1>12 DEF PollStops
  <2>4. queue' \in [Stages -> Seq(Items \cup {Poison})]
    BY <2>2, <2>3
  <2>5. queue' \in [Stages -> Seq(Items \cup {Poison})]
        /\ \A s \in Stages : Len(queue'[s]) <= QueueCapacity
    BY <2>2, <2>4, QueueCapacityAssumption
  <2> QED
    BY <1>12, <2>5 DEF PollStops, PipelineTypeOK, flags, workers, counts
<1>13. CASE Joins
  BY <1>13, QueueCapacityAssumption
  DEF Joins, PipelineTypeOK, flags, counts, Settled, Outcome, Ends, Terminal
<1> QED
  BY <1>1, <1>2, <1>3, <1>4, <1>5, <1>6, <1>7, <1>8, <1>9, <1>10, <1>11, <1>12, <1>13
  DEF PipelineNext, WorkerStep, HandlerStep, QuietWorker, FeederStep, MainStep, Quiet

\* Every step keeps where the threads are.
LEMMA ThreadsStep == ASSUME PipelineInv, PipelineNext PROVE ThreadsInv'
<1> USE DEF PipelineInv
<1>1. ASSUME NEW s \in Stages, WorkerStep(s) \/ HandlerStep(s) PROVE ThreadsInv'
  BY <1>1, WorkerFrame DEF ThreadsInv
<1>2. CASE Quiet
  BY <1>2
  DEF Quiet, FeederLooks, FeederEnds, PollEnds, PollRunsOut, Returns, ExecuteFails, TimesOut,
     CancelIsCalled, CancelSets, CancelWrites, ThreadsInv, workers, counts, ThreadsEnded,
     PipelineTypeOK
<1>3. CASE Feeds
  BY <1>3 DEF Feeds, ThreadsInv, workers, counts, flags, ThreadsEnded, PipelineTypeOK
<1>4. CASE FeedsMarker
  BY <1>4 DEF FeedsMarker, ThreadsInv, workers, counts, flags, ThreadsEnded, PipelineTypeOK
<1>5. CASE Execute
  BY <1>5 DEF Execute, ThreadsInv, workers, counts, flags, ThreadsEnded, PipelineTypeOK
<1>6. CASE PollStops
  BY <1>6 DEF PollStops, ThreadsInv, workers, counts, flags, ThreadsEnded, PipelineTypeOK
<1>7. CASE Joins
  BY <1>7 DEF Joins, ThreadsInv, workers, counts, flags, ThreadsEnded, PipelineTypeOK
<1> QED
  BY <1>1, <1>2, <1>3, <1>4, <1>5, <1>6, <1>7 DEF PipelineNext, FeederStep, MainStep, Quiet

\* Every step keeps what a thread holds.
LEMMA HoldsStep == ASSUME PipelineInv, PipelineNext PROVE HoldsInv' /\ FeedInv'
<1> USE DEF PipelineInv
<1>1. ASSUME NEW s \in Stages, QuietWorker(s) PROVE HoldsInv' /\ FeedInv'
  <2>1. feeder' = feeder /\ next' = next /\ cur' = cur
        /\ \A t \in Stages \ {s} : worker'[t] = worker[t]
    BY <1>1, WorkerFrame, QuietWorkerFrame
  <2> QED
    BY <1>1, <2>1, QuietWorkerFrame DEF HoldsInv, FeedInv
<1>2. ASSUME NEW s \in Stages, Takes(s) PROVE HoldsInv' /\ FeedInv'
  <2>1. queue[s] \in Seq(Items \cup {Poison}) /\ queue[s] # <<>>
    BY <1>2 DEF Takes, PipelineTypeOK
  <2>2. Head(queue[s]) \in Items \cup {Poison}
    BY <2>1
  <2>3. /\ cur'[s] = Head(queue[s])
        /\ worker'[s] = IF Head(queue[s]) = Poison THEN AfterMarker(s) ELSE "begin"
    BY <1>2 DEF Takes, WorkerAt, PipelineTypeOK
  <2>4. \A t \in Stages \ {s} : worker'[t] = worker[t] /\ cur'[t] = cur[t]
    BY <1>2 DEF Takes, WorkerAt, PipelineTypeOK
  <2>5. /\ worker'[s] \in Working => cur'[s] \in Items
        /\ worker'[s] \in Putting => s < NumStages
    BY <2>2, <2>3, ItemsAssumption DEF AfterMarker, Working, Putting, Poison
  <2> QED
    BY <1>2, <2>4, <2>5 DEF HoldsInv, FeedInv, Takes
<1>3. ASSUME NEW s \in Stages, AbandonsItem(s) PROVE HoldsInv' /\ FeedInv'
  <2>1. feeder' = feeder /\ next' = next /\ \A t \in Stages \ {s} : worker'[t] = worker[t]
    BY <1>3, WorkerFrame DEF WorkerStep, HandlerStep
  <2>2. /\ cur' = cur
        /\ worker'[s] \in Working => cur[s] \in Items
        /\ worker'[s] \in Putting => s < NumStages
    BY <1>3, StagesAssumption
    DEF AbandonsItem, WorkerAt, AfterPut, PipelineTypeOK, HoldsInv, Working, Putting, Stages
  <2> QED
    BY <2>1, <2>2 DEF HoldsInv, FeedInv
<1>4. ASSUME NEW s \in Stages, DropsOutput(s) PROVE HoldsInv' /\ FeedInv'
  <2>1. feeder' = feeder /\ next' = next /\ \A t \in Stages \ {s} : worker'[t] = worker[t]
    BY <1>4, WorkerFrame DEF WorkerStep, HandlerStep
  <2>2. /\ cur' = cur
        /\ worker'[s] \in Working => cur[s] \in Items
        /\ worker'[s] \in Putting => s < NumStages
    BY <1>4, StagesAssumption
    DEF DropsOutput, WorkerAt, AfterPut, PipelineTypeOK, HoldsInv, Working, Putting, Stages
  <2> QED
    BY <2>1, <2>2 DEF HoldsInv, FeedInv
<1>5. ASSUME NEW s \in Stages, Puts(s) PROVE HoldsInv' /\ FeedInv'
  <2>1. feeder' = feeder /\ next' = next /\ \A t \in Stages \ {s} : worker'[t] = worker[t]
    BY <1>5, WorkerFrame DEF WorkerStep, HandlerStep
  <2>2. /\ cur' = cur
        /\ worker'[s] \in Working => cur[s] \in Items
        /\ worker'[s] \in Putting => s < NumStages
    BY <1>5, StagesAssumption
    DEF Puts, WorkerAt, AfterPut, PipelineTypeOK, HoldsInv, Working, Putting, Stages
  <2> QED
    BY <2>1, <2>2 DEF HoldsInv, FeedInv
<1>6. ASSUME NEW s \in Stages, HandlerReturns(s) PROVE HoldsInv' /\ FeedInv'
  <2>1. feeder' = feeder /\ next' = next /\ \A t \in Stages \ {s} : worker'[t] = worker[t]
    BY <1>6, WorkerFrame DEF WorkerStep, HandlerStep
  <2>2. /\ cur' = cur
        /\ worker'[s] \in Working => cur[s] \in Items
        /\ worker'[s] \in Putting => s < NumStages
    BY <1>6, StagesAssumption
    DEF HandlerReturns, WorkerAt, AfterPut, PipelineTypeOK, HoldsInv, Working, Putting, Stages
  <2> QED
    BY <2>1, <2>2 DEF HoldsInv, FeedInv
<1>7. ASSUME NEW s \in Stages, HandlerFails(s) PROVE HoldsInv' /\ FeedInv'
  <2>1. feeder' = feeder /\ next' = next /\ \A t \in Stages \ {s} : worker'[t] = worker[t]
    BY <1>7, WorkerFrame DEF WorkerStep, HandlerStep
  <2>2. /\ cur' = cur
        /\ worker'[s] \in Working => cur[s] \in Items
        /\ worker'[s] \in Putting => s < NumStages
    BY <1>7, StagesAssumption
    DEF HandlerFails, WorkerAt, AfterPut, PipelineTypeOK, HoldsInv, Working, Putting, Stages
  <2> QED
    BY <2>1, <2>2 DEF HoldsInv, FeedInv
<1>8. CASE Quiet
  <2>1. feeder' = "feeding" => next <= NumItems
    BY <1>8, ItemsAssumption
    DEF FeedInv, PipelineTypeOK, workers, Quiet, FeederLooks, FeederEnds, PollEnds, PollRunsOut,
       Returns, ExecuteFails, TimesOut, CancelIsCalled, CancelSets, CancelWrites
  <2> QED
    BY <1>8, <2>1, QuietFrame DEF HoldsInv, FeedInv
<1>9. CASE Feeds
  BY <1>9, ItemsAssumption
  DEF Feeds, HoldsInv, FeedInv, workers, counts, flags, PipelineTypeOK, Working, Putting
<1>10. CASE FeedsMarker
  BY <1>10, ItemsAssumption
  DEF FeedsMarker, HoldsInv, FeedInv, workers, counts, flags, PipelineTypeOK, Working, Putting
<1>11. CASE Execute
  BY <1>11, ItemsAssumption
  DEF Execute, HoldsInv, FeedInv, workers, counts, flags, PipelineTypeOK, Working, Putting
<1>12. CASE PollStops
  BY <1>12, ItemsAssumption
  DEF PollStops, HoldsInv, FeedInv, workers, counts, flags, PipelineTypeOK, Working, Putting
<1>13. CASE Joins
  BY <1>13, ItemsAssumption
  DEF Joins, HoldsInv, FeedInv, workers, counts, flags, PipelineTypeOK, Working, Putting
<1> QED
  BY <1>1, <1>2, <1>3, <1>4, <1>5, <1>6, <1>7, <1>8, <1>9, <1>10, <1>11, <1>12, <1>13
  DEF PipelineNext, WorkerStep, HandlerStep, QuietWorker, FeederStep, MainStep, Quiet

\* The result is what the items are when the threads have ended.
LEMMA ResultStep == ASSUME PipelineInv, PipelineNext PROVE ResultInv'
<1> USE DEF PipelineInv
<1>1. ASSUME NEW s \in Stages, WorkerStep(s) \/ HandlerStep(s) PROVE ResultInv'
  BY <1>1, WorkerFrame DEF ResultInv
<1>2. CASE Quiet
  BY <1>2, QuietFrame
  DEF ResultInv, Finished, Quiet, FeederLooks, FeederEnds, PollEnds, PollRunsOut, Returns,
     ExecuteFails, TimesOut, CancelIsCalled, CancelSets, CancelWrites
<1>3. CASE Feeds
  BY <1>3 DEF Feeds, ResultInv, Finished, workers
<1>4. CASE FeedsMarker
  BY <1>4 DEF FeedsMarker, ResultInv, Finished, workers
<1>5. CASE Execute
  BY <1>5 DEF Execute, ResultInv, Finished, workers
<1>6. CASE PollStops
  BY <1>6 DEF PollStops, ResultInv, Finished, workers
<1>7. CASE Joins
  <2>1. result' = Outcome /\ result' \notin {"none", "FAILED"}
    BY <1>7 DEF Joins, Outcome
  <2>2. \A i \in Items : item'[i] = Settled(item[i]) /\ item'[i] \in Terminal
    BY <1>7 DEF Joins, Settled, Terminal
  <2>3. ASSUME Outcome = "COMPLETED", NEW i \in Items PROVE Finished(i)'
    <3>1. Runs /\ feeder = "dead" /\ next = NumItems + 1
      BY <1>7, <2>3 DEF Joins, Outcome, Runs, ThreadsEnded, MarkerInv
    <3>2. i \in 1..(next - 1)
      BY <3>1, ItemsAssumption DEF Items
    <3>3. \A s \in Stages : worker[s] = "dead" /\ queue[s] = <<>>
      BY <1>7, <3>1 DEF Joins, ThreadsEnded, MarkerInv
    <3>4. \A s \in Stages : ~Queued(i, s) /\ ~Held(i, s)
      BY <3>3 DEF Queued, Held, Working, Putting
    <3>5. Finished(i)
      BY <3>1, <3>2, <3>4 DEF PlaceInv
    <3>6. item'[i] = item[i] /\ passed'[i] = passed[i]
      BY <1>7, <2>2, <3>5 DEF Joins, Finished, Settled, Terminal
    <3> QED
      BY <3>5, <3>6 DEF Finished
  <2> QED
    BY <2>1, <2>2, <2>3 DEF ResultInv
<1> QED
  BY <1>1, <1>2, <1>3, <1>4, <1>5, <1>6, <1>7 DEF PipelineNext, FeederStep, MainStep, Quiet

-----------------------------------------------------------------------------
(* The balance of every stage. *)

\* Nothing happens to a stage.
StageUnchanged(s) ==
  /\ queue'[s] = queue[s] /\ worker'[s] = worker[s] /\ cur'[s] = cur[s]
  /\ success'[s] = success[s] /\ failed'[s] = failed[s] /\ dropped'[s] = dropped[s]

\* Then neither its balance changes nor what it has handed on.
LEMMA BalanceUnchanged ==
  ASSUME NEW s \in Stages, StageUnchanged(s)
  PROVE  Met(s)' = Met(s) /\ Left(s)' = Left(s)
BY DEF StageUnchanged, Met, Left, WorksOn, HandsOver

\* A step within a stage that moves nothing to the next one keeps the balances.
LEMMA FlowWithin ==
  ASSUME FlowIsConserved, main \in {"poll", "join"}, next' = next, NEW s \in Stages,
         \A t \in Stages \ {s} : StageUnchanged(t),
         Met(s)' = Met(s), Left(s)' = Left(s) \/ s = NumStages
  PROVE  FlowIsConserved'
<1>1. \A t \in Stages : Met(t)' = Met(t)
  BY BalanceUnchanged
<1>2. \A t \in Stages : t < NumStages => Left(t)' = Left(t)
  BY BalanceUnchanged, StagesAssumption DEF Stages
<1>3. ASSUME NEW t \in Stages PROVE HandedTo(t)' = HandedTo(t)
  <2>1. CASE t = 1
    BY <2>1 DEF HandedTo
  <2>2. CASE t # 1
    <3>1. t - 1 \in Stages /\ t - 1 < NumStages
      BY <2>2, StagesAssumption DEF Stages
    <3>2. Left(t - 1)' = Left(t - 1)
      BY <1>2, <3>1
    <3> QED
      BY <2>2, <3>2 DEF HandedTo, Left
  <2> QED
    BY <2>1, <2>2
<1>4. \A t \in Stages : HandedTo(t) = Met(t)
  BY DEF FlowIsConserved, Met
<1>5. \A t \in Stages : HandedTo(t)' = Met(t)'
  BY <1>1, <1>3, <1>4
<1> QED
  BY <1>5 DEF FlowIsConserved, Met

\* The numbers in the balance of a stage after a step.
LEMMA FlowTypesAfter ==
  ASSUME PipelineTypeOK', NEW s \in Stages
  PROVE  /\ Len(WorksOn(s))' = IF worker'[s] \in Working THEN 1 ELSE 0
         /\ Len(HandsOver(s))' = IF worker'[s] \in Putting /\ IsItem(cur'[s]) THEN 1 ELSE 0
<1>1. Len(<<>>) = 0 /\ Len(<<cur'[s]>>) = 1
  OBVIOUS
<1> QED
  BY <1>1 DEF WorksOn, HandsOver

\* Every step keeps the balance of every stage.
LEMMA FlowStep == ASSUME PipelineInv, PipelineTypeOK', PipelineNext PROVE FlowIsConserved'
<1> USE DEF PipelineInv
<1>1. ASSUME NEW s \in Stages, QuietWorker(s) PROVE FlowIsConserved'
  <2>1. main \in {"poll", "join"} /\ UNCHANGED <<main, next, queue, cur, success, failed, dropped>>
    BY <1>1, WorkerFrame, QuietWorkerFrame
  <2>2. \A t \in Stages \ {s} : StageUnchanged(t)
    BY <1>1, <2>1, WorkerFrame, QuietWorkerFrame DEF StageUnchanged
  <2>3. Met(s)' = Met(s) /\ Left(s)' = Left(s)
    BY <1>1, <2>1, QuietWorkerFrame DEF Met, Left, WorksOn, HandsOver
  <2> QED
    BY <2>1, <2>2, <2>3, FlowWithin
<1>2. ASSUME NEW s \in Stages, Takes(s) PROVE FlowIsConserved'
  <2>1. main \in {"poll", "join"} /\ main' = main /\ next' = next
    BY <1>2, WorkerFrame DEF WorkerStep, HandlerStep
  <2>2. \A t \in Stages \ {s} : StageUnchanged(t)
    BY <1>2, WorkerFrame DEF Takes, WorkerStep, HandlerStep, PipelineTypeOK, StageUnchanged
  <2>3. queue[s] \in Queues /\ queue[s] # <<>>
    BY <1>2 DEF Takes, PipelineTypeOK, Queues
  <2>4. /\ ItemsIn(queue[s]) = ItemsIn(Tail(queue[s])) + IF IsItem(Head(queue[s])) THEN 1 ELSE 0
        /\ ItemsIn(Tail(queue[s])) \in Nat
    BY <2>3, ItemsInTail, ItemsInType
  <2>5. /\ queue'[s] = Tail(queue[s]) /\ cur'[s] = Head(queue[s])
        /\ worker'[s] = IF IsItem(Head(queue[s])) THEN "begin" ELSE AfterMarker(s)
        /\ success'[s] = success[s] /\ failed'[s] = failed[s] /\ dropped'[s] = dropped[s]
        /\ worker[s] = "take"
    BY <1>2 DEF Takes, Rest, WorkerAt, PipelineTypeOK, counts, IsItem
  <2>6. ItemsIn(queue[s])' = ItemsIn(Tail(queue[s]))
    BY <2>5
  <2>7. /\ Len(WorksOn(s))' = IF IsItem(Head(queue[s])) THEN 1 ELSE 0
        /\ Len(HandsOver(s))' = 0 /\ Len(WorksOn(s)) = 0 /\ Len(HandsOver(s)) = 0
    BY <2>5, FlowTypes, FlowTypesAfter DEF AfterMarker, Working, Putting
  <2>8. Met(s)' = Met(s) /\ Left(s)' = Left(s)
    BY <2>4, <2>5, <2>6, <2>7, FlowTypes DEF Met, Left
  <2> QED
    BY <2>1, <2>2, <2>8, FlowWithin
<1>3. ASSUME NEW s \in Stages, AbandonsItem(s) PROVE FlowIsConserved'
  <2>1. main \in {"poll", "join"} /\ main' = main /\ next' = next
    BY <1>3, WorkerFrame DEF WorkerStep, HandlerStep
  <2>2. \A t \in Stages \ {s} : StageUnchanged(t)
    BY <1>3, WorkerFrame DEF AbandonsItem, WorkerStep, HandlerStep, PipelineTypeOK, StageUnchanged
  <2>3. queue' = queue /\ cur' = cur
    BY <1>3 DEF AbandonsItem
  <2>4. ItemsIn(queue[s])' = ItemsIn(queue[s])
    BY <2>3
  <2>5. worker[s] \in Working /\ worker'[s] = "top"
        /\ dropped'[s] = dropped[s] + 1 /\ failed'[s] = failed[s] /\ success'[s] = success[s]
    BY <1>3 DEF AbandonsItem, WorkerAt, OneMore, Interruptible, Working, PipelineTypeOK
  <2>6. Len(WorksOn(s)) = 1 /\ Len(WorksOn(s))' = 0 /\ Len(HandsOver(s))' = Len(HandsOver(s))
    BY <2>5, FlowTypes, FlowTypesAfter DEF Working, Putting
  <2>7. /\ Met(s) = ItemsIn(queue[s]) + 1 + success[s] + failed[s] + dropped[s]
        /\ Met(s)' = ItemsIn(queue[s]) + 0 + success[s] + failed[s] + (dropped[s] + 1)
    BY <2>4, <2>5, <2>6 DEF Met
  <2>8. Left(s)' = Left(s)
    BY <2>5, <2>6 DEF Left
  <2>9. ItemsIn(queue[s]) \in Nat /\ success[s] \in Int /\ failed[s] \in Int /\ dropped[s] \in Int
    BY FlowTypes
  <2>10. Met(s)' = Met(s)
    BY <2>7, <2>9
  <2>11. Met(s)' = Met(s) /\ Left(s)' = Left(s)
    BY <2>8, <2>10
  <2> QED
    BY <2>1, <2>2, <2>11, FlowWithin
<1>4. ASSUME NEW s \in Stages, DropsOutput(s) PROVE FlowIsConserved'
  <2>1. main \in {"poll", "join"} /\ main' = main /\ next' = next
    BY <1>4, WorkerFrame DEF WorkerStep, HandlerStep
  <2>2. \A t \in Stages \ {s} : StageUnchanged(t)
    BY <1>4, WorkerFrame DEF DropsOutput, WorkerStep, HandlerStep, PipelineTypeOK, StageUnchanged
  <2>3. queue' = queue /\ cur' = cur
    BY <1>4 DEF DropsOutput
  <2>4. ItemsIn(queue[s])' = ItemsIn(queue[s])
    BY <2>3
  <2>5. /\ worker[s] = "put" /\ worker'[s] \in {"dead", "top"} /\ failed'[s] = failed[s]
        /\ IF IsItem(cur[s])
           THEN success'[s] = success[s] - 1 /\ dropped'[s] = dropped[s] + 1
           ELSE success'[s] = success[s] /\ dropped'[s] = dropped[s]
    BY <1>4 DEF DropsOutput, WorkerAt, AfterPut, OneMore, Withdrawn, IsItem, PipelineTypeOK
  <2>6. /\ Len(WorksOn(s)) = 0 /\ Len(WorksOn(s))' = 0 /\ Len(HandsOver(s))' = 0
        /\ Len(HandsOver(s)) = IF IsItem(cur[s]) THEN 1 ELSE 0
    BY <2>5, FlowTypes, FlowTypesAfter DEF Working, Putting
  <2>7. ASSUME IsItem(cur[s]) PROVE Met(s)' = Met(s) /\ Left(s)' = Left(s)
    <3>1. /\ Met(s) = ItemsIn(queue[s]) + 0 + success[s] + failed[s] + dropped[s]
          /\ Met(s)' = ItemsIn(queue[s]) + 0 + (success[s] - 1) + failed[s] + (dropped[s] + 1)
          /\ Left(s) = success[s] - 1
          /\ Left(s)' = (success[s] - 1) - 0
      BY <2>4, <2>5, <2>6, <2>7 DEF Met, Left
    <3>2. /\ ItemsIn(queue[s]) \in Nat /\ success[s] \in Int /\ failed[s] \in Int
          /\ dropped[s] \in Int
      BY FlowTypes
    <3> QED
      BY <3>1, <3>2
  <2>8. ASSUME ~IsItem(cur[s]) PROVE Met(s)' = Met(s) /\ Left(s)' = Left(s)
    BY <2>4, <2>5, <2>6, <2>8 DEF Met, Left
  <2>9. Met(s)' = Met(s) /\ Left(s)' = Left(s)
    BY <2>7, <2>8
  <2> QED
    BY <2>1, <2>2, <2>9, FlowWithin
<1>5. ASSUME NEW s \in Stages, Puts(s) PROVE FlowIsConserved'
  <2>1. main \in {"poll", "join"} /\ main' = main /\ next' = next
    BY <1>5, WorkerFrame DEF WorkerStep
  <2>2. s < NumStages /\ s + 1 \in Stages /\ s + 1 # s /\ s + 1 # 1
    BY <1>5, FlowTypes DEF Puts, HoldsInv, Putting, Stages
  <2>3. \A t \in Stages \ {s, s + 1} : StageUnchanged(t)
    BY <1>5, <2>2 DEF Puts, Enqueued, WorkerAt, AfterPut, PipelineTypeOK, StageUnchanged, counts
  <2>4. /\ queue'[s] = queue[s] /\ cur' = cur /\ worker[s] = "putting"
        /\ worker'[s] = IF cur[s] = Poison THEN "dead" ELSE "top"
        /\ queue'[s + 1] = Append(queue[s + 1], cur[s]) /\ worker'[s + 1] = worker[s + 1]
        /\ success' = success /\ failed' = failed /\ dropped' = dropped
    BY <1>5, <2>2 DEF Puts, Enqueued, WorkerAt, AfterPut, PipelineTypeOK, counts
  <2>5. ItemsIn(Append(queue[s + 1], cur[s])) = ItemsIn(queue[s + 1]) + IF IsItem(cur[s]) THEN 1 ELSE 0
    <3>1. queue[s + 1] \in Queues /\ cur[s] \in Items \cup {Poison}
      BY <2>2 DEF PipelineTypeOK, Queues
    <3> QED
      BY <3>1, ItemsInAppend
  <2>6. Met(s)' = Met(s)
    <3>1. ItemsIn(queue[s])' = ItemsIn(queue[s])
      BY <2>4
    <3>2. Len(WorksOn(s))' = 0 /\ Len(WorksOn(s)) = 0
      BY <2>4, FlowTypes, FlowTypesAfter DEF Working
    <3> QED
      BY <2>4, <3>1, <3>2 DEF Met
  <2>7. Left(s)' = Left(s) + IF IsItem(cur[s]) THEN 1 ELSE 0
    <3>1. Len(HandsOver(s))' = 0 /\ Len(HandsOver(s)) = IF IsItem(cur[s]) THEN 1 ELSE 0
      BY <2>4, FlowTypes, FlowTypesAfter DEF Putting
    <3> QED
      BY <2>4, <3>1, FlowTypes DEF Left
  <2>8. Met(s + 1)' = Met(s + 1) + IF IsItem(cur[s]) THEN 1 ELSE 0
    <3>1. ItemsIn(queue[s + 1])' = ItemsIn(Append(queue[s + 1], cur[s]))
      BY <2>4
    <3>2. Len(WorksOn(s + 1))' = Len(WorksOn(s + 1)) /\ Len(WorksOn(s + 1)) \in Nat
      BY <2>2, <2>4, FlowTypes DEF WorksOn
    <3> QED
      BY <2>2, <2>4, <2>5, <3>1, <3>2, FlowTypes DEF Met
  <2>9. Left(s + 1)' = Left(s + 1)
    BY <2>2, <2>4 DEF Left, HandsOver
  <2>10. \A t \in Stages : HandedTo(t) = Met(t)
    BY <2>1 DEF FlowIsConserved, Met
  <2>11. ASSUME NEW t \in Stages PROVE HandedTo(t)' = Met(t)'
    <3>1. CASE t = s + 1
      <4>1. HandedTo(t)' = Left(s)' /\ HandedTo(t) = Left(s)
        BY <2>2, <3>1 DEF HandedTo, Left, Stages
      <4> QED
        BY <2>7, <2>8, <2>10, <3>1, <4>1
    <3>2. CASE t # s + 1
      <4>1. Met(t)' = Met(t)
        BY <2>3, <2>6, <3>2, BalanceUnchanged
      <4>2. CASE t = 1
        BY <2>1, <2>10, <4>1, <4>2 DEF HandedTo
      <4>3. CASE t # 1
        <5>1. t - 1 \in Stages /\ t - 1 # s
          BY <3>2, <4>3, StagesAssumption DEF Stages
        <5>2. Left(t - 1)' = Left(t - 1)
          BY <2>3, <2>9, <5>1, BalanceUnchanged
        <5>3. HandedTo(t)' = Left(t - 1)' /\ HandedTo(t) = Left(t - 1)
          BY <4>3 DEF HandedTo, Left
        <5> QED
          BY <2>10, <4>1, <5>2, <5>3
      <4> QED
        BY <4>2, <4>3
    <3> QED
      BY <3>1, <3>2
  <2> QED
    BY <2>11 DEF FlowIsConserved, Met
<1>6. ASSUME NEW s \in Stages, HandlerReturns(s) PROVE FlowIsConserved'
  <2>1. main \in {"poll", "join"} /\ main' = main /\ next' = next
    BY <1>6, WorkerFrame DEF WorkerStep, HandlerStep
  <2>2. \A t \in Stages \ {s} : StageUnchanged(t)
    BY <1>6, WorkerFrame
    DEF HandlerReturns, WorkerStep, HandlerStep, PipelineTypeOK, StageUnchanged
  <2>3. queue' = queue /\ cur' = cur
    BY <1>6 DEF HandlerReturns
  <2>4. ItemsIn(queue[s])' = ItemsIn(queue[s])
    BY <2>3
  <2>5. /\ worker[s] = "handler" /\ worker'[s] = IF s < NumStages THEN "put" ELSE "top"
        /\ success'[s] = success[s] + 1 /\ failed'[s] = failed[s] /\ dropped'[s] = dropped[s]
    BY <1>6 DEF HandlerReturns, WorkerAt, OneMore, PipelineTypeOK
  <2>6. Len(WorksOn(s)) = 1 /\ Len(WorksOn(s))' = 0 /\ Len(HandsOver(s)) = 0
    BY <2>5, FlowTypes, FlowTypesAfter DEF Working, Putting
  <2>7. /\ Met(s) = ItemsIn(queue[s]) + 1 + success[s] + failed[s] + dropped[s]
         /\ Met(s)' = ItemsIn(queue[s]) + 0 + (success[s] + 1) + failed[s] + dropped[s]
    BY <2>4, <2>5, <2>6 DEF Met
  <2>8. Met(s)' = Met(s)
    BY <2>7, FlowTypes
  <2>9. ASSUME s # NumStages PROVE Left(s)' = Left(s)
    <3>1. s < NumStages /\ IsItem(cur'[s])
      BY <1>6, <2>3, <2>5, <2>9, StagesAssumption, ItemsAssumption
      DEF Stages, HoldsInv, Working, IsItem, Items, Poison
    <3>2. Len(HandsOver(s))' = 1
      BY <2>5, <3>1, FlowTypesAfter DEF Putting
    <3> QED
      BY <2>5, <2>6, <3>2, FlowTypes DEF Left
  <2>10. Met(s)' = Met(s) /\ (Left(s)' = Left(s) \/ s = NumStages)
    BY <2>8, <2>9
  <2> QED
    BY <2>1, <2>2, <2>10, FlowWithin
<1>7. ASSUME NEW s \in Stages, HandlerFails(s) PROVE FlowIsConserved'
  <2>1. main \in {"poll", "join"} /\ main' = main /\ next' = next
    BY <1>7, WorkerFrame DEF WorkerStep, HandlerStep
  <2>2. \A t \in Stages \ {s} : StageUnchanged(t)
    BY <1>7, WorkerFrame DEF HandlerFails, WorkerStep, HandlerStep, PipelineTypeOK, StageUnchanged
  <2>3. queue' = queue /\ cur' = cur
    BY <1>7 DEF HandlerFails
  <2>4. ItemsIn(queue[s])' = ItemsIn(queue[s])
    BY <2>3
  <2>5. worker[s] \in Working /\ worker'[s] = "top"
        /\ failed'[s] = failed[s] + 1 /\ dropped'[s] = dropped[s] /\ success'[s] = success[s]
    BY <1>7 DEF HandlerFails, WorkerAt, OneMore, Interruptible, Working, PipelineTypeOK
  <2>6. Len(WorksOn(s)) = 1 /\ Len(WorksOn(s))' = 0 /\ Len(HandsOver(s))' = Len(HandsOver(s))
    BY <2>5, FlowTypes, FlowTypesAfter DEF Working, Putting
  <2>7. /\ Met(s) = ItemsIn(queue[s]) + 1 + success[s] + failed[s] + dropped[s]
        /\ Met(s)' = ItemsIn(queue[s]) + 0 + success[s] + (failed[s] + 1) + dropped[s]
    BY <2>4, <2>5, <2>6 DEF Met
  <2>8. Left(s)' = Left(s)
    BY <2>5, <2>6 DEF Left
  <2>9. ItemsIn(queue[s]) \in Nat /\ success[s] \in Int /\ failed[s] \in Int /\ dropped[s] \in Int
    BY FlowTypes
  <2>10. Met(s)' = Met(s)
    BY <2>7, <2>9
  <2>11. Met(s)' = Met(s) /\ Left(s)' = Left(s)
    BY <2>8, <2>10
  <2> QED
    BY <2>1, <2>2, <2>11, FlowWithin
<1>8. CASE Quiet
  <2>1. main' \in {"poll", "join"} => main \in {"poll", "join"}
    BY <1>8
    DEF Quiet, FeederLooks, FeederEnds, PollEnds, PollRunsOut, Returns, ExecuteFails, TimesOut,
       CancelIsCalled, CancelSets, CancelWrites
  <2> QED
    BY <1>8, <2>1, QuietFrame DEF FlowIsConserved, HandedTo, WorksOn, HandsOver
<1>9. CASE Feeds
  <2>1. CASE StageHasRoom(1)
    <3>1. 1 \in Stages
      BY StagesAssumption DEF Stages
    <3>2. 1 \in Stages /\ queue[1] \in Queues
      BY <3>1 DEF PipelineTypeOK, Queues
    <3>3. next \in Items \cup {Poison} /\ next \in Nat /\ IsItem(next)
      BY <1>9, ItemsAssumption DEF Feeds, FeedInv, PipelineTypeOK, Items, IsItem, Poison
    <3>4. ItemsIn(queue[1])' = ItemsIn(queue[1]) + 1 /\ next' = next + 1
      <4>1. queue'[1] = Append(queue[1], next) /\ next' = next + 1
        BY <1>9, <2>1, <3>2, <3>3 DEF Feeds, Enqueued, PipelineTypeOK
      <4>2. ItemsIn(Append(queue[1], next)) = ItemsIn(queue[1]) + 1
        BY <3>2, <3>3, ItemsInAppend, ItemsInType DEF IsItem
      <4> QED
        BY <4>1, <4>2
    <3>5. main' = main /\ \A t \in Stages \ {1} : StageUnchanged(t)
      BY <1>9, <2>1 DEF Feeds, Enqueued, workers, counts, PipelineTypeOK, StageUnchanged
    <3>6. Met(1)' = Met(1) + 1 /\ Left(1)' = Left(1)
      <4>1. UNCHANGED <<worker, cur, success, failed, dropped>>
        BY <1>9 DEF Feeds, workers, counts
      <4>2. Len(WorksOn(1))' = Len(WorksOn(1)) /\ Len(HandsOver(1))' = Len(HandsOver(1))
        BY <4>1 DEF WorksOn, HandsOver
      <4>3. Len(WorksOn(1)) \in Nat
        BY <3>2, FlowTypes
      <4>4. ItemsIn(queue[1]) \in Nat /\ success[1] \in Nat /\ failed[1] \in Nat /\ dropped[1] \in Nat
        BY <3>2, FlowTypes
      <4>5. Left(1)' = Left(1)
        BY <4>1, <4>2 DEF Left
      <4>6. /\ Met(1) = ItemsIn(queue[1]) + Len(WorksOn(1)) + success[1] + failed[1] + dropped[1]
            /\ Met(1)' = (ItemsIn(queue[1]) + 1) + Len(WorksOn(1)) + success[1] + failed[1] + dropped[1]
        BY <3>4, <4>1, <4>2 DEF Met
      <4> QED
        BY <4>3, <4>4, <4>5, <4>6
    <3>7. ASSUME main \in {"poll", "join"}, NEW t \in Stages PROVE HandedTo(t)' = Met(t)'
      <4>1. HandedTo(t) = Met(t)
        BY <3>7 DEF FlowIsConserved, Met
      <4>2. CASE t = 1
        BY <3>3, <3>4, <3>6, <4>1, <4>2 DEF HandedTo
      <4>3. CASE t # 1
        <5>1. t - 1 \in Stages
          BY <4>3, FlowTypes DEF Stages
        <5>2. Left(t - 1)' = Left(t - 1) /\ Met(t)' = Met(t)
          BY <3>5, <3>6, <4>3, <5>1, BalanceUnchanged
        <5>3. HandedTo(t)' = Left(t - 1)' /\ HandedTo(t) = Left(t - 1)
          BY <4>3 DEF HandedTo, Left
        <5> QED
          BY <4>1, <5>2, <5>3
      <4> QED
        BY <4>2, <4>3
    <3> QED
      BY <3>5, <3>7 DEF FlowIsConserved, Met
  <2>2. CASE ~StageHasRoom(1)
    <3>1. UNCHANGED <<main, next, queue, worker, cur, success, failed, dropped>>
      BY <1>9, <2>2 DEF Feeds, workers, counts
    <3> QED
      BY <3>1 DEF FlowIsConserved, HandedTo, WorksOn, HandsOver
  <2> QED
    BY <2>1, <2>2
<1>10. CASE FeedsMarker
  <2>1. CASE StageHasRoom(1)
    <3>1. 1 \in Stages
      BY StagesAssumption DEF Stages
    <3>2. 1 \in Stages /\ queue[1] \in Queues
      BY <3>1 DEF PipelineTypeOK, Queues
    <3>3. Poison \in Items \cup {Poison} /\ next \in Nat
      BY <1>10, ItemsAssumption DEF FeedsMarker, FeedInv, PipelineTypeOK, Items, IsItem, Poison
    <3>4. ItemsIn(queue[1])' = ItemsIn(queue[1]) + 0 /\ next' = next + 0
      <4>1. queue'[1] = Append(queue[1], Poison) /\ next' = next + 0
        BY <1>10, <2>1, <3>2, <3>3 DEF FeedsMarker, Enqueued, PipelineTypeOK
      <4>2. ItemsIn(Append(queue[1], Poison)) = ItemsIn(queue[1]) + 0
        BY <3>2, <3>3, ItemsInAppend, ItemsInType DEF IsItem
      <4> QED
        BY <4>1, <4>2
    <3>5. main' = main /\ \A t \in Stages \ {1} : StageUnchanged(t)
      BY <1>10, <2>1 DEF FeedsMarker, Enqueued, workers, counts, PipelineTypeOK, StageUnchanged
    <3>6. Met(1)' = Met(1) + 0 /\ Left(1)' = Left(1)
      <4>1. UNCHANGED <<worker, cur, success, failed, dropped>>
        BY <1>10 DEF FeedsMarker, workers, counts
      <4>2. Len(WorksOn(1))' = Len(WorksOn(1)) /\ Len(HandsOver(1))' = Len(HandsOver(1))
        BY <4>1 DEF WorksOn, HandsOver
      <4>3. Len(WorksOn(1)) \in Nat
        BY <3>2, FlowTypes
      <4>4. ItemsIn(queue[1]) \in Nat /\ success[1] \in Nat /\ failed[1] \in Nat /\ dropped[1] \in Nat
        BY <3>2, FlowTypes
      <4>5. Left(1)' = Left(1)
        BY <4>1, <4>2 DEF Left
      <4>6. /\ Met(1) = ItemsIn(queue[1]) + Len(WorksOn(1)) + success[1] + failed[1] + dropped[1]
            /\ Met(1)' = (ItemsIn(queue[1]) + 0) + Len(WorksOn(1)) + success[1] + failed[1] + dropped[1]
        BY <3>4, <4>1, <4>2 DEF Met
      <4> QED
        BY <4>3, <4>4, <4>5, <4>6
    <3>7. ASSUME main \in {"poll", "join"}, NEW t \in Stages PROVE HandedTo(t)' = Met(t)'
      <4>1. HandedTo(t) = Met(t)
        BY <3>7 DEF FlowIsConserved, Met
      <4>2. CASE t = 1
        BY <3>3, <3>4, <3>6, <4>1, <4>2 DEF HandedTo
      <4>3. CASE t # 1
        <5>1. t - 1 \in Stages
          BY <4>3, FlowTypes DEF Stages
        <5>2. Left(t - 1)' = Left(t - 1) /\ Met(t)' = Met(t)
          BY <3>5, <3>6, <4>3, <5>1, BalanceUnchanged
        <5>3. HandedTo(t)' = Left(t - 1)' /\ HandedTo(t) = Left(t - 1)
          BY <4>3 DEF HandedTo, Left
        <5> QED
          BY <4>1, <5>2, <5>3
      <4> QED
        BY <4>2, <4>3
    <3> QED
      BY <3>5, <3>7 DEF FlowIsConserved, Met
  <2>2. CASE ~StageHasRoom(1)
    <3>1. UNCHANGED <<main, next, queue, worker, cur, success, failed, dropped>>
      BY <1>10, <2>2 DEF FeedsMarker, workers, counts
    <3> QED
      BY <3>1 DEF FlowIsConserved, HandedTo, WorksOn, HandsOver
  <2> QED
    BY <2>1, <2>2
<1>11. CASE Execute
  <2>1. /\ next' = 1 /\ worker' = [s \in Stages |-> "top"]
        /\ UNCHANGED <<cur, queue, success, failed, dropped>>
        /\ \A s \in Stages : queue[s] = <<>> /\ success[s] = 0 /\ failed[s] = 0 /\ dropped[s] = 0
    BY <1>11 DEF Execute, ThreadsInv, counts
  <2>2. ASSUME NEW t \in Stages
        PROVE  Len(WorksOn(t))' = 0 /\ Len(HandsOver(t))' = 0 /\ ItemsIn(queue[t])' = 0
    <3>1. worker'[t] = "top" /\ queue'[t] = <<>>
      BY <2>1
    <3> QED
      BY <3>1, FlowTypesAfter, ItemsInEmpty DEF Working, Putting
  <2>3. ASSUME NEW t \in Stages PROVE HandedTo(t)' = 0
    <3>1. CASE t = 1
      BY <2>1, <3>1 DEF HandedTo
    <3>2. CASE t # 1
      <4>1. t - 1 \in Stages
        BY <3>2, FlowTypes DEF Stages
      <4> QED
        BY <2>1, <2>2, <3>2, <4>1 DEF HandedTo
    <3> QED
      BY <3>1, <3>2
  <2> QED
    BY <2>1, <2>2, <2>3 DEF FlowIsConserved
<1>12. CASE PollStops
  <2>1. main = "poll" /\ UNCHANGED <<next, worker, cur, success, failed, dropped>>
    BY <1>12 DEF PollStops, workers, counts
  <2>2. ASSUME NEW s \in Stages PROVE ItemsIn(queue[s])' = ItemsIn(queue[s])
    <3>1. queue[s] \in Queues /\ Len(queue[s]) <= QueueCapacity /\ Len(queue[s]) \in Nat
      BY DEF PipelineTypeOK, Queues
    <3>2. QueueCapacity - Len(queue[s]) \in Nat
      BY <3>1, QueueCapacityAssumption
    <3>3. queue'[s] = queue[s] \o [i \in 1..(QueueCapacity - Len(queue[s])) |-> Poison]
      BY <1>12 DEF PollStops
    <3> QED
      BY <3>1, <3>2, <3>3, ItemsInFilled
  <2>3. \A s \in Stages : HandedTo(s)' = HandedTo(s) /\ Len(WorksOn(s))' = Len(WorksOn(s))
    BY <2>1 DEF HandedTo, WorksOn, HandsOver
  <2> QED
    BY <2>1, <2>2, <2>3 DEF FlowIsConserved
<1>13. CASE Joins
  BY <1>13 DEF Joins, FlowIsConserved
<1> QED
  BY <1>1, <1>2, <1>3, <1>4, <1>5, <1>6, <1>7, <1>8, <1>9, <1>10, <1>11, <1>12, <1>13
  DEF PipelineNext, WorkerStep, HandlerStep, QuietWorker, FeederStep, MainStep, Quiet

-----------------------------------------------------------------------------
(* End markers and the place of every item. *)

\* A step of a worker that neither ends nor takes an end marker, and moves nothing, leaves
\* the markers where they are.
LEMMA MarkerOfWorker ==
  ASSUME MarkerInv, Runs' => Runs, UNCHANGED <<queue, cur, feeder, next>>,
         NEW s \in Stages, worker[s] # "dead", worker'[s] # "dead",
         \A t \in Stages \ {s} : worker'[t] = worker[t],
         worker'[s] \in Putting /\ cur[s] = Poison => worker[s] \in Putting
  PROVE  MarkerInv'
<1>1. ASSUME NEW t \in Stages PROVE BeforeEnded(t)' <=> BeforeEnded(t)
  <2>1. CASE t = 1
    BY <2>1 DEF BeforeEnded
  <2>2. CASE t # 1
    <3>1. t - 1 \in Stages
      BY <2>2, StagesAssumption DEF Stages
    <3> QED
      BY <2>2, <3>1 DEF BeforeEnded
  <2> QED
    BY <2>1, <2>2
<1>2. ASSUME Runs', NEW t \in Stages,
             worker'[t] = "dead" \/ (worker'[t] \in Putting /\ cur'[t] = Poison)
      PROVE  worker[t] = "dead" \/ (worker[t] \in Putting /\ cur[t] = Poison)
  BY <1>2
<1> QED
  BY <1>1, <1>2 DEF MarkerInv

\* When a worker takes from its queue or puts into the next one, or the feeder into the
\* first, every other stage still waits for the same end.
LEMMA EndedStays ==
  ASSUME NEW s \in Stages, worker[s] # "dead", feeder' = feeder,
         \A t \in Stages \ {s} : worker'[t] = worker[t], NEW t \in Stages, BeforeEnded(t)
  PROVE  BeforeEnded(t)' /\ t # s + 1
<1>1. CASE t = 1
  BY <1>1, StagesAssumption DEF BeforeEnded, Stages
<1>2. CASE t # 1
  <2>1. t - 1 \in Stages /\ worker[t - 1] = "dead"
    BY <1>2, StagesAssumption DEF Stages, BeforeEnded
  <2>2. t - 1 # s
    BY <2>1
  <2> QED
    BY <1>2, <2>1, <2>2 DEF BeforeEnded, Stages
<1> QED
  BY <1>1, <1>2

\* Where the items of a queue are after a put.
LEMMA AfterAppend ==
  ASSUME NEW q \in Queues, NEW x \in Items \cup {Poison}
  PROVE  LET r == Append(q, x)
         IN /\ Len(q) \in Nat /\ Len(r) = Len(q) + 1
            /\ DOMAIN r = DOMAIN q \cup {Len(q) + 1} /\ r[Len(q) + 1] = x
            /\ \A n \in DOMAIN q : r[n] = q[n]
<1>1. Len(q) \in Nat /\ DOMAIN q = 1..Len(q) /\ DOMAIN Append(q, x) = 1..(Len(q) + 1)
  BY DEF Queues
<1>2. 1..(Len(q) + 1) = 1..Len(q) \cup {Len(q) + 1}
  BY <1>1
<1>3. Append(q, x)[Len(q) + 1] = x /\ \A n \in 1..Len(q) : Append(q, x)[n] = q[n]
  BY DEF Queues
<1>4. Len(Append(q, x)) = Len(q) + 1
  BY DEF Queues
<1> QED
  BY <1>1, <1>2, <1>3, <1>4

\* Where the items of a queue are after a take.
LEMMA AfterTail ==
  ASSUME NEW q \in Queues, q # <<>>
  PROVE  LET r == Tail(q)
         IN /\ Len(q) \in Nat \ {0} /\ Len(r) = Len(q) - 1 /\ Head(q) = q[1]
            /\ DOMAIN q = 1..Len(q) /\ DOMAIN r = 1..(Len(q) - 1)
            /\ \A n \in 1..(Len(q) - 1) : r[n] = q[n + 1]
<1>1. /\ Len(q) \in Nat \ {0} /\ DOMAIN q = 1..Len(q) /\ Head(q) = q[1]
      /\ Len(Tail(q)) = Len(q) - 1 /\ DOMAIN Tail(q) = 1..(Len(q) - 1)
  BY DEF Queues
<1>2. \A n \in 1..(Len(q) - 1) : Tail(q)[n] = q[n + 1]
  BY <1>1 DEF Queues
<1> QED
  BY <1>1, <1>2

\* Every step leaves the end markers behind everything that was put before them.
LEMMA MarkerStep == ASSUME PipelineInv, PipelineNext PROVE MarkerInv'
<1> USE DEF PipelineInv
<1>1. ASSUME NEW s \in Stages, QuietWorker(s) PROVE MarkerInv'
  <2>1. /\ UNCHANGED <<queue, cur, feeder, next, main, cancelled>>
        /\ worker[s] # "dead" /\ \A t \in Stages \ {s} : worker'[t] = worker[t]
    BY <1>1, WorkerFrame, QuietWorkerFrame
  <2>2. Runs' => Runs
    BY <2>1 DEF Runs
  <2>3. CASE Runs'
    <3>1. worker'[s] # "dead" /\ (worker'[s] \in Putting /\ cur[s] = Poison => worker[s] \in Putting)
      BY <1>1, <2>2, <2>3, QuietWorkerFrame DEF Runs
    <3> QED
      BY <2>1, <2>2, <3>1, MarkerOfWorker
  <2> QED
    BY <2>3 DEF MarkerInv
<1>2. ASSUME NEW s \in Stages, Takes(s) PROVE MarkerInv'
  <2>1. /\ UNCHANGED <<feeder, next, main, cancelled>> /\ worker[s] = "take"
        /\ \A t \in Stages \ {s} : queue'[t] = queue[t] /\ worker'[t] = worker[t] /\ cur'[t] = cur[t]
        /\ queue'[s] = Tail(queue[s]) /\ cur'[s] = Head(queue[s])
        /\ worker'[s] = IF Head(queue[s]) = Poison THEN AfterMarker(s) ELSE "begin"
        /\ queue[s] \in Queues /\ queue[s] # <<>>
    BY <1>2 DEF Takes, WorkerAt, Rest, flags, PipelineTypeOK, Queues
  <2>2. /\ Len(queue[s]) \in Nat \ {0} /\ Len(Tail(queue[s])) = Len(queue[s]) - 1
        /\ Head(queue[s]) = queue[s][1] /\ DOMAIN queue[s] = 1..Len(queue[s])
        /\ DOMAIN Tail(queue[s]) = 1..(Len(queue[s]) - 1) /\ Tail(queue[s]) \in Queues
        /\ \A n \in 1..(Len(queue[s]) - 1) : Tail(queue[s])[n] = queue[s][n + 1]
    BY <2>1, AfterTail, ItemsInTail
  <2>3. SUFFICES ASSUME Runs' PROVE MarkerInv'
    BY DEF MarkerInv
  <2>4. Runs
    BY <2>1, <2>3 DEF Runs
  <2>5. feeder' \in {"last", "lasting", "dead"} => next' = NumItems + 1
    BY <2>1, <2>4 DEF MarkerInv
  <2>6. \A t \in Stages : BeforeEnded(t) => BeforeEnded(t)'
    BY <2>1, EndedStays
  <2>7. ASSUME NEW n \in DOMAIN queue'[s], queue'[s][n] = Poison
        PROVE  n = Len(queue'[s]) /\ BeforeEnded(s)'
    <3>1. n + 1 \in DOMAIN queue[s] /\ queue[s][n + 1] = Poison
      BY <2>1, <2>2, <2>7
    <3>2. n + 1 = Len(queue[s]) /\ BeforeEnded(s)
      BY <2>4, <3>1 DEF MarkerInv
    <3> QED
      BY <2>1, <2>2, <2>6, <2>7, <3>2
  <2>8. ASSUME worker'[s] = "dead" \/ (worker'[s] \in Putting /\ cur'[s] = Poison)
        PROVE  queue'[s] = <<>> /\ BeforeEnded(s)'
    <3>1. 1 \in DOMAIN queue[s] /\ queue[s][1] = Poison
      BY <2>1, <2>2, <2>8 DEF Putting
    <3>2. Len(queue[s]) = 1 /\ BeforeEnded(s)
      BY <2>4, <3>1 DEF MarkerInv
    <3>3. Tail(queue[s]) = <<>>
      BY <2>2, <3>2 DEF Queues
    <3> QED
      BY <2>1, <2>6, <3>2, <3>3
  <2> QED
    BY <2>1, <2>4, <2>5, <2>6, <2>7, <2>8 DEF MarkerInv
<1>3. ASSUME NEW s \in Stages, AbandonsItem(s) PROVE MarkerInv'
  BY <1>3 DEF AbandonsItem, flags, MarkerInv, Runs
<1>4. ASSUME NEW s \in Stages, DropsOutput(s) PROVE MarkerInv'
  BY <1>4 DEF DropsOutput, flags, MarkerInv, Runs
<1>5. ASSUME NEW s \in Stages, Puts(s) PROVE MarkerInv'
  <2>1. s < NumStages /\ s + 1 \in Stages /\ s + 1 # s
    BY <1>5, FlowTypes DEF Puts, HoldsInv, Putting, Stages
  <2>2. /\ UNCHANGED <<feeder, next, main, cancelled, cur>> /\ worker[s] = "putting"
        /\ \A t \in Stages \ {s} : worker'[t] = worker[t]
        /\ \A t \in Stages \ {s + 1} : queue'[t] = queue[t]
        /\ queue'[s + 1] = Append(queue[s + 1], cur[s])
        /\ worker'[s] = IF cur[s] = Poison THEN "dead" ELSE "top"
        /\ queue[s + 1] \in Queues /\ cur[s] \in Items \cup {Poison}
    BY <1>5, <2>1 DEF Puts, WorkerAt, AfterPut, Enqueued, flags, PipelineTypeOK, Queues
  <2>3. LET q == queue[s + 1]
        IN /\ Len(q) \in Nat /\ Len(queue'[s + 1]) = Len(q) + 1
           /\ DOMAIN queue'[s + 1] = DOMAIN q \cup {Len(q) + 1} /\ queue'[s + 1][Len(q) + 1] = cur[s]
           /\ \A n \in DOMAIN q : queue'[s + 1][n] = q[n]
    BY <2>2, AfterAppend
  <2>4. SUFFICES ASSUME Runs' PROVE MarkerInv'
    BY DEF MarkerInv
  <2>5. Runs
    BY <2>2, <2>4 DEF Runs
  <2>6. feeder' \in {"last", "lasting", "dead"} => next' = NumItems + 1
    BY <2>2, <2>5 DEF MarkerInv
  <2>7. \A t \in Stages : BeforeEnded(t) => BeforeEnded(t)' /\ t # s + 1
    BY <2>2, EndedStays
  <2>8. ASSUME NEW n \in DOMAIN queue'[s + 1], queue'[s + 1][n] = Poison
        PROVE  n = Len(queue'[s + 1]) /\ BeforeEnded(s + 1)'
    <3>1. n \notin DOMAIN queue[s + 1]
      BY <2>1, <2>3, <2>5, <2>7, <2>8 DEF MarkerInv
    <3>2. n = Len(queue[s + 1]) + 1 /\ cur[s] = Poison
      BY <2>3, <2>8, <3>1
    <3>3. worker'[s] = "dead" /\ s + 1 # 1 /\ (s + 1) - 1 = s
      BY <2>2, <3>2 DEF Stages
    <3> QED
      BY <2>3, <3>2, <3>3 DEF BeforeEnded
  <2>9. ASSUME NEW t \in Stages, worker'[t] = "dead" \/ (worker'[t] \in Putting /\ cur'[t] = Poison)
        PROVE  queue'[t] = <<>> /\ BeforeEnded(t)'
    <3>1. worker[t] = "dead" \/ (worker[t] \in Putting /\ cur[t] = Poison)
      BY <2>2, <2>9 DEF Putting
    <3>2. queue[t] = <<>> /\ BeforeEnded(t)
      BY <2>5, <3>1 DEF MarkerInv
    <3> QED
      BY <2>2, <2>7, <3>2
  <2>10. ASSUME NEW t \in Stages, NEW n \in DOMAIN queue'[t], queue'[t][n] = Poison
        PROVE  n = Len(queue'[t]) /\ BeforeEnded(t)'
    <3>1. CASE t = s + 1
      BY <2>8, <2>10, <3>1
    <3>2. CASE t # s + 1
      <4>1. queue'[t] = queue[t]
        BY <2>2, <3>2
      <4> QED
        BY <2>5, <2>7, <2>10, <4>1 DEF MarkerInv
    <3> QED
      BY <3>1, <3>2
  <2> QED
    BY <2>6, <2>9, <2>10 DEF MarkerInv
<1>6. ASSUME NEW s \in Stages, HandlerReturns(s) PROVE MarkerInv'
  <2>1. cur[s] # Poison
    BY <1>6, ItemsAssumption DEF HandlerReturns, HoldsInv, Working, Items, Poison
  <2>2. /\ UNCHANGED <<queue, cur, feeder, next, main, cancelled>>
        /\ worker[s] # "dead" /\ \A t \in Stages \ {s} : worker'[t] = worker[t]
    BY <1>6, WorkerFrame DEF HandlerReturns, HandlerStep, WorkerStep
  <2>3. Runs' => Runs
    BY <2>2 DEF Runs
  <2>4. CASE Runs'
    <3>1. worker'[s] # "dead" /\ (worker'[s] \in Putting /\ cur[s] = Poison => worker[s] \in Putting)
      BY <1>6, <2>1, <2>3, <2>4 DEF HandlerReturns, WorkerAt, PipelineTypeOK, Putting
    <3> QED
      BY <2>2, <2>3, <3>1, MarkerOfWorker
  <2> QED
    BY <2>4 DEF MarkerInv
<1>7. ASSUME NEW s \in Stages, HandlerFails(s) PROVE MarkerInv'
  <2>1. /\ UNCHANGED <<queue, cur, feeder, next, main, cancelled>>
        /\ worker[s] # "dead" /\ \A t \in Stages \ {s} : worker'[t] = worker[t]
    BY <1>7, WorkerFrame, QuietWorkerFrame DEF HandlerFails, HandlerStep, WorkerStep
  <2>2. Runs' => Runs
    BY <2>1 DEF Runs
  <2>3. CASE Runs'
    <3>1. worker'[s] # "dead" /\ (worker'[s] \in Putting /\ cur[s] = Poison => worker[s] \in Putting)
      BY <1>7, <2>2, <2>3 DEF HandlerFails, WorkerAt, PipelineTypeOK, Putting
    <3> QED
      BY <2>1, <2>2, <3>1, MarkerOfWorker
  <2> QED
    BY <2>3 DEF MarkerInv
<1>8. CASE Quiet
  <2>1. SUFFICES ASSUME Runs' PROVE MarkerInv'
    BY DEF MarkerInv
  <2>2. Runs
    BY <1>8, <2>1
    DEF Quiet, FeederLooks, FeederEnds, PollEnds, PollRunsOut, Returns, ExecuteFails, TimesOut,
       CancelIsCalled, CancelSets, CancelWrites, flags, Runs
  <2>3. feeder' = "dead" <=> feeder = "dead"
    BY <1>8, <2>1
    DEF Quiet, FeederLooks, FeederEnds, PollEnds, PollRunsOut, Returns, ExecuteFails, TimesOut,
       CancelIsCalled, CancelSets, CancelWrites, flags, Runs
  <2>4. UNCHANGED <<queue, worker, cur, next>>
    BY <1>8, QuietFrame
  <2>5. (feeder' = "dead" <=> feeder = "dead") /\ UNCHANGED <<queue, worker, cur, next>>
    BY <2>3, <2>4
  <2>6. \A t \in Stages : BeforeEnded(t)' <=> BeforeEnded(t)
    BY <2>5 DEF BeforeEnded
  <2>7. feeder' \in {"last", "lasting", "dead"} => next' = NumItems + 1
    <3>1. CASE FeederLooks
      BY <2>1, <3>1, ItemsAssumption DEF FeederLooks, PipelineTypeOK, flags, Runs
    <3>2. CASE FeederEnds
      BY <2>2, <2>5, <3>2 DEF FeederEnds, MarkerInv
    <3>3. CASE feeder' = feeder
      BY <2>2, <2>5, <3>3 DEF MarkerInv
    <3> QED
      BY <1>8, <3>1, <3>2, <3>3
      DEF Quiet, FeederLooks, FeederEnds, PollEnds, PollRunsOut, Returns, ExecuteFails, TimesOut,
         CancelIsCalled, CancelSets, CancelWrites, flags, Runs
  <2> QED
    BY <2>2, <2>5, <2>6, <2>7 DEF MarkerInv
<1>9. CASE Feeds
  <2>1. /\ UNCHANGED <<main, cancelled, worker, cur>> /\ feeder = "feeding"
        /\ next \in Nat /\ 1 \in Stages
    BY <1>9, StagesAssumption, ItemsAssumption DEF Feeds, flags, workers, PipelineTypeOK, Stages
  <2>2. SUFFICES ASSUME Runs' PROVE MarkerInv'
    BY DEF MarkerInv
  <2>3. Runs
    BY <2>1, <2>2 DEF Runs
  <2>4. CASE ~StageHasRoom(1)
    <3>1. UNCHANGED <<queue, next>> /\ feeder' = "feed"
      BY <1>9, <2>4 DEF Feeds
    <3>2. \A t \in Stages : BeforeEnded(t) => BeforeEnded(t)'
      BY <2>1 DEF BeforeEnded
    <3> QED
      BY <2>1, <2>3, <3>1, <3>2 DEF MarkerInv
  <2>5. CASE StageHasRoom(1)
    <3>1. /\ queue'[1] = Append(queue[1], next) /\ \A t \in Stages \ {1} : queue'[t] = queue[t]
          /\ feeder' = "feed" /\ next # Poison
          /\ queue[1] \in Queues /\ next \in Items \cup {Poison}
      BY <1>9, <2>1, <2>5, ItemsAssumption
      DEF Feeds, Enqueued, PipelineTypeOK, Queues, FeedInv, Items, Poison
    <3>2. LET q == queue[1]
          IN /\ Len(q) \in Nat /\ Len(queue'[1]) = Len(q) + 1
             /\ DOMAIN queue'[1] = DOMAIN q \cup {Len(q) + 1} /\ queue'[1][Len(q) + 1] = next
             /\ \A n \in DOMAIN q : queue'[1][n] = q[n]
      BY <3>1, AfterAppend
    <3>3. ~BeforeEnded(1)
      BY <2>1 DEF BeforeEnded
    <3>4. \A t \in Stages : BeforeEnded(t) => BeforeEnded(t)' /\ t # 1
      BY <2>1, <3>3 DEF BeforeEnded
    <3>5. ASSUME NEW n \in DOMAIN queue'[1], queue'[1][n] = Poison
          PROVE  n = Len(queue'[1]) /\ BeforeEnded(1)'
      BY <2>1, <2>3, <3>1, <3>2, <3>3, <3>5 DEF MarkerInv, BeforeEnded
    <3>6. ASSUME NEW t \in Stages, NEW n \in DOMAIN queue'[t], queue'[t][n] = Poison
          PROVE  n = Len(queue'[t]) /\ BeforeEnded(t)'
      <4>1. CASE t = 1
        BY <3>5, <3>6, <4>1
      <4>2. CASE t # 1
        <5>1. queue'[t] = queue[t]
          BY <3>1, <4>2
        <5> QED
          BY <2>3, <3>4, <3>6, <5>1 DEF MarkerInv
      <4> QED
        BY <4>1, <4>2
    <3>7. ASSUME NEW t \in Stages, worker'[t] = "dead" \/ (worker'[t] \in Putting /\ cur'[t] = Poison)
          PROVE  queue'[t] = <<>> /\ BeforeEnded(t)'
      <4>1. queue[t] = <<>> /\ BeforeEnded(t)
        BY <2>1, <2>3, <3>7 DEF MarkerInv
      <4> QED
        BY <3>1, <3>4, <4>1
    <3>8. feeder' \in {"last", "lasting", "dead"} => next' = NumItems + 1
      BY <2>1, <2>3, <3>1 DEF MarkerInv
    <3> QED
      BY <3>6, <3>7, <3>8 DEF MarkerInv
  <2> QED
    BY <2>4, <2>5
<1>10. CASE FeedsMarker
  <2>1. /\ UNCHANGED <<main, cancelled, worker, cur>> /\ feeder = "lasting"
        /\ next \in Nat /\ 1 \in Stages
    BY <1>10, StagesAssumption, ItemsAssumption
    DEF FeedsMarker, flags, workers, PipelineTypeOK, Stages
  <2>2. SUFFICES ASSUME Runs' PROVE MarkerInv'
    BY DEF MarkerInv
  <2>3. Runs
    BY <2>1, <2>2 DEF Runs
  <2>4. CASE ~StageHasRoom(1)
    <3>1. UNCHANGED <<queue, next>> /\ feeder' = "last"
      BY <1>10, <2>4 DEF FeedsMarker
    <3>2. \A t \in Stages : BeforeEnded(t) => BeforeEnded(t)'
      BY <2>1 DEF BeforeEnded
    <3> QED
      BY <2>1, <2>3, <3>1, <3>2 DEF MarkerInv
  <2>5. CASE StageHasRoom(1)
    <3>1. /\ queue'[1] = Append(queue[1], Poison) /\ \A t \in Stages \ {1} : queue'[t] = queue[t]
          /\ feeder' = "dead" /\ next' = next
          /\ queue[1] \in Queues /\ Poison \in Items \cup {Poison}
      BY <1>10, <2>1, <2>5, ItemsAssumption
      DEF FeedsMarker, Enqueued, PipelineTypeOK, Queues, FeedInv, Items, Poison
    <3>2. LET q == queue[1]
          IN /\ Len(q) \in Nat /\ Len(queue'[1]) = Len(q) + 1
             /\ DOMAIN queue'[1] = DOMAIN q \cup {Len(q) + 1} /\ queue'[1][Len(q) + 1] = Poison
             /\ \A n \in DOMAIN q : queue'[1][n] = q[n]
      BY <3>1, AfterAppend
    <3>3. ~BeforeEnded(1)
      BY <2>1 DEF BeforeEnded
    <3>4. \A t \in Stages : BeforeEnded(t) => BeforeEnded(t)' /\ t # 1
      BY <2>1, <3>3 DEF BeforeEnded
    <3>5. ASSUME NEW n \in DOMAIN queue'[1], queue'[1][n] = Poison
          PROVE  n = Len(queue'[1]) /\ BeforeEnded(1)'
      BY <2>1, <2>3, <3>1, <3>2, <3>3, <3>5 DEF MarkerInv, BeforeEnded
    <3>6. ASSUME NEW t \in Stages, NEW n \in DOMAIN queue'[t], queue'[t][n] = Poison
          PROVE  n = Len(queue'[t]) /\ BeforeEnded(t)'
      <4>1. CASE t = 1
        BY <3>5, <3>6, <4>1
      <4>2. CASE t # 1
        <5>1. queue'[t] = queue[t]
          BY <3>1, <4>2
        <5> QED
          BY <2>3, <3>4, <3>6, <5>1 DEF MarkerInv
      <4> QED
        BY <4>1, <4>2
    <3>7. ASSUME NEW t \in Stages, worker'[t] = "dead" \/ (worker'[t] \in Putting /\ cur'[t] = Poison)
          PROVE  queue'[t] = <<>> /\ BeforeEnded(t)'
      <4>1. queue[t] = <<>> /\ BeforeEnded(t)
        BY <2>1, <2>3, <3>7 DEF MarkerInv
      <4> QED
        BY <3>1, <3>4, <4>1
    <3>8. feeder' \in {"last", "lasting", "dead"} => next' = NumItems + 1
      BY <2>1, <2>3, <3>1 DEF MarkerInv
    <3> QED
      BY <3>6, <3>7, <3>8 DEF MarkerInv
  <2> QED
    BY <2>4, <2>5
<1>11. CASE Execute
  <2>1. /\ \A t \in Stages : worker'[t] = "top" /\ queue[t] = <<>>
        /\ UNCHANGED queue /\ feeder' = "feed"
    BY <1>11 DEF Execute, ThreadsInv
  <2> QED
    BY <2>1 DEF MarkerInv, Putting
<1>12. CASE PollStops
  BY <1>12 DEF PollStops, flags, MarkerInv, Runs
<1>13. CASE Joins
  BY <1>13 DEF Joins, flags, MarkerInv, Runs
<1> QED
  BY <1>1, <1>2, <1>3, <1>4, <1>5, <1>6, <1>7, <1>8, <1>9, <1>10, <1>11, <1>12, <1>13
  DEF PipelineNext, WorkerStep, HandlerStep, QuietWorker, FeederStep, MainStep, Quiet

\* A worker that moves nothing keeps its item, has done with it, or holds none.
LEMMA PlaceOfWorker ==
  ASSUME PlaceInv, Runs, PipelineTypeOK, UNCHANGED <<queue, cur, next>>, NEW s \in Stages,
         \A t \in Stages \ {s} : worker'[t] = worker[t],
         \/ UNCHANGED <<item, passed>> /\ worker[s] \notin Working \cup Putting
         \/ /\ worker'[s] \in Working \cup Putting \/ Finished(cur[s])'
            /\ \A i \in Items \ {cur[s]} : item'[i] = item[i] /\ passed'[i] = passed[i]
  PROVE  PlaceInv'
<1>1. ASSUME NEW i \in 1..(next - 1)
      PROVE  Finished(i)' \/ \E t \in Stages : Queued(i, t)' \/ Held(i, t)'
  <2>1. i \in Items
    BY ItemsAssumption DEF PipelineTypeOK, Items
  <2>2. Finished(i) \/ \E t \in Stages : Queued(i, t) \/ Held(i, t)
    BY DEF PlaceInv
  <2>3. CASE i = cur[s] /\ (worker'[s] \in Working \cup Putting \/ Finished(cur[s])')
    BY <2>3 DEF Held, Finished
  <2>4. CASE UNCHANGED <<item, passed>> /\ worker[s] \notin Working \cup Putting
    BY <2>2, <2>4 DEF Finished, Queued, Held
  <2>5. CASE i # cur[s] /\ item'[i] = item[i] /\ passed'[i] = passed[i]
    BY <2>2, <2>5 DEF Finished, Queued, Held
  <2> QED
    BY <2>1, <2>3, <2>4, <2>5
<1> QED
  BY <1>1 DEF PlaceInv

\* Every step leaves each item that was fed in a queue, with a worker or finished.
LEMMA PlaceStep == ASSUME PipelineInv, PipelineNext PROVE PlaceInv'
<1> USE DEF PipelineInv
<1>1. ASSUME NEW s \in Stages, QuietWorker(s) PROVE PlaceInv'
  <2>1. UNCHANGED <<queue, cur, next, main, cancelled>>
    BY <1>1, WorkerFrame, QuietWorkerFrame
  <2>2. SUFFICES ASSUME Runs' PROVE PlaceInv'
    BY DEF PlaceInv
  <2>3. Runs /\ \A t \in Stages \ {s} : worker'[t] = worker[t]
    BY <1>1, <2>1, <2>2, WorkerFrame, QuietWorkerFrame DEF Runs
  <2>4. \/ UNCHANGED <<item, passed>> /\ worker[s] \notin Working \cup Putting
        \/ worker'[s] \in Working \cup Putting
    BY <1>1, QuietWorkerFrame
  <2>5. \A i \in Items \ {cur[s]} : item'[i] = item[i] /\ passed'[i] = passed[i]
    BY <1>1, QuietWorkerFrame
  <2> QED
    BY <2>1, <2>3, <2>4, <2>5, PlaceOfWorker
<1>2. ASSUME NEW s \in Stages, Takes(s) PROVE PlaceInv'
  <2>1. /\ UNCHANGED <<next, main, cancelled, item, passed>> /\ worker[s] = "take"
        /\ \A t \in Stages \ {s} : queue'[t] = queue[t] /\ worker'[t] = worker[t] /\ cur'[t] = cur[t]
        /\ queue'[s] = Tail(queue[s]) /\ cur'[s] = Head(queue[s])
        /\ Head(queue[s]) # Poison => worker'[s] = "begin"
        /\ queue[s] \in Queues /\ queue[s] # <<>> /\ next \in Nat
    BY <1>2, ItemsAssumption DEF Takes, WorkerAt, Rest, flags, PipelineTypeOK, Queues
  <2>2. /\ Len(queue[s]) \in Nat \ {0} /\ Head(queue[s]) = queue[s][1]
        /\ DOMAIN queue[s] = 1..Len(queue[s]) /\ DOMAIN Tail(queue[s]) = 1..(Len(queue[s]) - 1)
        /\ \A n \in 1..(Len(queue[s]) - 1) : Tail(queue[s])[n] = queue[s][n + 1]
    BY <2>1, AfterTail
  <2>3. SUFFICES ASSUME Runs' PROVE PlaceInv'
    BY DEF PlaceInv
  <2>4. Runs
    BY <2>1, <2>3 DEF Runs
  <2>5. ASSUME NEW i \in 1..(next - 1)
        PROVE  Finished(i)' \/ \E t \in Stages : Queued(i, t)' \/ Held(i, t)'
    <3>1. CASE Finished(i)
      BY <2>1, <3>1 DEF Finished
    <3>2. ASSUME NEW t \in Stages, t # s, Queued(i, t) \/ Held(i, t)
          PROVE  Queued(i, t)' \/ Held(i, t)'
      BY <2>1, <3>2 DEF Queued, Held
    <3>3. ~Held(i, s)
      BY <2>1 DEF Held, Working, Putting
    <3>4. ASSUME Queued(i, s) PROVE Queued(i, s)' \/ Held(i, s)'
      <4>1. PICK n \in DOMAIN queue[s] : queue[s][n] = i
        BY <3>4 DEF Queued
      <4>2. CASE n = 1
        <5>1. cur'[s] = i /\ worker'[s] = "begin"
          BY <2>1, <2>2, <4>1, <4>2 DEF Poison
        <5> QED
          BY <5>1 DEF Held, Working
      <4>3. CASE n # 1
        <5>1. n - 1 \in 1..(Len(queue[s]) - 1) /\ (n - 1) + 1 = n
          BY <2>2, <4>3
        <5>2. n - 1 \in DOMAIN queue'[s] /\ queue'[s][n - 1] = i
          BY <2>1, <2>2, <4>1, <5>1
        <5> QED
          BY <5>2 DEF Queued
      <4> QED
        BY <4>2, <4>3
    <3> QED
      BY <2>4, <3>1, <3>2, <3>3, <3>4 DEF PlaceInv
  <2> QED
    BY <2>1, <2>5 DEF PlaceInv
<1>3. ASSUME NEW s \in Stages, AbandonsItem(s) PROVE PlaceInv'
  BY <1>3 DEF AbandonsItem, flags, PlaceInv, Runs
<1>4. ASSUME NEW s \in Stages, DropsOutput(s) PROVE PlaceInv'
  BY <1>4 DEF DropsOutput, flags, PlaceInv, Runs
<1>5. ASSUME NEW s \in Stages, Puts(s) PROVE PlaceInv'
  <2>1. s < NumStages /\ s + 1 \in Stages /\ s + 1 # s
    BY <1>5, FlowTypes DEF Puts, HoldsInv, Putting, Stages
  <2>2. /\ UNCHANGED <<next, main, cancelled, cur, item, passed>>
        /\ \A t \in Stages \ {s} : worker'[t] = worker[t]
        /\ \A t \in Stages \ {s + 1} : queue'[t] = queue[t]
        /\ queue'[s + 1] = Append(queue[s + 1], cur[s])
        /\ queue[s + 1] \in Queues /\ cur[s] \in Items \cup {Poison}
    BY <1>5, <2>1 DEF Puts, WorkerAt, AfterPut, Enqueued, flags, PipelineTypeOK, Queues
  <2>3. LET q == queue[s + 1]
        IN /\ DOMAIN queue'[s + 1] = DOMAIN q \cup {Len(q) + 1} /\ queue'[s + 1][Len(q) + 1] = cur[s]
           /\ \A n \in DOMAIN q : queue'[s + 1][n] = q[n]
    BY <2>2, AfterAppend
  <2>4. SUFFICES ASSUME Runs' PROVE PlaceInv'
    BY DEF PlaceInv
  <2>5. Runs
    BY <2>2, <2>4 DEF Runs
  <2>6. ASSUME NEW i \in 1..(next - 1)
        PROVE  Finished(i)' \/ \E t \in Stages : Queued(i, t)' \/ Held(i, t)'
    <3>1. CASE Finished(i)
      BY <2>2, <3>1 DEF Finished
    <3>2. ASSUME NEW t \in Stages, Queued(i, t) PROVE Queued(i, t)'
      BY <2>2, <2>3, <3>2 DEF Queued
    <3>3. ASSUME NEW t \in Stages, t # s, Held(i, t) PROVE Held(i, t)'
      BY <2>2, <3>3 DEF Held
    <3>4. ASSUME Held(i, s) PROVE Queued(i, s + 1)'
      BY <2>3, <3>4 DEF Held, Queued
    <3> QED
      BY <2>1, <2>5, <3>1, <3>2, <3>3, <3>4 DEF PlaceInv
  <2> QED
    BY <2>2, <2>6 DEF PlaceInv
<1>6. ASSUME NEW s \in Stages, HandlerReturns(s) PROVE PlaceInv'
  <2>1. UNCHANGED <<queue, cur, next, main, cancelled>>
    BY <1>6, WorkerFrame DEF HandlerReturns, HandlerStep
  <2>2. SUFFICES ASSUME Runs' PROVE PlaceInv'
    BY DEF PlaceInv
  <2>3. Runs /\ \A t \in Stages \ {s} : worker'[t] = worker[t]
    BY <1>6, <2>1, <2>2, WorkerFrame DEF Runs, HandlerStep
  <2>4. worker'[s] \in Putting \/ Finished(cur[s])'
    <3>1. cur[s] \in Items
      BY <1>6 DEF HandlerReturns, HoldsInv, Working
    <3>2. item'[cur[s]] = "SUCCESS" /\ passed'[cur[s]] = s
      BY <1>6, <3>1 DEF HandlerReturns, PipelineTypeOK
    <3>3. worker'[s] = "put" \/ s = NumStages
      BY <1>6, StagesAssumption DEF HandlerReturns, WorkerAt, PipelineTypeOK, Stages
    <3> QED
      BY <2>1, <3>2, <3>3 DEF Finished, Putting
  <2>5. \A i \in Items \ {cur[s]} : item'[i] = item[i] /\ passed'[i] = passed[i]
    BY <1>6 DEF HandlerReturns, PipelineTypeOK
  <2> QED
    BY <2>1, <2>3, <2>4, <2>5, PlaceOfWorker
<1>7. ASSUME NEW s \in Stages, HandlerFails(s) PROVE PlaceInv'
  <2>1. UNCHANGED <<queue, cur, next, main, cancelled>>
    BY <1>7, WorkerFrame DEF HandlerFails, HandlerStep
  <2>2. SUFFICES ASSUME Runs' PROVE PlaceInv'
    BY DEF PlaceInv
  <2>3. Runs /\ \A t \in Stages \ {s} : worker'[t] = worker[t]
    BY <1>7, <2>1, <2>2, WorkerFrame DEF Runs, HandlerStep
  <2>4. Finished(cur[s])'
    <3>1. cur[s] \in Items
      BY <1>7 DEF HandlerFails, HoldsInv, Working
    <3>2. item'[cur[s]] = "FAILED"
      BY <1>7, <3>1 DEF HandlerFails, PipelineTypeOK
    <3> QED
      BY <2>1, <3>2 DEF Finished
  <2>5. \A i \in Items \ {cur[s]} : item'[i] = item[i] /\ passed'[i] = passed[i]
    BY <1>7 DEF HandlerFails, PipelineTypeOK
  <2> QED
    BY <2>1, <2>3, <2>4, <2>5, PlaceOfWorker
<1>8. CASE Quiet
  <2>1. SUFFICES ASSUME Runs' PROVE PlaceInv'
    BY DEF PlaceInv
  <2>2. Runs
    BY <1>8, <2>1
    DEF Quiet, FeederLooks, FeederEnds, PollEnds, PollRunsOut, Returns, ExecuteFails, TimesOut,
       CancelIsCalled, CancelSets, CancelWrites, flags, Runs
  <2> QED
    BY <1>8, <2>2, QuietFrame DEF PlaceInv, Finished, Queued, Held
<1>9. CASE Feeds
  <2>1. UNCHANGED <<main, cancelled, worker, cur, item, passed>> /\ next \in Nat \ {0} /\ 1 \in Stages
    BY <1>9, StagesAssumption, ItemsAssumption DEF Feeds, flags, workers, PipelineTypeOK, Stages
  <2>2. SUFFICES ASSUME Runs', NEW i \in 1..(next' - 1)
                 PROVE  Finished(i)' \/ \E t \in Stages : Queued(i, t)' \/ Held(i, t)'
    BY DEF PlaceInv
  <2>3. Runs
    BY <2>1, <2>2 DEF Runs
  <2>4. CASE ~StageHasRoom(1)
    <3>1. UNCHANGED <<queue, next>>
      BY <1>9, <2>4 DEF Feeds
    <3> QED
      BY <2>1, <2>3, <3>1 DEF PlaceInv, Finished, Queued, Held
  <2>5. CASE StageHasRoom(1)
    <3>1. /\ queue'[1] = Append(queue[1], next) /\ \A t \in Stages \ {1} : queue'[t] = queue[t]
          /\ next' = next + 1 /\ queue[1] \in Queues /\ next \in Items \cup {Poison}
      BY <1>9, <2>1, <2>5, ItemsAssumption
      DEF Feeds, Enqueued, PipelineTypeOK, Queues, FeedInv, Items, Poison
    <3>2. LET q == queue[1]
          IN /\ DOMAIN queue'[1] = DOMAIN q \cup {Len(q) + 1} /\ queue'[1][Len(q) + 1] = next
             /\ \A n \in DOMAIN q : queue'[1][n] = q[n]
      BY <3>1, AfterAppend
    <3>3. ASSUME i # next \/ next' = next
          PROVE  Finished(i)' \/ \E t \in Stages : Queued(i, t)' \/ Held(i, t)'
      <4>1. i \in 1..(next - 1)
        BY <2>1, <3>1, <3>3
      <4>2. Finished(i) \/ \E t \in Stages : Queued(i, t) \/ Held(i, t)
        BY <2>3, <4>1 DEF PlaceInv
      <4>3. \A t \in Stages : Queued(i, t) => Queued(i, t)'
        BY <3>1, <3>2 DEF Queued
      <4> QED
        BY <2>1, <4>2, <4>3 DEF Finished, Held
    <3>4. CASE i = next
      <4>1. Queued(i, 1)'
        BY <3>2, <3>4 DEF Queued
      <4> QED
        BY <2>1, <4>1
    <3> QED
      BY <2>1, <3>3, <3>4
  <2> QED
    BY <2>4, <2>5
<1>10. CASE FeedsMarker
  <2>1. UNCHANGED <<main, cancelled, worker, cur, item, passed>> /\ next \in Nat \ {0} /\ 1 \in Stages
    BY <1>10, StagesAssumption, ItemsAssumption
    DEF FeedsMarker, flags, workers, PipelineTypeOK, Stages
  <2>2. SUFFICES ASSUME Runs', NEW i \in 1..(next' - 1)
                 PROVE  Finished(i)' \/ \E t \in Stages : Queued(i, t)' \/ Held(i, t)'
    BY DEF PlaceInv
  <2>3. Runs
    BY <2>1, <2>2 DEF Runs
  <2>4. CASE ~StageHasRoom(1)
    <3>1. UNCHANGED <<queue, next>>
      BY <1>10, <2>4 DEF FeedsMarker
    <3> QED
      BY <2>1, <2>3, <3>1 DEF PlaceInv, Finished, Queued, Held
  <2>5. CASE StageHasRoom(1)
    <3>1. /\ queue'[1] = Append(queue[1], Poison) /\ \A t \in Stages \ {1} : queue'[t] = queue[t]
          /\ next' = next /\ queue[1] \in Queues /\ Poison \in Items \cup {Poison}
      BY <1>10, <2>1, <2>5, ItemsAssumption
      DEF FeedsMarker, Enqueued, PipelineTypeOK, Queues, FeedInv, Items, Poison
    <3>2. LET q == queue[1]
          IN /\ DOMAIN queue'[1] = DOMAIN q \cup {Len(q) + 1} /\ queue'[1][Len(q) + 1] = Poison
             /\ \A n \in DOMAIN q : queue'[1][n] = q[n]
      BY <3>1, AfterAppend
    <3>3. ASSUME i # next \/ next' = next
          PROVE  Finished(i)' \/ \E t \in Stages : Queued(i, t)' \/ Held(i, t)'
      <4>1. i \in 1..(next - 1)
        BY <2>1, <3>1, <3>3
      <4>2. Finished(i) \/ \E t \in Stages : Queued(i, t) \/ Held(i, t)
        BY <2>3, <4>1 DEF PlaceInv
      <4>3. \A t \in Stages : Queued(i, t) => Queued(i, t)'
        BY <3>1, <3>2 DEF Queued
      <4> QED
        BY <2>1, <4>2, <4>3 DEF Finished, Held
    <3> QED
      BY <3>1, <3>3
  <2> QED
    BY <2>4, <2>5
<1>11. CASE Execute
  <2>1. next' = 1
    BY <1>11 DEF Execute, ThreadsInv
  <2> QED
    BY <2>1 DEF PlaceInv
<1>12. CASE PollStops
  BY <1>12 DEF PollStops, flags, PlaceInv, Runs
<1>13. CASE Joins
  BY <1>13 DEF Joins, flags, PlaceInv, Runs
<1> QED
  BY <1>1, <1>2, <1>3, <1>4, <1>5, <1>6, <1>7, <1>8, <1>9, <1>10, <1>11, <1>12, <1>13
  DEF PipelineNext, WorkerStep, HandlerStep, QuietWorker, FeederStep, MainStep, Quiet

-----------------------------------------------------------------------------
(* The order of the items. *)

\* Where a step moves no item, order is kept.
LEMMA OrderStays ==
  ASSUME InOrder, PipelineTypeOK, next' = next,
         \A i \in Items, s \in Stages, n \in 0..QueueCapacity : IsAt(i, s, n)' => IsAt(i, s, n)
  PROVE  InOrder'
BY DEF InOrder

\* A queue is no longer than it may be.
LEMMA AtIsWithin ==
  ASSUME PipelineTypeOK, NEW s \in Stages
  PROVE  Len(queue[s]) \in 0..QueueCapacity /\ DOMAIN queue[s] = 1..Len(queue[s])
BY QueueCapacityAssumption DEF PipelineTypeOK

\* Every step keeps the items in order.
LEMMA OrderStep == ASSUME PipelineInv, InOrder, PipelineNext PROVE InOrder'
<1> USE DEF PipelineInv
<1>1. ASSUME NEW s \in Stages, QuietWorker(s) PROVE InOrder'
  <2>1. UNCHANGED <<queue, cur, next>> /\ \A t \in Stages \ {s} : worker'[t] = worker[t]
    BY <1>1, WorkerFrame, QuietWorkerFrame
  <2>2. worker'[s] \in Working \cup Putting => worker[s] \in Working \cup Putting
    BY <1>1, QuietWorkerFrame
  <2>3. \A i \in Items, t \in Stages, n \in 0..QueueCapacity : IsAt(i, t, n)' => IsAt(i, t, n)
    BY <2>1, <2>2 DEF IsAt
  <2> QED
    BY <2>1, <2>3, OrderStays
<1>2. ASSUME NEW s \in Stages, Takes(s) PROVE InOrder'
  <2>1. /\ next' = next /\ worker[s] = "take" /\ queue'[s] = Tail(queue[s]) /\ cur'[s] = Head(queue[s])
        /\ \A t \in Stages \ {s} : queue'[t] = queue[t] /\ worker'[t] = worker[t] /\ cur'[t] = cur[t]
        /\ queue[s] \in Queues /\ queue[s] # <<>>
    BY <1>2 DEF Takes, WorkerAt, Rest, PipelineTypeOK, Queues
  <2>2. /\ Len(queue[s]) \in 1..QueueCapacity /\ Head(queue[s]) = queue[s][1]
        /\ Len(Tail(queue[s])) = Len(queue[s]) - 1
        /\ \A n \in 1..(Len(queue[s]) - 1) : Tail(queue[s])[n] = queue[s][n + 1]
    BY <2>1, AfterTail, AtIsWithin
  <2>3. ASSUME NEW i \in Items, NEW n \in 0..QueueCapacity, IsAt(i, s, n)'
        PROVE  n + 1 \in 0..QueueCapacity /\ IsAt(i, s, n + 1)
    <3>1. n + 1 <= Len(queue[s]) /\ queue[s][n + 1] = i
      <4>1. CASE n = 0
        BY <2>1, <2>2, <2>3, <4>1 DEF IsAt
      <4>2. CASE n # 0
        <5>1. n <= Len(queue[s]) - 1 /\ Tail(queue[s])[n] = i
          BY <2>1, <2>2, <2>3, <4>2 DEF IsAt
        <5>2. n \in 1..(Len(queue[s]) - 1)
          BY <2>2, <4>2, <5>1
        <5> QED
          BY <2>2, <5>1, <5>2
      <4> QED
        BY <4>1, <4>2
    <3>2. n + 1 # 0 /\ n + 1 \in 0..QueueCapacity
      BY <2>2, <3>1, QueueCapacityAssumption
    <3> QED
      BY <3>1, <3>2 DEF IsAt
  <2>4. ASSUME NEW i \in Items, NEW t \in Stages, t # s, NEW n \in 0..QueueCapacity, IsAt(i, t, n)'
        PROVE  IsAt(i, t, n)
    BY <2>1, <2>4 DEF IsAt
  <2>5. ASSUME NEW i \in Items, NEW t \in Stages, NEW n \in 0..QueueCapacity, IsAt(i, t, n)'
        PROVE  \E k \in 0..QueueCapacity :
                 IsAt(i, t, k) /\ k = IF t = s THEN n + 1 ELSE n
    BY <2>3, <2>4, <2>5
  <2>6. ASSUME NEW i \in Items, NEW t \in Stages, NEW n \in 0..QueueCapacity, IsAt(i, t, n)',
               NEW j \in Items, NEW r \in Stages, NEW m \in 0..QueueCapacity, IsAt(j, r, m)',
               r < t \/ (r = t /\ n < m)
        PROVE  i < j
    <3>1. PICK k \in 0..QueueCapacity : IsAt(i, t, k) /\ k = IF t = s THEN n + 1 ELSE n
      BY <2>5, <2>6
    <3>2. PICK l \in 0..QueueCapacity : IsAt(j, r, l) /\ l = IF r = s THEN m + 1 ELSE m
      BY <2>5, <2>6
    <3>3. r < t \/ (r = t /\ k < l)
      BY <2>6, <3>1, <3>2
    <3> QED
      BY <3>1, <3>2, <3>3 DEF InOrder
  <2>7. ASSUME NEW i \in Items, NEW t \in Stages, NEW n \in 0..QueueCapacity, IsAt(i, t, n)'
        PROVE  i < next'
    BY <2>1, <2>5, <2>7 DEF InOrder
  <2> QED
    BY <2>6, <2>7 DEF InOrder
<1>3. ASSUME NEW s \in Stages, AbandonsItem(s) PROVE InOrder'
  <2>1. UNCHANGED <<queue, cur, next>> /\ \A t \in Stages \ {s} : worker'[t] = worker[t]
    BY <1>3, WorkerFrame DEF AbandonsItem, WorkerStep, HandlerStep
  <2>2. worker'[s] \in Working \cup Putting => worker[s] \in Working \cup Putting
    BY <1>3 DEF AbandonsItem, WorkerAt, AfterPut, PipelineTypeOK, Interruptible, Working, Putting
  <2>3. \A i \in Items, t \in Stages, n \in 0..QueueCapacity : IsAt(i, t, n)' => IsAt(i, t, n)
    BY <2>1, <2>2 DEF IsAt
  <2> QED
    BY <2>1, <2>3, OrderStays
<1>4. ASSUME NEW s \in Stages, DropsOutput(s) PROVE InOrder'
  <2>1. UNCHANGED <<queue, cur, next>> /\ \A t \in Stages \ {s} : worker'[t] = worker[t]
    BY <1>4, WorkerFrame DEF DropsOutput, WorkerStep, HandlerStep
  <2>2. worker'[s] \in Working \cup Putting => worker[s] \in Working \cup Putting
    BY <1>4 DEF DropsOutput, WorkerAt, AfterPut, PipelineTypeOK, Interruptible, Working, Putting
  <2>3. \A i \in Items, t \in Stages, n \in 0..QueueCapacity : IsAt(i, t, n)' => IsAt(i, t, n)
    BY <2>1, <2>2 DEF IsAt
  <2> QED
    BY <2>1, <2>3, OrderStays
<1>5. ASSUME NEW s \in Stages, Puts(s) PROVE InOrder'
  <2>1. s < NumStages /\ s + 1 \in Stages /\ s + 1 # s
    BY <1>5, FlowTypes DEF Puts, HoldsInv, Putting, Stages
  <2>2. /\ UNCHANGED <<next, cur>> /\ \A t \in Stages \ {s} : worker'[t] = worker[t]
        /\ \A t \in Stages \ {s + 1} : queue'[t] = queue[t]
        /\ queue'[s + 1] = Append(queue[s + 1], cur[s])
        /\ worker'[s] \in {"dead", "top"} /\ worker[s] = "putting"
        /\ queue[s + 1] \in Queues /\ cur[s] \in Items \cup {Poison}
    BY <1>5, <2>1 DEF Puts, WorkerAt, AfterPut, Enqueued, PipelineTypeOK, Queues
  <2>3. LET q == queue[s + 1]
        IN /\ Len(q) \in Nat /\ Len(queue'[s + 1]) = Len(q) + 1 /\ DOMAIN q = 1..Len(q)
           /\ queue'[s + 1][Len(q) + 1] = cur[s] /\ \A n \in DOMAIN q : queue'[s + 1][n] = q[n]
    BY <2>1, <2>2, AfterAppend, AtIsWithin
  <2> DEFINE New(i, t, n) == t = s + 1 /\ n = Len(queue[s + 1]) + 1 /\ IsAt(i, s, 0)
  <2>4. ASSUME NEW i \in Items, NEW n \in 0..QueueCapacity, IsAt(i, s + 1, n)'
        PROVE  n <= Len(queue[s + 1]) + 1 /\ (IsAt(i, s + 1, n) \/ New(i, s + 1, n))
    <3>1. CASE n = 0
      BY <2>1, <2>2, <2>3, <2>4, <3>1 DEF IsAt
    <3>2. CASE n = Len(queue[s + 1]) + 1
      BY <2>2, <2>3, <2>4, <3>2 DEF IsAt, Putting
    <3>3. CASE n # 0 /\ n # Len(queue[s + 1]) + 1
      <4>1. n <= Len(queue[s + 1]) + 1 /\ queue'[s + 1][n] = i
        BY <2>3, <2>4, <3>3 DEF IsAt
      <4>2. n \in 1..Len(queue[s + 1])
        BY <2>3, <3>3, <4>1
      <4> QED
        BY <2>3, <4>1, <4>2 DEF IsAt
    <3> QED
      BY <3>1, <3>2, <3>3
  <2>5. ASSUME NEW i \in Items, NEW t \in Stages, t # s + 1, NEW n \in 0..QueueCapacity, IsAt(i, t, n)'
        PROVE  IsAt(i, t, n) /\ (t = s => n # 0)
    BY <2>2, <2>5 DEF IsAt, Working, Putting
  <2>6. ASSUME NEW i \in Items, NEW t \in Stages, NEW n \in 0..QueueCapacity, IsAt(i, t, n)',
               NEW j \in Items, NEW r \in Stages, NEW m \in 0..QueueCapacity, IsAt(j, r, m)',
               r < t \/ (r = t /\ n < m)
        PROVE  i < j
    <3>1. CASE New(i, t, n)
      <4>1. r < t
        BY <2>3, <2>4, <2>6, <3>1
      <4>2. IsAt(j, r, m) /\ (r < s \/ (r = s /\ 0 < m))
        BY <2>5, <2>6, <3>1, <4>1 DEF Stages
      <4> QED
        BY <3>1, <4>2, QueueCapacityAssumption DEF InOrder
    <3>2. CASE IsAt(i, t, n) /\ New(j, r, m)
      <4>1. s < t
        BY <2>6, <3>2 DEF Stages
      <4>2. IsAt(j, s, 0) /\ 0 \in 0..QueueCapacity
        BY <3>2, QueueCapacityAssumption
      <4> QED
        BY <3>2, <4>1, <4>2 DEF InOrder
    <3>3. CASE IsAt(i, t, n) /\ IsAt(j, r, m)
      BY <2>6, <3>3 DEF InOrder
    <3>4. \/ New(i, t, n) \/ IsAt(i, t, n)
      BY <2>4, <2>5, <2>6
    <3>5. \/ New(j, r, m) \/ IsAt(j, r, m)
      BY <2>4, <2>5, <2>6
    <3> QED
      BY <3>1, <3>2, <3>3, <3>4, <3>5
  <2>7. ASSUME NEW i \in Items, NEW t \in Stages, NEW n \in 0..QueueCapacity, IsAt(i, t, n)'
        PROVE  i < next'
    <3>1. IsAt(i, t, n) \/ IsAt(i, s, 0)
      BY <2>4, <2>5, <2>7
    <3> QED
      BY <2>2, <3>1, QueueCapacityAssumption DEF InOrder
  <2> QED
    BY <2>6, <2>7 DEF InOrder
<1>6. ASSUME NEW s \in Stages, HandlerReturns(s) PROVE InOrder'
  <2>1. UNCHANGED <<queue, cur, next>> /\ \A t \in Stages \ {s} : worker'[t] = worker[t]
    BY <1>6, WorkerFrame DEF HandlerReturns, WorkerStep, HandlerStep
  <2>2. worker'[s] \in Working \cup Putting => worker[s] \in Working \cup Putting
    BY <1>6
    DEF HandlerReturns, WorkerAt, AfterPut, PipelineTypeOK, Interruptible, Working, Putting
  <2>3. \A i \in Items, t \in Stages, n \in 0..QueueCapacity : IsAt(i, t, n)' => IsAt(i, t, n)
    BY <2>1, <2>2 DEF IsAt
  <2> QED
    BY <2>1, <2>3, OrderStays
<1>7. ASSUME NEW s \in Stages, HandlerFails(s) PROVE InOrder'
  <2>1. UNCHANGED <<queue, cur, next>> /\ \A t \in Stages \ {s} : worker'[t] = worker[t]
    BY <1>7, WorkerFrame DEF HandlerFails, WorkerStep, HandlerStep
  <2>2. worker'[s] \in Working \cup Putting => worker[s] \in Working \cup Putting
    BY <1>7 DEF HandlerFails, WorkerAt, AfterPut, PipelineTypeOK, Interruptible, Working, Putting
  <2>3. \A i \in Items, t \in Stages, n \in 0..QueueCapacity : IsAt(i, t, n)' => IsAt(i, t, n)
    BY <2>1, <2>2 DEF IsAt
  <2> QED
    BY <2>1, <2>3, OrderStays
<1>8. CASE Quiet
  BY <1>8, QuietFrame, OrderStays DEF IsAt
<1>9. CASE Feeds
  <2>1. UNCHANGED <<worker, cur>> /\ next \in Nat /\ 1 \in Stages
    BY <1>9, StagesAssumption, ItemsAssumption DEF Feeds, workers, PipelineTypeOK, Stages
  <2>2. CASE ~StageHasRoom(1)
    <3>1. UNCHANGED <<queue, next>>
      BY <1>9, <2>2 DEF Feeds
    <3> QED
      BY <2>1, <3>1, OrderStays DEF IsAt
  <2>3. CASE StageHasRoom(1)
    <3>1. /\ queue'[1] = Append(queue[1], next) /\ \A t \in Stages \ {1} : queue'[t] = queue[t]
          /\ next' = next + 1 /\ queue[1] \in Queues /\ next \in Items \cup {Poison}
      BY <1>9, <2>1, <2>3, ItemsAssumption
      DEF Feeds, Enqueued, PipelineTypeOK, Queues, FeedInv, Items, Poison
    <3>2. LET q == queue[1]
          IN /\ Len(q) \in Nat /\ Len(queue'[1]) = Len(q) + 1 /\ DOMAIN q = 1..Len(q)
             /\ queue'[1][Len(q) + 1] = next /\ \A n \in DOMAIN q : queue'[1][n] = q[n]
      BY <2>1, <3>1, AfterAppend, AtIsWithin
    <3> DEFINE New(i, t, n) == t = 1 /\ n = Len(queue[1]) + 1 /\ i = next
    <3>3. ASSUME NEW i \in Items, NEW n \in 0..QueueCapacity, IsAt(i, 1, n)'
          PROVE  n <= Len(queue[1]) + 1 /\ (IsAt(i, 1, n) \/ New(i, 1, n))
      <4>1. CASE n = 0
        BY <2>1, <3>2, <3>3, <4>1 DEF IsAt
      <4>2. CASE n = Len(queue[1]) + 1
        BY <3>2, <3>3, <4>2 DEF IsAt
      <4>3. CASE n # 0 /\ n # Len(queue[1]) + 1
        <5>1. n <= Len(queue[1]) + 1 /\ queue'[1][n] = i
          BY <3>2, <3>3, <4>3 DEF IsAt
        <5>2. n \in 1..Len(queue[1])
          BY <3>2, <4>3, <5>1
        <5> QED
          BY <3>2, <5>1, <5>2 DEF IsAt
      <4> QED
        BY <4>1, <4>2, <4>3
    <3>4. ASSUME NEW i \in Items, NEW t \in Stages, t # 1, NEW n \in 0..QueueCapacity, IsAt(i, t, n)'
          PROVE  IsAt(i, t, n)
      BY <2>1, <3>1, <3>4 DEF IsAt
    <3>5. ASSUME NEW i \in Items, NEW t \in Stages, NEW n \in 0..QueueCapacity, IsAt(i, t, n)'
          PROVE  New(i, t, n) \/ (IsAt(i, t, n) /\ i < next)
      BY <3>3, <3>4, <3>5 DEF InOrder
    <3>6. ASSUME NEW i \in Items, NEW t \in Stages, NEW n \in 0..QueueCapacity, IsAt(i, t, n)',
                 NEW j \in Items, NEW r \in Stages, NEW m \in 0..QueueCapacity, IsAt(j, r, m)',
                 r < t \/ (r = t /\ n < m)
          PROVE  i < j
      <4>1. ~New(i, t, n)
        BY <3>2, <3>3, <3>6 DEF Stages
      <4>2. IsAt(i, t, n) /\ i < next
        BY <3>5, <3>6, <4>1
      <4>3. CASE New(j, r, m)
        BY <4>2, <4>3
      <4>4. CASE IsAt(j, r, m)
        BY <3>6, <4>2, <4>4 DEF InOrder
      <4> QED
        BY <3>5, <3>6, <4>3, <4>4
    <3>7. ASSUME NEW i \in Items, NEW t \in Stages, NEW n \in 0..QueueCapacity, IsAt(i, t, n)'
          PROVE  i < next'
      BY <2>1, <3>1, <3>5, <3>7 DEF Items
    <3> QED
      BY <3>6, <3>7 DEF InOrder
  <2> QED
    BY <2>2, <2>3
<1>10. CASE FeedsMarker
  <2>1. UNCHANGED <<worker, cur, next>> /\ 1 \in Stages
    BY <1>10, StagesAssumption DEF FeedsMarker, workers, Stages
  <2>2. CASE ~StageHasRoom(1)
    <3>1. UNCHANGED queue
      BY <1>10, <2>2 DEF FeedsMarker
    <3> QED
      BY <2>1, <3>1, OrderStays DEF IsAt
  <2>3. CASE StageHasRoom(1)
    <3>1. /\ queue'[1] = Append(queue[1], Poison) /\ \A t \in Stages \ {1} : queue'[t] = queue[t]
          /\ queue[1] \in Queues
      BY <1>10, <2>1, <2>3 DEF FeedsMarker, Enqueued, PipelineTypeOK, Queues
    <3>2. LET q == queue[1]
          IN /\ Len(q) \in Nat /\ Len(queue'[1]) = Len(q) + 1 /\ DOMAIN q = 1..Len(q)
             /\ queue'[1][Len(q) + 1] = Poison /\ \A n \in DOMAIN q : queue'[1][n] = q[n]
      BY <2>1, <3>1, AfterAppend, AtIsWithin
    <3>3. ASSUME NEW i \in Items, NEW n \in 0..QueueCapacity, n # 0, IsAt(i, 1, n)'
          PROVE  IsAt(i, 1, n)
      <4>1. n <= Len(queue[1]) + 1 /\ queue'[1][n] = i
        BY <3>2, <3>3 DEF IsAt
      <4>2. n # Len(queue[1]) + 1
        BY <3>2, <4>1, ItemsAssumption DEF Items, Poison
      <4>3. n \in 1..Len(queue[1])
        BY <3>2, <3>3, <4>1, <4>2
      <4> QED
        BY <3>2, <4>1, <4>3 DEF IsAt
    <3>4. ASSUME NEW i \in Items, NEW t \in Stages, NEW n \in 0..QueueCapacity, IsAt(i, t, n)'
          PROVE  IsAt(i, t, n)
      <4>1. CASE t = 1 /\ n # 0
        BY <3>3, <3>4, <4>1
      <4>2. CASE t # 1 \/ n = 0
        BY <2>1, <3>1, <3>4, <4>2 DEF IsAt
      <4> QED
        BY <4>1, <4>2
    <3> QED
      BY <2>1, <3>4, OrderStays
  <2> QED
    BY <2>2, <2>3
<1>11. CASE Execute
  <2>1. next' = next /\ queue' = queue /\ \A t \in Stages : worker'[t] = "top"
    BY <1>11 DEF Execute
  <2>2. \A i \in Items, t \in Stages, n \in 0..QueueCapacity : IsAt(i, t, n)' => IsAt(i, t, n)
    BY <2>1 DEF IsAt, Working, Putting
  <2> QED
    BY <2>1, <2>2, OrderStays
<1>12. CASE PollStops
  <2>1. UNCHANGED <<worker, cur, next>>
    BY <1>12 DEF PollStops, workers
  <2>2. ASSUME NEW i \in Items, NEW t \in Stages, NEW n \in 0..QueueCapacity, IsAt(i, t, n)'
        PROVE  IsAt(i, t, n)
    <3> DEFINE k == QueueCapacity - Len(queue[t])
               g == [x \in 1..k |-> Poison]
    <3>1. queue[t] \in Queues
      BY DEF PipelineTypeOK, Queues
    <3>2. Len(queue[t]) \in 0..QueueCapacity
      BY AtIsWithin
    <3>3. queue[t] \in Queues /\ Len(queue[t]) \in 0..QueueCapacity /\ k \in Nat
      BY <3>1, <3>2, QueueCapacityAssumption
    <3>4. g \in Queues /\ Len(g) = k
      BY <3>3 DEF Queues
    <3>5. queue'[t] = queue[t] \o g
      BY <1>12 DEF PollStops
    <3> HIDE DEF k, g
    <3>6. \A x \in 1..Len(queue[t]) : queue'[t][x] = queue[t][x]
      BY <3>3, <3>4, <3>5 DEF Queues
    <3>7. \A x \in (Len(queue[t]) + 1)..(Len(queue[t]) + k) : queue'[t][x] = Poison
      BY <3>3, <3>4, <3>5 DEF Queues, g
    <3>8. CASE n # 0
      <4>1. queue'[t][n] = i /\ n <= Len(queue'[t])
        BY <2>2, <3>8 DEF IsAt
      <4>2. Len(queue[t] \o g) = Len(queue[t]) + Len(g)
        BY <3>3, <3>4 DEF Queues
      <4>3. Len(queue'[t]) = Len(queue[t]) + k
        BY <3>4, <3>5, <4>2
      <4>4. queue'[t][n] = i /\ n <= Len(queue[t]) + k
        BY <4>1, <4>3
      <4>5. n \in 1..Len(queue[t]) \/ n \in (Len(queue[t]) + 1)..(Len(queue[t]) + k)
        BY <3>3, <3>8, <4>4
      <4>6. n \in 1..Len(queue[t])
        BY <3>7, <4>4, <4>5, ItemsAssumption DEF Items, Poison
      <4> QED
        BY <3>6, <4>4, <4>6 DEF IsAt
    <3>9. CASE n = 0
      BY <2>1, <2>2, <3>9 DEF IsAt
    <3> QED
      BY <3>8, <3>9
  <2> QED
    BY <2>1, <2>2, OrderStays
<1>13. CASE Joins
  <2>1. UNCHANGED <<next, worker, cur>> /\ \A t \in Stages : queue'[t] = <<>>
    BY <1>13 DEF Joins
  <2>2. \A i \in Items, t \in Stages, n \in 0..QueueCapacity : IsAt(i, t, n)' => IsAt(i, t, n)
    BY <2>1 DEF IsAt
  <2> QED
    BY <2>1, <2>2, OrderStays
<1> QED
  BY <1>1, <1>2, <1>3, <1>4, <1>5, <1>6, <1>7, <1>8, <1>9, <1>10, <1>11, <1>12, <1>13
  DEF PipelineNext, WorkerStep, HandlerStep, QuietWorker, FeederStep, MainStep, Quiet

-----------------------------------------------------------------------------
(* The theorems. *)

\* PipelineInv is an inductive invariant of the pipeline.
LEMMA PipelineInvariance == PipelineSpec => []PipelineInv
<1>1. PipelineInit => PipelineInv
  <2> SUFFICES ASSUME PipelineInit PROVE PipelineInv
    OBVIOUS
  <2>1. PipelineTypeOK
    <3>1. /\ 1 \in 1..(MaxRetries + 1) /\ 1 \in 1..(NumItems + 1) /\ 0 \in 0..NumItems
          /\ 0 \in 0..NumStages /\ Len(<<>>) <= QueueCapacity /\ <<>> \in Seq(Items \cup {Poison})
      BY StagesAssumption, ItemsAssumption, QueueCapacityAssumption, RetriesAssumption
    <3>2. /\ queue = [s \in Stages |-> <<>>] /\ queue \in [Stages -> Seq(Items \cup {Poison})]
          /\ \A s \in Stages : Len(queue[s]) <= QueueCapacity
      BY <3>1 DEF PipelineInit
    <3>3. /\ worker \in [Stages -> {"none", "top", "take", "dead"} \cup Working \cup Putting]
          /\ cur \in [Stages -> Items \cup {Poison}] /\ attempt \in [Stages -> 1..(MaxRetries + 1)]
          /\ item \in [Items -> Terminal \cup {"PENDING", "PROCESSING", "RETRYING"}]
          /\ passed \in [Items -> 0..NumStages]
      BY <3>1 DEF PipelineInit
    <3>4. /\ success \in [Stages -> 0..NumItems] /\ failed \in [Stages -> 0..NumItems]
          /\ dropped \in [Stages -> 0..NumItems]
      BY <3>1 DEF PipelineInit
    <3> QED
      BY <3>1, <3>2, <3>3, <3>4 DEF PipelineInit, PipelineTypeOK, Ends
  <2>2. ThreadsInv /\ HoldsInv /\ FeedInv /\ FlowIsConserved
    BY DEF PipelineInit, ThreadsInv, HoldsInv, FeedInv, FlowIsConserved, Working, Putting
  <2>3. MarkerInv /\ PlaceInv /\ ResultInv
    BY DEF PipelineInit, MarkerInv, PlaceInv, ResultInv, Runs
  <2> QED
    BY <2>1, <2>2, <2>3 DEF PipelineInv
<1>2. PipelineInv /\ [PipelineNext]_pipelineVars => PipelineInv'
  <2> SUFFICES ASSUME PipelineInv, [PipelineNext]_pipelineVars PROVE PipelineInv'
    OBVIOUS
  <2>1. CASE PipelineNext
    <3>1. PipelineTypeOK'
      BY <2>1, PipelineTypeStep
    <3> QED
      BY <2>1, <3>1, ThreadsStep, HoldsStep, ResultStep, FlowStep, MarkerStep, PlaceStep
      DEF PipelineInv
  <2>2. CASE UNCHANGED pipelineVars
    <3> USE <2>2 DEF PipelineInv, pipelineVars, flags, workers, counts
    <3>1. PipelineTypeOK'
      BY DEF PipelineTypeOK
    <3>2. ThreadsInv' /\ HoldsInv' /\ FeedInv'
      BY DEF ThreadsInv, HoldsInv, FeedInv
    <3>3. FlowIsConserved'
      BY DEF FlowIsConserved, HandedTo, WorksOn, HandsOver
    <3>4. MarkerInv' /\ PlaceInv' /\ ResultInv'
      BY DEF MarkerInv, PlaceInv, ResultInv, Runs, BeforeEnded, Queued, Held, Finished
    <3> QED
      BY <3>1, <3>2, <3>3, <3>4
  <2> QED
    BY <2>1, <2>2
<1> QED
  BY <1>1, <1>2, PTL DEF PipelineSpec

\* Every state of the pipeline is well typed; in particular no queue exceeds its capacity
\* and no stage counts more items than there are.
THEOREM PipelineTypeCorrect == PipelineSpec => []PipelineTypeOK
BY PipelineInvariance, PTL DEF PipelineInv

\* Nothing is lost, repeated or counted twice on the way, also while the pipeline is told
\* to stop: what was handed to a stage waits for it, is worked on, or is counted there once.
THEOREM FlowStaysBalanced == PipelineSpec => []FlowIsConserved
BY PipelineInvariance, PTL DEF PipelineInv

\* What execute() reports as completed went through every stage or failed at one: the
\* workers end only behind an end marker, and a marker is behind every item.
THEOREM CompletedRunsAreComplete == PipelineSpec => []CompletedIsComplete
<1>1. PipelineInv => CompletedIsComplete
  BY DEF PipelineInv, ResultInv, CompletedIsComplete, Finished
<1> QED
  BY <1>1, PipelineInvariance, PTL

\* Whatever was cancelled, and whenever, every item of a returned result is settled.
THEOREM ReturnedResultsAreSettled == PipelineSpec => []ResultIsSettled
<1>1. PipelineInv => ResultIsSettled
  BY DEF PipelineInv, ResultInv, ResultIsSettled
<1> QED
  BY <1>1, PipelineInvariance, PTL

\* Items are in input order all along the pipeline, whatever fails, stops or waits on the
\* way; so each is in at most one place, and no stage sees one before an earlier one.
THEOREM InputOrderIsKept == PipelineSpec => []InOrder
<1>1. PipelineInit => InOrder
  BY DEF PipelineInit, InOrder, IsAt, Working, Putting
<1>2. PipelineInv /\ InOrder /\ [PipelineNext]_pipelineVars => InOrder'
  <2> SUFFICES ASSUME PipelineInv, InOrder, [PipelineNext]_pipelineVars PROVE InOrder'
    OBVIOUS
  <2>1. CASE PipelineNext
    BY <2>1, OrderStep
  <2>2. CASE UNCHANGED pipelineVars
    BY <2>2, OrderStays DEF pipelineVars, workers, IsAt, PipelineInv
  <2> QED
    BY <2>1, <2>2
<1> QED
  BY <1>1, <1>2, PipelineInvariance, PTL DEF PipelineSpec
=============================================================================
