---------------------------- MODULE BoundedQueue ----------------------------
(***************************************************************************)
(* The bounded queue of src/src/solocoder_py/backpressure: one lock with   *)
(* the two conditions _not_full and _not_empty, three strategies for a     *)
(* full queue, watermark callbacks that run after the lock is released.    *)
(* An action is one critical section, or one step taken without the lock   *)
(* (reading the default strategy, running a callback, a deadline passing). *)
(* No decision depends on an element, so the queue is its length, nor on   *)
(* the counters of dropped and rejected elements, which are left out.      *)
(***************************************************************************)
EXTENDS Integers, FiniteSets

CONSTANTS Threads,      \* the threads that use the queue
          Capacity,     \* capacity
          HighPercent,  \* high_watermark_ratio, in percent
          LowPercent    \* low_watermark_ratio, in percent

ASSUME CapacityAssumption == Capacity \in Nat \ {0}
ASSUME PercentAssumption ==
  /\ HighPercent \in Nat
  /\ LowPercent \in Nat
  /\ LowPercent <= HighPercent
  /\ HighPercent <= 100

VARIABLES
  size,      \* len(_queue)
  inHigh,    \* _in_high_watermark
  strategy,  \* _strategy, the default
  pc,        \* where each thread stands
  mode,      \* effective_strategy of each thread's enqueue
  timer,     \* the deadline of each thread's call: none, ahead or passed
  cleared,   \* the dequeuers whose start_epoch is no longer _clear_epoch
  balance    \* high callbacks run so far minus low callbacks run so far

vars == <<size, inHigh, strategy, pc, mode, timer, cleared, balance>>

Strategies == {"BLOCK", "DROP", "REJECT"}
Timers == {"none", "ahead", "passed"}
PutWaiting == {"putWait", "putWoken"}
TakeWaiting == {"takeWait", "takeWoken"}
Notifying == {"notifyHigh", "notifyLow"}

\* max(1, int(capacity * ratio))
High == LET mark == (Capacity * HighPercent) \div 100 IN IF mark < 1 THEN 1 ELSE mark

\* min(capacity - 1, int(capacity * ratio))
Low == LET mark == (Capacity * LowPercent) \div 100
       IN  IF mark > Capacity - 1 THEN Capacity - 1 ELSE mark

HasRoom == size < Capacity

\* _collect_watermark_callbacks_on_enqueue
CrossesHigh == ~inHigh /\ size < High /\ size + 1 >= High

\* _collect_watermark_callbacks_on_dequeue
CrossesLow == inHigh /\ size > Low /\ size - 1 <= Low

\* mutation: the flag is lowered and the callbacks are forgotten
ClearsQuietly == "idle"

\* _collect_watermark_callbacks_on_clear
AfterClear == IF inHigh THEN "notifyLow" ELSE "idle"

\* _not_empty.notify_all()
WokenByPut(u) == IF pc[u] = "takeWait" THEN "takeWoken" ELSE pc[u]

\* _not_full.notify_all()
WokenByTake(u) == IF pc[u] = "putWait" THEN "putWoken" ELSE pc[u]

\* A sleeping thread is woken, any other stays where it is.
Woken(u) == CASE pc[u] = "putWait" -> "putWoken"
              [] pc[u] = "takeWait" -> "takeWoken"
              [] OTHER -> pc[u]

\* mutation: clear() wakes the producers only
ClearWakesPutters(u) == IF pc[u] = "putWait" THEN "putWoken" ELSE pc[u]

\* Both notify_all() of clear().
WokenByClear(u) == Woken(u)

TypeOK ==
  /\ size \in 0..Capacity
  /\ inHigh \in BOOLEAN
  /\ strategy \in Strategies
  /\ pc \in [Threads -> {"idle", "entering"} \cup PutWaiting \cup TakeWaiting \cup Notifying]
  /\ mode \in [Threads -> Strategies]
  /\ timer \in [Threads -> Timers]
  /\ cleared \subseteq Threads
  /\ balance \in Int

Init ==
  /\ size = 0
  /\ inHigh = FALSE
  /\ strategy \in Strategies
  /\ pc = [t \in Threads |-> "idle"]
  /\ mode = [t \in Threads |-> "BLOCK"]
  /\ timer = [t \in Threads |-> "none"]
  /\ cleared = {}
  /\ balance = 0

\* Thread t is at l, and those that woken(u) moves are moved.
Moved(t, l, woken(_)) == [u \in Threads |-> IF u = t THEN l ELSE woken(u)]

\* Thread t goes to l, nobody else is moved.
Goes(t, l) == pc' = [pc EXCEPT ![t] = l]

\* The local variables of the call of t are gone.
EndCall(t) ==
  /\ mode' = [mode EXCEPT ![t] = "BLOCK"]
  /\ timer' = [timer EXCEPT ![t] = "none"]
-----------------------------------------------------------------------------
(* enqueue. *)

\* enqueue up to its critical section: the strategy is the caller's or the
\* default, which is read without the lock, and the deadline is set.
CallEnqueue(t) ==
  /\ pc[t] = "idle"
  /\ \E s \in Strategies, d \in Timers :
       /\ mode' = [mode EXCEPT ![t] = s]
       /\ timer' = [timer EXCEPT ![t] = IF s = "BLOCK" THEN d ELSE "none"]
  /\ Goes(t, "entering")
  /\ UNCHANGED <<size, inHigh, strategy, cleared, balance>>

\* The same without a strategy of the caller's own.
CallEnqueueDefault(t) ==
  /\ pc[t] = "idle"
  /\ mode' = [mode EXCEPT ![t] = strategy]
  /\ \E d \in Timers :
       timer' = [timer EXCEPT ![t] = IF strategy = "BLOCK" THEN d ELSE "none"]
  /\ Goes(t, "entering")
  /\ UNCHANGED <<size, inHigh, strategy, cleared, balance>>

\* A thread that holds the lock inside enqueue.
Enqueueing(t) == pc[t] \in {"entering", "putWoken"}

Put(t) ==
  /\ Enqueueing(t)
  /\ HasRoom
  /\ size' = size + 1
  /\ inHigh' = (inHigh \/ CrossesHigh)
  /\ pc' = Moved(t, IF CrossesHigh THEN "notifyHigh" ELSE "idle", WokenByPut)
  /\ EndCall(t)
  /\ UNCHANGED <<strategy, cleared, balance>>

\* _not_full.wait()
WaitForRoom(t) ==
  /\ Enqueueing(t)
  /\ ~HasRoom
  /\ mode[t] = "BLOCK"
  /\ timer[t] # "passed"
  /\ Goes(t, "putWait")
  /\ UNCHANGED <<size, inHigh, strategy, mode, timer, cleared, balance>>

\* A full queue turns the call away: DROP, REJECT, or a blocked enqueue that
\* ran out of time.
TurnAway(t) ==
  /\ Enqueueing(t)
  /\ ~HasRoom
  /\ mode[t] = "BLOCK" => timer[t] = "passed"
  /\ Goes(t, "idle")
  /\ EndCall(t)
  /\ UNCHANGED <<size, inHigh, strategy, cleared, balance>>
-----------------------------------------------------------------------------
(* dequeue.  A non-blocking one on an empty queue, and one whose deadline   *)
(* passes before it first looks, return without changing anything.          *)

Popleft(t) ==
  /\ pc[t] \in {"idle", "takeWoken"}
  /\ size > 0
  /\ size' = size - 1
  /\ inHigh' = (inHigh /\ ~CrossesLow)
  /\ pc' = Moved(t, IF CrossesLow THEN "notifyLow" ELSE "idle", WokenByTake)
  /\ EndCall(t)
  /\ cleared' = cleared \ {t}
  /\ UNCHANGED <<strategy, balance>>

\* A blocking dequeue finds the queue empty and waits for the first time.
StartWaiting(t) ==
  /\ pc[t] = "idle"
  /\ size = 0
  /\ \E d \in {"none", "ahead"} : timer' = [timer EXCEPT ![t] = d]
  /\ Goes(t, "takeWait")
  /\ UNCHANGED <<size, inHigh, strategy, mode, cleared, balance>>

\* mutation: the epoch is not compared
NeverGivesUp(t) == timer[t] = "passed"

\* Why a woken dequeuer returns empty-handed: None after a clear(), or
\* DequeueTimeoutError.
GivesUp(t) == t \in cleared \/ timer[t] = "passed"

\* It was woken, and somebody else took the element.
WaitAgain(t) ==
  /\ pc[t] = "takeWoken"
  /\ size = 0
  /\ ~GivesUp(t)
  /\ Goes(t, "takeWait")
  /\ UNCHANGED <<size, inHigh, strategy, mode, timer, cleared, balance>>

ReturnEmpty(t) ==
  /\ pc[t] = "takeWoken"
  /\ size = 0
  /\ GivesUp(t)
  /\ Goes(t, "idle")
  /\ EndCall(t)
  /\ cleared' = cleared \ {t}
  /\ UNCHANGED <<size, inHigh, strategy, balance>>
-----------------------------------------------------------------------------
\* mutation: the clock of a waiting thread does not wake it
SleepsOn(u) == pc[u]

\* A wait with a timeout ends when the deadline passes.
WokenByClock(u) == Woken(u)

\* The deadline of t passes.
Expire(t) ==
  /\ timer[t] = "ahead"
  /\ timer' = [timer EXCEPT ![t] = "passed"]
  /\ Goes(t, WokenByClock(t))
  /\ UNCHANGED <<size, inHigh, strategy, mode, cleared, balance>>

Clear(t) ==
  /\ pc[t] = "idle"
  /\ size' = 0
  /\ cleared' = {u \in Threads : pc[u] \in TakeWaiting}
  /\ inHigh' = FALSE
  /\ pc' = Moved(t, AfterClear, WokenByClear)
  /\ UNCHANGED <<strategy, mode, timer, balance>>

SetStrategy(t) ==
  /\ pc[t] = "idle"
  /\ strategy' \in Strategies
  /\ UNCHANGED <<size, inHigh, pc, mode, timer, cleared, balance>>

\* _execute_callbacks, without the lock; what a callback raises is caught.
RunCallbacks(t) ==
  /\ pc[t] \in Notifying
  /\ balance' = IF pc[t] = "notifyHigh" THEN balance + 1 ELSE balance - 1
  /\ Goes(t, "idle")
  /\ UNCHANGED <<size, inHigh, strategy, mode, timer, cleared>>

\* What the scheduler does with a thread that is inside a call.
Proceed(t) ==
  \/ Put(t) \/ WaitForRoom(t) \/ TurnAway(t)
  \/ Popleft(t) \/ WaitAgain(t) \/ ReturnEmpty(t) \/ RunCallbacks(t)

\* Calls a thread may make.
Begin(t) ==
  \/ CallEnqueue(t) \/ CallEnqueueDefault(t) \/ StartWaiting(t) \/ Clear(t) \/ SetStrategy(t)

Next == \E t \in Threads : Proceed(t) \/ Begin(t) \/ Expire(t)

Spec == Init /\ [][Next]_vars

\* A thread inside a call gets the lock sooner or later, and time passes.
\* Nobody has to call anything, and no thread has a right to its turn.
Fairness ==
  \A t \in Threads :
    /\ WF_vars(pc[t] # "idle" /\ Proceed(t))
    /\ WF_vars(Expire(t))

FairSpec == Spec /\ Fairness
-----------------------------------------------------------------------------
(* What the queue promises. *)

\* No lost wakeup (while-wait loops and notify_all, queue.py:203-217 and
\* 264-279): while there is an element no dequeuer sleeps, while there is
\* room no enqueuer sleeps, and nobody sleeps through a clear().
NoLostWakeup ==
  \A t \in Threads :
    /\ pc[t] = "takeWait" => size = 0
    /\ pc[t] = "putWait" => ~HasRoom
    /\ pc[t] = "takeWait" => t \notin cleared

\* The watermark flag is hysteretic (queue.py:128-158): set at the high mark,
\* it stays until the low mark, whoever enqueues, dequeues or clears.
Hysteresis ==
  Low < High =>
    /\ inHigh => size > Low
    /\ ~inHigh => size < High

\* The threads that are about to run the callbacks of one kind.
Pending(l) == {t \in Threads : pc[t] = l}

\* Callbacks run late and in any order (queue.py:219, 281, 296), but none is
\* lost or repeated: once those still pending have run, the listeners have
\* heard of one high mark more than of low marks exactly when the flag is up.
CallbacksBalance ==
  balance + Cardinality(Pending("notifyHigh")) - Cardinality(Pending("notifyLow"))
    = IF inHigh THEN 1 ELSE 0

\* A call with a timeout returns, however the other threads barge in.
TimedCallsReturn ==
  \A t \in Threads :
    (pc[t] \in PutWaiting \cup TakeWaiting /\ timer[t] # "none") ~> pc[t] = "idle"

\* A dequeuer that was waiting when clear() ran returns (queue.py:273-274).
ClearedDequeuersReturn ==
  \A t \in Threads : t \in cleared ~> pc[t] = "idle"

\* README item 4: falling back from the high mark to below the low mark
\* triggers the low callback, so the flag is down below the low mark.
BelowLowIsReported == size < Low => ~inHigh
=============================================================================
