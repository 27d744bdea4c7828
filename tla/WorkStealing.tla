---------------------------- MODULE WorkStealing ----------------------------
(***************************************************************************)
(* The worker pool of src/src/solocoder_py/work_stealing_queue and its     *)
(* deques.  A deque has two locks: the bottom lock for push and pop, the   *)
(* steal lock for steals.  While a thread that holds one of them has seen  *)
(* more than one task it takes its task without the other, so a thread at  *)
(* the bottom and a thief may be at work on the deque at the same time.    *)
(*                                                                         *)
(* What a thread does with a deque between taking and giving up a lock is  *)
(* one step when nobody else could notice, and two when it looks at the    *)
(* length first and acts on what it has seen.  append, pop, popleft and    *)
(* len of collections.deque are atomic.                                    *)
(*                                                                         *)
(* A pool can be stopped and started again, and stop() waits for a thread  *)
(* only so long: a thread of an earlier start may find the pool running    *)
(* again and go on beside the new thread of its worker.                    *)
(*                                                                         *)
(* The marks of a task while it is on its way and the pool's counters,     *)
(* which no decision reads, are left out.                                  *)
(***************************************************************************)
EXTENDS Integers, Sequences, FiniteSets

CONSTANTS Workers,   \* the indices of the pool's workers
          MaxTasks,  \* bound: tasks submitted
          Capacity,  \* max_queue_capacity
          MaxStarts, \* bound: calls of start() that start threads
          MaxExits,  \* bound: handlers that end their thread
          None       \* nobody, nothing

ASSUME WorkersAssumption == IsFiniteSet(Workers)
ASSUME CapacityAssumption == Capacity \in Nat \ {0}
ASSUME BoundAssumption == MaxTasks \in Nat /\ MaxStarts \in Nat /\ MaxExits \in Nat

Tasks == 1..MaxTasks

\* A thread of the pool: its worker and the call of start() that made it.
Threads == Workers \X (1..MaxStarts)
Index(p) == p[1]

ASSUME NoneAssumption == None \notin Threads \cup Tasks

VARIABLES
  deque,      \* _deque of each worker
  bottomLock, \* who holds the bottom lock of each worker's deque
  stealLock,  \* who holds its steal lock
  running,    \* _running
  starts,     \* calls of start() that have started their threads
  starting,   \* calls of start() that have seen the pool not running
  pc,         \* where each thread is
  victim,     \* the deque a thief works on
  rest,       \* the candidates a thief has not tried
  hand,       \* the task a thread has in hand
  status,     \* history: of each task, in the order they are submitted
  exits       \* history: handlers that ended their thread

locks == <<bottomLock, stealLock>>
pool == <<running, starts, starting>>
vars == <<deque, locks, pool, pc, victim, rest, hand, status, exits>>

TypeOK ==
  /\ deque \in [Workers -> Seq(Tasks)]
  /\ bottomLock \in [Workers -> Threads \cup {None}]
  /\ stealLock \in [Workers -> Threads \cup {None}]
  /\ running \in BOOLEAN
  /\ starts \in 0..MaxStarts /\ starting \in 0..MaxStarts
  /\ pc \in [Threads ->
               {"idle", "loop", "pop", "popFast", "popSlow", "steal",
                "stealFast", "stealSlow", "stealBoth", "execute", "ended", "broken"}]
  /\ victim \in [Threads -> Workers \cup {None}]
  /\ rest \in [Threads -> SUBSET Workers]
  /\ hand \in [Threads -> Tasks \cup {None}]
  /\ status \in [Tasks -> {"new", "submitted", "refused", "executed"}]
  /\ exits \in 0..MaxExits

Init ==
  /\ deque = [w \in Workers |-> <<>>]
  /\ bottomLock = [w \in Workers |-> None]
  /\ stealLock = [w \in Workers |-> None]
  /\ running = FALSE
  /\ starts = 0 /\ starting = 0
  /\ pc = [p \in Threads |-> "idle"]
  /\ victim = [p \in Threads |-> None]
  /\ rest = [p \in Threads |-> {}]
  /\ hand = [p \in Threads |-> None]
  /\ status = [t \in Tasks |-> "new"]
  /\ exits = 0

Goto(p, l) == pc' = [pc EXCEPT ![p] = l]
-----------------------------------------------------------------------------
(* Submitting.                                                              *)

\* submit: push_bottom appends the task under the bottom lock, or refuses it.
\* (A thief between its look and its act only makes room.)  The worker is the
\* caller's choice or the next of the round.
Submit(w, t) ==
  /\ status[t] = "new" /\ \A u \in 1..(t - 1) : status[u] # "new"
  /\ bottomLock[w] = None
  /\ IF Len(deque[w]) < Capacity
     THEN /\ deque' = [deque EXCEPT ![w] = Append(@, t)]
          /\ status' = [status EXCEPT ![t] = "submitted"]
     ELSE /\ status' = [status EXCEPT ![t] = "refused"]
          /\ UNCHANGED deque
  /\ UNCHANGED <<locks, pool, pc, victim, rest, hand, exits>>
-----------------------------------------------------------------------------
(* Starting and stopping.                                                   *)

\* start() looks at _running without a lock, so that two calls may pass.
CallStart ==
  /\ ~running
  /\ starts + starting < MaxStarts
  /\ starting' = starting + 1
  /\ UNCHANGED <<deque, locks, running, starts, pc, victim, rest, hand, status, exits>>

StartThreads ==
  /\ starting > 0
  /\ running' = TRUE
  /\ starting' = starting - 1
  /\ starts' = starts + 1
  /\ pc' = [p \in DOMAIN pc |->
              IF p \in Threads /\ p[2] = starts + 1 THEN "loop" ELSE pc[p]]
  /\ UNCHANGED <<deque, locks, victim, rest, hand, status, exits>>

\* stop() returns after a while whether the threads have ended or not.
Stop ==
  /\ running
  /\ running' = FALSE
  /\ UNCHANGED <<deque, locks, starts, starting, pc, victim, rest, hand, status, exits>>
-----------------------------------------------------------------------------
(* A worker and its own deque.                                              *)

\* The test of the loop; a thread makes it as it comes round.
Again == IF running THEN "pop" ELSE "ended"

Loop(p) ==
  /\ pc[p] = "loop"
  /\ Goto(p, Again)
  /\ UNCHANGED <<deque, locks, pool, victim, rest, hand, status, exits>>

\* mutation: the last task may be taken without the other lock, too
NonEmpty(w) == Len(deque[w]) > 0

\* A task is left when somebody takes one from the other end.
MoreThanOne(w) == Len(deque[w]) > 1

\* Whom a worker without a task of its own tries, in any order.
Others(p) == Workers \ {Index(p)}

\* pop_bottom takes the bottom lock and looks.  (When the deque loses a task
\* between its two looks, the second decides.)
PopLooks(p) ==
  LET w == Index(p) IN
  /\ pc[p] = "pop"
  /\ bottomLock[w] = None
  /\ IF deque[w] = <<>>
     THEN /\ rest' = [rest EXCEPT ![p] = Others(p)]
          /\ Goto(p, "steal")
          /\ UNCHANGED bottomLock
     ELSE /\ bottomLock' = [bottomLock EXCEPT ![w] = p]
          /\ Goto(p, IF MoreThanOne(w) THEN "popFast" ELSE "popSlow")
          /\ UNCHANGED rest
  /\ UNCHANGED <<deque, stealLock, pool, victim, hand, status, exits>>

\* mutation: the task at one end, but the deque shortened at the bottom
PopsTheBottom(p, w, n) ==
  /\ hand' = [hand EXCEPT ![p] = deque[w][n]]
  /\ deque' = [deque EXCEPT ![w] = SubSeq(@, 1, Len(@) - 1)]
  /\ Goto(p, "execute")

\* The thread takes the task at one end of w's deque: [1] of it, or the last.
\* It has seen one; pop and popleft of an empty deque would raise.
Takes(p, w, n) ==
  /\ hand' = [hand EXCEPT ![p] = deque[w][n]]
  /\ deque' = [deque EXCEPT ![w] = SubSeq(@, 1, n - 1) \o SubSeq(@, n + 1, Len(@))]
  /\ Goto(p, "execute")

Bottom(w) == Len(deque[w])
Top(w) == 1

\* pop or popleft on an empty deque: the thread ends, and keeps the lock.
Breaks(p) == Goto(p, "broken") /\ UNCHANGED <<deque, locks, hand>>

PopFast(p) ==
  LET w == Index(p) IN
  /\ pc[p] = "popFast"
  /\ IF deque[w] = <<>> THEN Breaks(p)
     ELSE /\ Takes(p, w, Bottom(w))
          /\ bottomLock' = [bottomLock EXCEPT ![w] = None]
          /\ UNCHANGED stealLock
  /\ UNCHANGED <<pool, victim, rest, status, exits>>

\* _pop_bottom_slow_path, with both locks
PopSlow(p) ==
  LET w == Index(p) IN
  /\ pc[p] = "popSlow"
  /\ stealLock[w] = None
  /\ bottomLock' = [bottomLock EXCEPT ![w] = None]
  /\ IF deque[w] = <<>>
     THEN /\ rest' = [rest EXCEPT ![p] = Others(p)]
          /\ Goto(p, "steal")
          /\ UNCHANGED <<deque, hand>>
     ELSE Takes(p, w, Bottom(w)) /\ UNCHANGED rest
  /\ UNCHANGED <<stealLock, pool, victim, status, exits>>
-----------------------------------------------------------------------------
(* A thief and the deques of the others.                                    *)

\* Every candidate has been tried: the worker sleeps and starts again.
FindNothing(p) ==
  /\ pc[p] = "steal"
  /\ rest[p] = {}
  /\ Goto(p, Again)
  /\ UNCHANGED <<deque, locks, pool, victim, rest, hand, status, exits>>

StealLooks(p, v) ==
  /\ pc[p] = "steal"
  /\ v \in rest[p]
  /\ stealLock[v] = None
  /\ rest' = [rest EXCEPT ![p] = @ \ {v}]
  /\ IF deque[v] = <<>> THEN UNCHANGED <<stealLock, victim, pc>>
     ELSE /\ victim' = [victim EXCEPT ![p] = v]
          /\ IF MoreThanOne(v)
             THEN Goto(p, "stealFast") /\ stealLock' = [stealLock EXCEPT ![v] = p]
             ELSE Goto(p, "stealSlow") /\ UNCHANGED stealLock
  /\ UNCHANGED <<deque, bottomLock, pool, hand, status, exits>>

StealFast(p) ==
  LET v == victim[p] IN
  /\ pc[p] = "stealFast"
  /\ victim' = [victim EXCEPT ![p] = None]
  /\ IF deque[v] = <<>> THEN Breaks(p) /\ UNCHANGED rest
     ELSE /\ Takes(p, v, Top(v))
          /\ rest' = [rest EXCEPT ![p] = {}]
          /\ stealLock' = [stealLock EXCEPT ![v] = None]
          /\ UNCHANGED bottomLock
  /\ UNCHANGED <<pool, status, exits>>

\* mutation: the steal lock first, as on the way to the slow path
StealLockFirst(p) ==
  LET v == victim[p] IN
  /\ pc[p] = "stealSlow"
  /\ stealLock[v] = None
  /\ stealLock' = [stealLock EXCEPT ![v] = p]
  /\ Goto(p, "stealBoth")
  /\ UNCHANGED <<deque, bottomLock, pool, victim, rest, hand, status, exits>>

\* _steal_slow_path takes the bottom lock first, as pop_bottom does.
StealSlow(p) ==
  LET v == victim[p] IN
  /\ pc[p] = "stealSlow"
  /\ bottomLock[v] = None
  /\ bottomLock' = [bottomLock EXCEPT ![v] = p]
  /\ Goto(p, "stealBoth")
  /\ UNCHANGED <<deque, stealLock, pool, victim, rest, hand, status, exits>>

\* With the other lock as well; both are given up in the end.
StealBoth(p) ==
  LET v == victim[p] IN
  /\ pc[p] = "stealBoth"
  /\ bottomLock[v] \in {None, p} /\ stealLock[v] \in {None, p}
  /\ bottomLock' = [bottomLock EXCEPT ![v] = None]
  /\ stealLock' = [stealLock EXCEPT ![v] = None]
  /\ victim' = [victim EXCEPT ![p] = None]
  /\ IF deque[v] = <<>>
     THEN Goto(p, "steal") /\ UNCHANGED <<deque, hand, rest>>
     ELSE Takes(p, v, Top(v)) /\ rest' = [rest EXCEPT ![p] = {}]
  /\ UNCHANGED <<pool, status, exits>>
-----------------------------------------------------------------------------
(* _execute_task.                                                           *)

Executed(p, next) ==
  /\ pc[p] = "execute"
  /\ status' = [status EXCEPT ![hand[p]] = "executed"]
  /\ hand' = [hand EXCEPT ![p] = None]
  /\ Goto(p, next)
  /\ UNCHANGED <<deque, locks, pool, victim, rest>>

\* The handler returns or raises an Exception.
HandlerEnds(p) == Executed(p, Again) /\ UNCHANGED exits

\* The handler exits the thread.
HandlerExits(p) ==
  /\ exits < MaxExits
  /\ exits' = exits + 1
  /\ Executed(p, "ended")

Step(p) ==
  \/ Loop(p) \/ PopLooks(p) \/ PopFast(p) \/ PopSlow(p)
  \/ FindNothing(p) \/ (\E v \in Workers : StealLooks(p, v))
  \/ StealFast(p) \/ StealSlow(p) \/ StealBoth(p)
  \/ HandlerEnds(p) \/ HandlerExits(p)

Next ==
  \/ \E w \in Workers, t \in Tasks : Submit(w, t)
  \/ CallStart \/ StartThreads \/ Stop
  \/ \E p \in Threads : Step(p)

\* Threads are scheduled.
Spec ==
  /\ Init /\ [][Next]_vars
  /\ \A p \in Threads : WF_vars(Step(p))
-----------------------------------------------------------------------------
(* What is promised.                                                        *)

\* The positions of a task in the deques, and the threads that have it in hand.
Positions(t) ==
  UNION {{<<w, n>> : n \in {i \in 1..Len(deque[w]) : deque[w][i] = t}} : w \in Workers}
Holders(t) == {p \in Threads : hand[p] = t}

\* A task that was accepted is in exactly one place until it has been executed,
\* a deque or a thread's hands, and in none before and after: none is lost and
\* none is taken twice, although the two ends of a deque are taken under
\* different locks and two threads may serve one worker (deque.py:87,
\* deque.py:125).
TakenOnce ==
  \A t \in Tasks :
    Cardinality(Positions(t)) + Cardinality(Holders(t)) =
      IF status[t] = "submitted" THEN 1 ELSE 0

\* What was seen under one lock still holds when it is acted on: nobody takes
\* from an empty deque, which would end the thread with the lock in its hands
\* (deque.py:88, deque.py:126).
NobodyBreaks == \A p \in Threads : pc[p] # "broken"

Backlog == \E w \in Workers : deque[w] # <<>>
Alive(p) == pc[p] \notin {"idle", "ended"}

\* A backlog is worked off as long as the pool runs and has a thread left, be it
\* one of another worker: nobody waits for ever for a lock of a deque
\* (deque.py:139, worker_pool.py:163).  (Submissions are bounded.)
BacklogClears ==
  Backlog ~> (~Backlog \/ ~running \/ \A p \in Threads : ~Alive(p))
=============================================================================
