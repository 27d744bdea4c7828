------------------------------ MODULE ConnPool ------------------------------
(***************************************************************************)
(* The connection pool of src/src/solocoder_py/connpool: borrow() with a   *)
(* health check and a timed wait on one condition, return_conn(), the      *)
(* eviction thread and close().  Every operation is one critical section;  *)
(* a waiting borrow() is one before and one after each wait().             *)
(* Connections are numbered in the order of their creation.  Time is left  *)
(* out but for its outcomes: a health check fails or not, a connection is  *)
(* too old or not, the idle time of a prefix of the queue (it is ordered   *)
(* by last_idle_start) is over.  The counters of PoolStats that nothing    *)
(* reads are left out.                                                     *)
(***************************************************************************)
EXTENDS Integers, FiniteSets, Sequences, SequencesExt

CONSTANTS Threads,      \* the threads that borrow
          MaxSize,      \* PoolConfig.max_size
          HealthCheck,  \* PoolConfig.health_check_on_borrow
          MaxConns      \* bound: connections ever created

ASSUME ThreadsAssumption == IsFiniteSet(Threads)
ASSUME SizeAssumption == MaxSize \in Nat /\ MaxConns \in Nat
ASSUME HealthAssumption == HealthCheck \in BOOLEAN

VARIABLES
  idle,      \* _idle_conns
  borrowed,  \* _borrowed_conns
  all,       \* _all_conns
  closed,    \* _closed of the pool
  dead,      \* the connections whose _closed is set
  created,   \* _stats.total_connections
  gone,      \* _stats.closed_connections
  held,      \* the connections each thread got from borrow() and still has
  pc,        \* where each borrow() stands
  late       \* the waiting threads whose deadline has passed

vars == <<idle, borrowed, all, closed, dead, created, gone, held, pc, late>>

Conns == 1..MaxConns

\* A thread in wait(): asleep, out of it by its timeout, or notified.
Waiting == {"asleep", "expired", "notified"}

TypeOK ==
  /\ idle \in Seq(Conns)
  /\ borrowed \subseteq Conns
  /\ all \subseteq Conns
  /\ closed \in BOOLEAN
  /\ dead \subseteq Conns
  /\ created \in 0..MaxConns
  /\ gone \in 0..MaxConns
  /\ held \in [Threads -> SUBSET Conns]
  /\ pc \in [Threads -> {"out"} \cup Waiting]
  /\ late \subseteq Threads

Init ==
  /\ idle = <<>>
  /\ borrowed = {}
  /\ all = {}
  /\ closed = FALSE
  /\ dead = {}
  /\ created = 0
  /\ gone = 0
  /\ held = [t \in Threads |-> {}]
  /\ pc = [t \in Threads |-> "out"]
  /\ late = {}

Idle == ToSet(idle)
-----------------------------------------------------------------------------
\* The first k idle connections.
FirstIdle(k) == {idle[i] : i \in 1..k}

\* How many idle connections may fail their health check before one passes or
\* none is left; a check that times out fails.
Failing == IF HealthCheck THEN 0..Len(idle) ELSE {0}

\* _destroy_connection on each of a set of connections.
Destroy(conns) ==
  /\ dead' = dead \cup conns
  /\ gone' = gone + Cardinality(conns)

\* mutation: only the connection that is handed out leaves the queue
PopsOne(k) == SubSeq(idle, 2, Len(idle))

\* What the idle queue is after k failures and one success.
Popped(k) == SubSeq(idle, k + 2, Len(idle))

\* A thread leaves borrow().
Leave(t) ==
  /\ pc' = [pc EXCEPT ![t] = "out"]
  /\ late' = late \ {t}

\* _try_borrow_idle finds a healthy connection.  A connection that is handed
\* out again is not put back into _all_conns.
BorrowIdle(t) ==
  /\ ~closed
  /\ pc[t] \in {"out", "expired", "notified"}
  /\ \E k \in Failing :
       /\ k < Len(idle)
       /\ idle' = Popped(k)
       /\ borrowed' = borrowed \cup {idle[k + 1]}
       /\ all' = all \ FirstIdle(k + 1)
       /\ Destroy(FirstIdle(k))
       /\ held' = [held EXCEPT ![t] = @ \cup {idle[k + 1]}]
  /\ Leave(t)
  /\ UNCHANGED <<closed, created>>

\* _try_borrow_idle finds none: what was idle has failed its check.
NoneIdle ==
  /\ Len(idle) \in Failing
  /\ idle' = <<>>
  /\ all' = all \ Idle
  /\ Destroy(Idle)

\* len(_all_conns) < max_size, once the failed connections are out of it.
MayCreate == Cardinality(all \ Idle) < MaxSize

\* borrow() creates a connection.
BorrowNew(t) ==
  /\ ~closed
  /\ pc[t] = "out"
  /\ Len(idle) \in Failing
  /\ MayCreate
  /\ created < MaxConns
  /\ created' = created + 1
  /\ idle' = <<>>
  /\ Destroy(Idle)
  /\ all' = (all \ Idle) \cup {created + 1}
  /\ borrowed' = borrowed \cup {created + 1}
  /\ held' = [held EXCEPT ![t] = @ \cup {created + 1}]
  /\ UNCHANGED <<closed, pc, late>>

\* BLOCK: wait for a return, until the deadline.
StartWaiting(t) ==
  /\ ~closed
  /\ pc[t] = "out"
  /\ ~MayCreate
  /\ NoneIdle
  /\ pc' = [pc EXCEPT ![t] = "asleep"]
  /\ UNCHANGED <<borrowed, closed, created, held, late>>

\* FAIL, or a deadline that has passed already: PoolExhaustedError at once.
FailAtOnce(t) ==
  /\ ~closed
  /\ pc[t] = "out"
  /\ ~MayCreate
  /\ NoneIdle
  /\ UNCHANGED <<borrowed, closed, created, held, pc, late>>

\* A thread that has left wait() and has the lock again.
Resumed(t) == pc[t] \in {"expired", "notified"}

WaitAgain(t) ==
  /\ ~closed
  /\ Resumed(t)
  /\ t \notin late
  /\ NoneIdle
  /\ pc' = [pc EXCEPT ![t] = "asleep"]
  /\ UNCHANGED <<borrowed, closed, created, held, late>>

\* PoolExhaustedError after the wait.
GiveUp(t) ==
  /\ ~closed
  /\ Resumed(t)
  /\ t \in late
  /\ NoneIdle
  /\ Leave(t)
  /\ UNCHANGED <<borrowed, closed, created, held>>

\* PoolClosedError after the wait.
FindClosed(t) ==
  /\ closed
  /\ Resumed(t)
  /\ Leave(t)
  /\ UNCHANGED <<idle, borrowed, all, closed, dead, created, gone, held>>

\* mutation: a sleeping thread is left to its notifications
TimeoutIgnored(t) == pc[t]

\* Where the end of its timeout moves a thread.
TimedOut(t) == IF pc[t] = "asleep" THEN "expired" ELSE pc[t]

\* The deadline of a waiting thread passes.
Expire(t) ==
  /\ pc[t] \in {"asleep", "notified"}
  /\ t \notin late
  /\ late' = late \cup {t}
  /\ pc' = [pc EXCEPT ![t] = TimedOut(t)]
  /\ UNCHANGED <<idle, borrowed, all, closed, dead, created, gone, held>>
-----------------------------------------------------------------------------
\* mutation: the returner notifies only when the queue was empty
NotifyWhenEmpty ==
  LET sleepers == {t \in Threads : pc[t] \in {"asleep", "expired"} /\ idle = <<>>}
  IN  IF sleepers = {} THEN {pc}
      ELSE {[pc EXCEPT ![t] = "notified"] : t \in sleepers}

\* _not_empty.notify(): one thread of the condition's list.  A thread whose
\* timeout is over may still be in the list and take the notification.
Notified ==
  LET listed == {t \in Threads : pc[t] \in {"asleep", "expired"}}
  IN  IF \A t \in Threads : pc[t] # "asleep"
      THEN {pc} \cup {[pc EXCEPT ![t] = "notified"] : t \in listed}
      ELSE {[pc EXCEPT ![t] = "notified"] : t \in listed}

\* Thread t gives c away: from now on it has no right to use it.
HandBack(t, c) ==
  /\ c \in held[t]
  /\ held' = [held EXCEPT ![t] = @ \ {c}]

\* return_conn of a connection that is closed, or too old to be kept.
ReturnDead(t, c) ==
  /\ HandBack(t, c)
  /\ c \in borrowed
  /\ borrowed' = borrowed \ {c}
  /\ all' = all \ {c}
  /\ Destroy({c})
  /\ pc' \in Notified
  /\ UNCHANGED <<idle, closed, created, late>>

\* return_conn of a connection that is kept.
ReturnAlive(t, c) ==
  /\ HandBack(t, c)
  /\ c \in borrowed
  /\ c \notin dead
  /\ borrowed' = borrowed \ {c}
  /\ idle' = Append(idle, c)
  /\ pc' \in Notified
  /\ UNCHANGED <<all, closed, dead, created, gone, late>>

\* return_conn after close(), which has destroyed the connection already.
ReturnLate(t, c) ==
  /\ closed
  /\ HandBack(t, c)
  /\ c \notin borrowed
  /\ UNCHANGED <<idle, borrowed, all, closed, dead, created, gone, pc, late>>

\* The holder closes the connection itself before it returns it.
HolderCloses(t, c) ==
  /\ c \in held[t]
  /\ dead' = dead \cup {c}
  /\ UNCHANGED <<idle, borrowed, all, closed, created, gone, held, pc, late>>

\* The queue without its first k connections.
AfterEviction(k) == SubSeq(idle, k + 1, Len(idle))

\* _evict_idle_connections, by the eviction thread or by evict_now().
Evict ==
  /\ ~closed
  /\ \E k \in 1..Len(idle) :
       /\ idle' = AfterEviction(k)
       /\ all' = all \ FirstIdle(k)
       /\ Destroy(FirstIdle(k))
  /\ UNCHANGED <<borrowed, closed, created, held, pc, late>>

\* mutation: close() looks after the idle connections only
ClosesIdleOnly == Idle

\* The connections close() destroys.
ClosedWithPool == Idle \cup borrowed

\* close() of the pool, with notify_all.
Close ==
  /\ ~closed
  /\ closed' = TRUE
  /\ Destroy(ClosedWithPool)
  /\ idle' = <<>>
  /\ borrowed' = {}
  /\ all' = all \ ClosedWithPool
  /\ pc' = [t \in Threads |-> IF pc[t] \in Waiting THEN "notified" ELSE pc[t]]
  /\ UNCHANGED <<created, held, late>>

\* What a thread inside borrow() does next.
Proceed(t) ==
  Resumed(t) /\ (BorrowIdle(t) \/ WaitAgain(t) \/ GiveUp(t) \/ FindClosed(t))

Next ==
  \/ \E t \in Threads :
       \/ BorrowIdle(t) \/ BorrowNew(t) \/ StartWaiting(t) \/ FailAtOnce(t)
       \/ WaitAgain(t) \/ GiveUp(t) \/ FindClosed(t) \/ Expire(t)
       \/ \E c \in Conns :
            ReturnDead(t, c) \/ ReturnAlive(t, c) \/ ReturnLate(t, c) \/ HolderCloses(t, c)
  \/ Evict
  \/ Close

Spec == Init /\ [][Next]_vars

\* A thread out of wait() gets the lock, and time passes.  Nobody has to
\* return a connection or to close the pool.
FairSpec == Spec /\ \A t \in Threads : WF_vars(Proceed(t)) /\ WF_vars(Expire(t))
-----------------------------------------------------------------------------
(* What the pool promises. *)

\* Exclusive use (pool.py:139-177, 198-230): an open connection of the pool is
\* either idle once or borrowed by exactly one thread.
ExclusiveUse ==
  /\ Idle \cap borrowed = {}
  /\ IsInjective(idle)
  /\ \A c \in Conns : Cardinality({t \in Threads : c \in held[t]}) <= 1
  /\ ~closed => borrowed = UNION {held[t] : t \in Threads}

\* No connection leaks and none is closed behind the pool's back
\* (pool.py:192-196, 268-285): what was created is idle, borrowed or
\* destroyed, in the counters too, and a closed pool keeps nothing open.
NothingLeaks ==
  /\ created = gone + Len(idle) + Cardinality(borrowed)
  /\ 1..created \ dead \subseteq Idle \cup borrowed
  /\ Idle \cap dead = {}

\* No lost notification (pool.py:130-137, 217-230): while a thread sleeps, every
\* idle connection has a thread of its own on the way to it.
NoIdleWhileAllSleep ==
  (\E t \in Threads : pc[t] = "asleep") =>
    Len(idle) <= Cardinality({t \in Threads : Resumed(t)})

\* A connection in use is never closed by an eviction or by another borrower's
\* health check (README items 2 and 3): only by its holder or by close().
UndisturbedUse ==
  [][\A t \in Threads : \A c \in (held[t] \cap dead') \ dead :
       closed' \/ c \notin held'[t] \/ HolderCloses(t, c)]_vars

\* A borrow() that waits returns, with a connection or with an exception.
WaitersReturn == \A t \in Threads : pc[t] \in Waiting ~> pc[t] = "out"

\* README item 1 and test_connpool.py:728: a connection is created only below
\* max_size, so the pool never has more than max_size.
SizeWithinMax == Len(idle) + Cardinality(borrowed) <= MaxSize
=============================================================================
