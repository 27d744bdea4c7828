------------------------------- MODULE RWLock -------------------------------
(***************************************************************************)
(* The readers-writer lock of src/src/solocoder_py/rwlock with its         *)
(* ManualScheduler.  A call runs without interruption up to park(), which  *)
(* ends the run of the thread; a thread that was unparked makes its call   *)
(* again, at any later time.  waiting_readers is emptied as a whole, so it *)
(* is a set; tickets only identify a waiter, which its thread does too.    *)
(***************************************************************************)
EXTENDS Naturals, Sequences

CONSTANTS Threads,   \* the threads that use the lock
          NoThread,  \* None
          MaxHolds   \* bound: how deep a thread re-enters the lock

ASSUME ThreadAssumption == NoThread \notin Threads
ASSUME HoldsAssumption == MaxHolds \in Nat \ {0}

VARIABLES
  mode,     \* RWLockState.mode
  writer,   \* writer_thread_id
  wcount,   \* write_lock_count
  readers,  \* readers, 0 for a thread that is not a key
  waitingReaders,
  waitingWriters,
  parked,   \* the scheduler's _parked_set
  want      \* the acquire each thread is in, if any

vars == <<mode, writer, wcount, readers, waitingReaders, waitingWriters, parked, want>>

TypeOK ==
  /\ mode \in {"FREE", "READ", "WRITE"}
  /\ writer \in Threads \cup {NoThread}
  /\ wcount \in 0..MaxHolds
  /\ readers \in [Threads -> 0..MaxHolds]
  /\ waitingReaders \subseteq Threads
  /\ waitingWriters \in Seq(Threads)
  /\ parked \subseteq Threads
  /\ want \in [Threads -> {"none", "read", "write"}]

Init ==
  /\ mode = "FREE"
  /\ writer = NoThread
  /\ wcount = 0
  /\ readers = [t \in Threads |-> 0]
  /\ waitingReaders = {}
  /\ waitingWriters = <<>>
  /\ parked = {}
  /\ want = [t \in Threads |-> "none"]

\* The threads in a queue.
Members(q) == {q[i] : i \in 1..Len(q)}

QueuedWriters == Members(waitingWriters)

\* mutation: a reader joins the readers whoever waits
JoinsReaders == mode = "FREE" \/ mode = "READ"

\* The two cases in which acquire_read succeeds.
MayRead == mode = "FREE" \/ (mode = "READ" /\ waitingWriters = <<>>)

\* mutation: a writer joins the readers that are there
NotWriteLocked == mode # "WRITE"

\* acquire_write succeeds on a free lock only.
MayWrite == mode = "FREE"

\* Thread t runs acquire_read or acquire_write: from its start, or from the
\* park() it was woken from.
Acquiring(t, how) ==
  /\ t \notin parked
  /\ want[t] \in {"none", how}

\* is_held_by
HoldsRead(t) == mode = "READ" /\ readers[t] > 0
HoldsWrite(t) == mode = "WRITE" /\ writer = t
-----------------------------------------------------------------------------
(* A call that is refused (an upgrade, a release by somebody who does not   *)
(* hold the lock) raises before it changes anything.                        *)

GetRead(t) ==
  /\ Acquiring(t, "read")
  /\ MayRead
  /\ readers[t] < MaxHolds
  /\ mode' = "READ"
  /\ readers' = [readers EXCEPT ![t] = @ + 1]
  /\ want' = [want EXCEPT ![t] = "none"]
  /\ UNCHANGED <<writer, wcount, waitingReaders, waitingWriters, parked>>

ParkReader(t) ==
  /\ Acquiring(t, "read")
  /\ ~HoldsWrite(t)
  /\ ~MayRead
  /\ readers[t] < MaxHolds
  /\ waitingReaders' = waitingReaders \cup {t}
  /\ parked' = parked \cup {t}
  /\ want' = [want EXCEPT ![t] = "read"]
  /\ UNCHANGED <<mode, writer, wcount, readers, waitingWriters>>

ReenterWrite(t) ==
  /\ Acquiring(t, "write")
  /\ HoldsWrite(t)
  /\ wcount < MaxHolds
  /\ wcount' = wcount + 1
  /\ want' = [want EXCEPT ![t] = "none"]
  /\ UNCHANGED <<mode, writer, readers, waitingReaders, waitingWriters, parked>>

GetWrite(t) ==
  /\ Acquiring(t, "write")
  /\ ~HoldsRead(t)
  /\ MayWrite
  /\ mode' = "WRITE"
  /\ writer' = t
  /\ wcount' = 1
  /\ want' = [want EXCEPT ![t] = "none"]
  /\ UNCHANGED <<readers, waitingReaders, waitingWriters, parked>>

ParkWriter(t) ==
  /\ Acquiring(t, "write")
  /\ ~HoldsWrite(t) /\ ~HoldsRead(t)
  /\ ~MayWrite
  /\ waitingWriters' = Append(waitingWriters, t)
  /\ parked' = parked \cup {t}
  /\ want' = [want EXCEPT ![t] = "write"]
  /\ UNCHANGED <<mode, writer, wcount, readers, waitingReaders>>
-----------------------------------------------------------------------------
\* _wake_waiters: the first writer, or all readers.
WakeWriter ==
  /\ waitingWriters # <<>>
  /\ waitingWriters' = Tail(waitingWriters)
  /\ parked' = parked \ {Head(waitingWriters)}
  /\ UNCHANGED waitingReaders

\* mutation: the readers leave the queue and stay parked
StillParked == parked

\* unpark_all of the waiting readers.
WithoutReaders == parked \ waitingReaders

WakeReaders ==
  /\ waitingWriters = <<>>
  /\ waitingReaders' = {}
  /\ parked' = WithoutReaders
  /\ UNCHANGED waitingWriters

WakeWaiters == WakeWriter \/ WakeReaders

\* A thread that holds the lock runs release(); a parked thread runs nothing.
MayRelease(t) == t \notin parked /\ want[t] = "none"

\* One of several re-entrant holds, or of several readers, is given back.
ReleasePart(t) ==
  /\ MayRelease(t)
  /\ \/ /\ HoldsWrite(t)
        /\ wcount > 1
        /\ wcount' = wcount - 1
        /\ UNCHANGED readers
     \/ /\ HoldsRead(t)
        /\ readers' = [readers EXCEPT ![t] = @ - 1]
        /\ \E u \in Threads : readers'[u] > 0
        /\ UNCHANGED wcount
  /\ UNCHANGED <<mode, writer, waitingReaders, waitingWriters, parked, want>>

\* The last hold is given back.
ReleaseLast(t) ==
  /\ MayRelease(t)
  /\ \/ /\ HoldsWrite(t)
        /\ wcount = 1
        /\ wcount' = 0
        /\ writer' = NoThread
        /\ UNCHANGED readers
     \/ /\ HoldsRead(t)
        /\ readers' = [readers EXCEPT ![t] = @ - 1]
        /\ \A u \in Threads : readers'[u] = 0
        /\ UNCHANGED <<writer, wcount>>
  /\ mode' = "FREE"
  /\ WakeWaiters
  /\ UNCHANGED want

Release(t) == ReleasePart(t) \/ ReleaseLast(t)

Acquire(t) ==
  GetRead(t) \/ ParkReader(t) \/ ReenterWrite(t) \/ GetWrite(t) \/ ParkWriter(t)

Next == \E t \in Threads : Acquire(t) \/ Release(t)

Spec == Init /\ [][Next]_vars

\* Who holds the lock gives all of it back, however often it re-enters, and who
\* was woken tries again.  Nobody has to ask for the lock.
FairSpec ==
  /\ Spec
  /\ \A t \in Threads :
       /\ WF_vars(Release(t))
       /\ SF_vars(ReleaseLast(t))
       /\ WF_vars(want[t] # "none" /\ Acquire(t))
-----------------------------------------------------------------------------
(* What the lock promises. *)

\* README items 1 and 2, through every interleaving of holders, bargers and
\* woken threads (lock.py:36-83, 91-103): the mode says who holds the lock, a
\* writer holds it alone, and every hold is counted until it is given back.
Exclusion ==
  /\ mode = "WRITE" <=> writer # NoThread
  /\ mode = "WRITE" <=> wcount > 0
  /\ mode = "READ" <=> \E t \in Threads : readers[t] > 0

\* The scheduler and the two queues agree on who waits (lock.py:46-54, 107-116):
\* a parked thread is in exactly one queue, once, and so will be woken.
QueuesMatchParked ==
  /\ waitingReaders = {t \in parked : want[t] = "read"}
  /\ QueuedWriters = {t \in parked : want[t] = "write"}
  /\ \A t \in parked : want[t] # "none"
  /\ \A i, j \in 1..Len(waitingWriters) : waitingWriters[i] = waitingWriters[j] => i = j

\* No lost wakeup (lock.py:85-116): a free lock never has only sleepers; one of
\* the waiters has been woken and is on its way.
NoLostWakeup ==
  mode = "FREE" /\ parked # {} => \E t \in Threads \ parked : want[t] # "none"

\* The lock implements a readers-writer lock.
Abstract == INSTANCE AbstractRWLock WITH
  reading <- {t \in Threads : readers[t] > 0},
  writing <- {t \in Threads : writer = t}
ImplementsRWLock == Abstract!Spec

\* README item 5: a reader may re-enter; it never waits for a lock it holds.
HoldersNeverWait == \A t \in parked : ~HoldsRead(t) /\ ~HoldsWrite(t)

\* README item 3: readers that keep arriving do not keep a queued writer asleep
\* (lock.py:42, 107-111), unless a reader parks on its own hold.
QueuedWriterIsWoken ==
  []HoldersNeverWait => \A t \in Threads : t \in QueuedWriters ~> t \notin parked
=============================================================================
