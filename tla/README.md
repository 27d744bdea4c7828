# A verification development for solocoder-py

TLA+ models of the concurrent and failure-prone parts of `src/src/solocoder_py`,
TLC configurations that check them on small instances, and TLAPS proofs of what
matters most for every size. Short paths below (`twopc/coordinator.py`) are
relative to `src/src/solocoder_py`.

1. [The system](#1-the-system)
2. [The models](#2-the-models)
3. [The runs](#3-the-runs)
4. [Fairness](#4-fairness)
5. [Where the code and its documents disagree](#5-where-the-code-and-its-documents-disagree)
6. [The proofs](#6-the-proofs)
7. [What is not modelled](#7-what-is-not-modelled)
8. [Plan](#8-plan)

## 1. The system

The repository is a library of some 190 Python packages. Each has its own
README and tests (`src/tests/<package>`) and they hardly import each other: the
pipeline is built on the backpressure queue, and several packages share the
clocks of `ratelimiter` and `seat`. So there is no single state machine to
model. What the packages with something to go wrong have in common is a lock,
a condition or a log, and callers that interleave, give up, raise or come back.

### The modelled components

| Component | State | Operations | Interacts with |
|---|---|---|---|
| two-phase commit `twopc/` | state machine of each participant, registered participants, decision log | `register`, `execute` (prepare, decide, recover) | participants are called in turn and run user hooks; the log is shared by successive coordinators |
| backpressure queue `backpressure/` | deque, watermark flag, default strategy, `_clear_epoch`, two conditions on one lock | `enqueue` (BLOCK, DROP, REJECT, timeout), `dequeue`, `clear`, `set_strategy` | producer and consumer threads; watermark callbacks run outside the lock; used by the pipeline |
| connection pool `connpool/` | idle queue, borrowed and known connections, closed flag, one condition | `borrow`, `return_conn`, `close`, eviction | borrowers, the eviction thread, the connection's own health check |
| readers-writer lock `rwlock/` | mode, owner, re-entrance counts, two wait queues | `acquire_read`, `acquire_write`, `release` | a scheduler with `park` and `unpark` |
| leader election `leader_election/` | per node: term, role, vote, known leader, deadline; in the cluster: leader, term, partitions, last result | `run_election`, `check_and_run_elections`, `leader_send_heartbeat`, `partition_node`, `heal_partition`, `force_new_leader` | a polling thread, callers, tests that partition nodes at any time |
| pipeline `pipeline/` | status and stop flags, a queue and a worker per stage, status of every item, counts per stage | `execute`, `cancel` | feeder, workers, a handler thread per attempt, the queues of `backpressure/` |
| multi-version store `mvcc/` | versions of every key, committed number, active transactions and snapshots, reclaimed numbers | `begin_transaction`, `create_snapshot`, `read`, `write`, `delete`, `commit`, `rollback`, `collect_garbage`, `clear` | several transactions and readers; the collection is called by anybody |
| quorum reads and writes `quorum/` | per replica: version, value and timestamp of a key; the coordinator's counter of versions | `write`, `read` with repair, `resolve_conflict` | replicas that fail reads or writes or cannot be reached |
| saga orchestrator `saga/` | status of the instance, execution and compensation status and attempts of each step, execution order | `execute`, `compensate`, `abort`, `resume_unfinished` | user actions and compensations, which raise or are interrupted; the repository outlives the call |
| exactly-once processing `exactly_once/` | message source, deduplication store, checkpoint; the processor's offset and uncommitted records | `process_next`, `process_message_at`, `replay_range`, `commit_checkpoint`, recovery, `reset` | the user's handler; stores that fail in the middle of a commit and survive a crash |
| work stealing pool `work_stealing_queue/` | a deque per worker with a bottom and a steal lock, running flag, threads | `submit`, `start`, `stop`; the worker loop with `pop_bottom` and `steal` | callers that submit, workers, thieves, threads that outlive a restart |

### What is hard in them, and what makes them correct

* **Two-phase commit.** A hook may raise in any phase and the coordinator may be
  lost; a new coordinator finds participants in any state and only the log to go
  by. *Correct:* no mixed outcome, no action before its log entry, one decision
  for ever, and an entry that is marked executed leaves nobody in doubt.
* **Backpressure queue.** Threads that were woken compete with newcomers; a
  deadline meets a notification; `clear()` meets a sleeper and a refill; the
  strategy is read without the lock; callbacks run late and in any order.
  *Correct:* nobody sleeps on a condition that holds, timed calls return, the
  flag moves only at the two marks, and each move is reported exactly once.
* **Connection pool.** Three sets describe the same connections and five code
  paths change them; a notification can go to a thread that is timing out; the
  eviction thread or a newcomer may get there first. *Correct:* one user per
  connection, nothing leaks, nobody sleeps beside an idle connection.
* **Readers-writer lock.** Between an unpark and the next attempt a waiter is in
  no queue and others barge in; re-entrant holds have to be counted down.
  *Correct:* exclusion, a wakeup for whoever is queued, no waiting on oneself.
* **Leader election.** The reachable nodes are read once for the votes and again
  for the heartbeats, and partitions change in between; elections fail half way.
  *Correct:* one leader, with a majority behind it, one per term; results that
  say what happened; a leaderless cluster elects.
* **Pipeline.** Full queues, end markers behind items, retries, a timeout and
  `cancel()` that arrive between any two steps, handlers that never end.
  *Correct:* no item lost, repeated, reordered or counted twice, a settled and
  honest result, an `execute()` that returns.
* **Multi-version store.** Transactions and readers see the store of different
  moments while a collection takes versions away by rules of its own. *Correct:*
  stable views, first committer wins, no version dropped that somebody reads.
* **Quorum.** A write that misses its quorum is not taken back; a read may return
  it and repair some replicas with it; callers may choose versions. *Correct:* a
  read returns the last confirmed write or a later one, and does not go back.
* **Saga.** Failures, exhausted retries and interruptions at any step of the
  forward or the backward pass, and a later call that has only the saved status
  to go by. *Correct:* all effects or none, undone in reverse, and an end.
* **Exactly-once processing.** Records and checkpoint are two writes; a bounded
  deduplication store; offsets that jump. *Correct:* nothing handled twice that
  was committed, nothing passed over, and every message handled.
* **Work stealing.** Two ends of a deque under two locks, fast paths that take
  one and slow paths that take both. *Correct:* a task is taken once, nobody acts
  on a deque that was emptied behind its back, nobody waits for ever.

The `hazards` of `PROJECT.json` list all of this at the line where it bites, with
the properties that would catch it.

### The other components

They are grouped by family in `PROJECT.json` and in [section 7](#7-what-is-not-modelled).

## 2. The models

Each component is a module of its own with one action per operation, or per
critical section of an operation. `MC<Module>` is what TLC runs, `<Module>Proofs`
holds theorems and proofs; `RecoveryProofs` and `QueueProofs` hold those of several
modules, whose definitions are named apart where they would meet (`SagaInit`, `EOTypeOK`,
`PipelineSpec`, `StageHasRoom`). `AtomicCommit`, `AbstractRWLock` and
`SnapshotIsolation` are abstract specifications that three of the modules are
shown to implement.

```
AtomicCommit  <--implements--  TwoPC           <-- MCTwoPC, RecoveryProofs
AbstractRWLock <--implements-- RWLock          <-- MCRWLock, RWLockProofs
                               BoundedQueue    <-- MCBoundedQueue, QueueProofs
                               ConnPool        <-- MCConnPool, ConnPoolProofs
                               LeaderElection  <-- MCLeaderElection, LeaderElectionProofs
                               Pipeline        <-- MCPipeline, QueueProofs
SnapshotIsolation <--implements-- MVCC         <-- MCMVCC, MVCCProofs
                               QuorumStore     <-- MCQuorumStore, QuorumStoreProofs
                               Saga            <-- MCSaga, RecoveryProofs
                               ExactlyOnce     <-- MCExactlyOnce, RecoveryProofs
                               WorkStealing    <-- MCWorkStealing, WorkStealingProofs
```

Common to all: a block under a Python lock is one step, because nothing else that
reads its state runs meanwhile; what the code does without the lock is a step of
its own. Real time is reduced to the order of events: a deadline that has passed
or not, a check that fails or not. A definition marked `\* mutation:` is not part
of the model. It is a plausible mistake in the definition that follows it, and it
exists to show that a property would notice.

### TwoPC (`twopc/`)

One transaction. `pstate` is the state machine of each participant, `members`,
`phase`, `todo` and `allYes` the coordinator object and its loop variables, `log`
the transaction's entry in the `DecisionLog`.

* `Configure`, `Register`, `NewCoordinator`: set-up. A new coordinator has to
  register the participants again; the log and the participants outlive it.
* `Execute`: start, or recovery when the log has an entry.
* `PrepareTimesOut`, `PrepareVotes`, `PrepareIllegal`: one participant of the
  prepare loop. The last is the `InvalidStateTransitionError` of a participant
  that an interrupted run already moved.
* `RecordDecision`, `Decide`, `MarkExecuted`: log entry, decision phase, mark.
* `Crash`, and the failure branch of each visit: a hook that raises, a lost
  coordinator. A raising hook leaves its participant moved, as in the code where
  the transition precedes the hook.

The loops visit participants in registration order. As a coordinator may register
them in any order, the model keeps the set still to visit. Every coordinator
enlists all the participants before it executes.

### BoundedQueue (`backpressure/`)

`size` stands for the deque, as no decision depends on an element. `pc`, `mode`
and `timer` place each thread in its call; `cleared` are the dequeuers whose
`start_epoch` is outdated.

* `CallEnqueue`, `CallEnqueueDefault` (which reads the default strategy without
  the lock), then `Put`, `WaitForRoom`, or `TurnAway` (DROP, REJECT, timeout).
* `Popleft`, `StartWaiting`, `WaitAgain`, `ReturnEmpty`: `dequeue` before and
  after each wait.
* `Clear`, `SetStrategy`, `Expire`, `RunCallbacks`: callbacks are a step of
  their own, because the code runs them after it released the lock.

The conditions share one lock and are signalled with `notify_all`; a notified
thread is `putWoken` or `takeWoken` and must get the lock before it looks again.
`Hysteresis` is stated for marks that differ; what happens when they coincide is
shown by `BoundedQueueMarks.cfg`.

### ConnPool (`connpool/`)

`idle` is the FIFO of idle connections, `borrowed` and `all` the two sets of the
code, `dead` the closed connections, `held` what each thread took out. `created`
and `gone` are the counters that `NothingLeaks` compares.

* `BorrowIdle` runs the health checks of a prefix of the queue under the lock, as
  `_try_borrow_idle` does: every failing connection is destroyed and the next
  tried. `BorrowNew`, `StartWaiting` and `FailAtOnce` follow when none is left.
* `WaitAgain`, `GiveUp`, `FindClosed`: a thread that is out of `wait()`.
  `TimedOut` and `Expire` separate the deadline, the end of the wait and the
  notification, so that a notification may go to a thread that is giving up.
* `ReturnAlive`, `ReturnDead`, `ReturnLate` (the pool was closed), `HolderCloses`,
  `Evict`, `Close`.

`all` loses a connection that is reused, as in the code: `ConnPoolMax.cfg`.

### RWLock and AbstractRWLock (`rwlock/`)

A thread runs without interruption up to `park()`, which raises `Parked`; who was
unparked makes its call again, at any later moment. `parked` is the scheduler's
set, `want` the call each thread is in. `GetRead`, `ParkReader`, `ReenterWrite`,
`GetWrite`, `ParkWriter`, `ReleasePart` and `ReleaseLast` are the branches of the
three methods; `WakeWaiters` is `_wake_waiters`: the first writer, else all
readers. The abstract lock knows only who reads and who writes.

### LeaderElection (`leader_election/`)

An operation runs under the cluster's lock; `partition_node` and `heal_partition`
do not take it. The reachable nodes are read for the votes and again for the
heartbeats, so an election is `RunElection` (`WinElection` or `LoseElection`)
followed by `BroadcastFromNewLeader`, with `electing` between the two and
partitions free to change there. `Standing`, `Grants`, `Behind` and `Reset` fold
the loop over the voters into sets: which votes and later terms reach a candidate
depends on who is reachable and not on the order, as the request keeps its term.
Heartbeats go out in the order of the nodes and stop at the first that refuses
(`Told`, `Refuser`). `elected` and `regressed` are
history variables.

### Pipeline (`pipeline/`)

`main` is where `execute()` stands, `caller` where `cancel()` does, `feeder` and
`worker` are the threads. A handler runs in a thread of its own: the worker waits
for it in `handler` and leaves when the pipeline stops, whether it has ended or
not. `Puts`/`PutsNothing` and `Takes`/`TakesNothing` are the queue operations with
their short timeouts, between which the thread looks at the stop flags.

The queues are composed by their contract, which is what `BoundedQueue` checks
and proves: a put or a take happens, or its time runs out, and nobody sleeps
through a chance. `join(1.0)` is taken to succeed when the thread's loop is over,
since each loop looks at the flags at least every 0.1 s. Durations, results and
exceptions of the items, and handlers that raise a `BaseException`, are left out.

### MVCC and SnapshotIsolation (`mvcc/`)

Every operation holds the store's lock and is a step. A value is named by the
number of the commit that wrote it, so `data` is a set of versions per key, some
of them tombstones. `start` and `writes` are the transactions, `snapshot` the
snapshots held. `Read`, `ReadAt` and `TransactionRead` are what the three ways of
reading return; they change nothing and the properties say what they must be.
`Commit` checks `Conflict`, appends and finishes the transaction; `CollectGarbage`
is `SafeVersion`, then `Kept` of every key, and marks numbers as `reclaimed`.
`log` is the history the promises refer to. `SnapshotIsolation` knows commits as
sets of keys and when each transaction began: a transaction commits if no key it
writes was written since.

`Clear` voids every transaction and snapshot object; one kept from before it is
outside the store's contract. A commit that finds a conflict leaves the
transaction active, as the code does.

### QuorumStore (`quorum/`)

One key, as keys share nothing but the replicas' availability. The sizes `w` and
`r` are chosen in `Init` among all that `__post_init__` accepts. Each operation
names the set of replicas that answer it: `Write`, `WriteVersion` (a version from
the caller), `Read` with the replicas `Q` that answered and those in `F` the
repair reached, `ResolveConflict`. `Winner` is the comparison by version and then
by timestamp. Time is the number of operations that wrote, so timestamps neither
repeat nor go back: clocks that do are not modelled. `acked`, `seen`, `missed`
and `rewrote` are history.

### Saga (`saga/`)

One instance; the orchestrator's lock is held by a call from end to end, so the
steps of a call do not interleave with another call. What comes in between is
`Interrupt`: an exception that `except Exception` does not catch. `pc` and `at` say
where the call is. `NextStep`, `Attempt`, `ActionSucceeds`, `ActionFails`, `GiveUp`
and `Complete` are the forward pass; `BeginCompensation`, `Pass`, `Undo`,
`UndoSucceeds`, `UndoFails` and `CompleteCompensation` the backward one; `ExecuteSaga`,
`Compensate` and `Abort` the entry points, of which `ExecuteSaga` also serves
`resume_unfinished`. An action that was interrupted may have taken effect (`cut`
remembers it), and one that raised has not. `done` and `undone` count the effects.

### ExactlyOnce (`exactly_once/`)

`source`, `dedup` and `committed` survive a crash, `current` and `uncommitted` do
not. `CommitBatch` has the outcomes of the code: it succeeds, fails before it has
written, fails between the records and the checkpoint, or runs into a full
store after the first records. `ProcessNext` (with the automatic checkpoint and
the rollback of a message whose checkpoint failed), `ProcessMessageAt`,
`ReplayRange` (the records of the range that are new, `NewIn`, in their order),
`CommitCheckpoint`, `Evict`, `CrashAndRecover` and `Reset` are the
operations. A handler that raises has not handled its message, and most operations
then leave everything as it was. A replay does not: `ReplayRaises` has the handlers
of the messages before it run and their records dropped. Offsets start at 1.

The rest is history. `handled` counts how often the handler ran for each id, and `lost`
how often the record of a handled id was lost: with a crash before its commit, a commit
or a replay that failed, or an eviction. `HandledOnce` is the balance of the two
and of what is on record, with failures and without. `skipped` are the offsets between where
a processor was and a checkpoint that was ahead of it when it recovered, and
`settled` the ids that were committed and not evicted.

### WorkStealing (`work_stealing_queue/`)

`Threads` are pairs of a worker and a call of `start()`, as a thread may outlive a
restart. `PopLooks` and `StealLooks` take a lock and look at the length, `PopFast`
and `StealFast` act on it with that lock alone, `PopSlow`, `StealSlow` and
`StealBoth` with both. A pop from an empty deque would raise and leave the lock
taken: `Breaks`. `Submit` is one step, because all who could remove room are
excluded by the bottom lock and thieves only make room. `CallStart` and
`StartThreads` are apart, because `start()` tests `_running` without a lock.

## 3. The runs

Deadlock is checked where the system cannot come to rest. It is switched off
where it legitimately may: everyone waits without a timeout (queue), the pool is
closed, the pipeline returned, a reader waits for itself (rwlock, section 5), the
saga has ended, the work stealing pool is stopped, or a bound is reached (quorum).

| Run | Instance | Distinct states | Shows |
|---|---|---|---|
| `twopc` | 3 participants, 2 failures | 227,968 | `Atomicity`, `LoggedBeforeApplied`, the refinement of `AtomicCommit`, and `LoggedDecisionApplied` |
| `queue` | 3 threads, capacity 3, marks 2 and 1 | 59,139 | `NoLostWakeup`, `CallbacksBalance`, `TimedCallsReturn`, `ClearedDequeuersReturn` |
| `pool` | 3 threads, one connection allowed, 3 ever created | 78,768 | `ExclusiveUse`, `NothingLeaks`, `NoIdleWhileAllSleep`, `WaitersReturn` |
| `rwlock` | 4 threads, re-entrance to depth 2 | 3,677 | `NoLostWakeup`, the refinement of `AbstractRWLock`, `QueuedWriterIsWoken` |
| `leader` | 3 nodes, 2 terms | 289,728 | `LeaderHasMajority`, `OneLeaderPerTerm`, `KnownLeaderWasElected`, `ResultsAreTrue`, `LeaderlessElects` |
| `pipeline` | 2 stages, 2 items, queues of 1, 1 retry, a timeout | 166,168 | `CompletedIsComplete`, `FlowIsConserved`, `StoppedReturns`, `ExecuteReturns` |
| `mvcc` | 2 keys, 2 transactions, 1 snapshot, 3 commits | 756,917 | `ViewsAreTrue`, `NothingNeededIsDropped`, the refinement of `SnapshotIsolation` |
| `quorum` | 3 replicas, every valid `w` and `r`, versions to 3, 5 writes | 515,801 | `LastWriteWins`, `AcknowledgedIsKept`, `RepairedReadsStay` |
| `saga` | 3 steps, 2 attempts each way, 2 interruptions | 116,528 | `AllOrNothing`, `UndoneInReverse`, `StartedEnds` |
| `exactly_once` | 3 ids, 3 messages, store of 2, checkpoint every 2, 2 failures | 144,855 | `HandledOnce`, `NothingSkipped`, `SettledIsNotRepeated`, `EverythingIsHandled` |
| `work_stealing` | 2 workers, 2 starts, 3 tasks, deques of 2, 1 exit | 515,130 | `TakenOnce`, `NobodyBreaks`, `BacklogClears` |
| `mvcc_collected` | that of `mvcc` | | `GCSparesReaders` is violated (section 5) |

The type invariant of every module, and the smaller properties that the runs'
properties rest on, are theorems and kept apart from the runs: `TypeOK` of every
module, `ExecutedMeansResolved`, `DecisionIsFinal`, `Hysteresis`, `UndisturbedUse`,
`Exclusion`, `QueuesMatchParked`, `LeaderIsKnown`, `NextVersionIsAccepted`, and
`ResultIsSettled` and `InOrder` of the pipeline.

Why these bounds are enough to be interesting:

* **twopc.** Three participants give one that committed, one that was being told
  and one not yet told when a failure strikes; two failures let the recovery
  itself fail. `MaxFailures` counts exceptions only, and the proofs do not depend
  on its value.
* **queue.** Two threads sleep while the third acts, on either condition. A
  capacity of three has sizes below, between and above the marks.
* **pool.** One connection for three threads makes a holder, a waiter and a
  barger or a second waiter. Three connections ever created (`MaxConns`) allow a
  replacement after a failed check and one after an eviction. A larger `MaxSize`
  only makes waiting rarer.
* **rwlock.** A holder, a barger and two waiters of either kind; `MaxHolds` of
  two is the first depth with a release that is not the last.
* **leader.** In three nodes a majority is two, so the third can miss an election
  and return with a later or an earlier term. `MaxTerm` of two gives a leader, its
  successor and a term to fall behind. No election starts at the bound, and
  `LeaderlessElects` excepts that case.
* **pipeline.** More items than a queue holds, so both hand-overs block; two
  stages, so one item can be between them.
* **mvcc.** Two keys are needed for a commit that writes both and is superseded in
  one; three commits for a version somebody reads, one that supersedes it and one
  that conflicts. `Clear` starts over, so the bound is not the end of a run.
* **quorum.** Three replicas are the fewest with a quorum that misses somebody;
  `MaxVersion` of three has a confirmed version, one that missed and a winner;
  `MaxClock` of five leaves room to repair and to resolve in between.
* **saga.** Three steps have a middle that may be without compensation, two
  interruptions one in each pass; `Attempts` of two is the first with a retry.
* **exactly_once.** Ids may repeat among the three messages; a store smaller than
  the number of ids fills in the middle of a batch, and of two failures one can hit
  the recovery from the other. A replay that raises counts as a failure.
* **work_stealing.** Two tasks in one deque are the fast path at both ends, the
  last is the slow path, the third is refused or refills; two starts let two
  threads serve one worker.

## 4. Fairness

| Module | Assumed | Why the code justifies it |
|---|---|---|
| TwoPC | weak fairness of the steps inside `execute()`; strong fairness of registering and of `execute()` | the loops have no waits; recovery is by a caller that calls again (README of the package), and failures are bounded |
| BoundedQueue, ConnPool | each thread inside a call gets the lock at some time; deadlines pass | Python locks hand over, clocks advance. Nobody has to make a call, to return a connection, or to win its race after a wakeup |
| RWLock | a holder releases, and eventually its last hold; who was woken tries again | the same obligations any lock puts on its users. Asking for the lock is never forced |
| LeaderElection | the poll of the auto-election thread, the second half of an election, the passing of timeouts | the thread of `start_auto_election` loops with a sleep; the second half runs under the lock |
| Saga | a call goes on (`Continue`); an unfinished instance is executed again (`ExecuteSaga`) | a call has no waits of its own; `resume_unfinished` is what the package offers for the second, and interruptions are bounded |
| ExactlyOnce | somebody goes on calling `process_next` | that is the consumer; no failure has to stop, they are bounded |
| WorkStealing | each thread takes its steps | workers poll; handlers return, raise or exit. Nobody has to submit, start or stop |
| Pipeline | every thread takes its turn; the timeout ends a join that is reached because no time was left | all loops poll. Handlers need **not** end, nobody has to cancel, and the timeout need not pass. `ExecuteReturns` states its own condition: handlers end |

`QueuedWriterIsWoken` promises the wakeup and not the lock: a woken writer can be
overtaken by bargers any number of times, so the stronger statement would be false.
`TimedCallsReturn` is for calls with a timeout for the same reason.
`EverythingIsHandled` excepts offsets a recovery went past, and takes for granted
that the deduplication store does not stop the processor for ever (`Stuck`: the next
message calls for a checkpoint that does not fit, and the code raises until somebody evicts), and
that a handler ends and does not raise for ever in `process_next`. MVCC and QuorumStore
promise nothing that has to happen and have no fairness.

## 5. Where the code and its documents disagree

Each row is one sentence of a document that TLC finds violated by what the code
does. The first is the run `mvcc_collected`; for the others the configuration
stands beside the module (`tlc -config ConnPoolMax.cfg MCConnPool`, say).

| Configuration, property | The document says | The code does |
|---|---|---|
| `MVCCCollected`, `GCSparesReaders` | a collection never deletes a version in use (`mvcc/README.md:11`) | a tombstone is collected before the value it covers, so a deleted key can be read again (`mvcc/store.py:316`); and a version number superseded for one key counts as reclaimed for the others of its commit (`mvcc/store.py:313`) |
| `TwoPCInterrupted`, `RerunIsNormal2PC` | without a log entry a transaction counts as not started and runs a normal 2PC (`twopc/README.md:122`) | participants that are already PREPARED make `prepare()` raise; the transaction can neither commit nor abort (`twopc/states.py:50`) |
| `BoundedQueueMarks`, `BelowLowIsReported` | falling from above the high mark to below the low one triggers the low callback (`backpressure/README.md:14`) | ratios are truncated and may meet; then the fall goes unnoticed and the flag stays up (`backpressure/queue.py:155`) |
| `ConnPoolMax`, `SizeWithinMax` | a connection is created only below `max_size` (`connpool/README.md:7`) | a reused connection is not in `_all_conns` any more, so one too many is created (`connpool/pool.py:142`) |
| `RWLockReenter`, `HoldersNeverWait` | a reader may re-enter its lock (`rwlock/README.md:11`) | with a writer queued the reader parks behind it, and both wait for ever (`rwlock/lock.py:42`) |
| `LeaderElectionForce`, `TermsAreUnique` | terms are globally unique and grow (`leader_election/README.md:12`) | `force_new_leader` counts from the chosen node's own term (`leader_election/cluster.py:380`) |
| `PipelineStopped`, `SuccessIsComplete` | every unfinished item of a stopped pipeline is CANCELLED (`pipeline/README.md:10`) | an item between two stages stays a SUCCESS it has not earned (`pipeline/executor.py:405`) |
| `QuorumStoreResolve`, `LastWriteWinsAlways` | of equal versions the one with the latest timestamp, the last write, wins (`quorum/README.md:124`) | `resolve_conflict` writes the winner among whoever answers with the time of now: when a version was written twice, the older value can become the newest (`quorum/coordinator.py:206`) |
| `SagaInterrupted`, `CompensatedMeansCompensated` | COMPENSATED means that all compensations succeeded (`saga/README.md:90`) | a compensation that was interrupted stays RUNNING and is passed over by the next call, which then reports COMPENSATED (`saga/orchestrator.py:394`) |
| `ExactlyOnceSkip`, `NothingIsEverSkipped` | after a crash, messages not yet processed go on as usual (`exactly_once/README.md:9`) | a checkpoint takes the offset of its last record; after random access or a replay it may be ahead of the sequential offset, and a recovery skips what lies between (`exactly_once/processor.py:268`, `:359`) |

Seen in a model and not pursued as a run: `cancel()` can overwrite the final
`status` of a pipeline that completed between its check and its write
(`pipeline/executor.py:74`). The result of `execute()` is not affected. A commit
of the multi-version store that finds a conflict raises and leaves the
transaction active, although its README (item 3) says that it is rolled back. A replay whose
handler raises leaves the earlier messages of its range handled and without a record, so
that they are handled again later (`exactly_once/processor.py:343`, `:383`): without a crash or
a failed commit, a message is then not handled exactly once. `HandledOnce` counts the lost
record, and says that this is all that happens. Watermark callbacks of different threads
may run in another order than the crossings they report (`backpressure/queue.py:281`); nothing
in the package promises an order, and `CallbacksBalance` speaks of their number only.
The work stealing pool counts a refused task as submitted
(`work_stealing_queue/worker_pool.py:123`).

## 6. The proofs

TLC decides the small instances; the theorems below hold for all values of the
constants that satisfy the named assumptions of the module (a positive capacity,
a node count, a thread that is not `NoThread`, finitely many replicas or workers).
The connection pool and `NoticesAreBalanced` assume finitely many threads, since
they count them. Everything a proof module uses is proved there or in the library's
theorem modules.

**RecoveryProofs, two-phase commit** - `TypeCorrect`, `AtomicOutcome`, `WriteAhead`,
`ExecutedResolved`, `FinalDecision`, `Refinement`. Atomicity alone is not inductive: that nobody
commits beside an abort follows from what the coordinator knew when it logged.
The inductive invariant adds `PhaseInv` (votes are
collected only without a log entry, decisions told only with one, and a running
coordinator has enlisted everyone), `VoteInv` (while all votes were YES, whoever
was visited is PREPARED) and `ToldInv` (whoever the decision phase has visited is
not PREPARED any more). `Refinement` then
maps a participant's step to `Prepare`, `Commit` or `Abort`, or to a stutter.

**RecoveryProofs, saga** - `SagaTypeCorrect`, `SagaIsAllOrNothing`,
`EffectsUndoneInReverse`, for any number of steps, attempts and interruptions. What
an instance's saved statuses say is only half of the state: the other half is where
the running call stands, and an interruption throws that half away. `SagaInv`
therefore relates the two. `CallInv` gives the statuses in which a call can be at
each place; `ForwardInv` says that steps are executed in order and nothing is
compensated that was not completed; `EffectInv` that the saved statuses of a step
tell exactly what took effect, unless the step was interrupted (`cut`); `BackInv`
that the backward pass has visited a step only if it visited every later one
(`Visited`), also when a call is cut short in the middle of the pass and the next
begins again at the last step, and that `undoFailed` knows of the compensations that
failed on the way.

**RecoveryProofs, exactly-once processing** - `EOTypeCorrect`, `EachHandledOnce`,
`NoMessageSkipped`, `SettledStaysSettled`, for any source, batch size and store size.
`HandledOnce` is an equation between the times the handler ran, the records there are and
the records that were lost, and as such nearly inductive; it also gives the other half of
what the rest needs, that a message on record has been handled (`KnownAreHandled`).
`RecordsExist` says that what waits is of messages there are, `StoreFits` and
`SettledAreStored` bound the deduplication store and say what it may evict. `Handles(H, L)`
is what all steps have in common: the messages `H`, all unknown before, are handled;
the records of `L` are lost, so those are unknown afterwards; everything else is as well
known as it was; and the offset passes only what is known, handled, or recorded as skipped.
`BalanceStep` and `HistoryStep` conclude from it that the balance and the other
histories are kept, and each operation has one lemma that shows it is such a step.
`StoreTakes` and `CommitTakes` say what a commit takes into the bounded
store, `OrderExists` and `ReplayedAreNew` what records a replay makes.

**QueueProofs, backpressure queue** - `TypeCorrect` (the queue never exceeds its
capacity), `WakeupsArrive`, `FlagIsHysteretic`, `NoticesAreBalanced`. `Marks` bounds the
truncated marks for every capacity and ratio. `NoLostWakeup` needs `ClearedWait`
(only a thread that waits in a dequeue has an outdated epoch). The balance of notices is a
counting argument: `PendingChange` says by how much one thread's step changes the
number of threads about to run a callback, and `QuietStep`, `NoticeStep` and
`DeliveryStep` apply it to steps that raise none, raise one, or run one.

**QueueProofs, pipeline** - `PipelineTypeCorrect`, `FlowStaysBalanced`,
`CompletedRunsAreComplete`, `ReturnedResultsAreSettled`, `InputOrderIsKept`, for any
number of stages, items and retries and any capacity of the queues. `PipelineInv`
consists of the types; which threads exist in which phase of `execute`
(`ThreadsInv`); what a worker holds (`HoldsInv`); `FlowIsConserved`, that every
stage's counters, its queue and its worker account for what the stage before handed
over; `MarkerInv`; and `PlaceInv`, that as long as nothing is stopped every fed item
is queued, held or finished. `MarkerInv` is what makes completion mean something: an
end marker is the last thing in its queue, whoever is before it has ended, and a
worker ends only when its queue is empty, so when the last worker has ended there is
no place left for an item to be. The counters are bounded only because the flow is
balanced (`FlowBounds`), so types and balance are proved together. `ItemsIn` has
lemmas of its own (what appending and removing do to the number of items of a
queue); `WorkerFrame`, `QuietWorkerFrame` and `QuietFrame` say once what whole groups
of steps leave alone. `InputOrderIsKept` looks at places (`IsAt`): each place
of an item after a step is traced back to where the same item was before it, and two
items that the step brings behind each other were so already (`OrderStep`).

**ConnPoolProofs** - `TypeCorrect`, `OneUser`, `NoConnectionLeaks`,
`NotificationsArrive`, `UsersAreUndisturbed`, for any number of threads and any
`MaxSize`. `Books` relates the records of the pool: the idle queue has no
connection twice and none that is borrowed or closed, a connection has one holder,
and what was created is idle, borrowed or gone, one by one and in number. `all` is
left out of it, as the pool forgets reused connections. That a thread does not
sleep beside an idle connection is a matter of counting as well. `NotifiedSuffice`:
while a thread sleeps, there are at least as many notified threads as idle connections. A
thread whose deadline has passed does not count, because it may be the one that the
next notification goes to. `FirstCount`, `WithoutFirst` and `WithOneMore` are about
the queue.

**RWLockProofs** - `TypeCorrect`, `WritersExclude`, `QueuesAgree`, `WakeupsArrive`,
`Refinement`. `QueuesMatchParked` is what makes a wakeup reach somebody: the
writer taken from the head of the queue is parked, and once removed it is not
queued again. `QueueAppend` and `QueueTail` state this about sequences without
duplicates.

**LeaderElectionProofs** - `TypeCorrect`, `OneKnownLeader`, `MajorityBehindLeader`,
`TermsHaveOneLeader`, `BeliefsAreTrue`, `ElectionsTellTheTruth`. One leader per
term is about elections that are long over, when the voters have moved on. `ElectedAreSupported` therefore
says of every election there was that a majority stands behind it: nodes that
voted for that leader in that term, or whose vote is in a later term by now.
`VotesArePast` (no vote beyond a node's own term) makes this stable, and
`MajoritiesMeet` finds the node that two leaders of a term would both need. That a
result names the leader it made is an action property: `ElectingLeads` says that
the winner still leads when its heartbeats go out, and `LastIsLeader` that between
elections the last result is the leader.

**MVCCProofs** - `TypeCorrect`, `NeededStays`, `ReadersSeeTheirPast`, `Refinement`,
for any keys, transactions, readers and number of commits. `DataAreLogged` says
that the versions of a key are what commits made of it. What must be shown is that
enough of them are left: `RecentAreStored`, everything committed since somebody's
start; `UncollectedAreStored`, everything while no collection took anything;
`PlainIsSpared`, that no number in use counts as reclaimed if every commit puts one
key. `SafeIsSafe` puts the collection's limit at or below every start, `CollectStep` is
where the invariant bites. `ReadsAtAreRight` and `ReadsAreRight` derive what the
three ways of reading return. `Refinement` of `SnapshotIsolation` rests on
`RecentAreStored`: the code looks for a conflict among the versions that are
stored, the abstract specification among all commits. It is about writers only, as
`SnapshotIsolation` has no reads; what readers see is `ReadersSeeTheirPast`, which
holds while nothing was collected, and for ever in a store whose commits each put one
key. Without this condition it is false (`MVCCCollected.cfg`, section 5).

**QuorumStoreProofs** - `TypeCorrect`, `ConfirmedStays`, `ReadsReturnLastWrite`,
`RepairsLast`, `NextIsAccepted`, for any set of replicas and every valid `w` and
`r`. A confirmed version survives, but a read also has to prefer it: `CurrentIsFound`
says that a write quorum has the last confirmed write or a later one (`Current`),
and that older values of the same version have earlier timestamps (`OldValuesLose`).
`SeenIsKept` says the same of what a repaired read returned, for a read quorum.
`QuorumsMeet` counts the replicas of two quorums, `WinnerWins` shows that the
comparison by version and timestamp has a greatest element, and `WriteStep` and
`CopyStep` serve every operation, as each either writes something new or copies
what a replica has.

**WorkStealingProofs** - `TypeCorrect`, `NobodyTakesFromEmpty`, `EachTakenOnce`, for any
number of workers, tasks, restarts and any capacity. That a thread does not find its deque
emptied is not inductive. `LocksHeld` says which lock a thread has at each of its
steps, so that at most one thread is at each end. `Enough` says what they have seen:
a thread on a fast path has a task left, and when both ends are on theirs there are
two. A step on a slow path has both locks, so nobody else is at work there.
`WithoutOne` and `TakesOne` state what a take leaves of a deque. `EachTakenOnce`
counts the places of a task, and its invariant says it in terms of positions:
`Places`, an accepted task that was not executed is somewhere, and two positions or
hands never have the same one. `NoTwoPositions` and `TakeMoves` carry it through a take,
and `NotStarted` keeps the threads of a later start out of it.

*Checked by TLC only:* all liveness properties (`LoggedDecisionApplied`,
`TimedCallsReturn`, `ClearedDequeuersReturn`, `WaitersReturn`, `QueuedWriterIsWoken`,
`LeaderlessElects`, `StoppedReturns`, `ExecuteReturns`, `StartedEnds`,
`EverythingIsHandled`, `BacklogClears`). They are properties under fairness, which is
out of the prover's reach. Every safety property of the passing runs, and every
refinement, is a theorem.

## 7. What is not modelled

In the modelled packages: statistics nobody reads, payloads, wording and logging;
`DecisionLog.clear` and a participant shared by transactions; registering
callbacks while the queue is in use. Unlocked reads for display are not actions.

Of the newer modules: reading one version by its number and objects that outlive
a `clear()` (mvcc); latencies, repeated timestamps and concurrent coordinators
(quorum, whose code has no lock for them); deleting definitions or instances and
actions that call the orchestrator again (saga); counters and task marks (work
stealing).

Candidates that are not modelled: the bulkhead (waiters that poll, groups
reconfigured under another lock), single flight, the priority pool, expiring
locks, outbox and inbox, and partitioned messages. Their patterns - a timeout that
meets an answer, a claim that is lost, offsets and redelivery - are in the modules
above, in code that has more failures to face.

Not suited, by family:

| Family | Why |
|---|---|
| other concurrency primitives | one lock or one compare-and-swap each; the queue, the pool and the lock above have the same patterns with more at stake |
| write-ahead log and segments | nothing is persisted, so there is no crash to recover from |
| gossip and anti-entropy | convergence of clocks and heartbeats needs an abstraction of its own |
| overload protection, caches and sessions | every call is atomic behind one lock; the content is arithmetic of real time or a data structure |
| credentials and certificates, codecs, parsers and files | formats, cryptography and pure functions |
| money and stock, workflow and release control | business records and state machines with one caller at a time |
| streams and statistics, search and text, data structures, geometry, games and policies | sequential computation, well served by unit tests |

## 8. Plan

The safety of the modelled components is proved; what is left is breadth. Modules
that would extend the project: `Bulkhead`, `SingleFlight`, `FencedLock`,
`PartitionOrdering`. An abstract specification of the pipeline (a sequence of items
in, the same items out, each finished or failed) would turn `InOrder` and
`CompletedIsComplete` into one refinement.
