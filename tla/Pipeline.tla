------------------------------ MODULE Pipeline ------------------------------
(***************************************************************************)
(* PipelineExecutor of src/src/solocoder_py/pipeline: a feeder thread, one *)
(* worker thread per stage, queues between them, execute() that polls, and *)
(* cancel() called by anybody.  The queues are BoundedQueues used with     *)
(* BLOCK and short timeouts: a put or a take happens or runs out of time,  *)
(* and the thread looks again whether to stop.  Handlers run in threads of *)
(* their own and may take any time.                                        *)
(***************************************************************************)
EXTENDS Integers, Sequences, FiniteSets

CONSTANTS NumStages,   \* len(stages)
          NumItems,    \* len(input_data)
          QueueCapacity, \* queue_capacity of every stage
          MaxRetries,  \* max_retries of every stage
          HasTimeout   \* whether there is a timeout

ASSUME StagesAssumption == NumStages \in Nat \ {0}
ASSUME ItemsAssumption == NumItems \in Nat
ASSUME QueueCapacityAssumption == QueueCapacity \in Nat \ {0}
ASSUME RetriesAssumption == MaxRetries \in Nat
ASSUME TimeoutAssumption == HasTimeout \in BOOLEAN

Stages == 1..NumStages
Items == 1..NumItems
Poison == 0  \* _POISON

VARIABLES
  status,     \* _status
  cancelled,  \* _cancelled
  timedOut,   \* _timed_out
  main,       \* where execute() stands
  result,     \* the status execute() reports
  caller,     \* where cancel() stands
  feeder,     \* where the feeder stands
  next,       \* the item it feeds
  worker,     \* where each worker stands
  cur,        \* item of each worker
  attempt,    \* attempt of each worker
  queue,      \* the input queue of each stage
  item,       \* status of each item
  passed,     \* how many stages each item has in stage_results with a result
  success, failed, dropped  \* the counts of each StageResult; processed_count is their sum

flags == <<status, cancelled, timedOut>>
counts == <<success, failed, dropped>>
workers == <<worker, cur, attempt, item, passed, counts>>
pipelineVars == <<flags, main, result, caller, feeder, next, workers, queue>>

Terminal == {"SUCCESS", "FAILED", "CANCELLED"}
Ends == {"none", "COMPLETED", "CANCELLED", "TIMED_OUT", "FAILED"}
Working == {"begin", "attempt", "handler", "retry"}
Putting == {"put", "putting"}

PipelineTypeOK ==
  /\ status \in {"CREATED", "RUNNING"} \cup (Ends \ {"none"})
  /\ cancelled \in BOOLEAN /\ timedOut \in BOOLEAN
  /\ main \in {"created", "poll", "join", "report", "returned"}
  /\ result \in Ends
  /\ caller \in {"away", "asked", "write"}
  /\ feeder \in {"none", "feed", "feeding", "last", "lasting", "dead"}
  /\ next \in 1..(NumItems + 1)
  /\ worker \in [Stages -> {"none", "top", "take", "dead"} \cup Working \cup Putting]
  /\ cur \in [Stages -> Items \cup {Poison}]
  /\ attempt \in [Stages -> 1..(MaxRetries + 1)]
  /\ queue \in [Stages -> Seq(Items \cup {Poison})]
  /\ \A s \in Stages : Len(queue[s]) <= QueueCapacity
  /\ item \in [Items -> Terminal \cup {"PENDING", "PROCESSING", "RETRYING"}]
  /\ passed \in [Items -> 0..NumStages]
  /\ success \in [Stages -> 0..NumItems]
  /\ failed \in [Stages -> 0..NumItems]
  /\ dropped \in [Stages -> 0..NumItems]

PipelineInit ==
  /\ status = "CREATED" /\ cancelled = FALSE /\ timedOut = FALSE
  /\ main = "created" /\ result = "none" /\ caller = "away"
  /\ feeder = "none" /\ next = 1
  /\ worker = [s \in Stages |-> "none"]
  /\ cur = [s \in Stages |-> Poison]
  /\ attempt = [s \in Stages |-> 1]
  /\ queue = [s \in Stages |-> <<>>]
  /\ item = [i \in Items |-> "PENDING"]
  /\ passed = [i \in Items |-> 0]
  /\ success = [s \in Stages |-> 0]
  /\ failed = [s \in Stages |-> 0]
  /\ dropped = [s \in Stages |-> 0]

\* Room in the input queue of stage s.
StageHasRoom(s) == Len(queue[s]) < QueueCapacity

\* enqueue
Enqueued(s, x) == queue' = [queue EXCEPT ![s] = Append(@, x)]

\* Something is counted at stage s.
OneMore(f, s) == [f EXCEPT ![s] = @ + 1]
-----------------------------------------------------------------------------
(* A worker.  Every thread looks whether to stop before it does anything    *)
(* that takes time, and then does it.                                       *)

WorkerAt(s, l) == worker' = [worker EXCEPT ![s] = l]

LooksForWork(s) ==
  /\ worker[s] = "top"
  /\ WorkerAt(s, IF cancelled THEN "dead" ELSE "take")
  /\ UNCHANGED <<flags, main, result, caller, feeder, next, cur, attempt, queue, item, passed, counts>>

\* What dequeue leaves.
Rest(s) == Tail(queue[s])

\* mutation: the end marker is not passed on
KeepsMarker(s) == "dead"

\* Where the end marker leads the worker.
AfterMarker(s) == IF s < NumStages THEN "put" ELSE "dead"

Takes(s) ==
  /\ worker[s] = "take"
  /\ queue[s] # <<>>
  /\ queue' = [queue EXCEPT ![s] = Rest(s)]
  /\ cur' = [cur EXCEPT ![s] = Head(queue[s])]
  /\ WorkerAt(s, IF Head(queue[s]) = Poison THEN AfterMarker(s) ELSE "begin")
  /\ UNCHANGED <<flags, main, result, caller, feeder, next, attempt, item, passed, counts>>

\* DequeueTimeoutError
TakesNothing(s) ==
  /\ worker[s] = "take"
  /\ queue[s] = <<>>
  /\ WorkerAt(s, "top")
  /\ UNCHANGED <<flags, main, result, caller, feeder, next, cur, attempt, queue, item, passed, counts>>

Begins(s) ==
  /\ worker[s] = "begin"
  /\ ~cancelled
  /\ item' = [item EXCEPT ![cur[s]] = "PROCESSING"]
  /\ attempt' = [attempt EXCEPT ![s] = 1]
  /\ WorkerAt(s, "attempt")
  /\ UNCHANGED <<flags, main, result, caller, feeder, next, cur, queue, passed, counts>>

StartsHandler(s) ==
  /\ worker[s] = "attempt"
  /\ ~cancelled
  /\ WorkerAt(s, "handler")
  /\ UNCHANGED <<flags, main, result, caller, feeder, next, cur, attempt, queue, item, passed, counts>>

HandlerReturns(s) ==
  /\ worker[s] = "handler"
  /\ item' = [item EXCEPT ![cur[s]] = "SUCCESS"]
  /\ passed' = [passed EXCEPT ![cur[s]] = s]
  /\ success' = OneMore(success, s)
  /\ WorkerAt(s, IF s < NumStages THEN "put" ELSE "top")
  /\ UNCHANGED <<flags, main, result, caller, feeder, next, cur, attempt, queue, failed, dropped>>

\* The last of max_retries + 1 attempts.
LastAttempt(s) == attempt[s] = MaxRetries + 1

HandlerRaises(s) ==
  /\ worker[s] = "handler"
  /\ ~LastAttempt(s)
  /\ item' = [item EXCEPT ![cur[s]] = "RETRYING"]
  /\ attempt' = [attempt EXCEPT ![s] = @ + 1]
  /\ WorkerAt(s, "retry")
  /\ UNCHANGED <<flags, main, result, caller, feeder, next, cur, queue, passed, counts>>

HandlerFails(s) ==
  /\ worker[s] = "handler"
  /\ LastAttempt(s)
  /\ item' = [item EXCEPT ![cur[s]] = "FAILED"]
  /\ failed' = OneMore(failed, s)
  /\ WorkerAt(s, "top")
  /\ UNCHANGED <<flags, main, result, caller, feeder, next, cur, attempt, queue, passed, success, dropped>>

\* retry_delay is over.
RetryDelayEnds(s) ==
  /\ worker[s] = "retry"
  /\ ~cancelled
  /\ WorkerAt(s, "attempt")
  /\ UNCHANGED <<flags, main, result, caller, feeder, next, cur, attempt, queue, item, passed, counts>>

\* mutation: a running handler is waited for
StopsBetween == Working \ {"handler"}

\* Where a worker with an item notices that it is to stop; a handler that still
\* runs is left alone.
Interruptible == Working

AbandonsItem(s) ==
  /\ worker[s] \in Interruptible
  /\ cancelled
  /\ item' = [item EXCEPT ![cur[s]] = "CANCELLED"]
  /\ dropped' = OneMore(dropped, s)
  /\ WorkerAt(s, "top")
  /\ UNCHANGED <<flags, main, result, caller, feeder, next, cur, attempt, queue, passed, success, failed>>

\* _try_enqueue looks whether to stop.
TriesToPut(s) ==
  /\ worker[s] = "put"
  /\ ~cancelled
  /\ WorkerAt(s, "putting")
  /\ UNCHANGED <<flags, main, result, caller, feeder, next, cur, attempt, queue, item, passed, counts>>

\* The worker goes on to its next item, or ends with the marker.
AfterPut(s) == WorkerAt(s, IF cur[s] = Poison THEN "dead" ELSE "top")

\* mutation: the item is still counted as a success
StillCounted(s) == success

\* success_count of an item that is handed to nobody.
Withdrawn(s) == [success EXCEPT ![s] = @ - 1]

\* _try_enqueue gives up.
DropsOutput(s) ==
  /\ worker[s] = "put"
  /\ cancelled
  /\ AfterPut(s)
  /\ IF cur[s] = Poison
     THEN UNCHANGED <<item, success, dropped>>
     ELSE /\ item' = [item EXCEPT ![cur[s]] = "CANCELLED"]
          /\ success' = Withdrawn(s)
          /\ dropped' = OneMore(dropped, s)
  /\ UNCHANGED <<flags, main, result, caller, feeder, next, cur, attempt, queue, passed, failed>>

Puts(s) ==
  /\ worker[s] = "putting"
  /\ StageHasRoom(s + 1)
  /\ Enqueued(s + 1, cur[s])
  /\ AfterPut(s)
  /\ UNCHANGED <<flags, main, result, caller, feeder, next, cur, attempt, item, passed, counts>>

\* The timeout of enqueue.
PutsNothing(s) ==
  /\ worker[s] = "putting"
  /\ ~StageHasRoom(s + 1)
  /\ WorkerAt(s, "put")
  /\ UNCHANGED <<flags, main, result, caller, feeder, next, cur, attempt, queue, item, passed, counts>>

\* What a worker does by itself.
WorkerStep(s) ==
  \/ LooksForWork(s) \/ Takes(s) \/ TakesNothing(s) \/ Begins(s) \/ StartsHandler(s)
  \/ RetryDelayEnds(s) \/ AbandonsItem(s)
  \/ TriesToPut(s) \/ DropsOutput(s) \/ Puts(s) \/ PutsNothing(s)

\* What its handler does.
HandlerStep(s) == HandlerReturns(s) \/ HandlerRaises(s) \/ HandlerFails(s)
-----------------------------------------------------------------------------
(* The feeder.  No item it comes to has been processed.                     *)

FeederLooks ==
  /\ feeder = "feed"
  /\ feeder' = IF next > NumItems \/ cancelled THEN "last" ELSE "feeding"
  /\ UNCHANGED <<flags, main, result, caller, next, workers, queue>>

Feeds ==
  /\ feeder = "feeding"
  /\ IF StageHasRoom(1)
     THEN Enqueued(1, next) /\ next' = next + 1
     ELSE UNCHANGED <<queue, next>>
  /\ feeder' = "feed"
  /\ UNCHANGED <<flags, main, result, caller, workers>>

\* The marker, unless the pipeline is to stop.
FeederEnds ==
  /\ feeder = "last"
  /\ feeder' = IF cancelled THEN "dead" ELSE "lasting"
  /\ UNCHANGED <<flags, main, result, caller, next, workers, queue>>

FeedsMarker ==
  /\ feeder = "lasting"
  /\ IF StageHasRoom(1)
     THEN Enqueued(1, Poison) /\ feeder' = "dead"
     ELSE UNCHANGED queue /\ feeder' = "last"
  /\ UNCHANGED <<flags, main, result, caller, next, workers>>

FeederStep == FeederLooks \/ Feeds \/ FeederEnds \/ FeedsMarker
-----------------------------------------------------------------------------
(* execute() and cancel().                                                  *)

Execute ==
  /\ main = "created"
  /\ status = "CREATED"
  /\ status' = "RUNNING"
  /\ main' = "poll"
  /\ worker' = [s \in Stages |-> "top"]
  /\ feeder' = "feed"
  /\ UNCHANGED <<cancelled, timedOut, result, caller, next, cur, attempt, item, passed, counts, queue>>

\* The input raises before a thread is started.
ExecuteFails ==
  /\ main = "created"
  /\ status = "CREATED"
  /\ status' = "FAILED"
  /\ result' = "FAILED"
  /\ main' = "returned"
  /\ UNCHANGED <<cancelled, timedOut, caller, feeder, next, workers, queue>>

ThreadsEnded == feeder = "dead" /\ \A s \in Stages : worker[s] = "dead"

\* The poll loop sees that everybody has ended.
PollEnds ==
  /\ main = "poll"
  /\ ThreadsEnded
  /\ main' = "join"
  /\ UNCHANGED <<flags, result, caller, feeder, next, workers, queue>>

\* The poll loop sees that it is to stop: every queue is filled with markers
\* (DROP, more than fit).
PollStops ==
  /\ main = "poll"
  /\ cancelled
  /\ queue' = [s \in Stages |-> queue[s] \o [i \in 1..(QueueCapacity - Len(queue[s])) |-> Poison]]
  /\ main' = "join"
  /\ UNCHANGED <<flags, result, caller, feeder, next, workers>>

\* The poll loop finds no time left that nobody has noticed yet; the threads will.
PollRunsOut ==
  /\ main = "poll"
  /\ HasTimeout /\ ~cancelled
  /\ main' = "join"
  /\ UNCHANGED <<flags, result, caller, feeder, next, workers, queue>>

\* _cancel_all_remaining_items
Settled(s) == IF s \in Terminal THEN s ELSE "CANCELLED"

\* mutation: cancel() is forgotten
AsIfCompleted == IF timedOut THEN "TIMED_OUT" ELSE "COMPLETED"

Outcome == IF timedOut THEN "TIMED_OUT" ELSE IF cancelled THEN "CANCELLED" ELSE "COMPLETED"

\* The threads are joined, the queues drained, the flags read.
Joins ==
  /\ main = "join"
  /\ ThreadsEnded
  /\ queue' = [s \in Stages |-> <<>>]
  /\ item' = [i \in Items |-> Settled(item[i])]
  /\ result' = Outcome
  /\ main' = "report"
  /\ UNCHANGED <<flags, caller, feeder, next, worker, cur, attempt, passed, counts>>

Returns ==
  /\ main = "report"
  /\ status' = result
  /\ main' = "returned"
  /\ UNCHANGED <<cancelled, timedOut, result, caller, feeder, next, workers, queue>>

MainStep == PollEnds \/ PollStops \/ Joins \/ Returns

\* Some thread of the pipeline sees that the time is over.
TimesOut ==
  /\ HasTimeout
  /\ ~timedOut
  /\ main \in {"poll", "join"}
  /\ main = "poll" \/ ~ThreadsEnded
  /\ timedOut' = TRUE
  /\ cancelled' = TRUE
  /\ status' = "TIMED_OUT"
  /\ UNCHANGED <<main, result, caller, feeder, next, workers, queue>>

\* cancel(): reads the status, sets the event, reads timed_out, writes the status.
CancelIsCalled ==
  /\ caller = "away"
  /\ status \in {"RUNNING", "CREATED"}
  /\ caller' = "asked"
  /\ UNCHANGED <<flags, main, result, feeder, next, workers, queue>>

CancelSets ==
  /\ caller = "asked"
  /\ cancelled' = TRUE
  /\ caller' = IF timedOut THEN "away" ELSE "write"
  /\ UNCHANGED <<status, timedOut, main, result, feeder, next, workers, queue>>

CancelWrites ==
  /\ caller = "write"
  /\ status' = "CANCELLED"
  /\ caller' = "away"
  /\ UNCHANGED <<cancelled, timedOut, main, result, feeder, next, workers, queue>>

PipelineNext ==
  \/ \E s \in Stages : WorkerStep(s) \/ HandlerStep(s)
  \/ FeederStep
  \/ Execute \/ ExecuteFails \/ MainStep \/ PollRunsOut
  \/ TimesOut
  \/ CancelIsCalled \/ CancelSets \/ CancelWrites

PipelineSpec == PipelineInit /\ [][PipelineNext]_pipelineVars

\* Every thread of the pipeline gets its turn.  A handler need not end, nobody
\* has to call cancel(), and the timeout need not pass, except for the threads
\* that are joined because it has.
PipelineFairSpec ==
  /\ PipelineSpec
  /\ \A s \in Stages : WF_pipelineVars(WorkerStep(s))
  /\ WF_pipelineVars(FeederStep)
  /\ WF_pipelineVars(MainStep)
  /\ WF_pipelineVars(main = "join" /\ ~cancelled /\ TimesOut)
-----------------------------------------------------------------------------
(* What the pipeline promises. *)

IsItem(x) == x # Poison

\* The item a worker works on or is about to hand over.
WorksOn(s) == IF worker[s] \in Working THEN <<cur[s]>> ELSE <<>>
HandsOver(s) == IF worker[s] \in Putting /\ IsItem(cur[s]) THEN <<cur[s]>> ELSE <<>>

\* README, completeness of the result: whatever was cancelled, and whenever,
\* every item of a returned result is settled (executor.py:285-292, 396-412).
ResultIsSettled == main = "returned" /\ result # "FAILED" => \A i \in Items : item[i] \in Terminal

\* README item 2 and "no data is lost": what execute() reports as completed went
\* through every stage or failed at one (executor.py:240-280, 351-362, 420-427).
CompletedIsComplete ==
  main = "returned" /\ result = "COMPLETED" =>
    \A i \in Items : item[i] = "FAILED" \/ (item[i] = "SUCCESS" /\ passed[i] = NumStages)

\* How many items are in a queue.
ItemsIn(q) == Cardinality({n \in DOMAIN q : IsItem(q[n])})

\* How many items have been handed to stage s.
HandedTo(s) == IF s = 1 THEN next - 1 ELSE success[s - 1] - Len(HandsOver(s - 1))

\* Nothing is lost, repeated or counted twice on the way, also while the
\* pipeline stops: what was handed to a stage waits for it, is worked on, or
\* is counted there once (executor.py:159-225, 271-280, 351-362).
FlowIsConserved ==
  main \in {"poll", "join"} =>
    \A s \in Stages :
      HandedTo(s) = ItemsIn(queue[s]) + Len(WorksOn(s)) + success[s] + failed[s] + dropped[s]

\* Item i is in place n of stage s: in the worker's hands, or the n-th in the queue.
IsAt(i, s, n) ==
  IF n = 0 THEN worker[s] \in Working \cup Putting /\ cur[s] = i
           ELSE n <= Len(queue[s]) /\ queue[s][n] = i

\* Items are in input order all along the pipeline, so none is in two places, and
\* before those still to be fed (executor.py:250-280, 351-362).
InOrder ==
  \A i \in Items, s \in Stages, n \in 0..QueueCapacity : IsAt(i, s, n) =>
    /\ i < next
    /\ \A j \in Items, r \in Stages, m \in 0..QueueCapacity :
         IsAt(j, r, m) /\ (r < s \/ (r = s /\ n < m)) => i < j

\* README item 4: once it is to stop, execute() returns, whatever its handlers
\* do (executor.py:126-157, 367-394).
StoppedReturns == cancelled /\ main = "poll" ~> main = "returned"

\* Bounded queues, retries and markers never block each other for good: if
\* handlers end, execute() returns (executor.py:227-280, 367-381).
ExecuteReturns ==
  (\A s \in Stages : []<>(worker[s] # "handler")) => (main = "poll" ~> main = "returned")

\* README item 4: after a timeout every item that is not finished is CANCELLED,
\* so a success has passed all stages.
SuccessIsComplete ==
  main = "returned" /\ result # "FAILED" =>
    \A i \in Items : item[i] = "SUCCESS" => passed[i] = NumStages
=============================================================================
