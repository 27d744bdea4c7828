-------------------------------- MODULE Saga --------------------------------
(***************************************************************************)
(* One instance of a saga under the orchestrator of                        *)
(* src/src/solocoder_py/saga: its steps are executed in order with         *)
(* retries, and when one fails for good the completed ones are compensated *)
(* in the reverse order.  A call holds the orchestrator's lock from end to *)
(* end, the user's actions and compensations included.  What can come in   *)
(* between is an exception that "except Exception" does not catch (an      *)
(* interrupt, the exit of the process): it leaves the instance as it is,   *)
(* and a later call goes on from there.  An action or compensation that    *)
(* was interrupted may have taken effect; one that raised has not.         *)
(***************************************************************************)
EXTENDS Integers

CONSTANTS NumSteps,       \* steps of the definition
          Attempts,       \* max_retries + 1 of every step
          UndoAttempts,   \* compensation_max_retries + 1 of every step
          MaxInterrupts   \* bound: interruptions of calls

ASSUME StepsAssumption == NumSteps \in Nat
ASSUME AttemptsAssumption == Attempts \in Nat \ {0} /\ UndoAttempts \in Nat \ {0}
ASSUME InterruptsAssumption == MaxInterrupts \in Nat

Steps == 1..NumSteps

VARIABLES
  compensable,   \* the steps of the definition that have a compensation
  status,        \* status of the instance
  exec, comp,    \* execution_status and compensation_status of each step
  attempts, undoAttempts,   \* execution_attempts and compensation_attempts
  reached,       \* the steps in execution_order, which is their first ones
  pc, at,        \* where the running call is, and in which step
  undoFailed,    \* has_compensation_failures of the running call
  interrupts,    \* history: calls that were interrupted
  done, undone,  \* history: times a step's action, compensation took effect
  cut            \* history: steps interrupted in the action or compensation

progress == <<status, exec, comp, attempts, undoAttempts, reached>>
history == <<interrupts, done, undone, cut>>
sagaVars == <<compensable, progress, pc, at, undoFailed, history>>

Terminal == {"COMPLETED", "COMPENSATED", "COMPENSATION_FAILED", "ABORTED"}

SagaTypeOK ==
  /\ compensable \subseteq Steps
  /\ status \in Terminal \cup {"PENDING", "RUNNING", "FAILED", "COMPENSATING"}
  /\ exec \in [Steps -> {"PENDING", "RUNNING", "COMPLETED", "FAILED"}]
  /\ comp \in [Steps -> {"NONE", "RUNNING", "COMPLETED", "FAILED"}]
  /\ attempts \in [Steps -> 0..Attempts]
  /\ undoAttempts \in [Steps -> 0..UndoAttempts]
  /\ reached \in 0..NumSteps
  /\ pc \in {"idle", "step", "attempt", "action", "compensation", "undo", "undoing"}
  /\ at \in 0..(NumSteps + 1)
  /\ undoFailed \in BOOLEAN
  /\ interrupts \in 0..MaxInterrupts
  /\ done \in [Steps -> Nat]
  /\ undone \in [Steps -> Nat]
  /\ cut \subseteq Steps

SagaInit ==
  /\ compensable \in SUBSET Steps
  /\ status = "PENDING"
  /\ exec = [s \in Steps |-> "PENDING"]
  /\ comp = [s \in Steps |-> "NONE"]
  /\ attempts = [s \in Steps |-> 0]
  /\ undoAttempts = [s \in Steps |-> 0]
  /\ reached = 0
  /\ pc = "idle"
  /\ at = 0
  /\ undoFailed = FALSE
  /\ interrupts = 0
  /\ done = [s \in Steps |-> 0]
  /\ undone = [s \in Steps |-> 0]
  /\ cut = {}

Goto(l, s) == pc' = l /\ at' = s
-----------------------------------------------------------------------------
(* The calls.  They find the lock free, and no call runs.                   *)

\* mutation: an instance that is being compensated is not resumed
ForwardOnly == status \in {"PENDING", "RUNNING", "FAILED"}

\* find_unfinished_instances
Unfinished == status \notin Terminal

\* execute, and resume_unfinished, which calls it for every unfinished instance.
ExecuteSaga ==
  /\ pc = "idle"
  /\ Unfinished
  /\ IF status \in {"PENDING", "RUNNING"}
     THEN status' = "RUNNING" /\ Goto("step", 1)
     ELSE UNCHANGED status /\ Goto("compensation", 0)
  /\ UNCHANGED <<compensable, exec, comp, attempts, undoAttempts, reached, undoFailed, history>>

AbortPending ==
  /\ pc = "idle"
  /\ status = "PENDING"
  /\ status' = "ABORTED"
  /\ UNCHANGED <<compensable, exec, comp, attempts, undoAttempts, reached, pc, at, undoFailed, history>>

CallCompensation(from) ==
  /\ pc = "idle"
  /\ status \in from
  /\ Goto("compensation", 0)
  /\ UNCHANGED <<compensable, progress, undoFailed, history>>

\* compensate returns at once for a compensated or aborted instance and
\* refuses a completed one.
Compensate == AbortPending \/ CallCompensation({"RUNNING", "FAILED", "COMPENSATING"})

\* abort refuses an instance that is being compensated.
Abort == AbortPending \/ CallCompensation({"RUNNING", "FAILED"})
-----------------------------------------------------------------------------
(* _execute_steps and _execute_step_with_retry.                             *)

\* The next step of the loop that is not completed is recorded.  A step that
\* failed in an earlier call is not tried again.
NextStep ==
  /\ pc = "step"
  /\ at <= NumSteps
  /\ IF exec[at] = "COMPLETED"
     THEN Goto("step", at + 1) /\ UNCHANGED <<status, reached>>
     ELSE /\ reached' = IF at > reached THEN at ELSE reached
          /\ IF exec[at] = "FAILED"
             THEN status' = "FAILED" /\ Goto("compensation", at)
             ELSE Goto("attempt", at) /\ UNCHANGED status
  /\ UNCHANGED <<compensable, exec, comp, attempts, undoAttempts, undoFailed, history>>

Complete ==
  /\ pc = "step"
  /\ at > NumSteps
  /\ status' = "COMPLETED"
  /\ Goto("idle", 0)
  /\ UNCHANGED <<compensable, exec, comp, attempts, undoAttempts, reached, undoFailed, history>>

Attempt ==
  /\ pc = "attempt"
  /\ attempts[at] < Attempts
  /\ exec' = [exec EXCEPT ![at] = "RUNNING"]
  /\ attempts' = [attempts EXCEPT ![at] = @ + 1]
  /\ Goto("action", at)
  /\ UNCHANGED <<compensable, status, comp, undoAttempts, reached, undoFailed, history>>

\* No attempt is left.  When the last one was interrupted, in an earlier call,
\* there is no error to fail the instance with.
GiveUp ==
  /\ pc = "attempt"
  /\ attempts[at] = Attempts
  /\ status' = IF exec[at] = "FAILED" THEN "FAILED" ELSE status
  /\ Goto("compensation", at)
  /\ UNCHANGED <<compensable, exec, comp, attempts, undoAttempts, reached, undoFailed, history>>

ActionSucceeds ==
  /\ pc = "action"
  /\ exec' = [exec EXCEPT ![at] = "COMPLETED"]
  /\ done' = [done EXCEPT ![at] = @ + 1]
  /\ Goto("step", at + 1)
  /\ UNCHANGED <<compensable, status, comp, attempts, undoAttempts, reached, undoFailed,
                 interrupts, undone, cut>>

ActionFails ==
  /\ pc = "action"
  /\ exec' = [exec EXCEPT ![at] = "FAILED"]
  /\ Goto("attempt", at)
  /\ UNCHANGED <<compensable, status, comp, attempts, undoAttempts, reached, undoFailed, history>>
-----------------------------------------------------------------------------
(* _run_compensation and _execute_compensation_with_retry.                  *)

\* mutation: the last step recorded is taken for the one that failed
BeforeLast == IF reached = 0 THEN 0 ELSE reached - 1

\* The step whose compensation comes first.
First == reached

\* A running instance fails before it is compensated.
BeginCompensation ==
  /\ pc = "compensation"
  /\ \/ status = "RUNNING" /\ status' = "FAILED" /\ Goto("compensation", at)
     \/ status \in {"FAILED", "COMPENSATING"} /\ status' = "COMPENSATING" /\ Goto("undo", First)
  /\ undoFailed' = FALSE
  /\ UNCHANGED <<compensable, exec, comp, attempts, undoAttempts, reached, history>>

\* mutation: a compensation that failed is not tried again
NeedsOnce(s) == exec[s] = "COMPLETED" /\ comp[s] = "NONE"

\* needs_compensation
Needs(s) == exec[s] = "COMPLETED" /\ comp[s] \in {"NONE", "FAILED"}

\* The loop passes a step: it is not to be compensated, it has no
\* compensation, or no attempt is left.
Pass ==
  /\ pc = "undo"
  /\ at > 0
  /\ \/ /\ ~Needs(at)
        /\ UNCHANGED <<comp, undoFailed>>
     \/ /\ Needs(at) /\ at \notin compensable
        /\ comp' = [comp EXCEPT ![at] = "COMPLETED"]
        /\ UNCHANGED undoFailed
     \/ /\ Needs(at) /\ at \in compensable /\ undoAttempts[at] = UndoAttempts
        /\ undoFailed' = TRUE
        /\ UNCHANGED comp
  /\ Goto("undo", at - 1)
  /\ UNCHANGED <<compensable, status, exec, attempts, undoAttempts, reached, history>>

Undo ==
  /\ pc = "undo"
  /\ at > 0
  /\ Needs(at)
  /\ at \in compensable
  /\ undoAttempts[at] < UndoAttempts
  /\ comp' = [comp EXCEPT ![at] = "RUNNING"]
  /\ undoAttempts' = [undoAttempts EXCEPT ![at] = @ + 1]
  /\ Goto("undoing", at)
  /\ UNCHANGED <<compensable, status, exec, attempts, reached, undoFailed, history>>

UndoSucceeds ==
  /\ pc = "undoing"
  /\ comp' = [comp EXCEPT ![at] = "COMPLETED"]
  /\ undone' = [undone EXCEPT ![at] = @ + 1]
  /\ Goto("undo", at - 1)
  /\ UNCHANGED <<compensable, status, exec, attempts, undoAttempts, reached, undoFailed,
                 interrupts, done, cut>>

UndoFails ==
  /\ pc = "undoing"
  /\ comp' = [comp EXCEPT ![at] = "FAILED"]
  /\ Goto("undo", at)
  /\ UNCHANGED <<compensable, status, exec, attempts, undoAttempts, reached, undoFailed, history>>

CompleteCompensation ==
  /\ pc = "undo"
  /\ at = 0
  /\ status' = IF undoFailed THEN "COMPENSATION_FAILED" ELSE "COMPENSATED"
  /\ Goto("idle", 0)
  /\ UNCHANGED <<compensable, exec, comp, attempts, undoAttempts, reached, undoFailed, history>>
-----------------------------------------------------------------------------
\* The call is interrupted; the user's code in it has taken effect or has not.
Interrupt ==
  /\ pc # "idle"
  /\ interrupts < MaxInterrupts
  /\ interrupts' = interrupts + 1
  /\ Goto("idle", 0)
  /\ cut' = IF pc \in {"action", "undoing"} THEN cut \cup {at} ELSE cut
  /\ \/ UNCHANGED <<done, undone>>
     \/ pc = "action" /\ done' = [done EXCEPT ![at] = @ + 1] /\ UNCHANGED undone
     \/ pc = "undoing" /\ undone' = [undone EXCEPT ![at] = @ + 1] /\ UNCHANGED done
  /\ UNCHANGED <<compensable, progress, undoFailed>>

\* The call goes on.
Continue ==
  \/ NextStep \/ Complete \/ Attempt \/ GiveUp \/ ActionSucceeds \/ ActionFails
  \/ BeginCompensation \/ Pass \/ Undo \/ UndoSucceeds \/ UndoFails \/ CompleteCompensation

SagaNext == ExecuteSaga \/ Compensate \/ Abort \/ Continue \/ Interrupt

\* A call runs to its end, and an instance that was left unfinished is resumed.
SagaSpec == SagaInit /\ [][SagaNext]_sagaVars /\ WF_sagaVars(Continue) /\ WF_sagaVars(ExecuteSaga)
-----------------------------------------------------------------------------
(* What a saga promises.                                                    *)

\* The effects of a compensable step: all of them are undone.
Undone(s) == s \in compensable => undone[s] = done[s]

\* A saga has all of its effects or none: completed, every action took effect
\* and nothing was undone; compensated, every effect there was has been undone
\* once, or its compensation is reported as failed, save for the steps that
\* were interrupted (orchestrator.py:384).
AllOrNothing ==
  /\ status = "COMPLETED" => \A s \in Steps : done[s] >= 1 /\ undone[s] = 0
  /\ status \in {"COMPENSATED", "ABORTED"} => \A s \in Steps \ cut : Undone(s)
  /\ status = "COMPENSATION_FAILED" =>
       /\ \E s \in Steps : comp[s] = "FAILED"
       /\ \A s \in Steps \ cut : Undone(s) \/ comp[s] = "FAILED"

\* A step whose effect stands.
Stands(s) == done[s] > undone[s]

\* Effects are undone from the last to the first: while a later one stands, and
\* is not one that cannot be undone, the earlier ones do (orchestrator.py:382).
UndoneInReverse ==
  \A s \in Steps \ cut, later \in compensable \ cut :
    s < later /\ Stands(later) /\ comp[later] # "FAILED" /\ comp[later] # "RUNNING" => Stands(s)

\* A saga that has been started ends, in whatever way, when interrupted calls
\* are followed by another (orchestrator.py:443).
StartedEnds == status # "PENDING" ~> status \in Terminal

\* README.md of the package: COMPENSATED, all compensations have succeeded.
CompensatedMeansCompensated ==
  status = "COMPENSATED" => \A s \in Steps : exec[s] = "COMPLETED" => comp[s] = "COMPLETED"
=============================================================================
