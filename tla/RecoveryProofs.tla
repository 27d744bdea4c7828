--------------------------- MODULE RecoveryProofs ---------------------------
(***************************************************************************)
(* The components whose calls are repeated after an interruption, for any  *)
(* values of their constants.                                              *)
(*                                                                         *)
(* TwoPC: type correctness, atomicity, the write-ahead rule of the         *)
(* decision log, the finality of a logged decision and the refinement of   *)
(* AtomicCommit.                                                           *)
(* Saga: type correctness, all effects or none, undoing in reverse.        *)
(* ExactlyOnce: type correctness, one handling per message without         *)
(* failures, no skipped message with them, no repeated settled message.    *)
(***************************************************************************)
EXTENDS TwoPC, Saga, ExactlyOnce,
        FiniteSetTheorems, SequenceTheorems, WellFoundedInduction, TLAPS

(* Two-phase commit.                                                        *)

\* A vote is only collected while there is no log entry, and a decision is
\* only told when there is one.
PhaseInv ==
  /\ phase = "preparing" => log = NoEntry
  /\ phase = "deciding" => log # NoEntry
  /\ phase \in {"preparing", "deciding"} => members = Participants
  /\ log.decision = "NONE" => log = NoEntry

\* While no vote went wrong, everybody already asked is PREPARED.
VoteInv ==
  phase = "preparing" /\ allYes => \A p \in Participants \ todo : pstate[p] = "PREPARED"

\* Everybody the decision phase has visited has left PREPARED.
ToldInv ==
  phase = "deciding" => \A p \in Participants \ todo : pstate[p] # "PREPARED"

IInv ==
  /\ TypeOK
  /\ PhaseInv
  /\ VoteInv
  /\ ToldInv
  /\ LoggedBeforeApplied
  /\ ExecutedMeansResolved
-----------------------------------------------------------------------------
\* Every state variable keeps its type: the states a participant can reach are
\* those of the transition table, and failures stay within their bound.
THEOREM TypeCorrect == Spec => []TypeOK
<1> USE DEF TypeOK, States, NoEntry, NewEntry, Decision
<1>1. Init => TypeOK
  BY FailuresAssumption DEF Init
<1>2. TypeOK /\ [Next]_vars => TypeOK'
  <2> SUFFICES ASSUME TypeOK, [Next]_vars PROVE TypeOK'
    OBVIOUS
  <2>1. ASSUME NEW p \in Participants, Configure(p) PROVE TypeOK'
    BY <2>1 DEF Configure
  <2>2. ASSUME NEW p \in Participants, Register(p) PROVE TypeOK'
    BY <2>2 DEF Register
  <2>3. CASE NewCoordinator
    BY <2>3 DEF NewCoordinator
  <2>4. CASE Execute
    BY <2>4 DEF Execute, FirstPhase
  <2>5. ASSUME NEW p \in Participants, PrepareTimesOut(p) PROVE TypeOK'
    BY <2>5 DEF PrepareTimesOut, VoteTally
  <2>6. ASSUME NEW p \in Participants, PrepareVotes(p) PROVE TypeOK'
    BY <2>6, FailuresAssumption
       DEF PrepareVotes, VoteTarget, VoteTally, VisitedOrRaised, Fails
  <2>7. ASSUME NEW p \in Participants, PrepareIllegal(p) PROVE TypeOK'
    BY <2>7 DEF PrepareIllegal
  <2>8. ASSUME NEW p \in Participants, Decide(p) PROVE TypeOK'
    BY <2>8, FailuresAssumption DEF Decide, Outcome, VisitedOrRaised, Fails
  <2>9. CASE RecordDecision
    BY <2>9 DEF RecordDecision
  <2>10. CASE MarkExecuted
    BY <2>10 DEF MarkExecuted
  <2>11. CASE Crash
    BY <2>11, FailuresAssumption DEF Crash, Fails
  <2>12. CASE UNCHANGED vars
    BY <2>12 DEF vars
  <2> QED
    BY <2>1, <2>2, <2>3, <2>4, <2>5, <2>6, <2>7, <2>8, <2>9, <2>10, <2>11, <2>12
       DEF Next, Running
<1> QED
  BY <1>1, <1>2, PTL DEF Spec

\* The inductive step of everything below: one case per action of Next.
LEMMA InvariantStep == IInv /\ TypeOK' /\ [Next]_vars => IInv'
<1> USE DEF IInv, PhaseInv, VoteInv, ToldInv, LoggedBeforeApplied,
            ExecutedMeansResolved, NoEntry
<1> SUFFICES ASSUME IInv, TypeOK', [Next]_vars PROVE IInv'
  OBVIOUS
<1>1. ASSUME NEW p \in Participants, Configure(p) PROVE IInv'
  BY <1>1 DEF Configure
<1>2. ASSUME NEW p \in Participants, Register(p) PROVE IInv'
  BY <1>2 DEF Register
<1>3. CASE NewCoordinator
  BY <1>3 DEF NewCoordinator
<1>4. CASE Execute
  BY <1>4 DEF Execute, FirstPhase
<1>5. ASSUME NEW p \in Participants, PrepareTimesOut(p) PROVE IInv'
  BY <1>5 DEF PrepareTimesOut, VoteTally
<1>6. ASSUME NEW p \in Participants, PrepareVotes(p) PROVE IInv'
  BY <1>6 DEF PrepareVotes, VoteTarget, VoteTally, VisitedOrRaised, Fails,
              CanTransition, TypeOK
<1>7. ASSUME NEW p \in Participants, PrepareIllegal(p) PROVE IInv'
  BY <1>7 DEF PrepareIllegal
<1>8. ASSUME NEW p \in Participants, Decide(p) PROVE IInv'
  BY <1>8 DEF Decide, IsTold, Outcome, VisitedOrRaised, Fails, TypeOK
<1>9. CASE RecordDecision
  BY <1>9 DEF RecordDecision, NewEntry, Decision, TypeOK
<1>10. CASE MarkExecuted
  BY <1>10 DEF MarkExecuted, TypeOK
<1>11. CASE Crash
  BY <1>11 DEF Crash, Fails
<1>12. CASE UNCHANGED vars
  BY <1>12 DEF vars, TypeOK
<1> QED
  BY <1>1, <1>2, <1>3, <1>4, <1>5, <1>6, <1>7, <1>8, <1>9, <1>10, <1>11, <1>12
     DEF Next, Running

\* Every state of the transaction satisfies the inductive invariant.
LEMMA InvariantHolds == Spec => []IInv
<1>1. Init => IInv
  BY FailuresAssumption DEF Init, IInv, TypeOK, States, PhaseInv, VoteInv, ToldInv,
     LoggedBeforeApplied, ExecutedMeansResolved, NoEntry
<1> QED
  BY <1>1, InvariantStep, TypeCorrect, PTL DEF Spec

\* An entry is in the log before any participant acts on it, and a COMMIT entry
\* finds every participant PREPARED: record_decision precedes the decision phase.
THEOREM WriteAhead == Spec => []LoggedBeforeApplied
BY InvariantHolds, PTL DEF IInv

\* No transaction, however often it is interrupted and recovered, commits at one
\* participant and aborts at another.
THEOREM AtomicOutcome == Spec => []Atomicity
<1>1. IInv => Atomicity
  BY DEF IInv, LoggedBeforeApplied, Atomicity
<1> QED
  BY <1>1, InvariantHolds, PTL

\* An entry marked executed has left no participant PREPARED.
THEOREM ExecutedResolved == Spec => []ExecutedMeansResolved
BY InvariantHolds, PTL DEF IInv

\* Recovery never replaces a logged decision.
THEOREM FinalDecision == Spec => DecisionIsFinal
<1>1. IInv /\ [Next]_vars => [log # NoEntry => log'.decision = log.decision]_vars
  <2> SUFFICES ASSUME IInv, Next, log # NoEntry PROVE log'.decision = log.decision
    OBVIOUS
  <2>1. CASE RecordDecision
    BY <2>1 DEF RecordDecision, IInv, PhaseInv
  <2>2. CASE MarkExecuted
    BY <2>2 DEF MarkExecuted, IInv, TypeOK
  <2>3. CASE UNCHANGED log
    BY <2>3
  <2>4. Next => RecordDecision \/ MarkExecuted \/ UNCHANGED log
    BY DEF Next, Running, Configure, Register, NewCoordinator, Execute,
           PrepareTimesOut, PrepareVotes, PrepareIllegal, Decide, Crash
  <2> QED
    BY <2>1, <2>2, <2>3, <2>4
<1> QED
  BY <1>1, InvariantHolds, PTL DEF Spec, DecisionIsFinal

\* Seen from the participants' states alone, the coordinator, its log and its
\* retries are atomic commitment: every step is a Prepare, a Commit, an Abort
\* of AtomicCommit, or changes no participant.
THEOREM Refinement == Spec => ImplementsAtomicCommit
<1>1. Init => AC!ACInit
  BY DEF Init, AC!ACInit
<1>2. IInv /\ [Next]_vars => [AC!ACNext]_pstate
  <2> SUFFICES ASSUME IInv, Next PROVE AC!ACNext \/ UNCHANGED pstate
    BY DEF vars
  <2>1. ASSUME NEW p \in Participants, PrepareVotes(p) PROVE AC!ACNext
    <3>1. AC!NobodyCommitted
      BY <2>1 DEF AC!NobodyCommitted, PrepareVotes, IInv, PhaseInv,
                  LoggedBeforeApplied, NoEntry
    <3>2. CASE votesYes[p]
      <4>1. AC!Prepare(p)
        BY <2>1, <3>2 DEF PrepareVotes, VoteTarget, CanTransition, AC!Prepare
      <4> QED
        BY <4>1 DEF AC!ACNext
    <3>3. CASE ~votesYes[p]
      <4>1. AC!Abort(p)
        BY <2>1, <3>1, <3>3 DEF PrepareVotes, VoteTarget, CanTransition, AC!Abort
      <4> QED
        BY <4>1 DEF AC!ACNext
    <3> QED
      BY <3>2, <3>3
  <2>2. ASSUME NEW p \in Participants, Decide(p), pstate[p] = "PREPARED"
        PROVE  AC!ACNext
    <3>1. CASE log.decision = "COMMIT"
      <4>1. AC!Commit(p)
        BY <2>2, <3>1 DEF Decide, IsTold, Outcome, AC!Commit, AC!EveryonePrepared,
                          IInv, LoggedBeforeApplied
      <4> QED
        BY <4>1 DEF AC!ACNext
    <3>2. CASE log.decision # "COMMIT"
      <4>1. AC!Abort(p)
        BY <2>2, <3>2 DEF Decide, IsTold, Outcome, AC!Abort, AC!NobodyCommitted,
                          IInv, LoggedBeforeApplied
      <4> QED
        BY <4>1 DEF AC!ACNext
    <3> QED
      BY <3>1, <3>2
  <2>3. ASSUME NEW p \in Participants, Decide(p), pstate[p] # "PREPARED"
        PROVE  UNCHANGED pstate
    BY <2>3 DEF Decide, IsTold
  <2> QED
    BY <2>1, <2>2, <2>3 DEF Next, Running, Configure, Register, NewCoordinator,
       Execute, PrepareTimesOut, PrepareIllegal, RecordDecision, MarkExecuted, Crash
<1> QED
  BY <1>1, <1>2, InvariantHolds, PTL DEF Spec, ImplementsAtomicCommit, AC!ACSpec
-----------------------------------------------------------------------------
(* The saga orchestrator.                                                   *)

\* Where a running call is, and in what state it finds the instance.
CallInv ==
  /\ pc # "idle" => status \notin Terminal \cup {"PENDING"}
  /\ pc \in {"step", "attempt", "action"} => status = "RUNNING"
  /\ pc = "compensation" => status \in {"RUNNING", "FAILED", "COMPENSATING"}
  /\ pc \in {"undo", "undoing"} => status = "COMPENSATING"
  /\ pc = "step" => at \in 1..(NumSteps + 1)
  /\ pc \in {"attempt", "action"} => at \in 1..reached
  /\ pc = "action" => exec[at] = "RUNNING"
  /\ pc = "attempt" => exec[at] # "COMPLETED"
  /\ pc = "undo" => at \in 0..reached
  /\ pc = "undoing" => at \in 1..reached /\ comp[at] = "RUNNING" /\ at \in compensable

\* Steps are executed in order, and nothing is undone before the compensation.
ForwardInv ==
  /\ \A s \in Steps : exec[s] # "PENDING" =>
       s <= reached /\ \A r \in Steps : r < s => exec[r] = "COMPLETED"
  /\ pc \in {"step", "attempt", "action"} =>
       \A s \in Steps : s < at => exec[s] = "COMPLETED"
  /\ \A s \in Steps : comp[s] # "NONE" => exec[s] = "COMPLETED"
  /\ \A s \in Steps : comp[s] = "NONE" => undoAttempts[s] = 0
  /\ status \notin {"COMPENSATING", "COMPENSATED", "COMPENSATION_FAILED"} =>
       \A s \in Steps : comp[s] = "NONE" /\ undone[s] = 0
  /\ status \in {"PENDING", "ABORTED"} => \A s \in Steps : done[s] = 0
  /\ status = "COMPLETED" => \A s \in Steps : exec[s] = "COMPLETED"

\* The statuses of a step that was not interrupted tell what took effect.
EffectInv ==
  /\ \A s \in Steps : exec[s] = "COMPLETED" => done[s] >= 1
  /\ \A s \in Steps \ cut : done[s] = IF exec[s] = "COMPLETED" THEN 1 ELSE 0
  /\ \A s \in Steps \ cut :
       undone[s] = IF comp[s] = "COMPLETED" /\ s \in compensable THEN 1 ELSE 0

\* The backward pass has been at the step, unless there was nothing to undo.
Visited(s) == exec[s] = "COMPLETED" => comp[s] # "NONE"

\* The backward pass leaves no later step out, and knows of the failures behind it.
BackInv ==
  /\ \A s, later \in Steps : s < later /\ comp[s] # "NONE" => Visited(later)
  /\ \A s \in Steps : comp[s] = "RUNNING" => s \in cut \/ (pc = "undoing" /\ at = s)
  /\ pc \in {"undo", "undoing"} =>
       /\ \A s \in Steps : s > at => Visited(s) /\ (comp[s] = "FAILED" => undoFailed)
       /\ undoFailed => \E s \in Steps : comp[s] = "FAILED" /\ s > at
  /\ status \in {"COMPENSATED", "COMPENSATION_FAILED"} => \A s \in Steps : Visited(s)
  /\ status = "COMPENSATED" => \A s \in Steps : comp[s] # "FAILED"
  /\ status = "COMPENSATION_FAILED" => \E s \in Steps : comp[s] = "FAILED"

SagaInv == SagaTypeOK /\ CallInv /\ ForwardInv /\ EffectInv /\ BackInv
-----------------------------------------------------------------------------
\* A saga that has only been created is in the invariant.
LEMMA SagaInitHolds == SagaInit => SagaInv
<1> SUFFICES ASSUME SagaInit PROVE SagaInv
  OBVIOUS
<1> USE StepsAssumption, AttemptsAssumption, InterruptsAssumption
    DEF SagaInit, Steps, Terminal
<1>1. SagaTypeOK
  <2>1. 0 \in 0..NumSteps /\ 0 \in 0..(NumSteps + 1) /\ 0 \in 0..Attempts
        /\ 0 \in 0..UndoAttempts /\ 0 \in 0..MaxInterrupts
    OBVIOUS
  <2> QED
    BY <2>1 DEF SagaTypeOK
<1>2. CallInv
  BY DEF CallInv
<1>3. ForwardInv
  BY DEF ForwardInv
<1>4. EffectInv
  BY DEF EffectInv
<1>5. BackInv
  BY DEF BackInv, Visited
<1> QED
  BY <1>1, <1>2, <1>3, <1>4, <1>5 DEF SagaInv

\* The place of a call is a step of the saga.
LEMMA Places ==
  ASSUME SagaInv
  PROVE  /\ pc = "step" => at \in 1..(NumSteps + 1)
         /\ pc = "step" /\ at <= NumSteps => at \in Steps
         /\ pc \in {"attempt", "action", "undoing"} => at \in Steps
         /\ pc = "undo" => at \in 0..NumSteps /\ (at > 0 => at \in Steps)
BY StepsAssumption DEF SagaInv, SagaTypeOK, CallInv, Steps

\* Every step keeps the types.
LEMMA SagaTypeStep == ASSUME SagaInv, SagaNext PROVE SagaTypeOK'
<1> USE Places DEF progress, history, Goto,
          SagaNext, Continue, ExecuteSaga, Compensate, Abort, AbortPending, CallCompensation,
          NextStep, Complete,
          Attempt, GiveUp, ActionSucceeds, ActionFails, BeginCompensation, Pass, Undo,
          UndoSucceeds,
          UndoFails, CompleteCompensation, Interrupt
<1>0. SagaInv /\ SagaNext
  OBVIOUS
<1>1. compensable' \subseteq Steps /\ cut' \subseteq Steps /\ undoFailed' \in BOOLEAN
  BY <1>0 DEF SagaInv, SagaTypeOK
<1>2. status' \in Terminal \cup {"PENDING", "RUNNING", "FAILED", "COMPENSATING"}
  BY <1>0 DEF SagaInv, SagaTypeOK, Terminal
<1>3. pc' \in {"idle", "step", "attempt", "action", "compensation", "undo", "undoing"}
  BY <1>0 DEF SagaInv, SagaTypeOK
<1>4. exec' \in [Steps -> {"PENDING", "RUNNING", "COMPLETED", "FAILED"}]
  BY <1>0 DEF SagaInv, SagaTypeOK
<1>5. comp' \in [Steps -> {"NONE", "RUNNING", "COMPLETED", "FAILED"}]
  BY <1>0 DEF SagaInv, SagaTypeOK
<1>6. attempts' \in [Steps -> 0..Attempts]
  BY <1>0, StepsAssumption, AttemptsAssumption, InterruptsAssumption DEF SagaInv, SagaTypeOK
<1>7. undoAttempts' \in [Steps -> 0..UndoAttempts]
  BY <1>0, StepsAssumption, AttemptsAssumption, InterruptsAssumption DEF SagaInv, SagaTypeOK
<1>8. reached' \in 0..NumSteps
  <2>1. reached' = reached \/ (pc = "step" /\ at <= NumSteps /\ reached' = at)
    BY <1>0
  <2> QED
    <3>1. NumSteps \in Nat /\ reached \in 0..NumSteps /\ at \in 0..(NumSteps + 1)
      BY <1>0, StepsAssumption, AttemptsAssumption, InterruptsAssumption DEF SagaInv, SagaTypeOK
    <3>2. pc = "step" => at \in 1..(NumSteps + 1)
      BY <1>0, Places
    <3> QED
      BY <2>1, <3>1, <3>2
<1>9. at' \in 0..(NumSteps + 1)
  <2>1. \/ at' \in {0, 1, at, reached}
        \/ pc = "step" /\ at <= NumSteps /\ at' = at + 1
        \/ pc = "action" /\ at' = at + 1
        \/ pc \in {"undo", "undoing"} /\ at' = at - 1 /\ at \in Steps
    BY <1>0 DEF First
  <2>2. NumSteps \in Nat /\ reached \in 0..NumSteps /\ at \in 0..(NumSteps + 1)
    BY <1>0, StepsAssumption, AttemptsAssumption, InterruptsAssumption DEF SagaInv, SagaTypeOK
  <2>3. at' = 1 => 1 \in 0..(NumSteps + 1)
    BY <2>2
  <2>4. pc = "action" => at \in 1..NumSteps
    BY <1>0, Places DEF Steps
  <2>5. CASE pc \in {"undo", "undoing"} /\ at' = at - 1 /\ at \in Steps
    BY <2>2, <2>5 DEF Steps
  <2> QED
    BY <2>1, <2>2, <2>3, <2>4, <2>5
<1>10. interrupts' \in 0..MaxInterrupts
  BY <1>0, StepsAssumption, AttemptsAssumption, InterruptsAssumption DEF SagaInv, SagaTypeOK
<1>11. done' \in [Steps -> Nat] /\ undone' \in [Steps -> Nat]
  BY <1>0 DEF SagaInv, SagaTypeOK
<1> QED
  BY <1>1, <1>2, <1>3, <1>4, <1>5, <1>6, <1>7, <1>8, <1>9, <1>10, <1>11 DEF SagaTypeOK

\* Every step keeps what is known of the running call.
LEMMA CallInvStep == ASSUME SagaInv, SagaTypeOK', SagaNext PROVE CallInv'
<1> USE StepsAssumption, AttemptsAssumption, InterruptsAssumption
    DEF SagaInv, Steps, Terminal, progress, history, Goto, CallInv
<1>1. CASE ExecuteSaga
  BY <1>1 DEF ExecuteSaga, SagaTypeOK, CallInv, Unfinished
<1>2. CASE AbortPending
  BY <1>2 DEF AbortPending, SagaTypeOK, CallInv
<1>3. CASE NextStep
  BY <1>3 DEF NextStep, SagaTypeOK, CallInv
<1>4. CASE Complete
  BY <1>4 DEF Complete, SagaTypeOK, CallInv
<1>5. CASE Attempt
  BY <1>5 DEF Attempt, SagaTypeOK, CallInv
<1>6. CASE GiveUp
  BY <1>6 DEF GiveUp, SagaTypeOK, CallInv
<1>7. CASE ActionSucceeds
  BY <1>7 DEF ActionSucceeds, SagaTypeOK, CallInv
<1>8. CASE ActionFails
  BY <1>8 DEF ActionFails, SagaTypeOK, CallInv
<1>9. CASE BeginCompensation
  BY <1>9 DEF BeginCompensation, SagaTypeOK, CallInv, First
<1>10. CASE Pass
  BY <1>10 DEF Pass, SagaTypeOK, CallInv, Needs
<1>11. CASE Undo
  BY <1>11 DEF Undo, SagaTypeOK, CallInv, Needs
<1>12. CASE UndoSucceeds
  BY <1>12 DEF UndoSucceeds, SagaTypeOK, CallInv
<1>13. CASE UndoFails
  BY <1>13 DEF UndoFails, SagaTypeOK, CallInv
<1>14. CASE CompleteCompensation
  BY <1>14 DEF CompleteCompensation, SagaTypeOK, CallInv
<1>15. CASE Interrupt
  BY <1>15 DEF Interrupt, SagaTypeOK, CallInv
<1>16. CASE CallCompensation({"RUNNING", "FAILED", "COMPENSATING"})
  BY <1>16 DEF CallCompensation, SagaTypeOK, CallInv
<1>17. CASE CallCompensation({"RUNNING", "FAILED"})
  BY <1>17 DEF CallCompensation, SagaTypeOK, CallInv
<1> QED
  BY <1>1, <1>2, <1>3, <1>4, <1>5, <1>6, <1>7, <1>8, <1>9, <1>10, <1>11, <1>12, <1>13, <1>14,
     <1>15, <1>16, <1>17 DEF SagaNext, Continue, Compensate, Abort

\* Every step keeps the order of the forward pass.
LEMMA ForwardInvStep == ASSUME SagaInv, SagaTypeOK', SagaNext PROVE ForwardInv'
<1> USE StepsAssumption, AttemptsAssumption, InterruptsAssumption
    DEF SagaInv, Steps, Terminal, progress, history, Goto, CallInv
<1>1. CASE ExecuteSaga
  BY <1>1 DEF ExecuteSaga, SagaTypeOK, ForwardInv, Unfinished
<1>2. CASE AbortPending
  BY <1>2 DEF AbortPending, SagaTypeOK, ForwardInv
<1>3. CASE NextStep
  <2>1. /\ reached' >= reached /\ exec' = exec /\ comp' = comp
        /\ undoAttempts' = undoAttempts /\ done' = done /\ undone' = undone
        /\ status' \in {"RUNNING", "FAILED"}
        /\ \/ pc' \in {"attempt", "compensation"} /\ at' = at
           \/ pc' = "step" /\ at' = at + 1 /\ exec[at] = "COMPLETED"
    <3>1. reached \in Nat /\ at \in Nat
      BY <1>3 DEF NextStep, SagaTypeOK
    <3>2. CASE exec[at] = "COMPLETED"
      BY <1>3, <3>1, <3>2 DEF NextStep
    <3>3. CASE exec[at] # "COMPLETED"
      <4>1. \/ reached' = reached
            \/ reached' = at /\ at > reached
        BY <1>3, <3>1, <3>3 DEF NextStep
      <4>2. reached' >= reached
        BY <3>1, <4>1
      <4>3. /\ UNCHANGED <<exec, comp, undoAttempts, done, undone>> /\ at' = at
            /\ status' \in {status, "FAILED"} /\ pc' \in {"attempt", "compensation"}
        BY <1>3, <3>3 DEF NextStep
      <4> QED
        BY <1>3, <4>2, <4>3 DEF NextStep
    <3> QED
      BY <3>2, <3>3
  <2>2. pc = "step" /\ status = "RUNNING" /\ at \in Nat
    BY <1>3 DEF NextStep
  <2>3. ASSUME NEW s \in Steps, pc' \in {"step", "attempt", "action"}, s < at'
        PROVE  exec'[s] = "COMPLETED"
    BY <2>1, <2>2, <2>3 DEF ForwardInv
  <2>4. ASSUME NEW s \in Steps, exec'[s] # "PENDING"
        PROVE  s <= reached' /\ \A r \in Steps : r < s => exec'[r] = "COMPLETED"
    BY <2>1, <2>4 DEF ForwardInv, SagaTypeOK
  <2> QED
    BY <2>1, <2>2, <2>3, <2>4 DEF ForwardInv
<1>4. CASE Complete
  BY <1>4 DEF Complete, SagaTypeOK, ForwardInv
<1>5. CASE Attempt
  BY <1>5 DEF Attempt, SagaTypeOK, ForwardInv
<1>6. CASE GiveUp
  BY <1>6 DEF GiveUp, SagaTypeOK, ForwardInv
<1>7. CASE ActionSucceeds
  BY <1>7 DEF ActionSucceeds, SagaTypeOK, ForwardInv
<1>8. CASE ActionFails
  BY <1>8 DEF ActionFails, SagaTypeOK, ForwardInv
<1>9. CASE BeginCompensation
  BY <1>9 DEF BeginCompensation, SagaTypeOK, ForwardInv, First
<1>10. CASE Pass
  <2>1. comp' = comp \/ (comp' = [comp EXCEPT ![at] = "COMPLETED"] /\ exec[at] = "COMPLETED")
    BY <1>10 DEF Pass, Needs
  <2>2. /\ pc = "undo" /\ pc' = "undo" /\ at \in Steps /\ status = "COMPENSATING"
        /\ UNCHANGED <<status, exec, undoAttempts, reached, done, undone>>
    BY <1>10 DEF Pass, SagaTypeOK
  <2>3. ASSUME NEW s \in Steps
        PROVE  comp'[s] = comp[s] \/ (comp'[s] = "COMPLETED" /\ exec[s] = "COMPLETED")
    BY <2>1, <2>2 DEF SagaTypeOK
  <2> QED
    BY <2>2, <2>3 DEF ForwardInv
<1>11. CASE Undo
  BY <1>11 DEF Undo, SagaTypeOK, ForwardInv, Needs
<1>12. CASE UndoSucceeds
  BY <1>12 DEF UndoSucceeds, SagaTypeOK, ForwardInv
<1>13. CASE UndoFails
  BY <1>13 DEF UndoFails, SagaTypeOK, ForwardInv
<1>14. CASE CompleteCompensation
  BY <1>14 DEF CompleteCompensation, SagaTypeOK, ForwardInv
<1>15. CASE Interrupt
  BY <1>15 DEF Interrupt, SagaTypeOK, ForwardInv
<1>16. CASE CallCompensation({"RUNNING", "FAILED", "COMPENSATING"})
  BY <1>16 DEF CallCompensation, SagaTypeOK, ForwardInv
<1>17. CASE CallCompensation({"RUNNING", "FAILED"})
  BY <1>17 DEF CallCompensation, SagaTypeOK, ForwardInv
<1> QED
  BY <1>1, <1>2, <1>3, <1>4, <1>5, <1>6, <1>7, <1>8, <1>9, <1>10, <1>11, <1>12, <1>13, <1>14,
     <1>15, <1>16, <1>17 DEF SagaNext, Continue, Compensate, Abort

\* Every step keeps the statuses true to the effects.
LEMMA EffectInvStep == ASSUME SagaInv, SagaTypeOK', SagaNext PROVE EffectInv'
<1> USE StepsAssumption, AttemptsAssumption, InterruptsAssumption
    DEF SagaInv, Steps, Terminal, progress, history, Goto, CallInv
<1>1. CASE ExecuteSaga
  BY <1>1 DEF ExecuteSaga, SagaTypeOK, EffectInv, ForwardInv, Unfinished
<1>2. CASE AbortPending
  BY <1>2 DEF AbortPending, SagaTypeOK, EffectInv, ForwardInv
<1>3. CASE NextStep
  BY <1>3 DEF NextStep, SagaTypeOK, EffectInv, ForwardInv
<1>4. CASE Complete
  BY <1>4 DEF Complete, SagaTypeOK, EffectInv, ForwardInv
<1>5. CASE Attempt
  BY <1>5 DEF Attempt, SagaTypeOK, EffectInv, ForwardInv
<1>6. CASE GiveUp
  BY <1>6 DEF GiveUp, SagaTypeOK, EffectInv, ForwardInv
<1>7. CASE ActionSucceeds
  BY <1>7 DEF ActionSucceeds, SagaTypeOK, EffectInv, ForwardInv
<1>8. CASE ActionFails
  BY <1>8 DEF ActionFails, SagaTypeOK, EffectInv, ForwardInv
<1>9. CASE BeginCompensation
  BY <1>9 DEF BeginCompensation, SagaTypeOK, EffectInv, ForwardInv, First
<1>10. CASE Pass
  <2>1. comp' = comp \/ (comp' = [comp EXCEPT ![at] = "COMPLETED"]
                           /\ comp[at] # "COMPLETED" /\ at \notin compensable)
    BY <1>10 DEF Pass, Needs
  <2>2. UNCHANGED <<compensable, exec, done, undone, cut>> /\ at \in Steps
    BY <1>10 DEF Pass, SagaTypeOK
  <2>3. ASSUME NEW s \in Steps
        PROVE  comp'[s] = comp[s] \/ s \notin compensable
    BY <2>1, <2>2 DEF SagaTypeOK
  <2> QED
    BY <2>2, <2>3 DEF EffectInv
<1>11. CASE Undo
  <2>1. comp' = [comp EXCEPT ![at] = "RUNNING"] /\ comp[at] # "COMPLETED" /\ at \in Steps
    BY <1>11 DEF Undo, Needs, SagaTypeOK
  <2>2. UNCHANGED <<compensable, exec, done, undone, cut>>
    BY <1>11 DEF Undo
  <2>3. ASSUME NEW s \in Steps
        PROVE  comp'[s] = "COMPLETED" <=> comp[s] = "COMPLETED"
    BY <2>1 DEF SagaTypeOK
  <2> QED
    BY <2>2, <2>3 DEF EffectInv
<1>12. CASE UndoSucceeds
  <2>1. /\ comp' = [comp EXCEPT ![at] = "COMPLETED"] /\ comp[at] = "RUNNING"
        /\ undone' = [undone EXCEPT ![at] = @ + 1] /\ at \in Steps /\ at \in compensable
    BY <1>12 DEF UndoSucceeds, SagaTypeOK
  <2>2. UNCHANGED <<compensable, exec, done, cut>>
    BY <1>12 DEF UndoSucceeds
  <2>3. ASSUME NEW s \in Steps \ cut
        PROVE  undone'[s] = IF comp'[s] = "COMPLETED" /\ s \in compensable THEN 1 ELSE 0
    <3>1. CASE s = at
      <4>1. undone[at] = 0 /\ undone'[at] = undone[at] + 1 /\ comp'[at] = "COMPLETED"
        BY <2>1, <3>1 DEF EffectInv, SagaTypeOK
      <4> QED
        BY <2>1, <3>1, <4>1
    <3>2. CASE s # at
      BY <2>1, <3>2 DEF EffectInv, SagaTypeOK
    <3> QED
      BY <3>1, <3>2
  <2> QED
    BY <2>2, <2>3 DEF EffectInv
<1>13. CASE UndoFails
  <2>1. comp' = [comp EXCEPT ![at] = "FAILED"] /\ comp[at] = "RUNNING" /\ at \in Steps
    BY <1>13 DEF UndoFails, SagaTypeOK
  <2>2. UNCHANGED <<compensable, exec, done, undone, cut>>
    BY <1>13 DEF UndoFails
  <2>3. ASSUME NEW s \in Steps
        PROVE  comp'[s] = "COMPLETED" <=> comp[s] = "COMPLETED"
    BY <2>1 DEF SagaTypeOK
  <2> QED
    BY <2>2, <2>3 DEF EffectInv
<1>14. CASE CompleteCompensation
  BY <1>14 DEF CompleteCompensation, SagaTypeOK, EffectInv, ForwardInv
<1>15. CASE Interrupt
  <2>1. UNCHANGED <<compensable, exec, comp>> /\ cut \subseteq cut'
    BY <1>15 DEF Interrupt
  <2>2. \/ UNCHANGED <<done, undone>>
        \/ /\ at \in Steps /\ at \in cut'
           /\ \/ done' = [done EXCEPT ![at] = @ + 1] /\ undone' = undone
              \/ undone' = [undone EXCEPT ![at] = @ + 1] /\ done' = done
    BY <1>15 DEF Interrupt, SagaTypeOK
  <2>3. ASSUME NEW s \in Steps
        PROVE  /\ done[s] \in Nat /\ done'[s] >= done[s]
               /\ s \notin cut' => done'[s] = done[s] /\ undone'[s] = undone[s]
    <3>1. done[s] \in Nat /\ undone[s] \in Nat
      BY DEF SagaTypeOK
    <3>2. CASE UNCHANGED <<done, undone>>
      BY <3>1, <3>2
    <3>3. CASE s = at /\ at \in cut'
      BY <2>2, <3>1, <3>3 DEF SagaTypeOK
    <3>4. CASE s # at
      <4>1. done'[s] = done[s] /\ undone'[s] = undone[s]
        BY <2>2, <3>4 DEF SagaTypeOK
      <4> QED
        BY <3>1, <4>1
    <3> QED
      BY <2>2, <3>2, <3>3, <3>4
  <2>4. ASSUME NEW s \in Steps, exec'[s] = "COMPLETED" PROVE done'[s] >= 1
    BY <2>1, <2>3, <2>4 DEF EffectInv, SagaTypeOK
  <2> QED
    BY <2>1, <2>3, <2>4 DEF EffectInv
<1>16. CASE CallCompensation({"RUNNING", "FAILED", "COMPENSATING"})
  BY <1>16 DEF CallCompensation, SagaTypeOK, EffectInv, ForwardInv
<1>17. CASE CallCompensation({"RUNNING", "FAILED"})
  BY <1>17 DEF CallCompensation, SagaTypeOK, EffectInv, ForwardInv
<1> QED
  BY <1>1, <1>2, <1>3, <1>4, <1>5, <1>6, <1>7, <1>8, <1>9, <1>10, <1>11, <1>12, <1>13, <1>14,
     <1>15, <1>16, <1>17 DEF SagaNext, Continue, Compensate, Abort

\* Every step keeps the order of the backward pass.
LEMMA BackInvStep == ASSUME SagaInv, SagaTypeOK', SagaNext PROVE BackInv'
<1> USE StepsAssumption, AttemptsAssumption, InterruptsAssumption
    DEF SagaInv, Steps, Terminal, progress, history, Goto, CallInv
<1>1. CASE ExecuteSaga
  BY <1>1 DEF ExecuteSaga, SagaTypeOK, BackInv, Visited, ForwardInv, Unfinished
<1>2. CASE AbortPending
  BY <1>2 DEF AbortPending, SagaTypeOK, BackInv, Visited, ForwardInv
<1>3. CASE NextStep
  BY <1>3 DEF NextStep, SagaTypeOK, BackInv, Visited, ForwardInv
<1>4. CASE Complete
  BY <1>4 DEF Complete, SagaTypeOK, BackInv, Visited, ForwardInv
<1>5. CASE Attempt
  BY <1>5 DEF Attempt, SagaTypeOK, BackInv, Visited, ForwardInv
<1>6. CASE GiveUp
  BY <1>6 DEF GiveUp, SagaTypeOK, BackInv, Visited, ForwardInv
<1>7. CASE ActionSucceeds
  BY <1>7 DEF ActionSucceeds, SagaTypeOK, BackInv, Visited, ForwardInv
<1>8. CASE ActionFails
  BY <1>8 DEF ActionFails, SagaTypeOK, BackInv, Visited, ForwardInv
<1>9. CASE BeginCompensation
  BY <1>9 DEF BeginCompensation, SagaTypeOK, BackInv, Visited, ForwardInv, First
<1>10. CASE Pass
  <2>1. \/ comp' = comp /\ undoFailed' = undoFailed /\ ~Needs(at)
        \/ comp' = [comp EXCEPT ![at] = "COMPLETED"] /\ undoFailed' = undoFailed /\ Needs(at)
        \/ comp' = comp /\ undoFailed' = TRUE /\ comp[at] = "FAILED"
    BY <1>10 DEF Pass, Needs, ForwardInv, SagaTypeOK
  <2>2. /\ pc = "undo" /\ pc' = "undo" /\ at \in Steps /\ at' = at - 1
        /\ status' = "COMPENSATING" /\ exec' = exec /\ cut' = cut
    BY <1>10 DEF Pass, SagaTypeOK
  <2>3. ASSUME NEW s \in Steps
        PROVE  /\ s # at => comp'[s] = comp[s]
               /\ comp[s] # "NONE" => comp'[s] # "NONE"
               /\ comp'[s] = "RUNNING" => comp[s] = "RUNNING"
               /\ comp'[s] = "FAILED" => comp[s] = "FAILED"
    BY <2>1, <2>2 DEF SagaTypeOK
  <2>4. (exec[at] = "COMPLETED" => comp'[at] # "NONE") /\ (comp'[at] = "FAILED" => undoFailed')
    BY <2>1, <2>2 DEF Needs, SagaTypeOK, ForwardInv
  <2>5. \A s \in Steps : s > at => Visited(s) /\ (comp[s] = "FAILED" => undoFailed)
    BY <2>2 DEF BackInv
  <2>6. undoFailed => undoFailed'
    BY <2>1
  <2>7. ASSUME NEW s \in Steps, s > at'
        PROVE  (exec[s] = "COMPLETED" => comp'[s] # "NONE") /\ (comp'[s] = "FAILED" => undoFailed')
    BY <2>2, <2>3, <2>4, <2>5, <2>6, <2>7 DEF Visited, Steps
  <2>8. undoFailed' => \E s \in Steps : comp'[s] = "FAILED" /\ s > at'
    <3>1. CASE undoFailed
      <4>1. PICK s \in Steps : comp[s] = "FAILED" /\ s > at
        BY <2>2, <3>1 DEF BackInv
      <4> QED
        BY <2>2, <2>3, <4>1
    <3>2. CASE undoFailed' /\ ~undoFailed
      <4>1. comp[at] = "FAILED" /\ comp' = comp
        BY <2>1, <3>2
      <4> QED
        BY <2>2, <4>1
    <3> QED
      BY <3>1, <3>2
  <2>9. ASSUME NEW s \in Steps, NEW later \in Steps, s < later, comp'[s] # "NONE"
        PROVE  exec[later] = "COMPLETED" => comp'[later] # "NONE"
    <3>1. CASE s = at
      BY <2>3, <2>5, <2>9, <3>1 DEF Visited
    <3>2. CASE s # at
      BY <2>3, <2>9, <3>2 DEF BackInv, Visited
    <3> QED
      BY <3>1, <3>2
  <2>10. \A s \in Steps : comp'[s] = "RUNNING" => s \in cut
    BY <2>2, <2>3 DEF BackInv
  <2> QED
    BY <2>2, <2>7, <2>8, <2>9, <2>10 DEF BackInv, Visited
<1>11. CASE Undo
  <2>1. /\ comp' = [comp EXCEPT ![at] = "RUNNING"] /\ at \in Steps
        /\ pc = "undo" /\ pc' = "undoing" /\ at' = at
        /\ status' = "COMPENSATING" /\ exec' = exec /\ cut' = cut /\ undoFailed' = undoFailed
    BY <1>11 DEF Undo, SagaTypeOK
  <2>2. ASSUME NEW s \in Steps
        PROVE  (s # at => comp'[s] = comp[s]) /\ comp'[at] = "RUNNING"
    BY <2>1 DEF SagaTypeOK
  <2>3. ASSUME NEW s \in Steps, NEW later \in Steps, s < later, comp'[s] # "NONE"
        PROVE  exec[later] = "COMPLETED" => comp'[later] # "NONE"
    BY <2>1, <2>2, <2>3 DEF BackInv, Visited
  <2>4. \A s \in Steps : comp'[s] = "RUNNING" => s \in cut \/ (pc' = "undoing" /\ at' = s)
    BY <2>1, <2>2 DEF BackInv
  <2>5. \A s \in Steps : s > at => /\ exec[s] = "COMPLETED" => comp'[s] # "NONE"
                                   /\ comp'[s] = "FAILED" => undoFailed
    BY <2>1, <2>2 DEF BackInv, Visited
  <2>6. undoFailed => \E s \in Steps : comp'[s] = "FAILED" /\ s > at
    BY <2>1, <2>2 DEF BackInv
  <2> QED
    BY <2>1, <2>3, <2>4, <2>5, <2>6 DEF BackInv, Visited
<1>12. CASE UndoSucceeds
  BY <1>12 DEF UndoSucceeds, SagaTypeOK, BackInv, Visited, ForwardInv
<1>13. CASE UndoFails
  <2>1. /\ comp' = [comp EXCEPT ![at] = "FAILED"] /\ at \in Steps
        /\ pc = "undoing" /\ pc' = "undo" /\ at' = at
        /\ status' = "COMPENSATING" /\ exec' = exec /\ cut' = cut /\ undoFailed' = undoFailed
    BY <1>13 DEF UndoFails, SagaTypeOK
  <2>2. ASSUME NEW s \in Steps
        PROVE  (s # at => comp'[s] = comp[s]) /\ comp'[at] = "FAILED"
    BY <2>1 DEF SagaTypeOK
  <2>3. ASSUME NEW s \in Steps, NEW later \in Steps, s < later, comp'[s] # "NONE"
        PROVE  exec[later] = "COMPLETED" => comp'[later] # "NONE"
    BY <2>1, <2>2, <2>3 DEF BackInv, Visited
  <2>4. \A s \in Steps : comp'[s] = "RUNNING" => s \in cut \/ (pc' = "undoing" /\ at' = s)
    BY <2>1, <2>2 DEF BackInv
  <2>5. \A s \in Steps : s > at => /\ exec[s] = "COMPLETED" => comp'[s] # "NONE"
                                   /\ comp'[s] = "FAILED" => undoFailed
    BY <2>1, <2>2 DEF BackInv, Visited
  <2>6. undoFailed => \E s \in Steps : comp'[s] = "FAILED" /\ s > at
    BY <2>1, <2>2 DEF BackInv
  <2> QED
    BY <2>1, <2>3, <2>4, <2>5, <2>6 DEF BackInv, Visited
<1>14. CASE CompleteCompensation
  BY <1>14 DEF CompleteCompensation, SagaTypeOK, BackInv, Visited, ForwardInv
<1>15. CASE Interrupt
  <2>1. UNCHANGED <<status, exec, comp>> /\ pc' = "idle"
    BY <1>15 DEF Interrupt
  <2>2. \A s \in Steps : comp'[s] = "RUNNING" => s \in cut'
    BY <1>15 DEF Interrupt, BackInv
  <2> QED
    BY <2>1, <2>2 DEF BackInv, Visited
<1>16. CASE CallCompensation({"RUNNING", "FAILED", "COMPENSATING"})
  BY <1>16 DEF CallCompensation, SagaTypeOK, BackInv, Visited, ForwardInv
<1>17. CASE CallCompensation({"RUNNING", "FAILED"})
  BY <1>17 DEF CallCompensation, SagaTypeOK, BackInv, Visited, ForwardInv
<1> QED
  BY <1>1, <1>2, <1>3, <1>4, <1>5, <1>6, <1>7, <1>8, <1>9, <1>10, <1>11, <1>12, <1>13, <1>14,
     <1>15, <1>16, <1>17 DEF SagaNext, Continue, Compensate, Abort

\* The invariant holds in every state of a saga.
LEMMA SagaInvariance == SagaSpec => []SagaInv
<1>1. SagaInit => SagaInv
  BY SagaInitHolds
<1>2. SagaInv /\ [SagaNext]_sagaVars => SagaInv'
  <2>1. ASSUME SagaInv, SagaNext PROVE SagaInv'
    BY <2>1, SagaTypeStep, CallInvStep, ForwardInvStep, EffectInvStep, BackInvStep,
       StepsAssumption, AttemptsAssumption, InterruptsAssumption DEF SagaInv
  <2>2. ASSUME SagaInv, UNCHANGED sagaVars PROVE SagaInv'
    BY <2>2 DEF SagaInv, SagaTypeOK, CallInv, ForwardInv, EffectInv, BackInv, Visited, sagaVars,
                progress, history
  <2> QED
    BY <2>1, <2>2
<1> QED
  BY <1>1, <1>2, PTL DEF SagaSpec

\* Every state variable of a saga keeps its type: a call only touches steps of the definition,
\* and the attempts at a step stay within the limits of its retries.
THEOREM SagaTypeCorrect == SagaSpec => []SagaTypeOK
BY SagaInvariance, PTL DEF SagaInv

\* A saga that ended has the effects of all its steps or has every effect of a
\* step that was not interrupted undone, unless it reports that a compensation failed;
\* whatever calls are interrupted and repeated, and however the attempts fail.
THEOREM SagaIsAllOrNothing == SagaSpec => []AllOrNothing
<1>1. ASSUME SagaInv PROVE AllOrNothing
  <2> USE <1>1 DEF SagaInv
  <2>1. ASSUME status = "COMPLETED" PROVE \A s \in Steps : done[s] >= 1 /\ undone[s] = 0
    BY <2>1 DEF ForwardInv, EffectInv
  <2>2. ASSUME status = "ABORTED" PROVE \A s \in Steps \ cut : Undone(s)
    BY <2>2 DEF ForwardInv, Undone
  <2>3. ASSUME status \in {"COMPENSATED", "COMPENSATION_FAILED"}, NEW s \in Steps \ cut
        PROVE  Undone(s) \/ comp[s] = "FAILED"
    <3>1. (exec[s] = "COMPLETED" => comp[s] # "NONE") /\ comp[s] # "RUNNING"
      BY <2>3 DEF BackInv, Visited, CallInv, Terminal
    <3>2. comp[s] \in {"NONE", "COMPLETED", "FAILED"}
      BY <3>1 DEF SagaTypeOK
    <3> QED
      BY <3>1, <3>2 DEF EffectInv, ForwardInv, Undone
  <2> QED
    BY <2>1, <2>2, <2>3 DEF AllOrNothing, BackInv
<1> QED
  BY <1>1, SagaInvariance, PTL

\* The effect of a step never goes while that of a later one still stands and its
\* compensation was not given up: sagas of any length are undone from the last step to the first.
THEOREM EffectsUndoneInReverse == SagaSpec => []UndoneInReverse
<1>1. ASSUME SagaInv PROVE UndoneInReverse
  <2> SUFFICES ASSUME NEW s \in Steps \ cut, NEW later \in compensable \ cut,
                      s < later, Stands(later), comp[later] # "FAILED", comp[later] # "RUNNING"
               PROVE  Stands(s)
    BY DEF UndoneInReverse
  <2> USE <1>1 DEF SagaInv
  <2>1. later \in Steps /\ comp[later] \in {"NONE", "COMPLETED"}
    BY DEF SagaTypeOK
  <2>2. exec[later] = "COMPLETED" /\ comp[later] = "NONE"
    BY <2>1 DEF EffectInv, Stands
  <2>3. exec[s] = "COMPLETED"
    BY <2>1, <2>2 DEF ForwardInv
  <2>4. comp[s] = "NONE"
    BY <2>1, <2>2 DEF BackInv, Visited
  <2> QED
    BY <2>3, <2>4 DEF EffectInv, Stands
<1> QED
  BY <1>1, SagaInvariance, PTL
-----------------------------------------------------------------------------
(* The exactly-once processor.                                                *)

\* The records that wait are of messages there are.
RecordsExist == \A n \in DOMAIN uncommitted : uncommitted[n] \in DOMAIN source

\* The store keeps within its size, and has what was settled.
StoreFits == Cardinality(dedup) <= MaxDedup
SettledAreStored == settled \subseteq dedup

EOInv ==
  /\ EOTypeOK
  /\ RecordsExist
  /\ StoreFits
  /\ SettledAreStored
  /\ HandledOnce
  /\ NothingSkipped
-----------------------------------------------------------------------------
\* A set of naturals that is not empty has a least element.
LEMMA HasLeast ==
  ASSUME NEW S \in SUBSET Nat, S # {}
  PROVE  \E x \in S : \A y \in S : x <= y
<1> DEFINE R == {ss \in Nat \X Nat : ss[1] < ss[2]}
<1>1. IsWellFoundedOn(R, Nat)
  <2>1. OpToRel(<, Nat) = R
    BY DEF OpToRel
  <2> QED
    BY <2>1, NatLessThanWellFounded
<1>2. PICK x \in S : \A y \in S : ~(<<y, x>> \in R)
  BY <1>1, WFMin
<1>3. ASSUME NEW y \in S PROVE x <= y
  <2>1. <<y, x>> \in Nat \X Nat /\ ~(<<y, x>> \in R)
    BY <1>2
  <2>2. ~(y < x)
    BY <2>1
  <2> QED
    BY <2>2
<1> QED
  BY <1>3

\* When it is bounded it has a greatest one.
LEMMA HasGreatest ==
  ASSUME NEW n \in Nat, NEW S \in SUBSET (0..n), S # {}
  PROVE  \E x \in S : \A y \in S : y <= x
<1> DEFINE D == {n - x : x \in S}
<1>1. D \in SUBSET Nat /\ D # {}
  <2>1. \A x \in S : n - x \in Nat
    OBVIOUS
  <2> QED
    BY <2>1
<1>2. PICK d \in D : \A y \in D : d <= y
  BY <1>1, HasLeast
<1>3. PICK m \in S : d = n - m
  BY <1>2
<1>4. ASSUME NEW y \in S PROVE y <= m
  <2>1. n - y \in D
    OBVIOUS
  <2>2. n - m <= n - y
    BY <1>2, <1>3, <2>1
  <2> QED
    BY <2>2
<1> QED
  BY <1>4

\* The sequence of some numbers in their order.
Ordered(s, S) ==
  s \in [1..Cardinality(S) -> S] /\ \A m, n \in 1..Cardinality(S) : m < n => s[m] < s[n]

\* Numbers of a finite range can be put in their order.
LEMMA OrderExists ==
  ASSUME NEW n \in Nat, NEW S \in SUBSET (1..n)
  PROVE  \E s : Ordered(s, S)
<1> SUFFICES ASSUME ~ \E s : Ordered(s, S) PROVE FALSE
  OBVIOUS
<1> DEFINE Bad(k) == \E T \in SUBSET (1..k) : ~ \E s : Ordered(s, T)
           B == {k \in Nat : Bad(k)}
<1>1. n \in B
  OBVIOUS
<1>2. PICK k \in Nat : k \in B /\ \A j \in B : k <= j
  <2>1. B \in SUBSET Nat /\ B # {}
    BY <1>1
  <2> HIDE DEF B
  <2> QED
    BY <2>1, HasLeast
<1>3. PICK T \in SUBSET (1..k) : ~ \E s : Ordered(s, T)
  BY <1>2
<1>4. k # 0
  <2>1. SUFFICES ASSUME k = 0 PROVE FALSE
    OBVIOUS
  <2>2. T = {}
    BY <2>1
  <2>4. Cardinality(T) = 0
    BY <2>2, FS_EmptySet
  <2>3. Ordered(<<>>, T)
    BY <2>2, <2>4 DEF Ordered
  <2> QED
    BY <1>3, <2>3
<1>5. k - 1 \in Nat /\ ~Bad(k - 1)
  <2>1. k - 1 \in Nat /\ ~(k <= k - 1)
    BY <1>4
  <2>2. k - 1 \notin B
    BY <1>2, <2>1
  <2> QED
    BY <2>1, <2>2
<1>6. CASE k \notin T
  <2>1. T \in SUBSET (1..(k - 1))
    BY <1>2, <1>6
  <2> QED
    BY <1>3, <1>5, <2>1
<1>7. CASE k \in T
  <2> DEFINE U == T \ {k}
  <2>1. U \in SUBSET (1..(k - 1))
    BY <1>2
  <2>2. PICK s : Ordered(s, U)
    BY <1>5, <2>1
  <2>3. IsFiniteSet(T)
    <3>1. IsFiniteSet(1..k)
      BY FS_Interval
    <3> QED
      BY <3>1, FS_Subset
  <2>4. Cardinality(U) \in Nat /\ Cardinality(T) = Cardinality(U) + 1
    <3>1. IsFiniteSet(U) /\ Cardinality(U) = Cardinality(T) - 1 /\ Cardinality(T) \in Nat
      BY <1>7, <2>3, FS_RemoveElement, FS_CardinalityType
    <3>2. Cardinality(U) \in Nat
      BY <3>1, FS_CardinalityType
    <3> QED
      BY <3>1, <3>2
  <2> DEFINE t == [m \in 1..Cardinality(T) |-> IF m = Cardinality(T) THEN k ELSE s[m]]
  <2>5. \A m \in 1..Cardinality(U) : s[m] \in U
    BY <2>2 DEF Ordered
  <2>6. t \in [1..Cardinality(T) -> T]
    BY <1>7, <2>4, <2>5
  <2>7. ASSUME NEW l \in 1..Cardinality(T), NEW m \in 1..Cardinality(T), l < m
        PROVE  t[l] < t[m]
    <3>1. l \in 1..Cardinality(U) /\ t[l] = s[l] /\ s[l] \in 1..(k - 1)
      <4>1. l \in 1..Cardinality(U)
        BY <2>4, <2>7
      <4>2. s[l] \in 1..(k - 1)
        BY <2>1, <2>5, <4>1
      <4>3. l # Cardinality(T)
        BY <2>4, <2>7
      <4> QED
        BY <4>1, <4>2, <4>3
    <3>2. CASE m = Cardinality(T)
      BY <1>2, <3>1, <3>2
    <3>3. CASE m # Cardinality(T)
      <4>1. m \in 1..Cardinality(U) /\ t[m] = s[m]
        BY <2>4, <3>3
      <4> QED
        BY <2>2, <2>7, <3>1, <4>1 DEF Ordered
    <3> QED
      BY <3>2, <3>3
  <2>8. Ordered(t, T)
    BY <2>6, <2>7 DEF Ordered
  <2> QED
    BY <1>3, <2>8
<1> QED
  BY <1>6, <1>7

\* The messages some records are of.
IsRecords(offsets) == offsets \in Seq(Offsets) /\ \A n \in DOMAIN offsets : offsets[n] \in DOMAIN source

\* Records of messages have ids.
LEMMA IdsAreIds ==
  ASSUME EOTypeOK, NEW offsets, IsRecords(offsets)
  PROVE  /\ IdsOf(offsets) \subseteq Ids
         /\ \A i : i \in IdsOf(offsets) <=> \E n \in 1..Len(offsets) : source[offsets[n]] = i
<1>1. DOMAIN offsets = 1..Len(offsets)
  BY DEF IsRecords
<1>2. \A n \in DOMAIN offsets : source[offsets[n]] \in Ids
  BY DEF IsRecords, EOTypeOK
<1> QED
  BY <1>1, <1>2 DEF IdsOf

\* The ids of one record more.
LEMMA IdsOfMore ==
  ASSUME EOTypeOK, NEW offsets, IsRecords(offsets), NEW o \in DOMAIN source
  PROVE  /\ IsRecords(Append(offsets, o))
         /\ IdsOf(Append(offsets, o)) = IdsOf(offsets) \cup {source[o]}
<1>1. /\ offsets \in Seq(Offsets) /\ DOMAIN source = 1..Len(source)
      /\ o \in Offsets
  BY IdsAssumption, SizesAssumption, BoundAssumption DEF IsRecords, EOTypeOK, Offsets
<1>2. /\ Append(offsets, o) \in Seq(Offsets)
      /\ Len(Append(offsets, o)) = Len(offsets) + 1
      /\ Len(offsets) \in Nat
      /\ \A n \in 1..Len(offsets) : Append(offsets, o)[n] = offsets[n]
      /\ Append(offsets, o)[Len(offsets) + 1] = o
  BY <1>1
<1>3. DOMAIN Append(offsets, o) = 1..(Len(offsets) + 1) /\ DOMAIN offsets = 1..Len(offsets)
  BY <1>1, <1>2
<1>4. IsRecords(Append(offsets, o))
  BY <1>2, <1>3 DEF IsRecords
<1>5. IdsOf(Append(offsets, o)) \subseteq IdsOf(offsets) \cup {source[o]}
  BY <1>2, <1>3 DEF IdsOf
<1>6. ASSUME NEW i \in IdsOf(offsets) PROVE i \in IdsOf(Append(offsets, o))
  BY <1>2, <1>3, <1>6 DEF IdsOf
<1>7. source[o] \in IdsOf(Append(offsets, o))
  <2>1. Len(offsets) + 1 \in DOMAIN Append(offsets, o)
    BY <1>2, <1>3
  <2> QED
    BY <1>2, <2>1 DEF IdsOf
<1> QED
  BY <1>4, <1>5, <1>6, <1>7

\* put_batch keeps what is in the store, adds ids of the records, all of them when they
\* fit, and never more than there is room for.
LEMMA StoreTakes ==
  ASSUME EOTypeOK, StoreFits, NEW offsets, IsRecords(offsets)
  PROVE  /\ dedup \subseteq Stored(offsets)
         /\ Stored(offsets) \subseteq dedup \cup IdsOf(offsets)
         /\ Cardinality(Stored(offsets)) <= MaxDedup
         /\ Fits(offsets) => Stored(offsets) = dedup \cup IdsOf(offsets)
<1>1. offsets \in Seq(Offsets) /\ Len(offsets) \in Nat /\ DOMAIN offsets = 1..Len(offsets)
  BY DEF IsRecords
<1>2. ASSUME NEW n \in 0..Len(offsets)
      PROVE  IdsOf(SubSeq(offsets, 1, n)) \subseteq IdsOf(offsets)
  <2>1. \A m \in DOMAIN SubSeq(offsets, 1, n) : m \in DOMAIN offsets /\ SubSeq(offsets, 1, n)[m] = offsets[m]
    BY <1>1
  <2> QED
    BY <2>1 DEF IdsOf
<1>3. SubSeq(offsets, 1, Len(offsets)) = offsets
  BY <1>1
<1>4. 0 \in Fitting(offsets)
  <2>1. SubSeq(offsets, 1, 0) = <<>>
    BY <1>1
  <2>2. IdsOf(<<>>) = {}
    BY DEF IdsOf
  <2>3. dedup \cup IdsOf(SubSeq(offsets, 1, 0)) = dedup
    BY <2>1, <2>2
  <2> QED
    <3>1. Cardinality(dedup \cup IdsOf(SubSeq(offsets, 1, 0))) <= MaxDedup
      BY <2>3 DEF StoreFits
    <3>2. 0 \in 0..Len(offsets)
      BY <1>1
    <3> QED
      BY <3>1, <3>2 DEF Fitting
<1>5. \E n \in Fitting(offsets) : \A m \in Fitting(offsets) : m <= n
  BY <1>1, <1>4, HasGreatest DEF Fitting
<1> DEFINE last == CHOOSE n \in Fitting(offsets) : \A m \in Fitting(offsets) : m <= n
<1>6. last \in Fitting(offsets) /\ \A m \in Fitting(offsets) : m <= last
  BY <1>5
<1>7. Stored(offsets) = dedup \cup IdsOf(SubSeq(offsets, 1, last))
  BY DEF Stored
<1> HIDE DEF last
<1>8. last \in 0..Len(offsets) /\ Cardinality(Stored(offsets)) <= MaxDedup
  BY <1>6, <1>7 DEF Fitting
<1>9. ASSUME Fits(offsets) PROVE last = Len(offsets)
  <2>1. last \in Nat /\ Len(offsets) \in Nat /\ last <= Len(offsets)
    BY <1>1, <1>8
  <2>2. Len(offsets) <= last
    BY <1>6, <1>9 DEF Fits
  <2> QED
    BY <2>1, <2>2
<1> QED
  BY <1>2, <1>3, <1>7, <1>8, <1>9

\* The successful commit of some records takes them all, any other takes some.
LEMMA CommitTakes ==
  ASSUME EOTypeOK, StoreFits, SettledAreStored, NEW offsets, IsRecords(offsets),
         NEW target, NEW outcome, CommitBatch(offsets, target, outcome)
  PROVE  /\ dedup \subseteq dedup' /\ dedup' \subseteq dedup \cup IdsOf(offsets)
         /\ dedup' \subseteq Ids
         /\ StoreFits' /\ SettledAreStored' /\ settled' \subseteq Ids
         /\ faults' \in 0..MaxFaults
         /\ Succeeds(offsets, outcome) =>
              dedup' = dedup \cup IdsOf(offsets) /\ committed' = target
         /\ ~Succeeds(offsets, outcome) => committed' = committed
<1>1. IdsOf(offsets) \subseteq Ids
  BY IdsAreIds
<1>2. dedup' = dedup \/ dedup' = Stored(offsets)
  BY DEF CommitBatch
<1>3. Succeeds(offsets, outcome) => dedup' = dedup \cup IdsOf(offsets)
  BY StoreTakes DEF CommitBatch, Succeeds
<1>4. /\ dedup \subseteq dedup' /\ dedup' \subseteq dedup \cup IdsOf(offsets)
      /\ Cardinality(dedup') <= MaxDedup
  BY <1>2, StoreTakes DEF StoreFits
<1>5. CASE Succeeds(offsets, outcome)
  BY <1>1, <1>3, <1>4, <1>5 DEF CommitBatch, SettledAreStored, StoreFits, EOTypeOK
<1>6. CASE ~Succeeds(offsets, outcome)
  <2>1. faults < MaxFaults /\ faults' = faults + 1 /\ UNCHANGED <<committed, settled>>
    BY <1>6 DEF CommitBatch
  <2>2. faults' \in 0..MaxFaults
    BY <2>1, IdsAssumption, SizesAssumption, BoundAssumption DEF EOTypeOK
  <2> QED
    BY <1>1, <1>4, <1>6, <2>1, <2>2 DEF SettledAreStored, StoreFits, EOTypeOK
<1> QED
  BY <1>5, <1>6

\* The records of a replay are of unknown messages of its range.
LEMMA ReplayedAreNew ==
  ASSUME EOTypeOK, NEW first \in Offsets, NEW last \in Offsets, last <= Len(source)
  PROVE  LET records == Replayed(first, last)
         IN /\ IsRecords(records)
            /\ \A i \in IdsOf(records) : ~Known(i)
            /\ records # <<>> => records[Len(records)] \in 1..Len(source)
<1> DEFINE S == NewIn(first, last)
           records == Replayed(first, last)
<1>1. /\ last \in Nat /\ S \in SUBSET (1..last) /\ 1..last \subseteq Offsets
      /\ 1..last \subseteq DOMAIN source /\ DOMAIN source = 1..Len(source)
  BY IdsAssumption, SizesAssumption, BoundAssumption DEF NewIn, Offsets, EOTypeOK
<1>2. \E s : Ordered(s, S)
  BY <1>1, OrderExists
<1>3. records \in [1..Cardinality(S) -> S]
  BY <1>2 DEF Replayed, InOrder, Ordered
<1>4. Cardinality(S) \in Nat
  <2>1. IsFiniteSet(1..last)
    BY <1>1, FS_Interval
  <2> QED
    BY <1>1, <2>1, FS_Subset, FS_CardinalityType
<1>5. records \in Seq(Offsets) /\ Len(records) = Cardinality(S) /\ DOMAIN records = 1..Cardinality(S)
  BY <1>1, <1>3, <1>4
<1>6. \A n \in DOMAIN records : records[n] \in S
  BY <1>3
<1>7. IsRecords(records)
  BY <1>1, <1>5, <1>6 DEF IsRecords
<1>8. \A i \in IdsOf(records) : ~Known(i)
  <2>1. \A o \in S : ~Known(source[o])
    BY DEF NewIn
  <2> QED
    BY <1>6, <2>1 DEF IdsOf
<1>9. ASSUME records # <<>> PROVE records[Len(records)] \in 1..Len(source)
  <2>1. Len(records) \in DOMAIN records
    BY <1>4, <1>5, <1>9
  <2> QED
    BY <1>1, <1>6, <2>1
<1> QED
  BY <1>7, <1>8, <1>9
-----------------------------------------------------------------------------
\* What a step does to the histories that handles the messages H and loses the records
\* of the messages L: only unknown messages are handled, only what is not known afterwards
\* has lost its record, and everything else is as well known as it was.
Handles(H, L) ==
  /\ source' = source
  /\ H \subseteq Ids /\ \A i \in H : ~Known(i)
  /\ L \subseteq Ids /\ \A i \in L : ~Known(i)'
  /\ Handle(H) /\ Lose(L)
  /\ \A i \in Ids : Known(i) \/ i \in H <=> Known(i)' \/ i \in L
  /\ skipped \subseteq skipped'
  /\ current' \in 0..Len(source)
  /\ \A n \in 1..current' : \/ n \in 1..current
                            \/ n \in skipped'
                            \/ Known(source[n]) \/ source[n] \in H

\* No message of a settled batch is handled.
NoneRepeated == \A i \in settled : handled'[i] <= handled[i]

\* A message with a record has been handled.
LEMMA KnownAreHandled ==
  ASSUME EOInv, NEW i \in Ids, Known(i)
  PROVE  handled[i] >= 1
<1>1. handled[i] = lost[i] + 1 /\ lost[i] \in Nat
  BY DEF EOInv, EOTypeOK, HandledOnce, Known
<1> QED
  BY <1>1

\* Such a step keeps the balance of handled messages, records and losses.
LEMMA BalanceStep ==
  ASSUME EOInv, NEW H, NEW L, Handles(H, L)
  PROVE  handled' \in [Ids -> Nat] /\ lost' \in [Ids -> Nat] /\ HandledOnce'
<1>1. handled \in [Ids -> Nat] /\ lost \in [Ids -> Nat]
  BY DEF EOInv, EOTypeOK
<1>2. /\ handled' \in [Ids -> Nat] /\ lost' \in [Ids -> Nat]
      /\ \A i \in Ids : handled'[i] = IF i \in H THEN handled[i] + 1 ELSE handled[i]
      /\ \A i \in Ids : lost'[i] = IF i \in L THEN lost[i] + 1 ELSE lost[i]
  BY <1>1 DEF Handles, Handle, Lose, CountedOnce
<1>3. ASSUME NEW i \in Ids
      PROVE  handled'[i] = lost'[i] + IF Known(i)' THEN 1 ELSE 0
  <2>1. handled[i] = lost[i] + IF Known(i) THEN 1 ELSE 0
    BY DEF EOInv, HandledOnce, Known
  <2>2. /\ i \in H => ~Known(i)
        /\ i \in L => ~Known(i)'
        /\ Known(i) \/ i \in H <=> Known(i)' \/ i \in L
    BY DEF Handles
  <2>3. handled[i] \in Nat /\ lost[i] \in Nat
    BY <1>1
  <2> QED
    BY <1>2, <2>1, <2>2, <2>3
<1> QED
  BY <1>2, <1>3 DEF HandledOnce, Known

\* It passes over no message, and handles none that is settled.
LEMMA HistoryStep ==
  ASSUME EOInv, NEW H, NEW L, Handles(H, L)
  PROVE  NothingSkipped' /\ NoneRepeated
<1>1. /\ source \in Seq(Ids) /\ current \in 0..Len(source) /\ Len(source) \in Nat
      /\ \A n \in 1..Len(source) : source[n] \in Ids
  BY DEF EOInv, EOTypeOK
<1>2. /\ handled \in [Ids -> Nat]
      /\ \A i \in Ids : handled'[i] = IF i \in H THEN handled[i] + 1 ELSE handled[i]
  BY DEF EOInv, EOTypeOK, Handles, Handle, CountedOnce
<1>3. ASSUME NEW n \in (1..current') \ skipped' PROVE handled'[source[n]] >= 1
  <2>1. source[n] \in Ids
    BY <1>1 DEF Handles
  <2>2. CASE n \in 1..current
    <3>1. n \notin skipped
      BY DEF Handles
    <3>2. handled[source[n]] >= 1
      BY <2>2, <3>1 DEF EOInv, NothingSkipped
    <3> QED
      BY <1>2, <2>1, <3>2
  <2>3. CASE Known(source[n])
    <3>1. handled[source[n]] >= 1
      BY <2>1, <2>3, KnownAreHandled
    <3> QED
      BY <1>2, <2>1, <3>1
  <2>4. CASE source[n] \in H
    BY <1>2, <2>1, <2>4
  <2> QED
    BY <2>2, <2>3, <2>4 DEF Handles
<1>4. ASSUME NEW i \in settled PROVE handled'[i] <= handled[i]
  <2>1. i \in Ids /\ Known(i)
    BY DEF EOInv, EOTypeOK, SettledAreStored, Known
  <2>2. i \notin H
    BY <2>1 DEF Handles
  <2> QED
    BY <1>2, <2>1, <2>2
<1> QED
  BY <1>3, <1>4 DEF NothingSkipped, NoneRepeated, Handles

\* What has to be shown of a step beside what it does to the histories.
StoresKept ==
  /\ dedup' \subseteq Ids /\ settled' \subseteq Ids
  /\ committed' \in 0..Len(source')
  /\ uncommitted' \in Seq(Offsets)
  /\ skipped' \subseteq Offsets
  /\ faults' \in 0..MaxFaults
  /\ RecordsExist' /\ StoreFits' /\ SettledAreStored'

\* So it keeps the whole invariant when the stores do.
LEMMA StepHolds ==
  ASSUME EOInv, NEW H, NEW L, Handles(H, L), StoresKept
  PROVE  EOInv' /\ NoneRepeated
<1>1. /\ handled' \in [Ids -> Nat] /\ lost' \in [Ids -> Nat]
      /\ HandledOnce' /\ NothingSkipped' /\ NoneRepeated
  BY BalanceStep, HistoryStep
<1>2. source' = source /\ current' \in 0..Len(source)
  BY DEF Handles
<1>3. EOTypeOK'
  BY <1>1, <1>2 DEF EOInv, EOTypeOK, StoresKept
<1> QED
  BY <1>1, <1>3 DEF EOInv, StoresKept

\* Counting nothing changes no count.
LEMMA NothingCounted ==
  ASSUME EOInv
  PROVE  /\ handled' = handled => Handle({})
         /\ lost' = lost => Lose({})
BY DEF EOInv, EOTypeOK, Handle, Lose, CountedOnce

\* A checkpoint that is committed by a call handles and loses nothing.
LEMMA CheckpointStep ==
  ASSUME EOInv, NEW outcome, CommitCheckpoint(outcome)
  PROVE  EOInv' /\ NoneRepeated
<1> DEFINE target == uncommitted[Len(uncommitted)]
<1>1. /\ CommitBatch(uncommitted, target, outcome)
      /\ uncommitted' = IF Succeeds(uncommitted, outcome) THEN <<>> ELSE uncommitted
      /\ UNCHANGED <<source, current, handled, lost, skipped>> /\ uncommitted # <<>>
  BY DEF CommitCheckpoint
<1>2. IsRecords(uncommitted)
  BY DEF EOInv, EOTypeOK, RecordsExist, IsRecords
<1>3. target \in 1..Len(source)
  <2>1. Len(uncommitted) \in DOMAIN uncommitted
    BY <1>1 DEF EOInv, EOTypeOK
  <2> QED
    BY <2>1 DEF EOInv, EOTypeOK, RecordsExist
<1> HIDE DEF target
<1>4. /\ dedup \subseteq dedup' /\ dedup' \subseteq dedup \cup IdsOf(uncommitted)
      /\ dedup' \subseteq Ids
      /\ StoreFits' /\ SettledAreStored' /\ settled' \subseteq Ids
      /\ faults' \in 0..MaxFaults
      /\ Succeeds(uncommitted, outcome) =>
           dedup' = dedup \cup IdsOf(uncommitted) /\ committed' = target
      /\ ~Succeeds(uncommitted, outcome) => committed' = committed
  BY <1>1, <1>2, CommitTakes DEF EOInv
<1>5. \A i \in Ids : Known(i)' <=> Known(i)
  <2>1. CASE Succeeds(uncommitted, outcome)
    BY <1>1, <1>4, <2>1 DEF Known, IdsOf
  <2>2. CASE ~Succeeds(uncommitted, outcome)
    BY <1>1, <1>4, <2>2 DEF Known, IdsOf
  <2> QED
    BY <2>1, <2>2
<1>6. Handles({}, {})
  BY <1>1, <1>5, NothingCounted DEF Handles, EOInv, EOTypeOK
<1>7. StoresKept
  <2>1. uncommitted' \in Seq(Offsets) /\ RecordsExist'
    BY <1>1 DEF EOInv, EOTypeOK, RecordsExist
  <2>2. committed' \in 0..Len(source') /\ skipped' \subseteq Offsets
    BY <1>1, <1>3, <1>4 DEF EOInv, EOTypeOK
  <2> QED
    BY <1>4, <2>1, <2>2 DEF StoresKept
<1> QED
  BY <1>6, <1>7, StepHolds

\* Skipping a duplicate handles nothing.
LEMMA SkipStep == ASSUME EOInv, SkipDuplicate PROVE EOInv' /\ NoneRepeated
<1>1. /\ current < Len(source) /\ Known(source[current + 1]) /\ current' = current + 1
      /\ UNCHANGED <<source, uncommitted, handled, lost, skipped, dedup, committed, settled, faults>>
  BY DEF SkipDuplicate, Passed, NoCommit
<1>2. \A i \in Ids : Known(i)' <=> Known(i)
  BY <1>1 DEF Known, IdsOf
<1>3. /\ current' \in 0..Len(source)
      /\ \A n \in 1..current' : n \in 1..current \/ n = current + 1
  BY <1>1 DEF EOInv, EOTypeOK
<1>4. Handles({}, {})
  BY <1>1, <1>2, <1>3, NothingCounted DEF Handles
<1>5. StoresKept
  BY <1>1 DEF StoresKept, EOInv, EOTypeOK, RecordsExist, StoreFits, SettledAreStored
<1> QED
  BY <1>4, <1>5, StepHolds

\* A message that is not committed at once joins those that wait.
LEMMA WaitStep ==
  ASSUME EOInv, NEW offset \in DOMAIN source, ~Known(source[offset]), Handle({source[offset]}),
         uncommitted' = Append(uncommitted, offset), UNCHANGED <<source, lost, skipped>>, NoCommit,
         \/ current' = current
         \/ current' = current + 1 /\ offset = current + 1
  PROVE  EOInv' /\ NoneRepeated
<1>1. source[offset] \in Ids /\ DOMAIN source = 1..Len(source) /\ Len(source) \in Nat
  BY DEF EOInv, EOTypeOK
<1>2. /\ IsRecords(uncommitted') /\ IdsOf(uncommitted') = IdsOf(uncommitted) \cup {source[offset]}
  BY IdsOfMore DEF EOInv, EOTypeOK, RecordsExist, IsRecords
<1>3. \A i \in Ids : Known(i)' <=> Known(i) \/ i = source[offset]
  BY <1>2 DEF NoCommit, Known, IdsOf
<1>4. /\ current' \in 0..Len(source)
      /\ \A n \in 1..current' : n \in 1..current \/ n = offset
  BY <1>1 DEF EOInv, EOTypeOK
<1>5. Handles({source[offset]}, {})
  BY <1>1, <1>3, <1>4, NothingCounted DEF Handles
<1>6. StoresKept
  BY <1>2 DEF StoresKept, NoCommit, IsRecords, EOInv, EOTypeOK, RecordsExist, StoreFits,
              SettledAreStored
<1> QED
  BY <1>5, <1>6, StepHolds

\* A message that completes a batch is committed with those that wait.  When that fails
\* it has lost its record, unless the store took it.
LEMMA BatchStep ==
  ASSUME EOInv, NEW outcome, NEW offset \in DOMAIN source, offset = current + 1,
         ~Known(source[offset]), Handle({source[offset]}), UNCHANGED <<source, skipped>>,
         CommitBatch(Append(uncommitted, offset), offset, outcome),
         uncommitted' = IF Succeeds(Append(uncommitted, offset), outcome) THEN <<>> ELSE uncommitted,
         current' = IF Succeeds(Append(uncommitted, offset), outcome) THEN offset ELSE current,
         Lose(IF Succeeds(Append(uncommitted, offset), outcome)
              THEN {} ELSE {source[offset]} \ dedup')
  PROVE  EOInv' /\ NoneRepeated
<1> DEFINE records == Append(uncommitted, offset)
<1>1. /\ source[offset] \in Ids /\ offset \in 1..Len(source) /\ Len(source) \in Nat
      /\ current \in Nat /\ offset \in Nat /\ committed \in Nat
  BY DEF EOInv, EOTypeOK
<1>2. /\ IsRecords(uncommitted)
      /\ IsRecords(records) /\ IdsOf(records) = IdsOf(uncommitted) \cup {source[offset]}
  BY IdsOfMore DEF EOInv, EOTypeOK, RecordsExist, IsRecords
<1>3. /\ dedup \subseteq dedup' /\ dedup' \subseteq dedup \cup IdsOf(records)
      /\ dedup' \subseteq Ids
      /\ StoreFits' /\ SettledAreStored' /\ settled' \subseteq Ids
      /\ faults' \in 0..MaxFaults
      /\ Succeeds(records, outcome) =>
           dedup' = dedup \cup IdsOf(records) /\ committed' = offset
      /\ ~Succeeds(records, outcome) => committed' = committed
  BY <1>2, CommitTakes DEF EOInv
<1> HIDE DEF records
<1>4. CASE Succeeds(records, outcome)
  <2>1. /\ uncommitted' = <<>> /\ current' = offset /\ IdsOf(uncommitted)' = {}
        /\ Lose({})
    BY <1>4 DEF records, IdsOf
  <2>2. \A i \in Ids : Known(i)' <=> Known(i) \/ i = source[offset]
    BY <1>2, <1>3, <1>4, <2>1 DEF Known
  <2>3. \A n \in 1..current' : n \in 1..current \/ n = offset
    BY <1>1, <2>1
  <2>4. Handles({source[offset]}, {})
    BY <1>1, <2>1, <2>2, <2>3 DEF Handles
  <2>5. RecordsExist' /\ uncommitted' \in Seq(Offsets)
    BY <2>1 DEF RecordsExist
  <2>6. StoresKept
    BY <1>1, <1>3, <1>4, <2>5 DEF StoresKept, EOInv, EOTypeOK
  <2> QED
    BY <2>4, <2>6, StepHolds
<1>5. CASE ~Succeeds(records, outcome)
  <2>1. /\ uncommitted' = uncommitted /\ current' = current
        /\ IdsOf(uncommitted)' = IdsOf(uncommitted)
        /\ Lose({source[offset]} \ dedup')
    BY <1>5 DEF records, IdsOf
  <2>2. \A i \in Ids : Known(i)' <=> Known(i) \/ (i = source[offset] /\ i \in dedup')
    BY <1>2, <1>3, <2>1 DEF Known
  <2>3. current \in 0..Len(source)
    BY DEF EOInv, EOTypeOK
  <2>4. Handles({source[offset]}, {source[offset]} \ dedup')
    BY <1>1, <2>1, <2>2, <2>3 DEF Handles
  <2>5. RecordsExist' /\ uncommitted' \in Seq(Offsets)
    BY <2>1 DEF RecordsExist, EOInv, EOTypeOK
  <2>6. StoresKept
    BY <1>1, <1>3, <1>5, <2>5 DEF StoresKept, EOInv, EOTypeOK
  <2> QED
    BY <2>4, <2>6, StepHolds
<1> QED
  BY <1>4, <1>5

\* Processing a message keeps the invariant, with and without a commit.
LEMMA ProcessStep == ASSUME EOInv, NEW outcome, ProcessNew(outcome) PROVE EOInv' /\ NoneRepeated
<1> DEFINE offset == current + 1
           records == Append(uncommitted, offset)
<1>1. /\ current < Len(source) /\ UNCHANGED <<source, skipped>>
      /\ ~Known(source[offset]) /\ Handle({source[offset]})
  BY DEF ProcessNew
<1>2. offset \in DOMAIN source
  BY <1>1 DEF EOInv, EOTypeOK
<1>3. CASE Len(records) >= Interval /\ Advances(offset)
  <2>1. /\ CommitBatch(records, offset, outcome)
        /\ uncommitted' = IF Succeeds(records, outcome) THEN <<>> ELSE uncommitted
        /\ current' = IF Succeeds(records, outcome) THEN offset ELSE current
        /\ Lose(IF Succeeds(records, outcome) THEN {} ELSE {source[offset]} \ dedup')
    BY <1>3 DEF ProcessNew
  <2> QED
    BY <1>1, <1>2, <2>1, BatchStep
<1>4. CASE ~(Len(records) >= Interval /\ Advances(offset))
  <2>1. uncommitted' = records /\ current' = offset /\ NoCommit /\ UNCHANGED lost
    BY <1>4 DEF ProcessNew
  <2> QED
    BY <1>1, <1>2, <2>1, WaitStep
<1> QED
  BY <1>3, <1>4

\* So does random access.
LEMMA ProcessAtStep ==
  ASSUME EOInv, NEW offset, ProcessMessageAt(offset) PROVE EOInv' /\ NoneRepeated
BY WaitStep DEF ProcessMessageAt

\* A replay handles the messages of its range that are unknown, and commits its own records.
LEMMA ReplayStep ==
  ASSUME EOInv, NEW first \in Offsets, NEW last \in Offsets, NEW outcome,
         ReplayRange(first, last, outcome)
  PROVE  EOInv' /\ NoneRepeated
<1> DEFINE records == Replayed(first, last)
           target == records[Len(records)]
           H == IdsOf(records)
<1>1. /\ last <= Len(source) /\ records # <<>> /\ Handle(H)
      /\ UNCHANGED <<source, current, uncommitted, skipped>>
  BY DEF ReplayRange
<1>2. IsRecords(records) /\ (\A i \in H : ~Known(i)) /\ target \in 1..Len(source)
  BY <1>1, ReplayedAreNew DEF EOInv
<1>3. H \subseteq Ids
  BY <1>2, IdsAreIds DEF EOInv
<1>4. /\ dedup \subseteq dedup' /\ dedup' \subseteq dedup \cup H /\ dedup' \subseteq Ids
      /\ StoreFits' /\ SettledAreStored' /\ settled' \subseteq Ids
      /\ faults' \in 0..MaxFaults /\ committed' \in 0..Len(source)
      /\ Lose(H \ dedup')
  <2>1. CASE Advances(target)
    <3>1. /\ CommitBatch(records, target, outcome)
          /\ Lose(IF Succeeds(records, outcome) THEN {} ELSE H \ dedup')
      BY <2>1 DEF ReplayRange
    <3>2. /\ dedup \subseteq dedup' /\ dedup' \subseteq dedup \cup H /\ dedup' \subseteq Ids
          /\ StoreFits' /\ SettledAreStored' /\ settled' \subseteq Ids
          /\ faults' \in 0..MaxFaults
          /\ Succeeds(records, outcome) => dedup' = dedup \cup H /\ committed' = target
          /\ ~Succeeds(records, outcome) => committed' = committed
      BY <1>2, <3>1, CommitTakes DEF EOInv
    <3>3. committed \in 0..Len(source) /\ target \in 0..Len(source)
      BY <1>2 DEF EOInv, EOTypeOK
    <3>4. Succeeds(records, outcome) => H \ dedup' = {}
      BY <3>2
    <3> QED
      BY <3>1, <3>2, <3>3, <3>4
  <2>2. CASE ~Advances(target)
    <3>1. /\ dedup' = Stored(records)
          /\ faults < MaxFaults \/ Fits(records)
          /\ faults' = IF Fits(records) THEN faults ELSE faults + 1
          /\ settled' = settled \cup IF Fits(records) THEN H ELSE {}
          /\ Lose(IF Fits(records) THEN {} ELSE H \ dedup')
          /\ UNCHANGED committed
      BY <2>2 DEF ReplayRange
    <3>2. /\ dedup \subseteq dedup' /\ dedup' \subseteq dedup \cup H
          /\ Cardinality(dedup') <= MaxDedup
          /\ Fits(records) => dedup' = dedup \cup H
      BY <1>2, <3>1, StoreTakes DEF EOInv
    <3>3. faults' \in 0..MaxFaults
      BY <3>1, BoundAssumption DEF EOInv, EOTypeOK
    <3>4. SettledAreStored' /\ settled' \subseteq Ids
      BY <1>3, <3>1, <3>2 DEF EOInv, EOTypeOK, SettledAreStored
    <3>5. Fits(records) => H \ dedup' = {}
      BY <3>2
    <3> QED
      BY <1>3, <3>1, <3>2, <3>3, <3>4, <3>5 DEF EOInv, EOTypeOK, StoreFits
  <2> QED
    BY <2>1, <2>2
<1> HIDE DEF H
<1>5. \A i \in Ids : Known(i)' <=> i \in dedup' \/ i \in IdsOf(uncommitted)
  BY <1>1 DEF Known, IdsOf
<1>6. \A i \in Ids : Known(i) <=> i \in dedup \/ i \in IdsOf(uncommitted)
  BY DEF Known
<1>7. Handles(H, H \ dedup')
  <2>1. \A i \in H \ dedup' : ~Known(i)'
    BY <1>2, <1>3, <1>5, <1>6
  <2>2. \A i \in Ids : Known(i) \/ i \in H <=> Known(i)' \/ i \in H \ dedup'
    BY <1>4, <1>5, <1>6
  <2>3. current' \in 0..Len(source) /\ current' = current
    BY <1>1 DEF EOInv, EOTypeOK
  <2> QED
    BY <1>1, <1>2, <1>3, <1>4, <2>1, <2>2, <2>3 DEF Handles
<1>8. StoresKept
  BY <1>1, <1>4 DEF StoresKept, EOInv, EOTypeOK, RecordsExist
<1> QED
  BY <1>7, <1>8, StepHolds

\* A replay whose handler raises handles some messages, and loses the records of them all.
LEMMA RaiseStep ==
  ASSUME EOInv, NEW first \in Offsets, NEW raising \in Offsets, ReplayRaises(first, raising)
  PROVE  EOInv' /\ NoneRepeated
<1> DEFINE H == {source[o] : o \in NewIn(first, raising - 1)}
<1>1. /\ raising <= Len(source) /\ faults < MaxFaults /\ faults' = faults + 1
      /\ Handle(H) /\ Lose(H)
      /\ UNCHANGED <<source, dedup, committed, current, uncommitted, settled, skipped>>
  BY DEF ReplayRaises
<1>2. H \subseteq Ids /\ \A i \in H : ~Known(i)
  <2>1. \A o \in NewIn(first, raising - 1) : o \in 1..Len(source) /\ ~Known(source[o])
    BY <1>1, BoundAssumption DEF NewIn, Offsets, EOInv, EOTypeOK
  <2>2. \A o \in 1..Len(source) : source[o] \in Ids
    BY DEF EOInv, EOTypeOK
  <2> QED
    BY <2>1, <2>2
<1> HIDE DEF H
<1>3. \A i \in Ids : Known(i)' <=> Known(i)
  BY <1>1 DEF Known, IdsOf
<1>4. Handles(H, H)
  BY <1>1, <1>2, <1>3 DEF Handles, EOInv, EOTypeOK
<1>5. StoresKept
  <2>1. faults' \in 0..MaxFaults
    BY <1>1, BoundAssumption DEF EOInv, EOTypeOK
  <2> QED
    BY <1>1, <2>1 DEF StoresKept, EOInv, EOTypeOK, RecordsExist, StoreFits, SettledAreStored
<1> QED
  BY <1>4, <1>5, StepHolds

\* An evicted record is lost and no longer settled, unless a copy of it waits to be
\* committed again.
LEMMA EvictStep == ASSUME EOInv, NEW i \in Ids, Evict(i) PROVE EOInv' /\ NoneRepeated
<1>1. /\ i \in dedup /\ faults < MaxFaults /\ faults' = faults + 1
      /\ dedup' = dedup \ {i} /\ settled' = settled \ {i}
      /\ Lose({i} \ IdsOf(uncommitted))
      /\ UNCHANGED <<source, committed, current, uncommitted, handled, skipped>>
  BY DEF Evict
<1>2. Cardinality(dedup') <= MaxDedup
  <2>1. IsFiniteSet(dedup)
    BY FS_Subset, IdsAssumption DEF EOInv, EOTypeOK
  <2>2. Cardinality(dedup') = Cardinality(dedup) - 1 /\ Cardinality(dedup) \in Nat
    BY <1>1, <2>1, FS_RemoveElement, FS_CardinalityType
  <2> QED
    BY <2>2, SizesAssumption DEF EOInv, StoreFits
<1>3. faults' \in 0..MaxFaults
  BY <1>1, BoundAssumption DEF EOInv, EOTypeOK
<1>4. /\ \A j \in Ids : Known(j)' <=> j \in dedup' \/ j \in IdsOf(uncommitted)
      /\ \A j \in Ids : Known(j) <=> j \in dedup \/ j \in IdsOf(uncommitted)
  BY <1>1 DEF Known, IdsOf
<1>5. Handles({}, {i} \ IdsOf(uncommitted))
  <2>1. Handle({})
    BY <1>1, NothingCounted
  <2>2. current' \in 0..Len(source) /\ current' = current
    BY <1>1 DEF EOInv, EOTypeOK
  <2>3. \A j \in {i} \ IdsOf(uncommitted) : ~Known(j)'
    BY <1>1, <1>4
  <2>4. \A j \in Ids : Known(j) <=> Known(j)' \/ j \in {i} \ IdsOf(uncommitted)
    BY <1>1, <1>4
  <2> QED
    BY <1>1, <2>1, <2>2, <2>3, <2>4 DEF Handles
<1>6. StoresKept
  BY <1>1, <1>2, <1>3
  DEF StoresKept, EOInv, EOTypeOK, RecordsExist, StoreFits, SettledAreStored
<1> QED
  BY <1>5, <1>6, StepHolds

\* A recovery stands at the checkpoint: what waited has lost its record, and what lies
\* between where the processor was and the checkpoint is gone past.
LEMMA CrashStep == ASSUME EOInv, CrashAndRecover PROVE EOInv' /\ NoneRepeated
<1>1. /\ faults < MaxFaults /\ faults' = faults + 1 /\ current' = committed
      /\ uncommitted' = <<>> /\ skipped' = skipped \cup (current + 1)..committed
      /\ Lose(IdsOf(uncommitted) \ dedup)
      /\ UNCHANGED <<source, dedup, committed, handled, settled>>
  BY DEF CrashAndRecover, Kept, Recovered
<1>2. faults' \in 0..MaxFaults
  BY <1>1, BoundAssumption DEF EOInv, EOTypeOK
<1>3. IdsOf(uncommitted)' = {} /\ IdsOf(uncommitted) \subseteq Ids
  <2>1. IsRecords(uncommitted)
    BY DEF EOInv, EOTypeOK, RecordsExist, IsRecords
  <2> QED
    BY <1>1, <2>1, IdsAreIds DEF IdsOf, EOInv
<1>4. /\ \A j \in Ids : Known(j)' <=> j \in dedup
      /\ \A j \in Ids : Known(j) <=> j \in dedup \/ j \in IdsOf(uncommitted)
  BY <1>1, <1>3 DEF Known
<1>5. /\ current \in Nat /\ committed \in 0..Len(source) /\ Len(source) \in Nat
      /\ Len(source) <= MaxMessages
  BY DEF EOInv, EOTypeOK
<1>6. Handles({}, IdsOf(uncommitted) \ dedup)
  <2>1. Handle({})
    BY <1>1, NothingCounted
  <2>2. \A n \in 1..current' : n \in 1..current \/ n \in skipped'
    BY <1>1, <1>5
  <2>3. \A j \in IdsOf(uncommitted) \ dedup : ~Known(j)'
    BY <1>3, <1>4
  <2>4. \A j \in Ids : Known(j) <=> Known(j)' \/ j \in IdsOf(uncommitted) \ dedup
    BY <1>4
  <2> QED
    BY <1>1, <1>3, <1>5, <2>1, <2>2, <2>3, <2>4 DEF Handles
<1>7. StoresKept
  <2>1. skipped' \subseteq Offsets
    BY <1>1, <1>5, BoundAssumption DEF EOInv, EOTypeOK, Offsets
  <2>2. RecordsExist' /\ uncommitted' \in Seq(Offsets)
    BY <1>1 DEF RecordsExist
  <2> QED
    BY <1>1, <1>2, <2>1, <2>2 DEF StoresKept, EOInv, EOTypeOK, StoreFits, SettledAreStored
<1> QED
  BY <1>6, <1>7, StepHolds

\* A new message changes none of those there are.
LEMMA PublishStep == ASSUME EOInv, NEW i \in Ids, Publish(i) PROVE EOInv' /\ NoneRepeated
<1>1. /\ source \in Seq(Ids) /\ Len(source) < MaxMessages /\ source' = Append(source, i)
      /\ UNCHANGED <<dedup, committed, current, uncommitted, handled, lost, settled, skipped, faults>>
  BY DEF Publish, EOInv, EOTypeOK
<1>2. /\ source' \in Seq(Ids) /\ Len(source') = Len(source) + 1 /\ Len(source) \in Nat
      /\ DOMAIN source = 1..Len(source) /\ DOMAIN source' = 1..(Len(source) + 1)
      /\ \A n \in DOMAIN source : n \in DOMAIN source' /\ source'[n] = source[n]
  BY <1>1
<1>3. IdsOf(uncommitted)' = IdsOf(uncommitted)
  BY <1>1, <1>2 DEF EOInv, RecordsExist, IdsOf
<1>4. \A n \in 1..current : n \in DOMAIN source /\ source'[n] = source[n]
  <2>1. current \in 0..Len(source)
    BY DEF EOInv, EOTypeOK
  <2>2. \A n \in 1..current : n \in 1..Len(source)
    BY <1>2, <2>1
  <2> QED
    BY <1>2, <2>2
<1>5. EOTypeOK' /\ RecordsExist' /\ StoreFits' /\ SettledAreStored'
  BY <1>1, <1>2, BoundAssumption
  DEF EOInv, EOTypeOK, RecordsExist, StoreFits, SettledAreStored
<1>6. HandledOnce'
  BY <1>1, <1>3 DEF EOInv, HandledOnce
<1>7. NothingSkipped'
  BY <1>1, <1>4 DEF EOInv, NothingSkipped
<1> QED
  BY <1>1, <1>5, <1>6, <1>7 DEF EOInv, NoneRepeated, EOTypeOK

\* The stores are as in the beginning.
Fresh ==
  /\ source = <<>> /\ dedup = {} /\ committed = 0 /\ current = 0 /\ uncommitted = <<>>
  /\ handled = [i \in Ids |-> 0] /\ lost = [i \in Ids |-> 0]
  /\ settled = {} /\ skipped = {} /\ faults \in 0..MaxFaults

\* Then nothing has been handled, and there is nothing to pass over.
LEMMA FreshHolds == Fresh => EOInv
<1> SUFFICES ASSUME Fresh PROVE EOInv
  OBVIOUS
<1> USE DEF Fresh
<1>1. Cardinality(dedup) = 0
  BY FS_EmptySet
<1>2. IdsOf(uncommitted) = {}
  BY DEF IdsOf
<1>3. EOTypeOK
  <2>1. <<>> \in Seq(Ids) /\ <<>> \in Seq(Offsets) /\ Len(<<>>) = 0
    OBVIOUS
  <2>2. 0 \in 0..Len(source) /\ Len(source) <= MaxMessages
    BY <2>1, BoundAssumption
  <2> QED
    BY <2>1, <2>2 DEF EOTypeOK
<1>4. HandledOnce
  BY <1>2 DEF HandledOnce
<1> QED
  BY <1>1, <1>3, <1>4, SizesAssumption
  DEF EOInv, RecordsExist, StoreFits, SettledAreStored, NothingSkipped

\* After a reset nothing is left to be repeated.
LEMMA ResetStep == ASSUME EOInv, Reset PROVE EOInv' /\ NoneRepeated
<1>1. Fresh'
  BY DEF Reset, Fresh, EOInv, EOTypeOK
<1>2. EOInv'
  BY <1>1, FreshHolds, PTL
<1>3. NoneRepeated
  BY DEF Reset, EOInv, EOTypeOK, NoneRepeated
<1> QED
  BY <1>2, <1>3

\* Every step keeps the invariant and repeats no settled message.
LEMMA EOStep == ASSUME EOInv, [EONext]_eoVars PROVE EOInv' /\ (EONext => NoneRepeated)
<1>1. CASE \E i \in Ids : Publish(i)
  BY <1>1, PublishStep
<1>2. CASE \E i \in Ids : Evict(i)
  BY <1>2, EvictStep
<1>3. CASE ProcessNext
  BY <1>3, SkipStep, ProcessStep DEF ProcessNext
<1>4. CASE \E outcome \in Outcomes : CommitCheckpoint(outcome)
  BY <1>4, CheckpointStep
<1>5. CASE \E outcome \in Outcomes : \E first, last \in Offsets : ReplayRange(first, last, outcome)
  BY <1>5, ReplayStep
<1>6. CASE \E first, raising \in Offsets : ReplayRaises(first, raising)
  BY <1>6, RaiseStep
<1>7. CASE \E offset \in Offsets : ProcessMessageAt(offset)
  BY <1>7, ProcessAtStep
<1>8. CASE CrashAndRecover
  BY <1>8, CrashStep
<1>9. CASE Reset
  BY <1>9, ResetStep
<1>10. CASE UNCHANGED eoVars
  <2>1. NoneRepeated
    BY <1>10 DEF eoVars, NoneRepeated, EOInv, EOTypeOK
  <2> QED
    BY <1>10, <2>1 DEF eoVars, EOInv, EOTypeOK, RecordsExist, StoreFits, SettledAreStored,
                  HandledOnce, NothingSkipped, IdsOf
<1> QED
  BY <1>1, <1>2, <1>3, <1>4, <1>5, <1>6, <1>7, <1>8, <1>9, <1>10 DEF EONext

\* The invariant holds in every state of a processor.
LEMMA EOInvariance == EOSpec => []EOInv
<1>1. EOInit => EOInv
  <2>1. 0 \in 0..MaxFaults
    BY BoundAssumption
  <2> QED
    BY <2>1, FreshHolds DEF EOInit, Fresh
<1>2. EOInv /\ [EONext]_eoVars => EOInv'
  BY EOStep
<1> QED
  BY <1>1, <1>2, PTL DEF EOSpec

\* Every state variable of a processor keeps its type: checkpoint and current offset
\* stay within the source.
THEOREM EOTypeCorrect == EOSpec => []EOTypeOK
BY EOInvariance, PTL DEF EOInv

\* A message is handled once for the record there is of it and once for every record a
\* failure took away, however processing, random access, replays, checkpoints, crashes,
\* failing commits and handlers that raise in a replay alternate.
THEOREM EachHandledOnce == EOSpec => []HandledOnce
BY EOInvariance, PTL DEF EOInv

\* With any crashes, failed commits and evictions, every message below the current offset
\* has been handled, but for those a recovery went past with a checkpoint that was ahead.
THEOREM NoMessageSkipped == EOSpec => []NothingSkipped
BY EOInvariance, PTL DEF EOInv

\* No message of a batch that was committed is ever handled again while its record is
\* in the deduplication store.
THEOREM SettledStaysSettled == EOSpec => SettledIsNotRepeated
<1>1. EOInv /\ [EONext]_eoVars => [NoneRepeated]_eoVars
  BY EOStep
<1> QED
  BY <1>1, EOInvariance, PTL DEF EOSpec, SettledIsNotRepeated, NoneRepeated
=============================================================================
