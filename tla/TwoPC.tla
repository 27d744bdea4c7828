-------------------------------- MODULE TwoPC --------------------------------
(***************************************************************************)
(* The two-phase commit coordinator of src/src/solocoder_py/twopc: one     *)
(* transaction, its participants, the decision log that outlives a         *)
(* coordinator object, and every point at which execute() can be left by   *)
(* an exception (a hook that raises, an illegal participant transition) or *)
(* by the loss of the coordinator.  A participant is addressed in          *)
(* registration order by the code; a coordinator may register them in any  *)
(* order, so a loop of the code is a set of participants still to visit.   *)
(***************************************************************************)
EXTENDS Naturals

CONSTANTS Participants,  \* the participants enlisted in the transaction
          MaxFailures    \* bound: how often execute() is left by an exception

ASSUME FailuresAssumption == MaxFailures \in Nat

VARIABLES
  pstate,     \* Participant._state_machine._state
  votesYes,   \* Participant._should_vote_yes
  slow,       \* prepare_delay_seconds > prepare_timeout_seconds
  members,    \* Coordinator._participants of the current coordinator object
  phase,      \* where that coordinator stands
  todo,       \* the participants its current loop has still to visit
  allYes,     \* all_yes of the prepare phase
  log,        \* the entry of this transaction in the shared DecisionLog
  failures    \* exceptions so far (only to bound them)

vars == <<pstate, votesYes, slow, members, phase, todo, allYes, log, failures>>

States == {"INITIAL", "PREPARED", "COMMITTED", "ABORTED"}

NoEntry == [decision |-> "NONE", executed |-> FALSE]

\* ParticipantStateMachine.can_transition_to
CanTransition(from, to) ==
  \/ from = "INITIAL" /\ to \in {"PREPARED", "ABORTED"}
  \/ from = "PREPARED" /\ to \in {"COMMITTED", "ABORTED"}

\* The vote a participant would cast, as the state prepare() moves it to.
VoteTarget(p) == IF votesYes[p] THEN "PREPARED" ELSE "ABORTED"

\* mutation: the last vote decides, earlier ones are forgotten
LastVoteDecides(yes) == yes

\* all_yes after one more participant: a NO or a timeout clears it for good.
VoteTally(yes) == allYes /\ yes

\* mutation: the votes are collected and not looked at
CommitsRegardless == IF members # {} THEN "COMMIT" ELSE "ABORT"

\* The coordinator's decision; no participants at all means ABORT.
Decision == IF allYes /\ members # {} THEN "COMMIT" ELSE "ABORT"

\* DecisionLog.record_decision
NewEntry == [decision |-> Decision, executed |-> FALSE]

\* execute() recovers from a log entry, and votes when there is none.
FirstPhase == IF log = NoEntry THEN "preparing" ELSE "deciding"

\* mutation: an ABORT is told to nobody
OnlyCommitTold(p) == pstate[p] = "PREPARED" /\ log.decision = "COMMIT"

\* The decision phase calls commit() or abort() on a PREPARED participant only.
IsTold(p) == pstate[p] = "PREPARED"

\* The state commit() or abort() moves a participant to.
Outcome == IF log.decision = "COMMIT" THEN "COMMITTED" ELSE "ABORTED"

TypeOK ==
  /\ pstate \in [Participants -> States]
  /\ votesYes \in [Participants -> BOOLEAN]
  /\ slow \in [Participants -> BOOLEAN]
  /\ members \subseteq Participants
  /\ phase \in {"idle", "preparing", "deciding", "done"}
  /\ todo \subseteq Participants
  /\ allYes \in BOOLEAN
  /\ log \in [decision : {"NONE", "COMMIT", "ABORT"}, executed : BOOLEAN]
  /\ failures \in 0..MaxFailures

Init ==
  /\ pstate = [p \in Participants |-> "INITIAL"]
  /\ votesYes \in [Participants -> BOOLEAN]
  /\ slow \in [Participants -> BOOLEAN]
  /\ members = {}
  /\ phase = "idle"
  /\ todo = {}
  /\ allYes = TRUE
  /\ log = NoEntry
  /\ failures = 0
-----------------------------------------------------------------------------
(* The caller's side. *)

\* configure_vote and configure_delay take effect whenever they are called;
\* prepare() reads both fields afresh on every execution.
Configure(p) ==
  /\ \E yes, late \in BOOLEAN :
       /\ votesYes' = [votesYes EXCEPT ![p] = yes]
       /\ slow' = [slow EXCEPT ![p] = late]
  /\ UNCHANGED <<pstate, members, phase, todo, allYes, log, failures>>

\* register_participant: refused once the coordinator has executed.
Register(p) ==
  /\ phase = "idle"
  /\ members' = members \cup {p}
  /\ UNCHANGED <<pstate, votesYes, slow, phase, todo, allYes, log, failures>>

\* A new Coordinator object over the same decision log.  One given up before
\* everybody was registered leaves no trace, so only a complete one is replaced.
NewCoordinator ==
  /\ phase \in {"idle", "done"}
  /\ members = Participants
  /\ members' = {}
  /\ phase' = "idle"
  /\ UNCHANGED <<pstate, votesYes, slow, todo, allYes, log, failures>>
-----------------------------------------------------------------------------
(* Coordinator.execute. *)

\* execute() starts: with a log entry it goes straight to the decision phase
\* (_recover_from_log), without one it runs the prepare phase.  The caller
\* registers every participant of the transaction first.
Execute ==
  /\ phase = "idle"
  /\ members = Participants
  /\ todo' = members
  /\ allYes' = TRUE
  /\ phase' = FirstPhase
  /\ UNCHANGED <<pstate, votesYes, slow, members, log, failures>>

\* execute() is left by an exception; _executed is still False.
Fails ==
  /\ failures < MaxFailures
  /\ failures' = failures + 1
  /\ phase' = "idle"
  /\ todo' = {}

\* A step of a loop goes on to the next participant, or the hook of this one
\* raises after the state transition.
VisitedOrRaised(p) ==
  \/ todo' = todo \ {p} /\ UNCHANGED <<phase, failures>>
  \/ Fails

\* _run_prepare_phase, a participant slower than the timeout: prepare() is
\* not called and its state stays what it was.
PrepareTimesOut(p) ==
  /\ phase = "preparing" /\ p \in todo
  /\ slow[p]
  /\ allYes' = VoteTally(FALSE)
  /\ todo' = todo \ {p}
  /\ UNCHANGED <<pstate, votesYes, slow, members, phase, log, failures>>

\* _run_prepare_phase, Participant.prepare().
PrepareVotes(p) ==
  /\ phase = "preparing" /\ p \in todo
  /\ ~slow[p]
  /\ CanTransition(pstate[p], VoteTarget(p))
  /\ pstate' = [pstate EXCEPT ![p] = VoteTarget(p)]
  /\ allYes' = VoteTally(votesYes[p])
  /\ VisitedOrRaised(p)
  /\ UNCHANGED <<votesYes, slow, members, log>>

\* _run_prepare_phase, transition_to raises InvalidStateTransitionError: the
\* participant already left INITIAL in an execution that was cut short.
PrepareIllegal(p) ==
  /\ phase = "preparing" /\ p \in todo
  /\ ~slow[p]
  /\ ~CanTransition(pstate[p], VoteTarget(p))
  /\ phase' = "idle"
  /\ todo' = {}
  /\ UNCHANGED <<pstate, votesYes, slow, members, allYes, log, failures>>

\* The decision, written to the log before anybody is told.
RecordDecision ==
  /\ phase = "preparing" /\ todo = {}
  /\ log' = NewEntry
  /\ phase' = "deciding"
  /\ todo' = members
  /\ UNCHANGED <<pstate, votesYes, slow, members, allYes, failures>>

\* _run_decision_phase, one participant: only a PREPARED one is told.
Decide(p) ==
  /\ phase = "deciding" /\ p \in todo
  /\ IF IsTold(p)
     THEN /\ pstate' = [pstate EXCEPT ![p] = Outcome]
          /\ VisitedOrRaised(p)
     ELSE /\ todo' = todo \ {p}
          /\ UNCHANGED <<pstate, phase, failures>>
  /\ UNCHANGED <<votesYes, slow, members, allYes, log>>

\* mark_executed, _executed = True and the result.
MarkExecuted ==
  /\ phase = "deciding" /\ todo = {}
  /\ log' = [log EXCEPT !.executed = TRUE]
  /\ phase' = "done"
  /\ UNCHANGED <<pstate, votesYes, slow, members, todo, allYes, failures>>

\* The coordinator is lost between two steps of execute().
Crash ==
  /\ phase \in {"preparing", "deciding"}
  /\ Fails
  /\ UNCHANGED <<pstate, votesYes, slow, members, allYes, log>>
-----------------------------------------------------------------------------
Running == \/ \E p \in Participants : \/ PrepareTimesOut(p) \/ PrepareVotes(p)
                                      \/ PrepareIllegal(p) \/ Decide(p)
           \/ RecordDecision \/ MarkExecuted

Next == \/ \E p \in Participants : Configure(p) \/ Register(p)
        \/ NewCoordinator
        \/ Execute
        \/ Running
        \/ Crash

Spec == Init /\ [][Next]_vars

\* execute() runs to its end, and a caller whose execute() raised registers
\* the participants and calls it again.
FairSpec ==
  /\ Spec
  /\ WF_vars(Running)
  /\ SF_vars(Execute)
  /\ \A p \in Participants : SF_vars(Register(p) /\ p \notin members)
-----------------------------------------------------------------------------
\* No participant of a transaction commits while another one aborts, however
\* often execute() is cut short and run again.
Atomicity ==
  \A p, q \in Participants : ~(pstate[p] = "COMMITTED" /\ pstate[q] = "ABORTED")

\* Nobody acts on a decision the log does not hold: the entry is written
\* before the decision phase, and a COMMIT entry finds everyone prepared.
LoggedBeforeApplied ==
  /\ (\E p \in Participants : pstate[p] = "COMMITTED") => log.decision = "COMMIT"
  /\ log.decision = "COMMIT" =>
       \A p \in Participants : pstate[p] \in {"PREPARED", "COMMITTED"}

\* An entry marked as executed has reached every participant: nobody is left
\* PREPARED, holding its resources for a transaction that is over.
ExecutedMeansResolved ==
  log.executed => \A p \in Participants : pstate[p] # "PREPARED"

\* A logged decision is final: recovery replays it and never votes again.
DecisionIsFinal == [][log # NoEntry => log'.decision = log.decision]_vars

\* Once logged, a decision reaches every participant that waits for it.
LoggedDecisionApplied ==
  log # NoEntry ~> (\A p \in Participants : pstate[p] # "PREPARED")

\* README.md, recovery diagram: without a log entry the transaction counts as
\* not started and runs a normal 2PC.  So a prepare phase may be cut short by
\* a failure, and never because a participant still stands where the
\* interrupted run left it.
RerunIsNormal2PC ==
  [][phase = "preparing" /\ phase' = "idle" => failures' > failures]_vars

\* The coordinator implements the abstract atomic commitment.
AC == INSTANCE AtomicCommit WITH RM <- Participants, rmState <- pstate
ImplementsAtomicCommit == AC!ACSpec
=============================================================================
