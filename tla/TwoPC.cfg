\* Three participants and two failures: safety, the refinement, and recovery
\* by a caller that runs execute() again.
CONSTANTS
  Participants = {p1, p2, p3}
  MaxFailures = 2
SPECIFICATION FairSpec
INVARIANTS Atomicity LoggedBeforeApplied
PROPERTIES ImplementsAtomicCommit LoggedDecisionApplied
