\* Three nodes and two terms: a leader, a rival in a later term, and a node
\* that missed both.
CONSTANTS
  N = 3
  MaxTerm = 2
SPECIFICATION FairSpec
INVARIANTS LeaderHasMajority OneLeaderPerTerm KnownLeaderWasElected
PROPERTIES ResultsAreTrue LeaderlessElects
