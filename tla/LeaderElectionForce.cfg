\* force_new_leader on a node that missed a term.
CONSTANTS
  N = 3
  MaxTerm = 2
SPECIFICATION Spec
INVARIANTS TermsAreUnique
