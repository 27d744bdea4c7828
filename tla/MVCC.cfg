\* Two transactions and a snapshot on two keys, and three commits: one that others
\* read past, one that supersedes it, and one that conflicts.
CONSTANTS
  Keys = {k1, k2}
  Txns = {t1, t2}
  Readers = {r1}
  MaxVersion = 3

SPECIFICATION Spec
SYMMETRY Symmetry

INVARIANTS ViewsAreTrue NothingNeededIsDropped
PROPERTIES ImplementsSI
