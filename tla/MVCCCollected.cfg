\* The instance of MVCC.cfg, and what the README promises of a collection.
CONSTANTS
  Keys = {k1, k2}
  Txns = {t1, t2}
  Readers = {r1}
  MaxVersion = 3

SPECIFICATION Spec
SYMMETRY Symmetry

INVARIANT GCSparesReaders
