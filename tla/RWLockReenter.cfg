\* Re-entering a read lock while a writer waits.
CONSTANTS
  Threads = {t1, t2}
  NoThread = NoThread
  MaxHolds = 2
SPECIFICATION Spec
INVARIANTS HoldersNeverWait
SYMMETRY Symmetric
