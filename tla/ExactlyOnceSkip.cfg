\* The instance of ExactlyOnce.cfg, with random access and replay not excepted.
CONSTANTS
  Ids = {a, b, c}
  Interval = 2
  MaxDedup = 2
  MaxMessages = 3
  MaxFaults = 2

SPECIFICATION EOSpec

INVARIANT NothingIsEverSkipped
