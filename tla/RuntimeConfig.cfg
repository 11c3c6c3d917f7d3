SPECIFICATION FairSpec
CONSTANTS
  a = a
  b = b
  Urls = {a, b}
  Pools <- PoolsOfTwo
  FailuresToOpen = 2
  ReclaimAfter = 2
  MaxBackoff = 2
  Jitter = 1
  IntBits = 64
  OpensCap = 2
  VersionPeriod = 3
  MaxFlips = 1
  MaxEdits = 1
INVARIANTS TypeOK PriorityKept
PROPERTIES Sticky ChangeIsVersioned Converges
