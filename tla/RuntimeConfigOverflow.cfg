SPECIFICATION FairSpec
CONSTANTS
  a = a
  b = b
  Urls = {a, b}
  Pools <- PairOnly
  FailuresToOpen = 2
  ReclaimAfter = 2
  MaxBackoff = 2
  Jitter = 1
  IntBits = 3
  OpensCap = 4
  VersionPeriod = 3
  MaxFlips = 1
  MaxEdits = 0
PROPERTY Converges
