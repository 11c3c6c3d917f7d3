SPECIFICATION AppFairSpec
CONSTANTS
  a = a
  b = b
  Urls = {a, b}
  Pools <- PairAndOne
  FailuresToOpen = 1
  ReclaimAfter = 1
  MaxBackoff = 1
  Jitter = 0
  IntBits = 64
  OpensCap = 1
  VersionPeriod = 2
  MaxFlips = 0
  MaxEdits = 1
  None = None
INVARIANTS AppTypeOK OwnServerOnly CoalesceFresh
PROPERTIES BackoffHonoured ConnectingEnds
