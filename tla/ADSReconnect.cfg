SPECIFICATION Spec
CONSTANTS
  Reqs = {q1, q2}
  RThreads = {t1, t2}
  Starter = starter
  Vars = {v1}
  NoThread = NoThread
  HasCredentials = TRUE
  PowLimit = 1
  MaxFaults = 2
INVARIANTS ReconnectsAfterFailure
