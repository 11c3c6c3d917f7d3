SPECIFICATION Spec
CONSTANTS
  None = None
  NoOne = NoOne
  Runs = {s1, s2}
  Outputs = {o}
  Inputs = {}
  Symbols = {sym}
  MaxPulses = 1
  Lamps = {l1}
  Shows = {t1, t2}
  Admins = {a1}
  FlagCheckEvery = 2
  Processes = {web, worker}
  Web = web
  PollProcess = web
  Clients = {c1, c2}
  PlcDevices = {d1, d2}
  PlcVars = {x}
  MaxQueueSize = 2
  MaxConnections = 1
  MaxEvents = 3
INVARIANTS OneScanThread TestsRestore OneLiveShow StreamKeepsNewest
PROPERTIES ScanEnds LightsSettle
CHECK_DEADLOCK FALSE
