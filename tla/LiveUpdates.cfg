SPECIFICATION StreamSpec
CONSTANTS
  Processes = {web, worker}
  Web = web
  PollProcess = worker
  Clients = {c1, c2}
  PlcDevices = {d1, d2}
  PlcVars = {x}
  MaxQueueSize = 2
  MaxConnections = 1
  MaxEvents = 3
PROPERTY ClientsReceiveUpdates
CHECK_DEADLOCK FALSE
