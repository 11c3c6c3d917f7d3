SPECIFICATION Spec
CONSTANTS
  Web = web
  Rules = {}
  Fades = {f1}
  Restorers = {}
  None = None
  Pcts = {0, 2}
  Durations = {100}
  StartBytes = {0}
  MaxCommands = 2
  MaxEvents = 0
INVARIANT LastCommandWins
CHECK_DEADLOCK FALSE
