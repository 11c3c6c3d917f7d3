SPECIFICATION Spec
CONSTANTS
  Web = web
  Rules = {rule}
  Fades = {f1, f2}
  Restorers = {r1}
  None = None
  Pcts = {0, 2}
  Durations = {100}
  StartBytes = {0}
  MaxCommands = 3
  MaxEvents = 1
INVARIANTS TypeOK Settles FadesNeverFight
CHECK_DEADLOCK FALSE
