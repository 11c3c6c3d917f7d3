SPECIFICATION Spec
CONSTANTS
  Devices = {sw, lamp}
  Triggers = {sw}
  Outputs = {lamp}
  Templated = {}
  Bad = {}
  LabelsOf <- MCLabelsOf
  sw = sw
  bad = bad
  lamp = lamp
  promoted = promoted
  r1 = r1
  r2 = r2
  Rules = {r1}
  None = None
  MaxQueue = 1
PROPERTY ListenersAreRestored
