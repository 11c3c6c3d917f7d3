SPECIFICATION Spec
CONSTANTS
  Devices = {sw, lamp, promoted, bad}
  Triggers = {sw}
  Outputs = {lamp, promoted}
  Templated = {promoted}
  Bad = {bad}
  LabelsOf <- MCLabelsOf
  sw = sw
  bad = bad
  lamp = lamp
  promoted = promoted
  r1 = r1
  r2 = r2
  Rules = {r1, r2}
  None = None
  MaxQueue = 1
CONSTRAINT SmallRules
INVARIANTS RegistryTypeOK SubscriptionsMatchRules HandlesFollowCallbacks EveryRowIsLoaded MissOnlyMidRefresh
PROPERTIES LoadIsWhole Reacts
