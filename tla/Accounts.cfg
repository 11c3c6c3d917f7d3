SPECIFICATION Spec
CONSTANTS
  Users = {u1}
  Staff = {it}
  owner = owner
  b1 = b1
  b2 = b2
  Owners = {owner}
  Buildings = {b1, b2}
  OwnedBy <- MCOwnedBy
  Apartments = {a1, a2}
  Roles <- MCRoles
  CodesOf <- MCCodesOf
  ExtraCodes = {"view_cameras"}
  None = None
  MaxTokens = 2
  MaxTime = 1
INVARIANTS TypeOK RevokedNeverUsable DisabledIsLoggedOut DefaultIsUnique
PROPERTIES OwnerStaysInScope LoginSpec
CHECK_DEADLOCK FALSE
