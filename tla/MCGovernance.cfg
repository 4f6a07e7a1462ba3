SPECIFICATION Spec
CONSTANTS
  c1 = c1
  h1 = h1  h2 = h2  h3 = h3
  Requests = {h1, h2, h3}
  Contents = {c1}
  Permissions <- MCPermissions
  Own <- MCOwn
  Visible <- MCVisible
  MaxItems = 2
  MaxFaults = 1
INVARIANTS
  TypeOK
  OpenItemsBounded
  VisibleWasApproved
PROPERTIES
  QueueIsTruthful
CHECK_DEADLOCK FALSE
