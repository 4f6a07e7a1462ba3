SPECIFICATION Spec
CONSTANTS
  u1 = u1  u2 = u2  b1 = b1  b2 = b2
  r1 = r1  h1 = h1  h2 = h2
  AllBranches = "all"
  NoBranch = "nil"
  None = None
  Requests = {h1, h2}
  Users = {u1, u2}
  Roles = {"administrator", "operations_staff"}
  PermissionsOf <- MCPermissionsOf
  InitialGrants <- MCInitialGrants
  Branches = {b1, b2}
  Readers = {r1}
  Values = {"v"}
  Keys = {"k"}
  Window = 1
  MaxTime = 3
  MaxBegun = 3
  MaxRestarts = 1
  MaxFaults = 1
INVARIANTS
  TypeOK
  RecordIsLatest
  TrailIsRight
PROPERTIES
  ActsWithinGrants
  RevealIsSound
CHECK_DEADLOCK FALSE
