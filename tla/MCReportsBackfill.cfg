SPECIFICATION ReportsSpec
CONSTANTS
  fact1 = fact1  fact2 = fact2
  r1 = r1
  b1 = b1  b2 = b2
  activity = activity
  admin = admin
  Handlers = {admin}
  Nightly = "nightly"
  AllBranches = "all"
  Scope <- MCScope
  Permissions <- MCPermissions
  Branches <- MCBranches
  Definitions <- MCDefinitions
  Template <- MCTemplate
  Facts = {fact1, fact2}
  Readers = {r1}
  Kinds <- MCKinds
  Zones <- MCZones
  PerDay = 2
  Horizon = 4
  LastInsert = 2
  Ranges <- MCBackfillRanges
  MaxBegun = 1
  MaxFaults = 1
PROPERTY
  RecalculationBackfills
CHECK_DEADLOCK FALSE
