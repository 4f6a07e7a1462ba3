SPECIFICATION Spec
CONSTANTS
  s1 = s1  s2 = s2
  k1 = k1  k2 = k2
  h1 = h1  h2 = h2
  b1 = b1  b2 = b2
  Requests = {h1, h2}
  Sessions = {s1, s2}
  Barcodes = {k1, k2}
  Branches = {b1, b2}
  SessionBranch <- MCSessionBranch
  CopyBranch <- MCCopyBranch
  Scope <- MCScope
  Catalogued = {k1}
  StaffStatuses = {"checked_out"}
  MaxEdits = 1
  MaxFindings = 2
INVARIANTS
  TypeOK
  OneActiveSession
  LateFindingsBounded
  UndisturbedReportIsRight
PROPERTIES
  RecordsAreFinal
CHECK_DEADLOCK FALSE
