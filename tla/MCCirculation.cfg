SPECIFICATION Spec
CONSTANTS
  c1 = c1  c2 = c2
  r1 = r1  r2 = r2
  h1 = h1  h2 = h2
  b1 = b1  b2 = b2
  NoRequest = NoRequest
  Requests = {h1, h2}
  Copies = {c1, c2}
  Readers = {r1, r2}
  Branches = {b1, b2}
  CopyBranch <- MCCopyBranch
  Scope <- MCScope
  Shelved = {c1}
  StaffStatuses = {"available", "checked_out", "lost"}
  MaxLoans = 2
  MaxEdits = 2
INVARIANTS
  TypeOK
  LoanMatchesStatus
PROPERTIES
  ReturnIsSound
CHECK_DEADLOCK FALSE
