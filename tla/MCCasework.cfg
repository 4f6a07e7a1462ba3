SPECIFICATION Spec
CONSTANTS
  f1 = f1  a1 = a1
  b1 = b1  b2 = b2
  h1 = h1  h2 = h2  h3 = h3  h4 = h4
  AllBranches = "all"
  Requests = {h1, h2, h3, h4}
  Feedbacks = {f1}
  Appeals = {a1}
  Branches = {b1, b2}
  Scope <- MCScope
  Permissions <- MCPermissions
  MaxRulings = 2
INVARIANTS
  TypeOK
  AppealOnRecord
PROPERTIES
  DecidedUnlessOvertaken
CHECK_DEADLOCK FALSE
