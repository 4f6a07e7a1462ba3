SPECIFICATION Spec
CONSTANTS
  k1 = k1  k2 = k2
  NoKey = NoKey
  Requests = {1, 2}
  Jobs = {1, 2}
  Keys = {k1, k2}
  Known = {}
  Files <- MCFiles
  MaxCopies = 2
INVARIANTS
  TypeOK
  ImportIsWhole
  CleanAndKeyedOnce
CHECK_DEADLOCK FALSE
