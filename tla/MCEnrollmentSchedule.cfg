SPECIFICATION RequestSpec
CONSTANTS
  p1 = p1  p2 = p2  
  r1 = r1  r2 = r2
  h1 = h1  h2 = h2
  b1 = b1  b2 = b2
  NoRequest = NoRequest
  Requests = {h1, h2}
  Programs = {p1, p2}
  Readers = {r1, r2}
  Branches = {b1, b2}
  ProgramBranch <- MCProgramBranch
  ReaderBranch <- MCReaderBranch
  Scope <- MCScope
  Capacities = {1, 2}
  Slots <- MCSlots
  Offers <- MCOffers
  RuleUniverse <- MCRules
  Existing = {p1, p2}
  FirstCapacity <- MCFirstCapacity
  FirstSlot <- MCFirstSlot
  Alumni <- MCNoAlumni
  FirstPrereqs <- MCNoPrereqs
  MaxEdits = 1
INVARIANT NoDoubleBooking
CHECK_DEADLOCK FALSE
