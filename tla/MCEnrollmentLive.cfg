SPECIFICATION FairSpec
CONSTANTS
  p1 = p1  p2 = p2  
  r1 = r1  r2 = r2
  h1 = h1  h2 = h2
  b1 = b1  b2 = b2
  NoRequest = NoRequest
  Requests = {h1, h2}
  Programs = {p1, p2}
  Readers = {r1}
  Branches = {b1}
  ProgramBranch <- MCProgramBranch
  ReaderBranch <- MCReaderBranch
  Scope <- MCScope
  Capacities = {1, 2}
  Slots <- MCOneSlot
  Offers <- MCOffer
  RuleUniverse <- MCRule
  Existing = {p1}
  FirstCapacity <- MCFirstCapacity
  FirstSlot <- MCAllMorning
  Alumni <- MCAlumni
  FirstPrereqs <- MCPrereqs
  MaxEdits = 3
CHECK_DEADLOCK FALSE
PROPERTIES
  EveryRequestEnds
