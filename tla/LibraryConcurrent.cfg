CONSTANTS
  w1 = w1  w2 = w2  w3 = w3  w4 = w4  c1 = c1  c2 = c2  n1 = n1  n2 = n2
  Workspaces = {w1, w2, w3, w4}
  Names = {n1, n2}
  NoName = NoName
  Patterns = {}
  Sessions = {s1, s2}
  Candidates = {c1, c2}
  ScopeOf <- MCScopeOf
  SupportOf <- MCSupportOf
  TextOf <- MCTextOf
  Decisions <- MCDecisions
  StartHeadings <- BothHeadings
  Clients = {w3, w4}
  Absent = Absent
  Blank = Blank
  NoDigest = NoDigest
  HandMayRace = TRUE
  TornWrites = TRUE
  MaxOps = 6
SPECIFICATION MCSpec
SYMMETRY Alike
INVARIANTS TypeOK PublishedOnGrant SeedsRestOnApproval OnFileWasGranted AloneTraceable
PROPERTY ImplementsBoundary
CHECK_DEADLOCK FALSE
