CONSTANTS
  w1 = w1  w2 = w2  w3 = w3  w4 = w4  c1 = c1  c2 = c2  n1 = n1  n2 = n2
  Workspaces = {w1, w2, w3}
  Names = {n1, n2}
  NoName = NoName
  Patterns = {}
  Sessions = {s1, s2}
  Candidates = {c1, c2}
  ScopeOf <- MCScopeOf
  SupportOf <- MCSupportOf
  TextOf <- MCTextOf
  Decisions <- OneDecision
  StartHeadings <- OneHeading
  Clients = {w3}
  Absent = Absent
  Blank = Blank
  NoDigest = NoDigest
  HandMayRace = TRUE
  TornWrites = FALSE
  MaxOps = 4
SPECIFICATION Spec
INVARIANT DecisionStands
CHECK_DEADLOCK FALSE
