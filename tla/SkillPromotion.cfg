CONSTANTS
  w1 = w1  w2 = w2  n1 = n1  n2 = n2
  clean = clean  naming = naming
  Workspaces = {w1, w2}
  Names = {n1, n2}
  NoName = NoName
  Patterns = {}
  Sessions = {s1, s2}
  Files = {1, 2}
  Versions = {clean, naming}
  MarksOf <- MCMarksOf
  Scope = "skill"
  Support = {w1, w2}
  Heading <- MCHeading
  Decisions <- MCDecisions
  None = None
  MaxOps = 5
SPECIFICATION Spec
INVARIANTS TypeOK CopiedWasApproved
PROPERTY LoggedIsWhole
CHECK_DEADLOCK FALSE
