CONSTANTS
  Sessions = {s1, s2}
  Parts = {manifest, fixture}
  None = None
  MaxOps = 4
SYMMETRY Interchangeable
SPECIFICATION Spec
INVARIANTS TypeOK BundleIsWhole FailureLeavesBundle OnlyWholeLeftovers
PROPERTIES PreviousKept NoClobber
CHECK_DEADLOCK FALSE
