CONSTANTS
  s1 = s1  s2 = s2
  Sessions = {s1, s2}
  Corrections = {1, 2}
  Experiments = {1}
  Forecasts = {1}
  Series = {"cash_rate"}
  MaxCounter = 2
  Bodies <- MCBodies
  OnFile <- MCOnFile
  Scores = {1}
  NoValue = NoValue
  Absent = Absent
  Empty = Empty
  Mixed = Mixed
  Nothing = Nothing
  MaxOps = 3
SPECIFICATION Spec
SYMMETRY Alike
INVARIANT RecordsKept
CHECK_DEADLOCK FALSE
