CONSTANTS
  strict = strict  loose = loose  weak = weak  strong = strong
  Sessions = {s1, s2}
  Models = {m1, m2}
  Epochs = {e1, e2}
  NoModel = NoModel
  NoEpoch = NoEpoch
  Evidence = {weak, strong}
  Objectives = {strict, loose}
  EligibleUnder <- BothEligible
  Costs = {0, 1}
  CostUnder <- BothCosts
  StartChampion = NoModel
  Absent = Absent
  Blank = Blank
  TornWrites = TRUE
  MaxOps = 7
SPECIFICATION TurnsSpec
SYMMETRY Interchangeable
INVARIANTS TypeOK RegistryWellKept PromotionsAreEvidenced
PROPERTY TurnsKeepRecord
CHECK_DEADLOCK FALSE
