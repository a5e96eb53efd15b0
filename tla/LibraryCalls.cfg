CONSTANTS
    Data <- TheData
    Inputs <- AllInputs
    Plans <- ThePlans
    MaxDay <- TheMaxDay
    Fine = 1000
    RateUnit = 10000
    Refused = Refused
    None = None
    NaN = NaN
SPECIFICATION CallSpec
INVARIANT ObligationsTimed
INVARIANT PayrollSettles
INVARIANT AmountsPlaced
INVARIANT EvidenceRight
INVARIANT ReportsReconcile
INVARIANT PlanReconciles
PROPERTY PlanEnds
CHECK_DEADLOCK FALSE
