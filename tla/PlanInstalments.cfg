CONSTANTS
    Data <- TheData
    Inputs <- TheInputs
    Plans <- ThePlans
    MaxDay <- TheMaxDay
    Fine = 1000
    RateUnit = 10000
    Refused = Refused
    None = None
    NaN = NaN
SPECIFICATION Spec
INVARIANT InstalmentsRegular
CHECK_DEADLOCK FALSE
