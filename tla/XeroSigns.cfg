CONSTANTS
    Data <- TheData
    Inputs <- AllInputs
    Plans <- ThePlans
    MaxDay <- TheMaxDay
    Fine = 1000
    RateUnit = 10000
    Refused = Refused
    None = None
    NaN = NaN
SPECIFICATION CallSpec
CHECK_DEADLOCK FALSE
INVARIANT XeroSignsStated
