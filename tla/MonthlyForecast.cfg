CONSTANTS
    Configs <- TheConfigs
    Sales <- TheSales
    Horizon = 6
    YearMonths = 2
    MaxLag = 2
    Slips <- TheSlips
    MaxSlips = 1
SPECIFICATION Spec
INVARIANT TypeOK
INVARIANT BalanceSheetBalances
INVARIANT SalesSettledOnce
INVARIANT StockIsLeast
INVARIANT LossesShelterOnce
INVARIANT UnknownLossIsMoot
PROPERTY DelayMovesTiming
CHECK_DEADLOCK FALSE
