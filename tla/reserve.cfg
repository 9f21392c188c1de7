SPECIFICATION Spec
CONSTANTS
    Whole = 4
    Fine = 4
    Scale = 400
    Width = 16
    DayLength = 2
    cap = 10
    InitCurve <- StartCurve
    InitFactor = 14
    Amounts = {0, 2}
    Sales = {4, 7}
    Rewards = {1}
    MinReturns = {0}
    Contributions <- HalfOrNone
    Factors = {10}
    MaxTime = 4
    MaxReserve = 6
    MaxOnCurve = 12
    MaxGDX = 4
    MaxDecisions = 1
INVARIANTS ReserveIsBacked
PROPERTIES MintingKeepsPrice
CHECK_DEADLOCK FALSE
