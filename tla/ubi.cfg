SPECIFICATION Spec
CONSTANTS
    alice = alice  bob = bob
    Account = {alice, bob}
    Month = {1, 2, 3}
    MonthlyDistributions = {5}
    HoursPerDay = 2
    DaysPerMonth = 2
    PeriodStart = 7
    Start = 8
    InitMinActiveUsers = 1
    InitCycleLength = 2
    InitPool = 5
    InitReputation = 3
    CycleLengths = {3}
    ReserveFactors = {15000}
    Withdrawals = {2}
    Incomes = {4}
    MaxTime = 12
    MaxDecisions = 2
    MaxIncomes = 1
INVARIANTS PaidAlike CycleIsCovered NeverDividesByZero ClaimsCountOnce
CHECK_DEADLOCK FALSE
SYMMETRY Claimers
