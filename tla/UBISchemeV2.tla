----------------------------- MODULE UBISchemeV2 -----------------------------
(***************************************************************************)
(* UBISchemeV2 (contracts/ubi/UBISchemeV2.sol): the daily basic income.    *)
(* The pool is spread over the days of a cycle, and each day's part over   *)
(* the claimers expected from the day before.  Each claim of the day is    *)
(* also counted by ClaimersDistribution, once the name service has it.     *)
(*                                                                         *)
(* A claimer is the whitelisted root of who calls: any account may be one. *)
(* Time is in hours, which is what startOfCycle is rounded to.             *)
(***************************************************************************)
EXTENDS ClaimersDistribution

CONSTANTS
    HoursPerDay, DaysPerMonth,
    PeriodStart, Start,     \* hours: the first day begins, the scheme is made
    InitMinActiveUsers, InitCycleLength, InitPool,
    InitReputation,
    \* what the DAO may vote for
    CycleLengths, ReserveFactors, Withdrawals,
    Incomes,                \* what the scheme or the DAO is sent
    MaxTime,                \* bound: the last hour
    MaxDecisions,           \* bound: votes of the DAO
    MaxIncomes              \* bound: payments to the scheme and the DAO

MonthOf(t) == t \div (HoursPerDay * DaysPerMonth)
MonthsAreKnown ==
    /\ IsFiniteSet(Month) /\ Month \subseteq Nat
    /\ \A t \in Start..MaxTime :
          MonthOf(t) \in Month /\ (MonthOf(t) > 0 => MonthOf(t) - 1 \in Month)

\* Addresses and months are words of a fixed width: there are finitely many,
\* among them the months in which the scheme runs and the ones before.
ASSUME UBIAssumption ==
    /\ HoursPerDay \in Nat \ {0} /\ DaysPerMonth \in Nat \ {0}
    /\ PeriodStart \in Nat /\ Start \in Nat /\ PeriodStart <= Start
    /\ InitMinActiveUsers \in Nat \ {0}
    /\ InitCycleLength \in Nat \ {0}
    /\ InitPool \in Nat /\ InitReputation \in Nat
    /\ CycleLengths \subseteq Nat
    /\ ReserveFactors \subseteq {n \in Nat : n >= 10000}
    /\ Withdrawals \subseteq Nat /\ Incomes \subseteq Nat
    /\ MonthlyDistributions \subseteq Nat
    /\ IsFiniteSet(Account) /\ MonthsAreKnown
    /\ MaxTime \in Nat /\ Start <= MaxTime
    /\ MaxDecisions \in Nat /\ MaxIncomes \in Nat

VARIABLES
    now,
    balance, daoBalance,    \* G$ of the scheme and of the avatar
    claimDay, totalClaimsPerUser,
    currentDay, dailyUbi, lastWithdrawDay,
    shouldWithdrawFromDAO,
    cycleLength, dailyCyclePool, startOfCycle, currentCycleLength,
    minActiveUsers,
    openAmount,             \* of dailyUBIHistory: the latest day's
    paused, reserveFactor,
    claimersRegistered,     \* the name service has GDAO_CLAIMERS
    decisions, incomes      \* counted towards the bounds

claimVars == <<claimDay, totalClaimsPerUser>>
cycleVars == <<dailyUbi, lastWithdrawDay, dailyCyclePool, startOfCycle,
               currentCycleLength, minActiveUsers, openAmount>>
settings == <<shouldWithdrawFromDAO, paused, reserveFactor, claimersRegistered>>
bounds == <<decisions, incomes>>
vars == <<now, balance, daoBalance, claimVars, currentDay, cycleVars, cycleLength,
          settings, bounds, claimersVars>>

DayOf(t) == (t - PeriodStart) \div HoursPerDay
today == DayOf(now)
Day == 0..DayOf(MaxTime)
thisMonth == MonthOf(now)
currentDayInCycle == (now - startOfCycle) \div HoursPerDay
hasClaimed(a) == a \in claimDay[currentDay].hasClaimed
Larger(a, b) == IF a >= b THEN a ELSE b

\* Types.  The balance covers every payment, and a cycle in force always has
\* the length in force, so that cycleLength - currentDayInCycle cannot underflow.
TypeOK ==
    /\ now \in Nat /\ balance \in Nat /\ daoBalance \in Nat
    /\ claimDay \in [Day -> [hasClaimed : SUBSET Account,
                             amountOfClaimers : Nat, claimAmount : Nat]]
    /\ totalClaimsPerUser \in [Account -> Nat]
    /\ currentDay \in Day /\ lastWithdrawDay \in Day /\ dailyUbi \in Nat
    /\ cycleLength \in Nat \ {0} /\ dailyCyclePool \in Nat
    /\ startOfCycle \in Nat /\ startOfCycle <= now
    /\ currentCycleLength \in {0, cycleLength}
    /\ minActiveUsers \in Nat /\ openAmount \in Nat /\ reserveFactor \in Nat
    /\ shouldWithdrawFromDAO \in BOOLEAN /\ paused \in BOOLEAN
    /\ claimersRegistered \in BOOLEAN
    /\ decisions \in 0..MaxDecisions /\ incomes \in 0..MaxIncomes
    /\ ClaimersTypeOK

Init ==
    /\ now = Start
    /\ balance = InitPool /\ daoBalance = 0
    /\ claimDay = [d \in Day |->
           [hasClaimed |-> {}, amountOfClaimers |-> 0, claimAmount |-> 0]]
    /\ totalClaimsPerUser = [a \in Account |-> 0]
    /\ currentDay = 0 /\ lastWithdrawDay = 0 /\ dailyUbi = 0
    /\ shouldWithdrawFromDAO = FALSE
    /\ cycleLength = InitCycleLength /\ dailyCyclePool = 0
    /\ startOfCycle = PeriodStart /\ currentCycleLength = 0
    /\ minActiveUsers = InitMinActiveUsers
    /\ openAmount = 0
    /\ paused = FALSE /\ reserveFactor = 10500
    /\ claimersRegistered = FALSE
    /\ decisions = 0 /\ incomes = 0
    /\ ClaimersInit(thisMonth, InitReputation)

-----------------------------------------------------------------------------
(* The distribution of the day *)

\* The part of the pool a day would get in a cycle that starts now, before
\* anything is withdrawn from the DAO.
nextDailyPool == balance \div cycleLength

NeverShort == FALSE                                          \* faulty variant
CycleIsShort == balance < dailyCyclePool * (cycleLength - currentDayInCycle)

shouldStartCycle ==
    \/ currentDayInCycle >= currentCycleLength
    \/ nextDailyPool > (dailyCyclePool * 105) \div 100
    \/ CycleIsShort

fromDAO == IF shouldStartCycle /\ shouldWithdrawFromDAO THEN daoBalance ELSE 0

readAfterOpening == claimDay[today].amountOfClaimers         \* faulty variant
prevDayClaimers == claimDay[lastWithdrawDay].amountOfClaimers
expectedUsers == Larger((prevDayClaimers * reserveFactor) \div 10000, minActiveUsers)

\* minActiveUsers, smoothed over 30 days.
smoothed == (prevDayClaimers + minActiveUsers * 29) \div 30

distribute ==
    /\ expectedUsers > 0                    \* else the division reverts
    /\ IF shouldStartCycle
       THEN /\ dailyCyclePool' = nextDailyPool
            /\ currentCycleLength' = cycleLength
            /\ startOfCycle' = now
       ELSE UNCHANGED <<dailyCyclePool, currentCycleLength, startOfCycle>>
    /\ daoBalance' = daoBalance - fromDAO
    /\ lastWithdrawDay' = currentDay'
    /\ openAmount' = balance + fromDAO
    /\ dailyUbi' = dailyCyclePool' \div expectedUsers
    /\ minActiveUsers' = smoothed

\* Once a day, or for every claim while there is nothing to give.
DistributesAgain == TRUE                                     \* faulty variant
NotDistributed == today # lastWithdrawDay \/ dailyUbi = 0

distributionFormula ==
    /\ currentDay' = today
    /\ IF NotDistributed THEN distribute ELSE UNCHANGED <<daoBalance, cycleVars>>
newBalance == IF NotDistributed THEN balance + fromDAO ELSE balance

setDay ==
    /\ today > currentDay /\ currentDay' = today
    /\ UNCHANGED <<now, balance, daoBalance, claimVars, cycleVars, cycleLength,
                   settings, bounds, claimersVars>>

-----------------------------------------------------------------------------
(* Claims *)

\* The claimer is noted before the transfer, which may fail and undo it all.
_transferTokens(a) ==
    /\ newBalance >= dailyUbi'
    /\ balance' = newBalance - dailyUbi'
    /\ claimDay' = [claimDay EXCEPT
           ![today] = [hasClaimed |-> @.hasClaimed \union {a},
                       amountOfClaimers |-> @.amountOfClaimers + 1,
                       claimAmount |-> @.claimAmount + dailyUbi']]
    /\ totalClaimsPerUser' = [totalClaimsPerUser EXCEPT ![a] = @ + 1]

startOfDay(d) == d * HoursPerDay + PeriodStart

Served(a) ==
    /\ a \notin claimDay[today].hasClaimed
    /\ _transferTokens(a)
    /\ IF claimersRegistered THEN updateClaim(a, startOfDay(today), now, thisMonth)
       ELSE UNCHANGED claimersVars

Refused(a) ==
    /\ a \in claimDay[today].hasClaimed
    /\ balance' = newBalance
    /\ UNCHANGED <<claimVars, claimersVars>>

claim(a) ==
    /\ ~paused
    /\ distributionFormula
    /\ Served(a) \/ Refused(a)
    /\ UNCHANGED <<now, cycleLength, settings, bounds>>

\* Anyone may have a claim counted or reputation paid.
UpdateClaim(a) ==
    /\ hasClaimed(a)
    /\ updateClaim(a, startOfDay(currentDay), now, thisMonth)
    /\ UNCHANGED <<now, balance, daoBalance, claimVars, currentDay, cycleVars,
                   cycleLength, settings, bounds>>
ClaimReputation(a) ==
    /\ claimReputation(a)
    /\ UNCHANGED <<now, balance, daoBalance, claimVars, currentDay, cycleVars,
                   cycleLength, settings, bounds>>

-----------------------------------------------------------------------------
(* What a claimer is told *)

estimateNextDailyUBI ==
    LET starts == \/ currentDayInCycle + 1 >= currentCycleLength
                  \/ nextDailyPool > (dailyCyclePool * 105) \div 100
                  \/ balance < dailyCyclePool * (cycleLength - currentDayInCycle - 1)
        users == Larger((claimDay[currentDay].amountOfClaimers * reserveFactor) \div 10000,
                        minActiveUsers)
    IN (IF starts THEN nextDailyPool ELSE dailyCyclePool) \div users

checkEntitlement(a) ==
    IF currentDay = today /\ dailyUbi > 0
    THEN IF hasClaimed(a) THEN 0 ELSE dailyUbi
    ELSE estimateNextDailyUBI

-----------------------------------------------------------------------------
(* Decisions of the DAO *)

Decides ==
    /\ decisions < MaxDecisions /\ decisions' = decisions + 1
    /\ UNCHANGED <<now, daoBalance, claimVars, currentDay, incomes>>

keepsCycle(length) ==                                        \* faulty variant
    /\ Decides /\ length > 0
    /\ cycleLength' = length
    /\ UNCHANGED <<balance, cycleVars, settings, claimersVars>>
setCycleLength(length) ==
    /\ Decides /\ length > 0
    /\ cycleLength' = length /\ currentCycleLength' = 0
    /\ UNCHANGED <<balance, dailyUbi, lastWithdrawDay, dailyCyclePool, startOfCycle,
                   minActiveUsers, openAmount, settings, claimersVars>>

setShouldWithdrawFromDAO(b) ==
    /\ Decides /\ shouldWithdrawFromDAO' = b
    /\ UNCHANGED <<balance, cycleVars, cycleLength, paused, reserveFactor,
                   claimersRegistered, claimersVars>>

pause(b) ==
    /\ Decides /\ paused' = b
    /\ UNCHANGED <<balance, cycleVars, cycleLength, shouldWithdrawFromDAO,
                   reserveFactor, claimersRegistered, claimersVars>>

setNewClaimersReserveFactor(factor) ==
    /\ Decides /\ reserveFactor' = factor
    /\ UNCHANGED <<balance, cycleVars, cycleLength, shouldWithdrawFromDAO, paused,
                   claimersRegistered, claimersVars>>

withdraw(amount) ==
    /\ Decides /\ balance >= amount /\ balance' = balance - amount
    /\ UNCHANGED <<cycleVars, cycleLength, settings, claimersVars>>

SetMonthlyReputation(reputation) ==
    /\ Decides /\ setMonthlyReputationDistribution(reputation)
    /\ UNCHANGED <<balance, cycleVars, cycleLength, settings>>

RegisterClaimers(b) ==
    /\ Decides /\ claimersRegistered' = b
    /\ UNCHANGED <<balance, cycleVars, cycleLength, shouldWithdrawFromDAO, paused,
                   reserveFactor, claimersVars>>

-----------------------------------------------------------------------------
(* The world around *)

Income(amount) ==
    /\ incomes < MaxIncomes /\ incomes' = incomes + 1
    /\ \/ balance' = balance + amount /\ UNCHANGED daoBalance
       \/ daoBalance' = daoBalance + amount /\ UNCHANGED balance
    /\ UNCHANGED <<now, claimVars, currentDay, cycleVars, cycleLength, settings,
                   decisions, claimersVars>>

Tick ==
    /\ now < MaxTime /\ now' = now + 1
    /\ UNCHANGED <<balance, daoBalance, claimVars, currentDay, cycleVars,
                   cycleLength, settings, bounds, claimersVars>>

Decide ==
    \/ \E n \in CycleLengths : setCycleLength(n)
    \/ setShouldWithdrawFromDAO(~shouldWithdrawFromDAO)
    \/ pause(~paused)
    \/ RegisterClaimers(~claimersRegistered)
    \/ \E n \in ReserveFactors : setNewClaimersReserveFactor(n)
    \/ \E n \in Withdrawals : withdraw(n)
    \/ \E n \in MonthlyDistributions : SetMonthlyReputation(n)

Next ==
    \/ \E a \in Account : claim(a) \/ UpdateClaim(a) \/ ClaimReputation(a)
    \/ setDay
    \/ Decide
    \/ \E n \in Incomes : Income(n)
    \/ Tick

Spec == Init /\ [][Next]_vars
-----------------------------------------------------------------------------
\* Whoever claims on a day gets the same as the others, unless the day began
\* with nothing to give: the scheme paid today's income to some of today's
\* claimers, and nothing to the rest.
PaidAlike ==
    LET day == claimDay[lastWithdrawDay] IN
    \E n \in 0..day.amountOfClaimers : day.claimAmount = n * dailyUbi

\* What was in the pool when the day was opened lasts for the parts of all the
\* days that are left of the cycle, whatever was claimed, withdrawn or changed
\* since the cycle began.
CycleIsCovered ==
    currentCycleLength # 0 =>
        openAmount >= dailyCyclePool *
            (cycleLength - (startOfDay(lastWithdrawDay + 1) - 1 - startOfCycle) \div HoursPerDay)

\* The income can always be computed: with a reserve factor of at least 100%
\* there is someone to divide the pool by, though minActiveUsers may decay to 0.
NeverDividesByZero == expectedUsers > 0

\* No claim counts twice towards GOOD, whoever has it counted and whenever the
\* distribution is registered.
ClaimsCountOnce == \A a \in Account : Counted(a) <= totalClaimsPerUser[a]

\* "current day has already been updated which means that the dailyUbi has been
\* updated" (checkEntitlement).
DayHasItsIncome == currentDay = today /\ dailyUbi > 0 => lastWithdrawDay = currentDay
=============================================================================
