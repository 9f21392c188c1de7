------------------------ MODULE ClaimersDistribution ------------------------
(***************************************************************************)
(* ClaimersDistribution (contracts/governance/ClaimersDistribution.sol):   *)
(* GOOD minted each month to those who claimed their basic income in the   *)
(* month before, by their share of the claims.                             *)
(*                                                                         *)
(* Its operations are actions on its own variables; the module of the      *)
(* basic income composes them with its own.  Time is passed in as a month, *)
(* and as the hour `at`.                                                   *)
(***************************************************************************)
EXTENDS Integers, FiniteSets, Functions

CONSTANTS Account, Month, MonthlyDistributions

VARIABLES
    monthlyReputationDistribution,
    currentMonth,
    months,             \* [claims, totalClaims, monthlyDistribution] of each month
    lastMonthClaimed,
    lastUpdated,        \* the hour a claim of each account was last counted
    earned              \* GOOD minted to each account for each month

claimersVars == <<monthlyReputationDistribution, currentMonth, months,
                  lastMonthClaimed, lastUpdated, earned>>

MonthData == [claims : [Account -> Nat], totalClaims : Nat,
              monthlyDistribution : Nat]

ClaimersTypeOK ==
    /\ monthlyReputationDistribution \in Nat
    /\ currentMonth \in Month
    /\ months \in [Month -> MonthData]
    /\ lastMonthClaimed \in [Account -> Nat]
    /\ lastUpdated \in [Account -> Nat]
    /\ earned \in [Month -> [Account -> Nat]]

\* The months as _updateMonth leaves them, at the given month.
UpToMonth(month) ==
    IF month = currentMonth THEN months
    ELSE [months EXCEPT ![month].monthlyDistribution = monthlyReputationDistribution]

ClaimersInit(month, reputation) ==
    /\ monthlyReputationDistribution = reputation
    /\ currentMonth = month
    /\ months = [m \in Month |->
           [claims |-> [a \in Account |-> 0], totalClaims |-> 0,
            monthlyDistribution |-> IF m = month THEN reputation ELSE 0]]
    /\ lastMonthClaimed = [a \in Account |-> 0]
    /\ lastUpdated = [a \in Account |-> 0]
    /\ earned = [m \in Month |-> [a \in Account |-> 0]]

Share(data, a) == (data.monthlyDistribution * data.claims[a]) \div data.totalClaims

AlwaysPays(a, prevMonth) == TRUE                             \* faulty variant
NotPaid(a, prevMonth) == lastMonthClaimed[a] < prevMonth

\* a is paid for the month before, once; without a claim in it, nothing happens.
PayMonthBefore(a, month, data) ==
    LET prevMonth == month - 1 IN
    IF /\ NotPaid(a, prevMonth)
       /\ data[prevMonth].claims[a] > 0
       /\ data[prevMonth].monthlyDistribution > 0
    THEN /\ lastMonthClaimed' = [lastMonthClaimed EXCEPT ![a] = prevMonth]
         /\ earned' = [earned EXCEPT ![prevMonth][a] = @ + Share(data[prevMonth], a)]
    ELSE UNCHANGED <<lastMonthClaimed, earned>>

\* It does not look at the calendar: the month is that of the last claim counted.
claimReputation(a) ==
    /\ PayMonthBefore(a, currentMonth, months)
    /\ UNCHANGED <<monthlyReputationDistribution, currentMonth, months, lastUpdated>>

UpdatesAgain(a, dayStart) == TRUE                            \* faulty variant
NotUpdated(a, dayStart) == dayStart > lastUpdated[a]

\* A claim of a, made at the hour `at` of the day that began at dayStart.
updateClaim(a, dayStart, at, month) ==
    /\ NotUpdated(a, dayStart)
    /\ currentMonth' = month
    /\ lastUpdated' = [lastUpdated EXCEPT ![a] = at]
    /\ months' = [UpToMonth(month) EXCEPT ![month].claims[a] = @ + 1,
                                          ![month].totalClaims = @ + 1]
    /\ PayMonthBefore(a, month, months')
    /\ UNCHANGED monthlyReputationDistribution

setMonthlyReputationDistribution(reputation) ==
    /\ monthlyReputationDistribution' = reputation
    /\ UNCHANGED <<currentMonth, months, lastMonthClaimed, lastUpdated, earned>>

-----------------------------------------------------------------------------
\* What is minted for a month, by claims of reputation in any order and at any
\* time, stays within what the month was given.
MonthWithinDistribution == \A m \in Month :
    SumFunctionOnSet(earned[m], Account) <= months[m].monthlyDistribution

\* The claims counted for a, in all months.
Counted(a) == SumFunctionOnSet([m \in Month |-> months[m].claims[a]], Month)
=============================================================================
