-------------------------- MODULE UBISchemeV2_proofs --------------------------
(***************************************************************************)
(* The daily income can be computed at any time, whatever the DAO and the  *)
(* claimers do.  minActiveUsers may well become 0 (it is smoothed with     *)
(* rounding), but then the day last distributed has claimers: the first    *)
(* claim of a day both opens it and is counted in it.                      *)
(***************************************************************************)
EXTENDS UBISchemeV2, Lemmas

ClaimersKnown == \A d \in Day :
    /\ claimDay[d].amountOfClaimers \in Nat
    /\ claimDay[d].hasClaimed # {} => claimDay[d].amountOfClaimers > 0

SomeoneExpected ==
    minActiveUsers > 0 \/ claimDay[lastWithdrawDay].amountOfClaimers > 0

Inv ==
    /\ now \in Nat /\ Start <= now /\ now <= MaxTime
    /\ DOMAIN claimDay = Day
    /\ lastWithdrawDay \in Day
    /\ minActiveUsers \in Nat
    /\ reserveFactor \in Nat /\ reserveFactor >= 10000
    /\ ClaimersKnown
    /\ SomeoneExpected

-----------------------------------------------------------------------------
(* Arithmetic *)

LEMMA DivMonotonic ==
    ASSUME NEW x \in Nat, NEW y \in Nat, NEW k \in Nat \ {0}, x <= y
    PROVE  x \div k \in Nat /\ x \div k <= y \div k
<1> DEFINE q == x \div k
           r == y \div k
<1>1. q \in Int /\ k * q <= x /\ x < k * q + k
  OBVIOUS
<1>2. r \in Int /\ k * r <= y /\ y < k * r + k
  OBVIOUS
<1>3. ASSUME q > r PROVE FALSE
  <2>1. q >= r + 1
    BY <1>1, <1>2, <1>3
  <2>2. k * q >= k * (r + 1)
    BY <2>1, <1>1, <1>2
  <2> QED
    BY <1>1, <1>2, <2>2
<1>4. q >= 0
  OBVIOUS
<1> QED
  BY <1>1, <1>2, <1>3, <1>4

LEMMA DivType == ASSUME NEW x \in Nat, NEW k \in Nat \ {0} PROVE x \div k \in Nat
<1>1. x <= x
  OBVIOUS
<1> QED
  BY <1>1, DivMonotonic

LEMMA TodayIsADay == ASSUME UBIAssumption, Inv PROVE today \in Day
<1>1. /\ now - PeriodStart \in Nat /\ MaxTime - PeriodStart \in Nat
      /\ now - PeriodStart <= MaxTime - PeriodStart
      /\ HoursPerDay \in Nat \ {0}
  BY DEF UBIAssumption, Inv
<1>2. /\ (now - PeriodStart) \div HoursPerDay \in Nat
      /\ (MaxTime - PeriodStart) \div HoursPerDay \in Nat
      /\ (now - PeriodStart) \div HoursPerDay <= (MaxTime - PeriodStart) \div HoursPerDay
  BY <1>1, DivMonotonic
<1> QED
  BY <1>2 DEF today, DayOf, Day

\* A reserve factor of at least 100% expects someone after a day with claimers.
LEMMA ReservedForSome ==
    ASSUME NEW p \in Nat, NEW f \in Nat, f >= 10000
    PROVE  (p * f) \div 10000 \in Nat /\ (p > 0 => (p * f) \div 10000 > 0)
<1>1. p * f \in Nat
  OBVIOUS
<1>2. p > 0 => p * f >= 10000
  OBVIOUS
<1>3. \A n \in Nat : n \div 10000 \in Nat /\ (n >= 10000 => n \div 10000 > 0)
  OBVIOUS
<1> QED
  BY <1>1, <1>2, <1>3

LEMMA InvImpliesDividable == ASSUME UBIAssumption, Inv PROVE NeverDividesByZero
<1> DEFINE p == prevDayClaimers
<1>1. p \in Nat /\ minActiveUsers \in Nat /\ (minActiveUsers > 0 \/ p > 0)
  BY DEF Inv, ClaimersKnown, SomeoneExpected, prevDayClaimers
<1>2. reserveFactor \in Nat /\ reserveFactor >= 10000
  BY DEF Inv
<1>3. (p * reserveFactor) \div 10000 \in Nat
      /\ (p > 0 => (p * reserveFactor) \div 10000 > 0)
  BY <1>1, <1>2, ReservedForSome
<1>4. \A a, b \in Nat : (a > 0 \/ b > 0) => Larger(a, b) > 0
  BY DEF Larger
<1> HIDE DEF p
<1>5. Larger((p * reserveFactor) \div 10000, minActiveUsers) > 0
  BY <1>1, <1>3, <1>4
<1> QED
  BY <1>5 DEF NeverDividesByZero, expectedUsers, p

-----------------------------------------------------------------------------
(* The steps *)

LEMMA InitInv == ASSUME UBIAssumption, Init PROVE Inv
<1>1. now \in Nat /\ Start <= now /\ now <= MaxTime
  BY DEF Init, UBIAssumption
<1>2. 0 \in Day
  <2>1. 0 <= MaxTime - PeriodStart /\ MaxTime - PeriodStart \in Nat
        /\ HoursPerDay \in Nat \ {0}
    BY DEF UBIAssumption
  <2>2. (MaxTime - PeriodStart) \div HoursPerDay \in Nat
    BY <2>1, DivMonotonic
  <2> QED
    BY <2>2 DEF Day, DayOf
<1>3. DOMAIN claimDay = Day /\ ClaimersKnown
  BY DEF Init, ClaimersKnown
<1>4. minActiveUsers \in Nat /\ minActiveUsers > 0
  BY DEF Init, UBIAssumption
<1> QED
  BY <1>1, <1>2, <1>3, <1>4 DEF Init, Inv, SomeoneExpected

LEMMA ClaimInv == ASSUME UBIAssumption, Inv, NEW a \in Account, claim(a) PROVE Inv'
<1>1. today \in Day
  BY TodayIsADay
<1>2. UNCHANGED <<now, reserveFactor>>
  BY DEF claim, settings
<1>3. minActiveUsers' \in Nat /\ lastWithdrawDay' \in Day
  <2>1. CASE NotDistributed
    <3>1. prevDayClaimers \in Nat /\ minActiveUsers \in Nat
      BY DEF Inv, ClaimersKnown, prevDayClaimers
    <3>2. prevDayClaimers + minActiveUsers * 29 \in Nat
      BY <3>1
    <3>3. \A n \in Nat : n \div 30 \in Nat
      OBVIOUS
    <3>4. smoothed \in Nat
      BY <3>2, <3>3 DEF smoothed
    <3> QED
      BY <2>1, <3>4, <1>1 DEF claim, distributionFormula, distribute
  <2>2. CASE ~NotDistributed
    BY <2>2 DEF claim, distributionFormula, cycleVars, Inv
  <2> QED
    BY <2>1, <2>2
<1>4. lastWithdrawDay' = today \/ UNCHANGED <<lastWithdrawDay, minActiveUsers>>
  BY DEF claim, distributionFormula, distribute, cycleVars
<1>5. CASE Served(a)
  <2>1. claimDay' = [claimDay EXCEPT
           ![today] = [hasClaimed |-> @.hasClaimed \union {a},
                       amountOfClaimers |-> @.amountOfClaimers + 1,
                       claimAmount |-> @.claimAmount + dailyUbi']]
    BY <1>5 DEF Served, _transferTokens
  <2>2. /\ DOMAIN claimDay' = Day
        /\ claimDay'[today].amountOfClaimers = claimDay[today].amountOfClaimers + 1
        /\ \A d \in Day : d # today => claimDay'[d] = claimDay[d]
    BY <2>1, <1>1 DEF Inv
  <2>3. claimDay[today].amountOfClaimers \in Nat
    BY <1>1 DEF Inv, ClaimersKnown
  <2>4. claimDay'[today].amountOfClaimers \in Nat
        /\ claimDay'[today].amountOfClaimers > 0
    BY <2>2, <2>3
  <2>5. ClaimersKnown'
    <3>1. Day' = Day
      BY DEF Day, DayOf
    <3> QED
      BY <2>2, <2>4, <3>1 DEF Inv, ClaimersKnown
  <2>6. SomeoneExpected'
    <3>1. CASE lastWithdrawDay' = today
      BY <3>1, <2>4 DEF SomeoneExpected
    <3>2. CASE UNCHANGED <<lastWithdrawDay, minActiveUsers>> /\ lastWithdrawDay # today
      BY <3>2, <2>2 DEF SomeoneExpected, Inv
    <3> QED
      BY <1>4, <3>1, <3>2
  <2> QED
    BY <1>2, <1>3, <2>2, <2>5, <2>6 DEF Inv, Day, DayOf
<1>6. CASE Refused(a)
  <2>1. claimDay' = claimDay /\ claimDay[today].hasClaimed # {}
    BY <1>6 DEF Refused, claimVars
  <2>2. claimDay[today].amountOfClaimers > 0
    BY <2>1, <1>1 DEF Inv, ClaimersKnown
  <2>3. SomeoneExpected'
    BY <1>4, <2>1, <2>2 DEF SomeoneExpected, Inv
  <2> QED
    BY <1>2, <1>3, <2>1, <2>3 DEF Inv, ClaimersKnown, Day, DayOf
<1> QED
  BY <1>5, <1>6 DEF claim

\* The steps that leave the distribution of days alone.
LEMMA OtherInv ==
    ASSUME UBIAssumption, Inv,
           UNCHANGED <<now, claimDay, lastWithdrawDay, minActiveUsers, reserveFactor>>
    PROVE  Inv'
BY DEF Inv, ClaimersKnown, SomeoneExpected, Day, DayOf

LEMMA NextInv == ASSUME UBIAssumption, Inv, [Next]_vars PROVE Inv'
<1>1. ASSUME NEW a \in Account, claim(a) \/ UpdateClaim(a) \/ ClaimReputation(a)
      PROVE  Inv'
  <2>1. CASE claim(a)
    BY <2>1, ClaimInv
  <2>2. CASE UpdateClaim(a) \/ ClaimReputation(a)
    BY <2>2, OtherInv DEF UpdateClaim, ClaimReputation, claimVars, cycleVars, settings
  <2> QED
    BY <1>1, <2>1, <2>2
<1>2. CASE setDay
  BY <1>2, OtherInv DEF setDay, claimVars, cycleVars, settings
<1>3. CASE Decide
  <2>1. ASSUME NEW n \in ReserveFactors, setNewClaimersReserveFactor(n) PROVE Inv'
    <3>1. n \in Nat /\ n >= 10000
      BY DEF UBIAssumption
    <3>2. UNCHANGED <<now, claimDay, lastWithdrawDay, minActiveUsers>>
      BY <2>1 DEF setNewClaimersReserveFactor, Decides, claimVars, cycleVars
    <3>3. reserveFactor' = n
      BY <2>1 DEF setNewClaimersReserveFactor
    <3> QED
      BY <3>1, <3>2, <3>3 DEF Inv, ClaimersKnown, SomeoneExpected, Day, DayOf
  <2>2. ASSUME NEW n \in CycleLengths, setCycleLength(n) PROVE Inv'
    BY <2>2, OtherInv DEF setCycleLength, Decides, claimVars, settings
  <2>3. ASSUME \/ setShouldWithdrawFromDAO(~shouldWithdrawFromDAO)
               \/ pause(~paused)
               \/ RegisterClaimers(~claimersRegistered)
        PROVE  Inv'
    BY <2>3, OtherInv DEF setShouldWithdrawFromDAO, pause, RegisterClaimers, Decides,
                          claimVars, cycleVars
  <2>4. ASSUME NEW n \in Withdrawals, withdraw(n) PROVE Inv'
    BY <2>4, OtherInv DEF withdraw, Decides, claimVars, cycleVars, settings
  <2>5. ASSUME NEW n \in MonthlyDistributions, SetMonthlyReputation(n) PROVE Inv'
    BY <2>5, OtherInv DEF SetMonthlyReputation, Decides, claimVars, cycleVars, settings
  <2> QED
    BY <1>3, <2>1, <2>2, <2>3, <2>4, <2>5 DEF Decide
<1>4. ASSUME NEW n \in Incomes, Income(n) PROVE Inv'
  BY <1>4, OtherInv DEF Income, claimVars, cycleVars, settings
<1>5. CASE Tick
  <2>1. now' \in Nat /\ Start <= now' /\ now' <= MaxTime
    BY <1>5 DEF Tick, Inv, UBIAssumption
  <2>2. UNCHANGED <<claimDay, lastWithdrawDay, minActiveUsers, reserveFactor>>
    BY <1>5 DEF Tick, claimVars, cycleVars, settings
  <2> QED
    BY <2>1, <2>2 DEF Inv, ClaimersKnown, SomeoneExpected, Day, DayOf
<1>6. CASE UNCHANGED vars
  BY <1>6, OtherInv DEF vars, claimVars, cycleVars, settings
<1> QED
  BY <1>1, <1>2, <1>3, <1>4, <1>5, <1>6 DEF Next

\* With reserve factors of at least 100% (and someone expected at first) there
\* is always someone to divide the pool by: no claim reverts on the division.
THEOREM IncomeIsComputable == Spec => []NeverDividesByZero
<1>1. Init => Inv
  BY InitInv, UBIAssumption
<1>2. Inv /\ [Next]_vars => Inv'
  BY NextInv, UBIAssumption
<1>3. Inv => NeverDividesByZero
  BY InvImpliesDividable, UBIAssumption
<1> QED
  BY <1>1, <1>2, <1>3, PTL DEF Spec

-----------------------------------------------------------------------------
(* Days *)

\* Now is within today, the days of an hour are numbers, and hours that pass
\* never take the day back.
LEMMA TodayIsNow ==
    ASSUME UBIAssumption, Inv
    PROVE  /\ today \in Nat /\ now \in Nat
           /\ startOfDay(today) <= now /\ now <= startOfDay(today + 1) - 1
<1> DEFINE x == now - PeriodStart
           q == x \div HoursPerDay
<1>1. x \in Nat /\ HoursPerDay \in Nat \ {0} /\ PeriodStart \in Nat /\ now \in Nat
  BY DEF UBIAssumption, Inv
<1>2. q \in Int /\ HoursPerDay * q <= x /\ x < HoursPerDay * q + HoursPerDay
  <2> HIDE DEF x
  <2> QED
    BY <1>1
<1>3. q \in Nat
  BY <1>1, DivMonotonic
<1>4. today = q
  BY DEF today, DayOf
<1> HIDE DEF q
<1>5. startOfDay(q) = HoursPerDay * q + PeriodStart
      /\ startOfDay(q + 1) = HoursPerDay * q + HoursPerDay + PeriodStart
  BY <1>1, <1>3 DEF startOfDay
<1>6. PICK z \in Int : z = HoursPerDay * q
  BY <1>1, <1>3
<1> QED
  BY <1>1, <1>2, <1>3, <1>4, <1>5, <1>6

LEMMA LaterDay ==
    ASSUME UBIAssumption, Inv, now' \in Nat, now <= now'
    PROVE  today' \in Nat /\ today <= today'
<1>1. PICK x, y : x = now - PeriodStart /\ y = now' - PeriodStart
  OBVIOUS
<1>2. x \in Nat /\ y \in Nat /\ x <= y
  <2>1. \A p, b, n, m \in Nat : p <= b /\ b <= n /\ n <= m =>
            n - p \in Nat /\ m - p \in Nat /\ n - p <= m - p
    OBVIOUS
  <2>2. PICK p, b, n, m : p = PeriodStart /\ b = Start /\ n = now /\ m = now'
    OBVIOUS
  <2>3. p \in Nat /\ b \in Nat /\ n \in Nat /\ m \in Nat
        /\ p <= b /\ b <= n /\ n <= m
    BY <2>2 DEF UBIAssumption, Inv
  <2>4. x = n - p /\ y = m - p
    BY <1>1, <2>2
  <2> QED
    BY <2>1, <2>3, <2>4
<1>3. x \div HoursPerDay \in Nat /\ y \div HoursPerDay \in Nat
      /\ x \div HoursPerDay <= y \div HoursPerDay
  <2>1. HoursPerDay \in Nat \ {0}
    BY DEF UBIAssumption
  <2> QED
    BY <1>2, <2>1, DivMonotonic
<1>4. today = x \div HoursPerDay /\ today' = y \div HoursPerDay
  BY <1>1 DEF today, DayOf
<1> QED
  BY <1>3, <1>4

LEMMA StartsInOrder ==
    ASSUME UBIAssumption, NEW c \in Nat, NEW d \in Nat, c <= d
    PROVE  startOfDay(c) \in Nat /\ startOfDay(c) <= startOfDay(d)
<1>1. HoursPerDay \in Nat /\ PeriodStart \in Nat
  BY DEF UBIAssumption
<1>2. c * HoursPerDay \in Nat /\ c * HoursPerDay <= d * HoursPerDay
  BY <1>1
<1> QED
  BY <1>1, <1>2 DEF startOfDay

LEMMA FiniteWords ==
    ASSUME UBIAssumption
    PROVE  /\ IsFiniteSet(Account) /\ IsFiniteSet(Month)
           /\ \A m \in Month : m \in Nat
BY DEF UBIAssumption, MonthsAreKnown

\* The month of now, and the one before it, can be told.
LEMMA MonthIsKnown ==
    ASSUME UBIAssumption, Inv
    PROVE  /\ thisMonth \in Month /\ thisMonth \in Nat
           /\ thisMonth > 0 => thisMonth - 1 \in Month
<1>1. now \in Start..MaxTime
  BY DEF UBIAssumption, Inv
<1>2. /\ thisMonth \in Month
      /\ thisMonth > 0 => thisMonth - 1 \in Month
  BY <1>1 DEF UBIAssumption, MonthsAreKnown, thisMonth
<1> QED
  BY <1>2, FiniteWords

LEMMA LaterMonth ==
    ASSUME UBIAssumption, Inv, now' \in Nat, now <= now'
    PROVE  thisMonth <= thisMonth'
<1>1. PICK k \in Nat \ {0} : k = HoursPerDay * DaysPerMonth
  BY DEF UBIAssumption
<1>2. now \in Nat
  BY DEF Inv
<1>3. now \div k <= now' \div k
  <2>1. PICK x, y : x = now /\ y = now'
    OBVIOUS
  <2>2. x \in Nat /\ y \in Nat /\ x <= y
    BY <1>2, <2>1
  <2>3. x \div k <= y \div k
    BY <2>2, DivMonotonic
  <2> QED
    BY <2>1, <2>3
<1> QED
  BY <1>1, <1>3 DEF thisMonth, MonthOf

-----------------------------------------------------------------------------
(* The day's income *)

NoClaims == [hasClaimed |-> {}, amountOfClaimers |-> 0, claimAmount |-> 0]

\* Inductive invariant: no day after the one last distributed has claims, and
\* those of that day were all paid its income, or nothing.
DaysInv ==
    /\ dailyUbi \in Nat /\ currentDay \in Nat
    /\ lastWithdrawDay <= currentDay /\ currentDay <= today
    /\ \A d \in Day : /\ claimDay[d].amountOfClaimers \in Nat
                      /\ d > lastWithdrawDay => claimDay[d] = NoClaims
    /\ PaidAlike

\* amount is income for some of count claims.
Evenly(count, amount, income) == \E n \in 0..count : amount = n * income

LEMMA EvenlyFacts ==
    ASSUME NEW c \in Nat, NEW p, NEW u \in Nat
    PROVE  /\ Evenly(c, 0, u)
           /\ Evenly(c, p, 0) => p = 0
           /\ Evenly(c, p, u) => Evenly(c + 1, p + u, u)
<1>1. Evenly(c, 0, u)
  <2>1. 0 = 0 * u /\ 0 \in 0..c
    OBVIOUS
  <2> QED
    BY <2>1 DEF Evenly
<1>2. ASSUME Evenly(c, p, 0) PROVE p = 0
  BY <1>2 DEF Evenly
<1>3. ASSUME Evenly(c, p, u) PROVE Evenly(c + 1, p + u, u)
  <2>1. PICK n \in 0..c : p = n * u
    BY <1>3 DEF Evenly
  <2>2. p + u = (n + 1) * u /\ n + 1 \in 0..(c + 1)
    BY <2>1
  <2> QED
    BY <2>2 DEF Evenly
<1> QED
  BY <1>1, <1>2, <1>3

LEMMA PaidEvenly ==
    PaidAlike <=> Evenly(claimDay[lastWithdrawDay].amountOfClaimers,
                         claimDay[lastWithdrawDay].claimAmount, dailyUbi)
BY DEF PaidAlike, Evenly

LEMMA InitDays == ASSUME UBIAssumption, Init PROVE DaysInv
<1>1. Inv
  BY InitInv
<1>2. today \in Nat /\ 0 \in Day
  BY <1>1, TodayIsNow, TodayIsADay DEF Inv, Init
<1>3. \A d \in Day : claimDay[d] = NoClaims
  BY DEF Init, NoClaims
<1>4. PaidAlike
  <2>1. claimDay[lastWithdrawDay].amountOfClaimers = 0
        /\ claimDay[lastWithdrawDay].claimAmount = 0 * dailyUbi
    BY <1>2, <1>3 DEF Init, NoClaims
  <2> QED
    BY <2>1 DEF PaidAlike
<1> QED
  BY <1>2, <1>3, <1>4 DEF Init, DaysInv, NoClaims

\* Opening a day leaves an income that is a number.
LEMMA Distributed ==
    ASSUME UBIAssumption, Inv, TypeOK, distribute
    PROVE  /\ dailyCyclePool' \in Nat /\ dailyUbi' \in Nat
           /\ daoBalance' \in Nat /\ openAmount' \in Nat /\ openAmount' = balance + fromDAO
<1>1. balance \in Nat /\ daoBalance \in Nat /\ cycleLength \in Nat \ {0}
      /\ dailyCyclePool \in Nat
  BY DEF TypeOK
<1>2. nextDailyPool \in Nat
  BY <1>1, DivMonotonic DEF nextDailyPool
<1>3. dailyCyclePool' \in Nat
  BY <1>1, <1>2 DEF distribute
<1>4. expectedUsers \in Nat \ {0}
  <2>1. prevDayClaimers \in Nat /\ minActiveUsers \in Nat /\ reserveFactor \in Nat
        /\ reserveFactor >= 10000
    BY DEF Inv, ClaimersKnown, prevDayClaimers
  <2>2. (prevDayClaimers * reserveFactor) \div 10000 \in Nat
    BY <2>1, ReservedForSome
  <2>3. expectedUsers \in Nat
    BY <2>1, <2>2 DEF expectedUsers, Larger
  <2> QED
    BY <2>3 DEF distribute
<1>5. dailyUbi' \in Nat
  <2>1. PICK k \in Nat \ {0}, n \in Nat : k = expectedUsers /\ n = dailyCyclePool'
    BY <1>3, <1>4
  <2>2. dailyUbi' = n \div k
    BY <2>1 DEF distribute
  <2>3. n \div k \in Nat
    BY DivType
  <2> QED
    BY <2>2, <2>3
<1>6. fromDAO \in {0, daoBalance}
  BY DEF fromDAO
<1> QED
  BY <1>1, <1>3, <1>5, <1>6 DEF distribute

LEMMA ClaimDays ==
    ASSUME UBIAssumption, Inv, TypeOK, DaysInv, NEW a \in Account, claim(a)
    PROVE  DaysInv'
<1>1. today \in Day /\ today \in Nat
  BY TodayIsADay, TodayIsNow
<1>2. now' = now /\ currentDay' = today /\ today' = today /\ Day' = Day
  BY DEF claim, distributionFormula, today, Day, DayOf
<1>3. dailyUbi' \in Nat /\ lastWithdrawDay' = today
  <2>1. CASE NotDistributed
    BY <1>2, <2>1, Distributed DEF claim, distributionFormula, distribute
  <2>2. CASE ~NotDistributed
    BY <2>2 DEF claim, distributionFormula, NotDistributed, cycleVars, TypeOK
  <2> QED
    BY <2>1, <2>2
<1>4. Evenly(claimDay[today].amountOfClaimers, claimDay[today].claimAmount, dailyUbi')
  <2>0. claimDay[today].amountOfClaimers \in Nat
    BY <1>1 DEF DaysInv
  <2>1. CASE today # lastWithdrawDay
    <3>1. lastWithdrawDay <= today /\ lastWithdrawDay \in Nat
      BY <1>1 DEF DaysInv, Inv, Day
    <3>2. claimDay[today] = NoClaims
      BY <1>1, <2>1, <3>1 DEF DaysInv
    <3> QED
      BY <1>3, <2>0, <3>2, EvenlyFacts DEF NoClaims
  <2>2. CASE today = lastWithdrawDay /\ dailyUbi = 0
    <3>1. claimDay[today].claimAmount = 0
      BY <2>0, <2>2, PaidEvenly, EvenlyFacts DEF DaysInv
    <3> QED
      BY <1>3, <2>0, <3>1, EvenlyFacts
  <2>3. CASE today = lastWithdrawDay /\ dailyUbi # 0
    <3>1. dailyUbi' = dailyUbi
      BY <2>3 DEF claim, distributionFormula, NotDistributed, cycleVars
    <3> QED
      BY <2>3, <3>1, PaidEvenly DEF DaysInv
  <2> QED
    BY <2>1, <2>2, <2>3
<1>5. /\ \A d \in Day : d # today => claimDay'[d] = claimDay[d]
      /\ \/ claimDay'[today] = claimDay[today]
         \/ /\ claimDay'[today].amountOfClaimers = claimDay[today].amountOfClaimers + 1
            /\ claimDay'[today].claimAmount = claimDay[today].claimAmount + dailyUbi'
  BY <1>1 DEF claim, Served, Refused, _transferTokens, claimVars, Inv
<1>6. \A d \in Day : /\ claimDay'[d].amountOfClaimers \in Nat
                     /\ d > lastWithdrawDay' => claimDay'[d] = NoClaims
  <2> SUFFICES ASSUME NEW d \in Day
               PROVE  /\ claimDay'[d].amountOfClaimers \in Nat
                      /\ d > lastWithdrawDay' => claimDay'[d] = NoClaims
    OBVIOUS
  <2>1. /\ claimDay[d].amountOfClaimers \in Nat
        /\ d > lastWithdrawDay => claimDay[d] = NoClaims
        /\ lastWithdrawDay <= today /\ lastWithdrawDay \in Nat /\ d \in Nat
    BY <1>1 DEF DaysInv, Inv, Day
  <2>2. CASE d = today
    BY <1>1, <1>3, <1>5, <2>1, <2>2
  <2>3. CASE d # today
    BY <1>1, <1>3, <1>5, <2>1, <2>3
  <2> QED
    BY <2>2, <2>3
<1>7. PaidAlike'
  <2> DEFINE c == claimDay[today].amountOfClaimers
             p == claimDay[today].claimAmount
             u == dailyUbi'
             d == claimDay'[today].amountOfClaimers
             q == claimDay'[today].claimAmount
  <2>1. /\ c = claimDay[today].amountOfClaimers /\ p = claimDay[today].claimAmount
        /\ u = dailyUbi'
        /\ d = claimDay'[today].amountOfClaimers /\ q = claimDay'[today].claimAmount
    OBVIOUS
  <2>2. c \in Nat /\ u \in Nat
    BY <1>1, <1>3 DEF DaysInv
  <2>3. Evenly(c, p, u)
    BY <1>4
  <2>4. (d = c /\ q = p) \/ (d = c + 1 /\ q = p + u)
    <3>1. CASE claimDay'[today] = claimDay[today]
      BY <3>1
    <3>2. CASE claimDay'[today] # claimDay[today]
      BY <1>5, <3>2
    <3> QED
      BY <3>1, <3>2
  <2> HIDE DEF c, p, u, d, q
  <2>5. Evenly(d, q, u)
    BY <2>2, <2>3, <2>4, EvenlyFacts
  <2>6. PaidAlike' <=> Evenly(claimDay'[lastWithdrawDay'].amountOfClaimers,
                              claimDay'[lastWithdrawDay'].claimAmount, dailyUbi')
    BY DEF PaidAlike, Evenly
  <2> QED
    BY <1>3, <2>1, <2>5, <2>6
<1> QED
  BY <1>1, <1>2, <1>3, <1>6, <1>7 DEF DaysInv

\* Steps that open no day and pay nothing.
LEMMA OtherDays ==
    ASSUME UBIAssumption, Inv, DaysInv, now' \in Nat, now <= now',
           currentDay' = currentDay \/ (now' = now /\ currentDay < today /\ currentDay' = today),
           UNCHANGED <<claimDay, dailyUbi, lastWithdrawDay>>
    PROVE  DaysInv'
<1>1. today \in Nat /\ today' \in Nat /\ today <= today' /\ lastWithdrawDay \in Nat
  BY TodayIsNow, LaterDay DEF Inv, Day
<1>2. currentDay' \in Nat /\ lastWithdrawDay' <= currentDay' /\ currentDay' <= today'
  BY <1>1 DEF DaysInv
<1>3. Day' = Day
  BY DEF Day, DayOf
<1>4. PaidAlike'
  BY DEF DaysInv, PaidAlike
<1> QED
  BY <1>2, <1>3, <1>4 DEF DaysInv

-----------------------------------------------------------------------------
(* The months of ClaimersDistribution *)

\* What accounts were paid for the months before `month`: each, once, its
\* share of what the month had.
Earned(month, data, paid, last) == \A m \in Month, a \in Account :
    \/ paid[m][a] = 0
    \/ /\ m < month /\ m <= last[a] /\ data[m].claims[a] > 0
       /\ paid[m][a] = Share(data[m], a)

Totalled(data) == \A m \in Month :
    data[m].totalClaims = SumFunctionOnSet(data[m].claims, Account)

\* Inductive invariant: the months' claims are totalled, no month to come
\* was paid for, and the month before the current one is known.
MonthsInv ==
    /\ ClaimersTypeOK
    /\ currentMonth > 0 => currentMonth - 1 \in Month
    /\ Totalled(months)
    /\ Earned(currentMonth, months, earned, lastMonthClaimed)

LEMMA MonthFacts ==
    ASSUME UBIAssumption, NEW data \in [Month -> MonthData], NEW m \in Month
    PROVE  /\ data[m].claims \in [Account -> Nat] /\ data[m].totalClaims \in Nat
           /\ data[m].monthlyDistribution \in Nat
           /\ \A a \in Account : data[m].claims[a] \in Nat
           /\ IsFiniteSet(Account) /\ m \in Nat
<1>1. data[m] \in MonthData
  OBVIOUS
<1>2. data[m].claims \in [Account -> Nat] /\ data[m].totalClaims \in Nat
      /\ data[m].monthlyDistribution \in Nat
  BY <1>1 DEF MonthData
<1> QED
  BY <1>2, FiniteWords

\* A share of a month with claims is a number, within what the month has when
\* taken as often as there are claims.
LEMMA ShareType ==
    ASSUME UBIAssumption, NEW data \in [Month -> MonthData], Totalled(data),
           NEW m \in Month, NEW a \in Account, data[m].claims[a] > 0
    PROVE  /\ data[m].totalClaims > 0 /\ Share(data[m], a) \in Nat
           /\ data[m].totalClaims * Share(data[m], a)
                 <= data[m].monthlyDistribution * data[m].claims[a]
<1> DEFINE f == data[m].claims
           t == data[m].totalClaims
           d == data[m].monthlyDistribution
<1>1. /\ f = data[m].claims /\ t = data[m].totalClaims
      /\ d = data[m].monthlyDistribution
  OBVIOUS
<1> HIDE DEF f, t, d
<1>2. f \in [Account -> Nat] /\ t \in Nat /\ d \in Nat /\ IsFiniteSet(Account)
  BY <1>1, MonthFacts
<1>3. t = SumFunctionOnSet(f, Account)
  BY <1>1 DEF Totalled
<1>4. t > 0
  <2>1. \A x \in Account : f[x] \in Int /\ f[x] \in Nat
    BY <1>2
  <2>2. SumFunctionOnSet(f, Account) = f[a] + SumFunctionOnSet(f, Account \ {a})
    BY <1>2, <2>1, SumRemove
  <2>3. SumFunctionOnSet(f, Account \ {a}) \in Nat
    <3>1. IsFiniteSet(Account \ {a})
      BY <1>2, FS_RemoveElement
    <3> QED
      BY <2>1, <3>1, SumType
  <2>4. f[a] \in Nat /\ f[a] > 0
    BY <1>1, <1>2
  <2> QED
    BY <1>3, <2>2, <2>3, <2>4
<1>5. PICK n \in Nat : n = d * f[a]
  BY <1>2
<1>6. n \div t \in Nat
  BY <1>2, <1>4, DivType
<1>7. t * (n \div t) <= n
  BY <1>2, <1>4
<1>8. Share(data[m], a) = n \div t
  BY <1>1, <1>5 DEF Share
<1> QED
  BY <1>1, <1>4, <1>5, <1>6, <1>7, <1>8

\* One payment for the month before, at any time in `month`.
LEMMA PayKeepsEarned ==
    ASSUME UBIAssumption, NEW data \in [Month -> MonthData], Totalled(data),
           NEW month \in Month, month > 0 => month - 1 \in Month,
           lastMonthClaimed \in [Account -> Nat],
           earned \in [Month -> [Account -> Nat]],
           Earned(month, data, earned, lastMonthClaimed),
           NEW a \in Account, PayMonthBefore(a, month, data)
    PROVE  /\ lastMonthClaimed' \in [Account -> Nat]
           /\ earned' \in [Month -> [Account -> Nat]]
           /\ Earned(month, data, earned', lastMonthClaimed')
<1>1. month \in Nat /\ lastMonthClaimed[a] \in Nat
  BY FiniteWords
<1>2. CASE UNCHANGED <<lastMonthClaimed, earned>>
  BY <1>2
<1>3. CASE ~UNCHANGED <<lastMonthClaimed, earned>>
  <2> DEFINE prev == month - 1
  <2>1. /\ lastMonthClaimed[a] < prev /\ data[prev].claims[a] > 0
        /\ lastMonthClaimed' = [lastMonthClaimed EXCEPT ![a] = prev]
        /\ earned' = [earned EXCEPT ![prev][a] = @ + Share(data[prev], a)]
    BY <1>3 DEF PayMonthBefore, NotPaid
  <2>2. prev \in Month /\ prev \in Nat /\ prev < month
    BY <1>1, <2>1, FiniteWords
  <2> HIDE DEF prev
  <2>3. Share(data[prev], a) \in Nat
    BY <2>1, <2>2, ShareType
  <2>4. earned[prev][a] = 0
    BY <1>1, <2>1, <2>2 DEF Earned
  <2>5. /\ lastMonthClaimed' \in [Account -> Nat] /\ lastMonthClaimed'[a] = prev
        /\ \A b \in Account \ {a} : lastMonthClaimed'[b] = lastMonthClaimed[b]
    BY <2>1, <2>2
  <2>6. /\ earned' \in [Month -> [Account -> Nat]]
        /\ earned'[prev][a] = Share(data[prev], a)
        /\ \A m \in Month, b \in Account :
              m # prev \/ b # a => earned'[m][b] = earned[m][b]
    BY <2>1, <2>2, <2>3, <2>4
  <2>7. Earned(month, data, earned', lastMonthClaimed')
    <3> SUFFICES ASSUME NEW m \in Month, NEW b \in Account, earned'[m][b] # 0
                 PROVE  /\ m < month /\ m <= lastMonthClaimed'[b]
                        /\ data[m].claims[b] > 0
                        /\ earned'[m][b] = Share(data[m], b)
      BY DEF Earned
    <3>1. CASE m = prev /\ b = a
      BY <2>1, <2>2, <2>5, <2>6, <3>1
    <3>2. CASE m # prev \/ b # a
      <4>1. /\ m < month /\ m <= lastMonthClaimed[b] /\ data[m].claims[b] > 0
            /\ earned'[m][b] = Share(data[m], b)
        BY <2>6, <3>2 DEF Earned
      <4>2. m \in Nat /\ lastMonthClaimed[b] <= lastMonthClaimed'[b]
        <5>1. m \in Nat /\ lastMonthClaimed[b] \in Nat
          BY FiniteWords
        <5>2. CASE b = a
          BY <1>1, <2>1, <2>2, <2>5, <5>1, <5>2
        <5>3. CASE b # a
          BY <2>5, <5>1, <5>3
        <5> QED
          BY <5>1, <5>2, <5>3
      <4> QED
        BY <4>1, <4>2, <2>5
    <3> QED
      BY <3>1, <3>2
  <2> QED
    BY <2>5, <2>6, <2>7
<1> QED
  BY <1>2, <1>3

\* What counting a claim does to the months.
LEMMA CountedMonths ==
    ASSUME UBIAssumption, ClaimersTypeOK, NEW a \in Account, NEW dayStart, NEW at,
           NEW month \in Month, updateClaim(a, dayStart, at, month)
    PROVE  /\ months' \in [Month -> MonthData]
           /\ \A m \in Month : m # month => months'[m] = months[m]
           /\ months'[month].claims = [months[month].claims EXCEPT ![a] = @ + 1]
           /\ months'[month].totalClaims = months[month].totalClaims + 1
<1>1. PICK u : u = UpToMonth(month)
  OBVIOUS
<1>2. /\ u \in [Month -> MonthData]
      /\ \A m \in Month : m # month => u[m] = months[m]
      /\ u[month].claims = months[month].claims
      /\ u[month].totalClaims = months[month].totalClaims
  <2>1. months \in [Month -> MonthData] /\ monthlyReputationDistribution \in Nat
    BY DEF ClaimersTypeOK
  <2>2. CASE month = currentMonth
    BY <1>1, <2>1, <2>2 DEF UpToMonth
  <2>3. CASE month # currentMonth
    <3> DEFINE k == [months[month] EXCEPT !.monthlyDistribution =
                          monthlyReputationDistribution]
    <3>1. u = [months EXCEPT ![month] = k]
      BY <1>1, <2>1, <2>3 DEF UpToMonth
    <3>2. months[month] \in MonthData
      BY <2>1
    <3>3. k \in MonthData /\ k.claims = months[month].claims
          /\ k.totalClaims = months[month].totalClaims
      BY <2>1, <3>2 DEF MonthData
    <3> HIDE DEF k
    <3> QED
      BY <2>1, <3>1, <3>3
  <2> QED
    BY <2>2, <2>3
<1> DEFINE w == [u EXCEPT ![month].claims[a] = @ + 1, ![month].totalClaims = @ + 1]
<1>3. w = [u EXCEPT ![month].claims[a] = @ + 1, ![month].totalClaims = @ + 1]
  OBVIOUS
<1> HIDE DEF w
<1>4. w \in [Month -> MonthData]
  <2>1. u[month] \in MonthData
    BY <1>2
  <2>2. u[month].claims[a] + 1 \in Nat /\ u[month].totalClaims + 1 \in Nat
    BY <2>1 DEF MonthData
  <2> QED
    BY <1>2, <1>3, <2>2 DEF MonthData
<1>5. \A m \in Month : m # month => w[m] = u[m]
  BY <1>2, <1>3
<1>6. /\ w[month].claims = [u[month].claims EXCEPT ![a] = @ + 1]
      /\ w[month].totalClaims = u[month].totalClaims + 1
  BY <1>2, <1>3 DEF MonthData
<1>7. months' = w
  BY <1>1, <1>3 DEF updateClaim
<1> QED
  BY <1>2, <1>4, <1>5, <1>6, <1>7

LEMMA UpdateClaimMonths ==
    ASSUME UBIAssumption, MonthsInv, NEW a \in Account, NEW dayStart, NEW at \in Nat,
           NEW month \in Month, month > 0 => month - 1 \in Month,
           currentMonth <= month, updateClaim(a, dayStart, at, month)
    PROVE  MonthsInv'
<1>1. ClaimersTypeOK
  BY DEF MonthsInv
<1>2. /\ months' \in [Month -> MonthData]
      /\ \A m \in Month : m # month => months'[m] = months[m]
      /\ months'[month].claims = [months[month].claims EXCEPT ![a] = @ + 1]
      /\ months'[month].totalClaims = months[month].totalClaims + 1
  BY <1>1, CountedMonths
<1>3. PICK data : data = months'
  OBVIOUS
<1>4. Totalled(data)
  <2> SUFFICES ASSUME NEW m \in Month
               PROVE  data[m].totalClaims = SumFunctionOnSet(data[m].claims, Account)
    BY DEF Totalled
  <2>1. months[m].totalClaims = SumFunctionOnSet(months[m].claims, Account)
    BY DEF MonthsInv, Totalled
  <2>2. CASE m # month
    BY <1>2, <1>3, <2>1, <2>2
  <2>3. CASE m = month
    <3>1. PICK f, g : f = months[m].claims /\ g = data[m].claims
      OBVIOUS
    <3>2. f \in [Account -> Nat] /\ IsFiniteSet(Account)
      BY <1>1, <3>1, MonthFacts DEF ClaimersTypeOK
    <3>3. g = [f EXCEPT ![a] = @ + 1]
      BY <1>2, <1>3, <2>3, <3>1
    <3>4. /\ \A x \in Account : f[x] \in Int /\ g[x] \in Int
          /\ \A x \in Account \ {a} : g[x] = f[x]
          /\ g[a] = f[a] + 1
      BY <3>2, <3>3
    <3>5. SumFunctionOnSet(g, Account) = SumFunctionOnSet(f, Account) - f[a] + g[a]
      BY <3>2, <3>4, SumUpdate
    <3>6. SumFunctionOnSet(f, Account) \in Int
      BY <3>2, <3>4, SumType
    <3>7. SumFunctionOnSet(g, Account) = SumFunctionOnSet(f, Account) + 1
      BY <3>4, <3>5, <3>6
    <3>8. data[m].totalClaims = months[m].totalClaims + 1
      BY <1>2, <1>3, <2>3
    <3> QED
      BY <2>1, <3>1, <3>7, <3>8
  <2> QED
    BY <2>2, <2>3
<1>5. Earned(month, data, earned, lastMonthClaimed)
  <2> SUFFICES ASSUME NEW m \in Month, NEW b \in Account, earned[m][b] # 0
               PROVE  /\ m < month /\ m <= lastMonthClaimed[b]
                      /\ data[m].claims[b] > 0
                      /\ earned[m][b] = Share(data[m], b)
    BY DEF Earned
  <2>1. /\ m < currentMonth /\ m <= lastMonthClaimed[b] /\ months[m].claims[b] > 0
        /\ earned[m][b] = Share(months[m], b)
    BY DEF MonthsInv, Earned
  <2>2. m < month
    <3>1. currentMonth \in Nat /\ m \in Nat /\ month \in Nat
      BY <1>1, FiniteWords DEF ClaimersTypeOK
    <3> QED
      BY <2>1, <3>1
  <2>3. m # month
    BY <2>2, FiniteWords
  <2> QED
    BY <1>2, <1>3, <2>1, <2>2, <2>3
<1>6. /\ lastMonthClaimed' \in [Account -> Nat]
      /\ earned' \in [Month -> [Account -> Nat]]
      /\ Earned(month, data, earned', lastMonthClaimed')
  <2>1. lastMonthClaimed \in [Account -> Nat] /\ earned \in [Month -> [Account -> Nat]]
    BY <1>1 DEF ClaimersTypeOK
  <2>2. PayMonthBefore(a, month, data)
    BY <1>3 DEF updateClaim
  <2>3. data \in [Month -> MonthData]
    BY <1>2, <1>3
  <2> QED
    BY <1>4, <1>5, <2>1, <2>2, <2>3, PayKeepsEarned
<1>7. currentMonth' = month /\ lastUpdated' \in [Account -> Nat]
      /\ monthlyReputationDistribution' \in Nat
  BY <1>1 DEF updateClaim, ClaimersTypeOK
<1>8. ClaimersTypeOK'
  BY <1>2, <1>6, <1>7 DEF ClaimersTypeOK
<1> QED
  BY <1>3, <1>4, <1>6, <1>7, <1>8 DEF MonthsInv, Totalled, Earned, Share

LEMMA ClaimReputationMonths ==
    ASSUME UBIAssumption, MonthsInv, NEW a \in Account, claimReputation(a)
    PROVE  MonthsInv'
<1>1. /\ months \in [Month -> MonthData] /\ currentMonth \in Month
      /\ lastMonthClaimed \in [Account -> Nat] /\ earned \in [Month -> [Account -> Nat]]
      /\ Totalled(months) /\ Earned(currentMonth, months, earned, lastMonthClaimed)
      /\ currentMonth > 0 => currentMonth - 1 \in Month
  BY DEF MonthsInv, ClaimersTypeOK
<1>2. PayMonthBefore(a, currentMonth, months)
  BY DEF claimReputation
<1>3. /\ lastMonthClaimed' \in [Account -> Nat]
      /\ earned' \in [Month -> [Account -> Nat]]
      /\ Earned(currentMonth, months, earned', lastMonthClaimed')
  BY <1>1, <1>2, PayKeepsEarned
<1>4. UNCHANGED <<monthlyReputationDistribution, currentMonth, months, lastUpdated>>
  BY DEF claimReputation
<1> QED
  BY <1>3, <1>4 DEF MonthsInv, ClaimersTypeOK, Totalled, Earned, Share

\* The shares of a month, rounded down, are within what it was given.
LEMMA SharesWithinMonth ==
    ASSUME UBIAssumption, MonthsInv PROVE MonthWithinDistribution
<1> SUFFICES ASSUME NEW m \in Month
             PROVE  SumFunctionOnSet(earned[m], Account) <= months[m].monthlyDistribution
  BY DEF MonthWithinDistribution
<1>1. /\ months \in [Month -> MonthData] /\ Totalled(months)
      /\ earned \in [Month -> [Account -> Nat]]
      /\ Earned(currentMonth, months, earned, lastMonthClaimed)
  BY DEF MonthsInv, ClaimersTypeOK
<1> DEFINE e == earned[m]
           f == months[m].claims
           t == months[m].totalClaims
           d == months[m].monthlyDistribution
<1>2. e \in [Account -> Nat] /\ f \in [Account -> Nat] /\ t \in Nat /\ d \in Nat
      /\ IsFiniteSet(Account)
  BY <1>1, MonthFacts
<1>3. t = SumFunctionOnSet(f, Account)
  BY <1>1 DEF Totalled
<1>4. \A a \in Account : e[a] = 0 \/ (f[a] > 0 /\ t > 0 /\ t * e[a] <= d * f[a])
  <2> SUFFICES ASSUME NEW a \in Account, e[a] # 0
               PROVE  f[a] > 0 /\ t > 0 /\ t * e[a] <= d * f[a]
    OBVIOUS
  <2>1. f[a] > 0 /\ e[a] = Share(months[m], a)
    BY <1>1 DEF Earned
  <2>2. /\ t > 0 /\ t * Share(months[m], a) <= d * f[a]
    BY <1>1, <2>1, ShareType
  <2> QED
    BY <2>1, <2>2
<1> HIDE DEF e, f, t, d
<1>5. SumFunctionOnSet(e, Account) \in Nat
  <2>1. \A a \in Account : e[a] \in Nat
    BY <1>2
  <2> QED
    BY <1>2, <2>1, SumType
<1>6. CASE t = 0
  <2>1. \A a \in Account : e[a] = 0
    BY <1>4, <1>6
  <2>2. SumFunctionOnSet(e, Account) = 0
    BY <1>2, <2>1, SumOfZeros
  <2> QED
    BY <1>2, <2>2 DEF e, d
<1>7. CASE t > 0
  <2> DEFINE g == [a \in Account |-> t * e[a]]
             h == [a \in Account |-> d * f[a]]
  <2>1. \A a \in Account : e[a] \in Nat /\ f[a] \in Nat /\ e[a] \in Int /\ f[a] \in Int
    BY <1>2
  <2>2. \A a \in Account : g[a] = t * e[a] /\ h[a] = d * f[a]
    OBVIOUS
  <2>3. \A a \in Account : t * e[a] \in Int /\ d * f[a] \in Int
    BY <1>2, <2>1
  <2>4. \A a \in Account : t * e[a] <= d * f[a]
    <3> SUFFICES ASSUME NEW a \in Account PROVE t * e[a] <= d * f[a]
      OBVIOUS
    <3>1. PICK j \in Nat, k \in Nat : j = e[a] /\ k = f[a]
      BY <2>1
    <3>2. j = 0 => t * j = 0 /\ d * k \in Nat
      BY <1>2
    <3>3. j = 0 \/ t * j <= d * k
      BY <1>4, <3>1
    <3>4. t * j <= d * k
      BY <3>2, <3>3
    <3> QED
      BY <3>1, <3>4
  <2>5. \A a \in Account : g[a] \in Int /\ h[a] \in Int /\ g[a] <= h[a]
    BY <2>2, <2>3, <2>4
  <2> HIDE DEF g, h
  <2>6. SumFunctionOnSet(g, Account) <= SumFunctionOnSet(h, Account)
    BY <1>2, <2>5, SumMonotonic
  <2>7. /\ SumFunctionOnSet(g, Account) = t * SumFunctionOnSet(e, Account)
        /\ SumFunctionOnSet(h, Account) = d * SumFunctionOnSet(f, Account)
    <3>1. t \in Int /\ d \in Int
      BY <1>2
    <3> QED
      BY <1>2, <2>1, <2>2, <3>1, SumTimes
  <2>8. PICK z \in Nat : z = SumFunctionOnSet(e, Account)
    BY <1>5
  <2>9. t * z <= d * t
    BY <1>3, <2>6, <2>7, <2>8
  <2>10. z <= d
    <3>1. ASSUME z >= d + 1 PROVE FALSE
      <4>1. t * z >= t * (d + 1)
        BY <1>2, <3>1
      <4>2. t * (d + 1) = d * t + t
        BY <1>2
      <4>3. d * t \in Nat /\ t * z \in Nat
        BY <1>2
      <4> QED
        BY <1>2, <1>7, <2>9, <4>1, <4>2, <4>3
    <3> QED
      BY <1>2, <3>1
  <2> QED
    BY <2>8, <2>10 DEF e, d
<1> QED
  BY <1>2, <1>6, <1>7

-----------------------------------------------------------------------------
(* Claims that count *)

\* A claim of the current day that was not counted yet.
Due(a) == IF hasClaimed(a) /\ lastUpdated[a] < startOfDay(currentDay) THEN 1 ELSE 0

\* Inductive invariant: what is counted, and what still may be, was claimed.
CountInv == \A a \in Account : Counted(a) + Due(a) <= totalClaimsPerUser[a]

LEMMA ClaimsAreCounts ==
    ASSUME UBIAssumption, ClaimersTypeOK, NEW a \in Account
    PROVE  \A m \in Month : months[m].claims[a] \in Nat
<1> SUFFICES ASSUME NEW m \in Month PROVE months[m].claims[a] \in Nat
  OBVIOUS
<1>1. months \in [Month -> MonthData]
  BY DEF ClaimersTypeOK
<1>2. months[m].claims \in [Account -> Nat]
  BY <1>1, MonthFacts
<1> QED
  BY <1>2

LEMMA CountedType ==
    ASSUME UBIAssumption, ClaimersTypeOK, NEW a \in Account
    PROVE  Counted(a) \in Nat
<1> DEFINE f == [m \in Month |-> months[m].claims[a]]
<1>1. \A m \in Month : f[m] \in Nat
  BY ClaimsAreCounts
<1>2. Counted(a) = SumFunctionOnSet(f, Month)
  BY DEF Counted
<1>3. IsFiniteSet(Month)
  BY FiniteWords
<1> HIDE DEF f
<1>4. SumFunctionOnSet(f, Month) \in Nat
  BY <1>1, <1>3, SumType
<1> QED
  BY <1>2, <1>4

\* Counting a claim of a adds one to its count, and to no other.
LEMMA CountOne ==
    ASSUME UBIAssumption, ClaimersTypeOK, NEW a \in Account, NEW dayStart, NEW at,
           NEW month \in Month, updateClaim(a, dayStart, at, month)
    PROVE  \A b \in Account :
               Counted(b)' = IF b = a THEN Counted(b) + 1 ELSE Counted(b)
<1> SUFFICES ASSUME NEW b \in Account
             PROVE  Counted(b)' = IF b = a THEN Counted(b) + 1 ELSE Counted(b)
  OBVIOUS
<1> DEFINE f == [m \in Month |-> months[m].claims[b]]
           g == [m \in Month |-> months'[m].claims[b]]
<1>1. Counted(b) = SumFunctionOnSet(f, Month) /\ Counted(b)' = SumFunctionOnSet(g, Month)
  BY DEF Counted
<1>2. /\ months \in [Month -> MonthData] /\ IsFiniteSet(Month)
      /\ months' \in [Month -> MonthData]
      /\ \A m \in Month : m # month => months'[m] = months[m]
      /\ months'[month].claims = [months[month].claims EXCEPT ![a] = @ + 1]
  BY CountedMonths, FiniteWords DEF ClaimersTypeOK
<1>3. \A m \in Month : months[m].claims[b] \in Nat
  BY ClaimsAreCounts
<1>4. months'[month].claims[b] =
          IF b = a THEN months[month].claims[b] + 1 ELSE months[month].claims[b]
  <2>1. months[month].claims \in [Account -> Nat]
    BY <1>2, MonthFacts
  <2> QED
    BY <1>2, <2>1
<1>5. /\ \A m \in Month : f[m] \in Int
      /\ \A m \in Month \ {month} : g[m] = f[m]
      /\ b = a => g[month] = f[month] + 1
      /\ b # a => g[month] = f[month]
  <2>1. \A m \in Month : f[m] = months[m].claims[b] /\ g[m] = months'[m].claims[b]
    OBVIOUS
  <2> HIDE DEF f, g
  <2>2. \A m \in Month : f[m] \in Int
    BY <1>3, <2>1
  <2>3. \A m \in Month \ {month} : g[m] = f[m]
    BY <1>2, <2>1
  <2>4. b = a => g[month] = f[month] + 1
    BY <1>4, <2>1
  <2>5. b # a => g[month] = f[month]
    BY <1>4, <2>1
  <2> QED
    BY <2>2, <2>3, <2>4, <2>5
<1> HIDE DEF f, g
<1>6. \A m \in Month : f[m] \in Int /\ g[m] \in Int
  BY <1>5
<1>7. SumFunctionOnSet(g, Month) = SumFunctionOnSet(f, Month) - f[month] + g[month]
  BY <1>2, <1>5, <1>6, SumUpdate
<1>8. SumFunctionOnSet(f, Month) \in Int
  BY <1>2, <1>5, SumType
<1> QED
  BY <1>1, <1>5, <1>6, <1>7, <1>8

LEMMA CountsStay ==
    ASSUME months' = months, NEW a PROVE Counted(a)' = Counted(a)
BY DEF Counted

\* A claim counted at hour `at` is not due any more; nor does another become so.
LEMMA UpdateCounts ==
    ASSUME UBIAssumption, ClaimersTypeOK, NEW a \in Account,
           NEW dayStart \in Nat, NEW at \in Nat, NEW month \in Month, dayStart <= at,
           updateClaim(a, dayStart, at, month)
    PROVE  /\ Counted(a)' = Counted(a) + 1 /\ lastUpdated'[a] = at
           /\ lastUpdated[a] < dayStart
           /\ \A b \in Account : b # a =>
                 Counted(b)' = Counted(b) /\ lastUpdated'[b] = lastUpdated[b]
<1>1. \A b \in Account : Counted(b)' = IF b = a THEN Counted(b) + 1 ELSE Counted(b)
  BY CountOne
<1>2. lastUpdated' = [lastUpdated EXCEPT ![a] = at] /\ lastUpdated \in [Account -> Nat]
      /\ dayStart > lastUpdated[a]
  BY DEF updateClaim, NotUpdated, ClaimersTypeOK
<1> QED
  BY <1>1, <1>2

\* The claims of a day that becomes the current one are none, if it is a new day.
LEMMA NewDayIsEmpty ==
    ASSUME UBIAssumption, Inv, DaysInv
    PROVE  /\ today \in Day /\ today \in Nat /\ currentDay \in Nat /\ currentDay <= today
           /\ today # currentDay => claimDay[today].hasClaimed = {}
<1>1. today \in Day /\ today \in Nat /\ lastWithdrawDay \in Nat
  BY TodayIsADay, TodayIsNow DEF Inv, Day
<1>2. today # currentDay => today > lastWithdrawDay
  BY <1>1 DEF DaysInv
<1> QED
  BY <1>1, <1>2 DEF DaysInv, NoClaims

LEMMA ClaimCounts ==
    ASSUME UBIAssumption, Inv, TypeOK, DaysInv, CountInv, NEW a \in Account, claim(a)
    PROVE  CountInv'
<1>1. /\ today \in Day /\ today \in Nat /\ currentDay \in Nat /\ currentDay <= today
      /\ today # currentDay => claimDay[today].hasClaimed = {}
  BY NewDayIsEmpty
<1>2. /\ startOfDay(today) \in Nat /\ startOfDay(today) <= now /\ now \in Nat
  BY <1>1, TodayIsNow, StartsInOrder
<1>3. ClaimersTypeOK /\ lastUpdated \in [Account -> Nat]
      /\ totalClaimsPerUser \in [Account -> Nat]
  BY DEF TypeOK, ClaimersTypeOK
<1>4. currentDay' = today /\ today' = today /\ startOfDay(currentDay)' = startOfDay(today)
  BY DEF claim, distributionFormula, today, DayOf, startOfDay
<1>5. \A b \in Account : Due(b)' = IF b \in claimDay'[today].hasClaimed
                                      /\ lastUpdated'[b] < startOfDay(today)
                                   THEN 1 ELSE 0
  BY <1>4 DEF Due, hasClaimed
<1>6. \A b \in Account : (b \in claimDay[today].hasClaimed
                          /\ lastUpdated[b] < startOfDay(today)) => Due(b) = 1
  BY <1>1 DEF Due, hasClaimed
<1>7. \A b \in Account : /\ Counted(b) \in Nat /\ Due(b) \in {0, 1}
                         /\ totalClaimsPerUser[b] \in Nat
                         /\ Counted(b) + Due(b) <= totalClaimsPerUser[b]
  BY <1>3, CountedType DEF Due, CountInv
<1>8. CASE Refused(a)
  <2>1. UNCHANGED <<claimDay, totalClaimsPerUser, months, lastUpdated>>
    BY <1>8 DEF Refused, claimVars, claimersVars
  <2> SUFFICES ASSUME NEW b \in Account
               PROVE  Counted(b)' + Due(b)' <= totalClaimsPerUser'[b]
    BY DEF CountInv
  <2>2. Counted(b)' = Counted(b)
    BY <2>1, CountsStay
  <2>3. Due(b)' = 0 \/ (Due(b)' = 1 /\ Due(b) = 1)
    BY <1>5, <1>6, <2>1
  <2> QED
    BY <1>7, <2>1, <2>2, <2>3
<1>9. CASE Served(a)
  <2>1. /\ claimDay'[today].hasClaimed = claimDay[today].hasClaimed \union {a}
        /\ totalClaimsPerUser' = [totalClaimsPerUser EXCEPT ![a] = @ + 1]
        /\ a \notin claimDay[today].hasClaimed
    BY <1>1, <1>9 DEF Served, _transferTokens, Inv
  <2>2. /\ totalClaimsPerUser'[a] = totalClaimsPerUser[a] + 1
        /\ \A b \in Account : b # a => totalClaimsPerUser'[b] = totalClaimsPerUser[b]
    BY <1>3, <2>1
  <2>3. /\ \A b \in Account : b # a =>
              Counted(b)' = Counted(b) /\ lastUpdated'[b] = lastUpdated[b]
        /\ \/ Counted(a)' = Counted(a) + 1 /\ lastUpdated'[a] = now
           \/ Counted(a)' = Counted(a)
    <3>1. CASE updateClaim(a, startOfDay(today), now, thisMonth)
      <4>1. thisMonth \in Month
        BY MonthIsKnown
      <4> QED
        BY <1>2, <1>3, <3>1, <4>1, UpdateCounts
    <3>2. CASE UNCHANGED claimersVars
      BY <3>2, CountsStay DEF claimersVars
    <3> QED
      BY <1>9, <3>1, <3>2 DEF Served
  <2> SUFFICES ASSUME NEW b \in Account
               PROVE  Counted(b)' + Due(b)' <= totalClaimsPerUser'[b]
    BY DEF CountInv
  <2>4. CASE b # a
    <3>1. Due(b)' = 0 \/ (Due(b)' = 1 /\ Due(b) = 1)
      BY <1>5, <1>6, <2>1, <2>3, <2>4
    <3> QED
      BY <1>7, <2>2, <2>3, <2>4, <3>1
  <2>5. CASE b = a
    <3>1. Due(b)' \in {0, 1}
      BY <1>5
    <3>2. lastUpdated'[a] = now => Due(a)' = 0
      BY <1>2, <1>5
    <3>3. Counted(a)' + Due(a)' <= Counted(a) + 1
      BY <1>7, <2>3, <2>5, <3>1, <3>2
    <3> QED
      BY <1>7, <2>2, <2>3, <2>5, <3>1, <3>3
  <2> QED
    BY <2>4, <2>5
<1> QED
  BY <1>8, <1>9 DEF claim

LEMMA UpdateClaimCounts ==
    ASSUME UBIAssumption, Inv, TypeOK, DaysInv, CountInv, NEW a \in Account,
           UpdateClaim(a)
    PROVE  CountInv'
<1>1. /\ today \in Nat /\ currentDay \in Nat /\ currentDay <= today
  BY NewDayIsEmpty
<1>2. /\ startOfDay(currentDay) \in Nat /\ startOfDay(currentDay) <= now /\ now \in Nat
  <2>1. startOfDay(currentDay) <= startOfDay(today) /\ startOfDay(today) <= now
    BY <1>1, TodayIsNow, StartsInOrder
  <2>2. startOfDay(currentDay) \in Nat /\ startOfDay(today) \in Nat /\ now \in Nat
    BY <1>1, TodayIsNow, StartsInOrder
  <2> QED
    BY <2>1, <2>2
<1>3. ClaimersTypeOK /\ lastUpdated \in [Account -> Nat]
      /\ totalClaimsPerUser \in [Account -> Nat]
  BY DEF TypeOK, ClaimersTypeOK
<1>4. /\ UNCHANGED <<claimDay, totalClaimsPerUser, currentDay>>
      /\ startOfDay(currentDay)' = startOfDay(currentDay)
  BY DEF UpdateClaim, claimVars, startOfDay
<1>5. /\ Counted(a)' = Counted(a) + 1 /\ lastUpdated'[a] = now
      /\ lastUpdated[a] < startOfDay(currentDay)
      /\ \A b \in Account : b # a =>
            Counted(b)' = Counted(b) /\ lastUpdated'[b] = lastUpdated[b]
  <2>1. thisMonth \in Month
    BY MonthIsKnown
  <2> QED
    BY <1>2, <1>3, <2>1, UpdateCounts DEF UpdateClaim
<1>6. \A b \in Account : /\ Counted(b) \in Nat /\ Due(b) \in {0, 1}
                         /\ totalClaimsPerUser[b] \in Nat
                         /\ Counted(b) + Due(b) <= totalClaimsPerUser[b]
  BY <1>3, CountedType DEF Due, CountInv
<1>7. Due(a) = 1 /\ Due(a)' = 0
  <2>1. hasClaimed(a)
    BY DEF UpdateClaim
  <2>2. ~(now < startOfDay(currentDay))
    BY <1>2
  <2> QED
    BY <1>4, <1>5, <2>1, <2>2 DEF Due
<1>8. \A b \in Account : b # a => Due(b)' = Due(b)
  BY <1>4, <1>5 DEF Due, hasClaimed
<1> SUFFICES ASSUME NEW b \in Account
             PROVE  Counted(b)' + Due(b)' <= totalClaimsPerUser'[b]
  BY DEF CountInv
<1>9. CASE b = a
  BY <1>4, <1>5, <1>6, <1>7, <1>9
<1>10. CASE b # a
  BY <1>4, <1>5, <1>6, <1>8, <1>10
<1> QED
  BY <1>9, <1>10

\* Steps that count nothing and make no claim; the current day may become today.
LEMMA OtherCounts ==
    ASSUME UBIAssumption, Inv, TypeOK, DaysInv, CountInv,
           UNCHANGED <<claimDay, totalClaimsPerUser, months, lastUpdated>>,
           currentDay' = currentDay \/ (currentDay < today /\ currentDay' = today)
    PROVE  CountInv'
<1> SUFFICES ASSUME NEW b \in Account
             PROVE  Counted(b)' + Due(b)' <= totalClaimsPerUser'[b]
  BY DEF CountInv
<1>1. Counted(b)' = Counted(b) /\ totalClaimsPerUser'[b] = totalClaimsPerUser[b]
  BY CountsStay
<1>2. /\ Counted(b) \in Nat /\ Due(b) \in {0, 1} /\ totalClaimsPerUser[b] \in Nat
      /\ Counted(b) + Due(b) <= totalClaimsPerUser[b]
  BY CountedType DEF Due, CountInv, TypeOK
<1>3. Due(b)' \in {0, Due(b)}
  <2>1. CASE currentDay' = currentDay
    <3>1. startOfDay(currentDay)' = startOfDay(currentDay)
      BY <2>1 DEF startOfDay
    <3> QED
      BY <2>1, <3>1 DEF Due, hasClaimed
  <2>2. CASE currentDay < today /\ currentDay' = today
    <3>1. claimDay[today].hasClaimed = {}
      BY <2>2, NewDayIsEmpty
    <3> QED
      BY <2>2, <3>1 DEF Due, hasClaimed
  <2> QED
    BY <2>1, <2>2
<1> QED
  BY <1>1, <1>2, <1>3

-----------------------------------------------------------------------------
(* Types *)

DayClaims == [hasClaimed : SUBSET Account, amountOfClaimers : Nat, claimAmount : Nat]

LEMMA FlagTypes ==
    TypeOK => /\ shouldWithdrawFromDAO \in BOOLEAN /\ paused \in BOOLEAN
              /\ claimersRegistered \in BOOLEAN
BY Zenon DEF TypeOK

LEMMA FalseIsBoolean == \A x : x = FALSE => x \in BOOLEAN
BY Zenon

LEMMA InitTypes == ASSUME UBIAssumption, Init PROVE TypeOK /\ MonthsInv
<1>1. Inv
  BY InitInv
<1>2. now \in Nat /\ thisMonth \in Month /\ (thisMonth > 0 => thisMonth - 1 \in Month)
  BY <1>1, MonthIsKnown DEF Inv
<1>3. ClaimersInit(thisMonth, InitReputation) /\ InitReputation \in Nat
  BY DEF Init, UBIAssumption
<1>4. months \in [Month -> MonthData]
  <2> SUFFICES ASSUME NEW m \in Month
               PROVE  [claims |-> [a \in Account |-> 0], totalClaims |-> 0,
                       monthlyDistribution |->
                           IF m = thisMonth THEN InitReputation ELSE 0] \in MonthData
    BY <1>3 DEF ClaimersInit
  <2> QED
    BY <1>3 DEF MonthData
<1>5. ClaimersTypeOK
  BY <1>2, <1>3, <1>4 DEF ClaimersInit, ClaimersTypeOK
<1>6. Totalled(months)
  <2> SUFFICES ASSUME NEW m \in Month
               PROVE  months[m].totalClaims = SumFunctionOnSet(months[m].claims, Account)
    BY DEF Totalled
  <2>1. months[m].totalClaims = 0 /\ months[m].claims = [a \in Account |-> 0]
    BY <1>3 DEF ClaimersInit
  <2>2. \A a \in Account : months[m].claims[a] = 0
    BY <2>1
  <2>3. SumFunctionOnSet(months[m].claims, Account) = 0
    BY <2>2, SumOfZeros, FiniteWords
  <2> QED
    BY <2>1, <2>3
<1>7. Earned(currentMonth, months, earned, lastMonthClaimed)
  BY <1>3 DEF ClaimersInit, Earned
<1>8. MonthsInv
  BY <1>2, <1>3, <1>5, <1>6, <1>7 DEF ClaimersInit, MonthsInv
<1>9. TypeOK
  <2>1. claimDay \in [Day -> DayClaims]
    BY DEF Init, DayClaims
  <2>2. currentDay \in Day /\ lastWithdrawDay \in Day
    BY <1>1 DEF Init, Inv
  <2>3. startOfCycle \in Nat /\ startOfCycle <= now /\ balance \in Nat
        /\ cycleLength \in Nat \ {0} /\ minActiveUsers \in Nat
    BY DEF Init, UBIAssumption
  <2>4. totalClaimsPerUser \in [Account -> Nat]
    BY DEF Init
  <2>5. decisions \in 0..MaxDecisions /\ incomes \in 0..MaxIncomes
    BY DEF Init, UBIAssumption
  <2>6. /\ daoBalance \in Nat /\ dailyUbi \in Nat /\ dailyCyclePool \in Nat
        /\ currentCycleLength \in {0, cycleLength} /\ openAmount \in Nat
    BY DEF Init
  <2>7. /\ reserveFactor \in Nat /\ shouldWithdrawFromDAO \in BOOLEAN
        /\ paused \in BOOLEAN /\ claimersRegistered \in BOOLEAN
    <3>1. reserveFactor \in Nat
      BY DEF Init
    <3>2. shouldWithdrawFromDAO \in BOOLEAN
      <4>1. shouldWithdrawFromDAO = FALSE
        BY DEF Init
      <4> QED
        BY <4>1, FalseIsBoolean
    <3>3. paused \in BOOLEAN
      <4>1. paused = FALSE
        BY DEF Init
      <4> QED
        BY <4>1, FalseIsBoolean
    <3>4. claimersRegistered \in BOOLEAN
      <4>1. claimersRegistered = FALSE
        BY DEF Init
      <4> QED
        BY <4>1, FalseIsBoolean
    <3> QED
      BY <3>1, <3>2, <3>3, <3>4
  <2> QED
    BY <1>2, <1>5, <2>1, <2>2, <2>3, <2>4, <2>5, <2>6, <2>7 DEF TypeOK, DayClaims
<1> QED
  BY <1>8, <1>9

LEMMA ClaimTypes ==
    ASSUME UBIAssumption, Inv, TypeOK, DaysInv, DaysInv', ClaimersTypeOK',
           NEW a \in Account, claim(a)
    PROVE  TypeOK'
<1>1. today \in Day /\ Day' = Day
  BY TodayIsADay DEF Day, DayOf
<1>2. /\ now' = now /\ currentDay' = today
      /\ UNCHANGED <<cycleLength, settings, bounds>>
  BY DEF claim, distributionFormula
<1>3. now \in Nat /\ balance \in Nat /\ dailyUbi' \in Nat
  BY DEF TypeOK, DaysInv
<1>4. /\ daoBalance' \in Nat /\ dailyCyclePool' \in Nat /\ openAmount' \in Nat
      /\ newBalance \in Nat
      /\ lastWithdrawDay' \in Day /\ minActiveUsers' \in Nat
      /\ startOfCycle' \in {startOfCycle, now}
      /\ currentCycleLength' \in {currentCycleLength, cycleLength}
  <2>1. CASE NotDistributed
    <3>1. distribute
      BY <2>1 DEF claim, distributionFormula
    <3>2. daoBalance' \in Nat /\ dailyCyclePool' \in Nat /\ openAmount' \in Nat
          /\ newBalance = openAmount'
      BY <2>1, <3>1, Distributed DEF newBalance
    <3>3. minActiveUsers' \in Nat
      <4>1. prevDayClaimers \in Nat /\ minActiveUsers \in Nat
        BY DEF Inv, ClaimersKnown, prevDayClaimers
      <4>2. prevDayClaimers + minActiveUsers * 29 \in Nat
        BY <4>1
      <4>3. \A n \in Nat : n \div 30 \in Nat
        OBVIOUS
      <4> QED
        BY <3>1, <4>2, <4>3 DEF distribute, smoothed
    <3> QED
      BY <1>1, <1>2, <3>1, <3>2, <3>3 DEF distribute
  <2>2. CASE ~NotDistributed
    BY <2>2 DEF claim, distributionFormula, cycleVars, newBalance, TypeOK
  <2> QED
    BY <2>1, <2>2
<1>5. startOfCycle' \in Nat /\ startOfCycle' <= now /\ currentCycleLength' \in {0, cycleLength}
  BY <1>3, <1>4 DEF TypeOK
<1>6. /\ balance' \in Nat /\ claimDay' \in [Day -> DayClaims]
      /\ totalClaimsPerUser' \in [Account -> Nat]
  <2>1. claimDay \in [Day -> DayClaims] /\ totalClaimsPerUser \in [Account -> Nat]
    BY DEF TypeOK, DayClaims
  <2>2. CASE Refused(a)
    BY <1>4, <2>1, <2>2 DEF Refused, claimVars
  <2>3. CASE Served(a)
    <3> DEFINE k == [hasClaimed |-> claimDay[today].hasClaimed \union {a},
                     amountOfClaimers |-> claimDay[today].amountOfClaimers + 1,
                     claimAmount |-> claimDay[today].claimAmount + dailyUbi']
    <3>1. k \in DayClaims
      <4>1. claimDay[today] \in DayClaims
        BY <1>1, <2>1
      <4> QED
        BY <1>3, <4>1 DEF DayClaims
    <3>2. claimDay' = [claimDay EXCEPT ![today] = k]
      BY <1>1, <2>1, <2>3 DEF Served, _transferTokens
    <3> HIDE DEF k
    <3>3. claimDay' \in [Day -> DayClaims]
      BY <1>1, <2>1, <3>1, <3>2
    <3>4. totalClaimsPerUser' \in [Account -> Nat]
      <4>1. totalClaimsPerUser' = [totalClaimsPerUser EXCEPT ![a] = @ + 1]
        BY <2>3 DEF Served, _transferTokens
      <4>2. totalClaimsPerUser[a] + 1 \in Nat
        BY <2>1
      <4> QED
        BY <2>1, <4>1, <4>2
    <3>5. balance' \in Nat
      <4>1. newBalance >= dailyUbi' /\ balance' = newBalance - dailyUbi'
        BY <2>3 DEF Served, _transferTokens
      <4>2. PICK x \in Nat, y \in Nat : x = newBalance /\ y = dailyUbi'
        BY <1>3, <1>4
      <4>3. x >= y /\ balance' = x - y
        BY <4>1, <4>2
      <4> QED
        BY <4>3
    <3> QED
      BY <3>3, <3>4, <3>5
  <2> QED
    BY <2>2, <2>3 DEF claim
<1>7. /\ cycleLength' \in Nat \ {0} /\ reserveFactor' \in Nat
      /\ shouldWithdrawFromDAO' \in BOOLEAN /\ paused' \in BOOLEAN
      /\ claimersRegistered' \in BOOLEAN
      /\ decisions' \in 0..MaxDecisions /\ incomes' \in 0..MaxIncomes
  BY <1>2 DEF TypeOK, settings, bounds
<1> QED
  BY <1>1, <1>2, <1>3, <1>4, <1>5, <1>6, <1>7 DEF TypeOK, DayClaims

\* The month of the last claim counted is not to come.
MonthReached == currentMonth <= thisMonth

LEMMA NextMonths ==
    ASSUME UBIAssumption, Inv, MonthsInv, MonthReached, [Next]_vars
    PROVE  MonthsInv' /\ MonthReached'
<1>1. /\ now \in Nat /\ thisMonth \in Month /\ thisMonth \in Nat
      /\ thisMonth > 0 => thisMonth - 1 \in Month
      /\ currentMonth \in Nat
  BY MonthIsKnown, FiniteWords DEF Inv, MonthsInv, ClaimersTypeOK
<1>2. ASSUME UNCHANGED claimersVars PROVE MonthsInv'
  BY <1>2 DEF claimersVars, MonthsInv, ClaimersTypeOK, Totalled, Earned, Share
<1>3. ASSUME now' = now, currentMonth' \in {currentMonth, thisMonth} PROVE MonthReached'
  BY <1>1, <1>3 DEF MonthReached, thisMonth, MonthOf
<1>4. ASSUME NEW a \in Account, NEW dayStart, updateClaim(a, dayStart, now, thisMonth),
             now' = now
      PROVE  MonthsInv' /\ MonthReached'
  <2>1. MonthsInv'
    BY <1>1, <1>4, UpdateClaimMonths DEF MonthReached
  <2>2. currentMonth' = thisMonth
    BY <1>4 DEF updateClaim
  <2> QED
    BY <1>3, <1>4, <2>1, <2>2
<1>5. ASSUME UNCHANGED claimersVars, now' = now PROVE MonthsInv' /\ MonthReached'
  BY <1>2, <1>3, <1>5 DEF claimersVars
<1>6. ASSUME NEW a \in Account, claim(a) PROVE MonthsInv' /\ MonthReached'
  BY <1>4, <1>5, <1>6 DEF claim, Served, Refused
<1>7. ASSUME NEW a \in Account, UpdateClaim(a) PROVE MonthsInv' /\ MonthReached'
  BY <1>4, <1>7 DEF UpdateClaim
<1>8. ASSUME NEW a \in Account, ClaimReputation(a) PROVE MonthsInv' /\ MonthReached'
  <2>1. claimReputation(a) /\ now' = now /\ currentMonth' = currentMonth
    BY <1>8 DEF ClaimReputation, claimReputation
  <2> QED
    BY <1>3, <2>1, ClaimReputationMonths
<1>9. CASE setDay
  BY <1>5, <1>9 DEF setDay
<1>10. CASE Decide
  <2>1. now' = now
    BY <1>10 DEF Decide, Decides, setCycleLength, setShouldWithdrawFromDAO, pause,
                 RegisterClaimers, setNewClaimersReserveFactor, withdraw,
                 SetMonthlyReputation
  <2>2. ASSUME NEW n \in MonthlyDistributions, SetMonthlyReputation(n)
        PROVE  MonthsInv' /\ MonthReached'
    <3>1. n \in Nat /\ setMonthlyReputationDistribution(n)
      BY <2>2 DEF SetMonthlyReputation, UBIAssumption
    <3>2. MonthsInv'
      BY <3>1 DEF setMonthlyReputationDistribution, MonthsInv, ClaimersTypeOK,
                  Totalled, Earned, Share
    <3> QED
      BY <1>3, <2>1, <3>1, <3>2 DEF setMonthlyReputationDistribution
  <2>3. UNCHANGED claimersVars
        \/ \E n \in MonthlyDistributions : SetMonthlyReputation(n)
    BY <1>10 DEF Decide, setCycleLength, setShouldWithdrawFromDAO, pause,
                 RegisterClaimers, setNewClaimersReserveFactor, withdraw
  <2> QED
    BY <1>5, <2>1, <2>2, <2>3
<1>11. ASSUME NEW n \in Incomes, Income(n) PROVE MonthsInv' /\ MonthReached'
  BY <1>5, <1>11 DEF Income
<1>12. CASE Tick
  <2>1. UNCHANGED claimersVars /\ now' = now + 1
    BY <1>12 DEF Tick
  <2>2. now' \in Nat /\ now <= now'
    BY <1>1, <2>1
  <2>3. thisMonth <= thisMonth' /\ thisMonth' \in Nat
    <3>1. PICK k \in Nat \ {0} : k = HoursPerDay * DaysPerMonth
      BY DEF UBIAssumption
    <3>2. PICK y \in Nat : y = now'
      BY <2>2
    <3>3. MonthOf(y) \in Nat
      BY <3>1, DivType DEF MonthOf
    <3>4. thisMonth' = MonthOf(now')
      BY DEF thisMonth, MonthOf
    <3>5. thisMonth' \in Nat
      BY <3>2, <3>3, <3>4
    <3> QED
      BY <2>2, <3>5, LaterMonth
  <2> QED
    BY <1>1, <1>2, <2>1, <2>3 DEF MonthReached, claimersVars
<1>13. CASE UNCHANGED vars
  BY <1>5, <1>13 DEF vars
<1> QED
  BY <1>6, <1>7, <1>8, <1>9, <1>10, <1>11, <1>12, <1>13 DEF Next

LEMMA NextTypes ==
    ASSUME UBIAssumption, Inv, Inv', TypeOK, DaysInv, DaysInv', ClaimersTypeOK', [Next]_vars
    PROVE  TypeOK'
<1>1. Day' = Day /\ today \in Day
  BY TodayIsADay DEF Day, DayOf
<1>2. ASSUME NEW a \in Account, claim(a) PROVE TypeOK'
  BY <1>2, ClaimTypes
<1>3. ASSUME NEW a \in Account, UpdateClaim(a) \/ ClaimReputation(a) PROVE TypeOK'
  BY <1>1, <1>3 DEF UpdateClaim, ClaimReputation, TypeOK, claimVars, cycleVars,
                    settings, bounds
<1>4. CASE setDay
  BY <1>1, <1>4 DEF setDay, TypeOK, claimVars, cycleVars, settings, bounds
<1>5. CASE Decide
  <2>1. Decides
    BY <1>5 DEF Decide, setCycleLength, setShouldWithdrawFromDAO, pause,
                RegisterClaimers, setNewClaimersReserveFactor, withdraw,
                SetMonthlyReputation
  <2>2. decisions' \in 0..MaxDecisions
    BY <2>1 DEF Decides, TypeOK, UBIAssumption
  <2>3. UNCHANGED <<now, daoBalance, claimDay, totalClaimsPerUser, currentDay, incomes>>
    BY <2>1 DEF Decides, claimVars
  <2>4. ASSUME NEW n \in CycleLengths, setCycleLength(n) PROVE TypeOK'
    <3>1. n \in Nat \ {0}
      BY <2>4 DEF setCycleLength, UBIAssumption
    <3> QED
      BY <1>1, <2>2, <2>3, <2>4, <3>1 DEF setCycleLength, TypeOK, settings
  <2>5. ASSUME NEW n \in Withdrawals, withdraw(n) PROVE TypeOK'
    <3>1. balance' \in Nat
      BY <2>5 DEF withdraw, TypeOK, UBIAssumption
    <3> QED
      BY <1>1, <2>2, <2>3, <2>5, <3>1 DEF withdraw, TypeOK, settings, cycleVars
  <2>6. ASSUME NEW n \in ReserveFactors, setNewClaimersReserveFactor(n) PROVE TypeOK'
    <3>1. n \in Nat
      BY DEF UBIAssumption
    <3> QED
      BY <1>1, <2>2, <2>3, <2>6, <3>1 DEF setNewClaimersReserveFactor, TypeOK, cycleVars
  <2>7. ASSUME \/ setShouldWithdrawFromDAO(~shouldWithdrawFromDAO)
               \/ pause(~paused) \/ RegisterClaimers(~claimersRegistered)
        PROVE  TypeOK'
    <3>1. /\ shouldWithdrawFromDAO' \in BOOLEAN /\ paused' \in BOOLEAN
          /\ claimersRegistered' \in BOOLEAN
      <4>1. /\ shouldWithdrawFromDAO \in BOOLEAN /\ paused \in BOOLEAN
            /\ claimersRegistered \in BOOLEAN
        BY FlagTypes
      <4>2. CASE setShouldWithdrawFromDAO(~shouldWithdrawFromDAO)
        <5>1. shouldWithdrawFromDAO' \in BOOLEAN
          BY <4>2 DEF setShouldWithdrawFromDAO
        <5>2. UNCHANGED <<paused, claimersRegistered>>
          BY <4>2 DEF setShouldWithdrawFromDAO
        <5> QED
          BY <4>1, <5>1, <5>2
      <4>3. CASE pause(~paused)
        <5>1. paused' \in BOOLEAN
          BY <4>3 DEF pause
        <5>2. UNCHANGED <<shouldWithdrawFromDAO, claimersRegistered>>
          BY <4>3 DEF pause
        <5> QED
          BY <4>1, <5>1, <5>2
      <4>4. CASE RegisterClaimers(~claimersRegistered)
        <5>1. claimersRegistered' \in BOOLEAN
          BY <4>4 DEF RegisterClaimers
        <5>2. UNCHANGED <<shouldWithdrawFromDAO, paused>>
          BY <4>4 DEF RegisterClaimers
        <5> QED
          BY <4>1, <5>1, <5>2
      <4> QED
        BY <2>7, <4>2, <4>3, <4>4
    <3>2. UNCHANGED <<balance, cycleVars, cycleLength, reserveFactor>>
      BY <2>7 DEF setShouldWithdrawFromDAO, pause, RegisterClaimers
    <3> QED
      BY <1>1, <2>2, <2>3, <3>1, <3>2 DEF TypeOK, cycleVars
  <2>8. ASSUME NEW n \in MonthlyDistributions, SetMonthlyReputation(n) PROVE TypeOK'
    BY <1>1, <2>2, <2>3, <2>8 DEF SetMonthlyReputation, TypeOK, cycleVars, settings
  <2> QED
    BY <1>5, <2>4, <2>5, <2>6, <2>7, <2>8 DEF Decide
<1>6. ASSUME NEW n \in Incomes, Income(n) PROVE TypeOK'
  <2>1. n \in Nat
    BY DEF UBIAssumption
  <2>2. incomes' \in 0..MaxIncomes /\ balance' \in Nat /\ daoBalance' \in Nat
    BY <1>6, <2>1 DEF Income, TypeOK, UBIAssumption
  <2> QED
    BY <1>1, <1>6, <2>2 DEF Income, TypeOK, claimVars, cycleVars, settings
<1>7. CASE Tick
  <2>1. now' \in Nat /\ startOfCycle <= now'
    BY <1>7 DEF Tick, TypeOK
  <2> QED
    BY <1>1, <1>7, <2>1 DEF Tick, TypeOK, claimVars, cycleVars, settings, bounds
<1>8. CASE UNCHANGED vars
  BY <1>1, <1>8 DEF vars, TypeOK, claimVars, cycleVars, settings, bounds
<1> QED
  BY <1>2, <1>3, <1>4, <1>5, <1>6, <1>7, <1>8 DEF Next

-----------------------------------------------------------------------------
(* The cycle *)

LEMMA FewerDaysCostLess ==
    ASSUME NEW p \in Nat, NEW n \in Nat, NEW c \in Nat, NEW e \in Nat, c <= e
    PROVE  p * (n - e) <= p * (n - c)
<1>1. PICK k \in Nat : e = c + k
  <2>1. e - c \in Nat /\ e = c + (e - c)
    OBVIOUS
  <2> QED
    BY <2>1
<1>2. p * (n - c) = p * (n - e) + p * k
  BY <1>1
<1>3. p * k \in Nat /\ p * (n - e) \in Int /\ p * (n - c) \in Int
  BY <1>1
<1> QED
  BY <1>2, <1>3

\* The pool a cycle begins with covers each of its days.
LEMMA CycleBegins ==
    ASSUME NEW b \in Nat, NEW n \in Nat \ {0}, NEW e \in Nat
    PROVE  (b \div n) * (n - e) <= b
<1>1. PICK q : q = b \div n
  OBVIOUS
<1>2. q \in Nat
  BY <1>1, DivType
<1>3. n * q <= b
  BY <1>1
<1>4. q * (n - e) <= q * (n - 0)
  BY <1>2, FewerDaysCostLess
<1>5. q * (n - 0) = n * q
  BY <1>2
<1>6. q * (n - e) \in Int /\ n * q \in Int
  BY <1>2
<1>7. q * (n - e) <= b
  BY <1>3, <1>4, <1>5, <1>6
<1> QED
  BY <1>1, <1>7

\* Whole days from hour s to the end of day d.
DaysUntil(d, s) == (startOfDay(d + 1) - 1 - s) \div HoursPerDay

LEMMA CycleIs ==
    /\ CycleIsCovered <=>
          (currentCycleLength # 0 =>
              openAmount >= dailyCyclePool
                                * (cycleLength - DaysUntil(lastWithdrawDay, startOfCycle)))
    /\ CycleIsCovered' <=>
          (currentCycleLength' # 0 =>
              openAmount' >= dailyCyclePool'
                                * (cycleLength' - DaysUntil(lastWithdrawDay', startOfCycle')))
BY DEF CycleIsCovered, DaysUntil, startOfDay

LEMMA CycleStays ==
    ASSUME CycleIsCovered, UNCHANGED <<cycleVars, cycleLength>>
    PROVE  CycleIsCovered'
<1>1. /\ currentCycleLength' = currentCycleLength /\ openAmount' = openAmount
      /\ dailyCyclePool' = dailyCyclePool /\ cycleLength' = cycleLength
      /\ lastWithdrawDay' = lastWithdrawDay /\ startOfCycle' = startOfCycle
  BY DEF cycleVars
<1> QED
  BY <1>1, CycleIs

\* As many days as have passed now, at least, will have passed tonight.
LEMMA DaysGoOn ==
    ASSUME UBIAssumption, Inv, NEW s \in Nat, s <= now
    PROVE  /\ (now - s) \div HoursPerDay \in Nat /\ DaysUntil(today, s) \in Nat
           /\ (now - s) \div HoursPerDay <= DaysUntil(today, s)
<1>1. today \in Nat /\ now \in Nat /\ now <= startOfDay(today + 1) - 1
  BY TodayIsNow
<1>2. startOfDay(today + 1) \in Nat /\ HoursPerDay \in Nat \ {0}
  <2>1. HoursPerDay \in Nat \ {0}
    BY DEF UBIAssumption
  <2>2. today + 1 \in Nat
    BY <1>1
  <2> QED
    BY <2>1, <2>2, StartsInOrder
<1>3. PICK x, y : x = now - s /\ y = startOfDay(today + 1) - 1 - s
  OBVIOUS
<1>4. x \in Nat /\ y \in Nat /\ x <= y
  BY <1>1, <1>2, <1>3
<1>5. /\ x \div HoursPerDay \in Nat /\ y \div HoursPerDay \in Nat
      /\ x \div HoursPerDay <= y \div HoursPerDay
  BY <1>2, <1>4, DivMonotonic, DivType
<1> QED
  BY <1>3, <1>5 DEF DaysUntil

LEMMA ClaimCycle ==
    ASSUME UBIAssumption, Inv, TypeOK, CycleIsCovered, NEW a \in Account, claim(a)
    PROVE  CycleIsCovered'
<1>1. cycleLength' = cycleLength /\ currentDay' = today
  BY DEF claim, distributionFormula
<1>2. CASE ~NotDistributed
  <2>1. UNCHANGED cycleVars
    BY <1>2 DEF claim, distributionFormula
  <2> QED
    BY <1>1, <2>1, CycleStays
<1>3. CASE NotDistributed
  <2>1. distribute
    BY <1>3 DEF claim, distributionFormula
  <2>2. /\ balance \in Nat /\ cycleLength \in Nat \ {0} /\ dailyCyclePool \in Nat
        /\ startOfCycle \in Nat /\ startOfCycle <= now /\ now \in Nat
    BY DEF TypeOK
  <2>3. lastWithdrawDay' = today /\ openAmount' >= balance /\ openAmount' \in Nat
    <3>1. openAmount' \in Nat /\ openAmount' = balance + fromDAO
      BY <2>1, Distributed
    <3>2. fromDAO \in Nat
      BY DEF fromDAO, TypeOK
    <3> QED
      BY <1>1, <2>1, <2>2, <3>1, <3>2 DEF distribute
  <2>4. CASE shouldStartCycle
    <3>1. /\ dailyCyclePool' = balance \div cycleLength /\ startOfCycle' = now
      BY <2>1, <2>4 DEF distribute, nextDailyPool
    <3>2. PICK e \in Nat : e = DaysUntil(today, now)
      BY <2>2, DaysGoOn
    <3>3. (balance \div cycleLength) * (cycleLength - e) <= balance
      BY <2>2, CycleBegins
    <3>4. PICK v : v = (balance \div cycleLength) * (cycleLength - e)
      OBVIOUS
    <3>5. v \in Int
      BY <2>2, <3>4, DivType
    <3>6. v <= openAmount'
      BY <2>2, <2>3, <3>3, <3>4, <3>5
    <3>7. v = dailyCyclePool' * (cycleLength' - DaysUntil(lastWithdrawDay', startOfCycle'))
      BY <1>1, <2>3, <3>1, <3>2, <3>4
    <3> QED
      BY <2>3, <3>5, <3>6, <3>7, CycleIs
  <2>5. CASE ~shouldStartCycle
    <3>1. UNCHANGED <<dailyCyclePool, currentCycleLength, startOfCycle>>
      BY <2>1, <2>5 DEF distribute
    <3>2. PICK c \in Nat : c = currentDayInCycle
      <4>1. (now - startOfCycle) \div HoursPerDay \in Nat
        BY <2>2, DaysGoOn
      <4>2. currentDayInCycle \in Nat
        BY <4>1 DEF currentDayInCycle
      <4> QED
        BY <4>2
    <3>3. PICK e \in Nat : e = DaysUntil(today, startOfCycle)
      BY <2>2, DaysGoOn
    <3>4. c <= e
      BY <2>2, <3>2, <3>3, DaysGoOn DEF currentDayInCycle
    <3>5. ~(balance < dailyCyclePool * (cycleLength - c))
      BY <2>5, <3>2 DEF shouldStartCycle, CycleIsShort
    <3>6. PICK v, w : /\ v = dailyCyclePool * (cycleLength - e)
                      /\ w = dailyCyclePool * (cycleLength - c)
      OBVIOUS
    <3>7. v <= w /\ v \in Int /\ w \in Int
      BY <2>2, <3>4, <3>6, FewerDaysCostLess
    <3>8. v <= openAmount'
      BY <2>2, <2>3, <3>5, <3>6, <3>7
    <3>9. v = dailyCyclePool' * (cycleLength' - DaysUntil(lastWithdrawDay', startOfCycle'))
      BY <1>1, <2>3, <3>1, <3>3, <3>6
    <3> QED
      BY <2>3, <3>7, <3>8, <3>9, CycleIs
  <2> QED
    BY <2>4, <2>5
<1> QED
  BY <1>2, <1>3

-----------------------------------------------------------------------------
(* All together *)

Invariant ==
    Inv /\ TypeOK /\ DaysInv /\ MonthsInv /\ MonthReached /\ CountInv /\ CycleIsCovered

LEMMA InitInvariant == ASSUME UBIAssumption, Init PROVE Invariant
<1>1. Inv /\ DaysInv /\ TypeOK /\ MonthsInv
  BY InitInv, InitDays, InitTypes
<1>2. MonthReached
  <2>1. currentMonth = thisMonth /\ thisMonth \in Nat
    BY <1>1, MonthIsKnown DEF Init, ClaimersInit
  <2> QED
    BY <2>1 DEF MonthReached
<1>3. CycleIsCovered
  BY DEF Init, CycleIsCovered
<1>4. CountInv
  <2> SUFFICES ASSUME NEW a \in Account
               PROVE  Counted(a) + Due(a) <= totalClaimsPerUser[a]
    BY DEF CountInv
  <2> DEFINE f == [m \in Month |-> months[m].claims[a]]
  <2>1. \A m \in Month : f[m] = 0
    BY DEF Init, ClaimersInit
  <2>2. Counted(a) = SumFunctionOnSet(f, Month)
    BY DEF Counted
  <2> HIDE DEF f
  <2>3. IsFiniteSet(Month)
    BY FiniteWords
  <2>4. Counted(a) = 0
    BY <2>1, <2>2, <2>3, SumOfZeros
  <2>5. 0 \in Day
    BY <1>1 DEF Init, Inv
  <2>6. claimDay[0].hasClaimed = {} /\ currentDay = 0 /\ totalClaimsPerUser[a] = 0
    BY <2>5 DEF Init
  <2>7. Due(a) = 0
    BY <2>6 DEF Due, hasClaimed
  <2> QED
    BY <2>4, <2>6, <2>7
<1> QED
  BY <1>1, <1>2, <1>3, <1>4 DEF Invariant

LEMMA NextInvariant == ASSUME UBIAssumption, Invariant, [Next]_vars PROVE Invariant'
<1>1. Inv /\ TypeOK /\ DaysInv /\ MonthsInv /\ MonthReached /\ CountInv /\ CycleIsCovered
  BY DEF Invariant
<1>2. Inv' /\ MonthsInv' /\ MonthReached'
  BY <1>1, NextInv, NextMonths
<1>3. now \in Nat
  BY <1>1 DEF Inv
<1>4. ASSUME UNCHANGED <<now, claimDay, totalClaimsPerUser, currentDay, cycleVars,
                         cycleLength, months, lastUpdated>>
      PROVE  DaysInv' /\ CountInv' /\ CycleIsCovered'
  <2>1. DaysInv'
    BY <1>1, <1>3, <1>4, OtherDays DEF cycleVars
  <2>2. CountInv'
    BY <1>1, <1>4, OtherCounts
  <2>3. CycleIsCovered'
    BY <1>1, <1>4, CycleStays
  <2> QED
    BY <2>1, <2>2, <2>3
<1>5. ASSUME NEW a \in Account, claim(a) PROVE DaysInv' /\ CountInv' /\ CycleIsCovered'
  BY <1>1, <1>5, ClaimDays, ClaimCounts, ClaimCycle
<1>6. ASSUME NEW a \in Account, UpdateClaim(a)
      PROVE  DaysInv' /\ CountInv' /\ CycleIsCovered'
  <2>1. CountInv'
    BY <1>1, <1>6, UpdateClaimCounts
  <2>2. UNCHANGED <<now, claimDay, currentDay, cycleVars, cycleLength>>
    BY <1>6 DEF UpdateClaim, claimVars
  <2>3. DaysInv'
    BY <1>1, <1>3, <2>2, OtherDays DEF cycleVars
  <2>4. CycleIsCovered'
    BY <1>1, <2>2, CycleStays
  <2> QED
    BY <2>1, <2>3, <2>4
<1>7. ASSUME NEW a \in Account, ClaimReputation(a)
      PROVE  DaysInv' /\ CountInv' /\ CycleIsCovered'
  BY <1>4, <1>7 DEF ClaimReputation, claimReputation, claimVars
<1>8. ASSUME setDay PROVE DaysInv' /\ CountInv' /\ CycleIsCovered'
  <2>1. /\ UNCHANGED <<now, claimDay, totalClaimsPerUser, cycleVars, cycleLength,
                       months, lastUpdated>>
        /\ today > currentDay /\ currentDay' = today
    BY <1>8 DEF setDay, claimVars, claimersVars
  <2>2. currentDay < today
    <3>1. currentDay \in Nat /\ today \in Nat
      BY <1>1, TodayIsNow DEF DaysInv
    <3> QED
      BY <2>1, <3>1
  <2>3. DaysInv'
    BY <1>1, <1>3, <2>1, <2>2, OtherDays DEF cycleVars
  <2>4. CountInv'
    BY <1>1, <2>1, <2>2, OtherCounts
  <2>5. CycleIsCovered'
    BY <1>1, <2>1, CycleStays
  <2> QED
    BY <2>3, <2>4, <2>5
<1>9. ASSUME Decide PROVE DaysInv' /\ CountInv' /\ CycleIsCovered'
  <2>1. ASSUME NEW n \in CycleLengths, setCycleLength(n)
        PROVE  DaysInv' /\ CountInv' /\ CycleIsCovered'
    <3>1. UNCHANGED <<now, claimDay, totalClaimsPerUser, currentDay, dailyUbi,
                      lastWithdrawDay, months, lastUpdated>>
      BY <2>1 DEF setCycleLength, Decides, claimVars, claimersVars
    <3>2. DaysInv'
      BY <1>1, <1>3, <3>1, OtherDays
    <3>3. CountInv'
      BY <1>1, <3>1, OtherCounts
    <3>4. CycleIsCovered'
      BY <2>1 DEF setCycleLength, CycleIsCovered
    <3> QED
      BY <3>2, <3>3, <3>4
  <2>2. ASSUME NEW n \in MonthlyDistributions, SetMonthlyReputation(n)
        PROVE  DaysInv' /\ CountInv' /\ CycleIsCovered'
    BY <1>4, <2>2 DEF SetMonthlyReputation, setMonthlyReputationDistribution, Decides,
                      claimVars
  <2>3. ASSUME NEW n \in Withdrawals, withdraw(n)
        PROVE  DaysInv' /\ CountInv' /\ CycleIsCovered'
    <3>1. UNCHANGED <<now, claimDay, totalClaimsPerUser, currentDay, cycleVars,
                       cycleLength, months, lastUpdated>>
      BY <2>3 DEF withdraw, Decides, claimVars, claimersVars
    <3> QED
      BY <3>1, <1>4
  <2>4. ASSUME NEW n \in ReserveFactors, setNewClaimersReserveFactor(n)
        PROVE  DaysInv' /\ CountInv' /\ CycleIsCovered'
    <3>1. UNCHANGED <<now, claimDay, totalClaimsPerUser, currentDay, cycleVars,
                       cycleLength, months, lastUpdated>>
      BY <2>4 DEF setNewClaimersReserveFactor, Decides, claimVars, claimersVars
    <3> QED
      BY <3>1, <1>4
  <2>5. CASE setShouldWithdrawFromDAO(~shouldWithdrawFromDAO)
    <3>1. UNCHANGED <<now, claimDay, totalClaimsPerUser, currentDay, cycleVars,
                       cycleLength, months, lastUpdated>>
      BY <2>5 DEF setShouldWithdrawFromDAO, Decides, claimVars, claimersVars
    <3> QED
      BY <3>1, <1>4
  <2>6. CASE pause(~paused)
    <3>1. UNCHANGED <<now, claimDay, totalClaimsPerUser, currentDay, cycleVars,
                       cycleLength, months, lastUpdated>>
      BY <2>6 DEF pause, Decides, claimVars, claimersVars
    <3> QED
      BY <3>1, <1>4
  <2>7. CASE RegisterClaimers(~claimersRegistered)
    <3>1. UNCHANGED <<now, claimDay, totalClaimsPerUser, currentDay, cycleVars,
                       cycleLength, months, lastUpdated>>
      BY <2>7 DEF RegisterClaimers, Decides, claimVars, claimersVars
    <3> QED
      BY <3>1, <1>4
  <2> QED
    BY <1>9, <2>1, <2>2, <2>3, <2>4, <2>5, <2>6, <2>7 DEF Decide
<1>10. ASSUME NEW n \in Incomes, Income(n) PROVE DaysInv' /\ CountInv' /\ CycleIsCovered'
  BY <1>4, <1>10 DEF Income, claimVars, claimersVars
<1>11. ASSUME Tick PROVE DaysInv' /\ CountInv' /\ CycleIsCovered'
  <2>1. /\ UNCHANGED <<claimDay, totalClaimsPerUser, currentDay, cycleVars, cycleLength,
                       months, lastUpdated>>
        /\ now' = now + 1
    BY <1>11 DEF Tick, claimVars, claimersVars
  <2>2. now' \in Nat /\ now <= now'
    BY <1>3, <2>1
  <2>3. DaysInv'
    BY <1>1, <2>1, <2>2, OtherDays DEF cycleVars
  <2>4. CountInv'
    BY <1>1, <2>1, OtherCounts
  <2>5. CycleIsCovered'
    BY <1>1, <2>1, CycleStays
  <2> QED
    BY <2>3, <2>4, <2>5
<1>12. ASSUME UNCHANGED vars PROVE DaysInv' /\ CountInv' /\ CycleIsCovered'
  BY <1>4, <1>12 DEF vars, claimVars, claimersVars
<1>13. DaysInv' /\ CountInv' /\ CycleIsCovered'
  BY <1>5, <1>6, <1>7, <1>8, <1>9, <1>10, <1>11, <1>12 DEF Next
<1>14. TypeOK'
  <2>1. ClaimersTypeOK'
    BY <1>2 DEF MonthsInv
  <2> QED
    BY <1>1, <1>2, <1>13, <2>1, NextTypes
<1> QED
  BY <1>2, <1>13, <1>14 DEF Invariant

LEMMA InvariantHolds == Spec => []Invariant
<1>1. Init => Invariant
  BY InitInvariant, UBIAssumption
<1>2. Invariant /\ [Next]_vars => Invariant'
  BY NextInvariant, UBIAssumption
<1> QED
  BY <1>1, <1>2, PTL DEF Spec

\* Every payment is covered, every count a number: nothing the scheme or the
\* distribution computes underflows, whatever the DAO votes for.
THEOREM TypesHold == Spec => []TypeOK
<1>1. Invariant => TypeOK
  BY DEF Invariant
<1> QED
  BY <1>1, InvariantHolds, PTL

\* Those who claim on a day are paid the same, or nothing if the day began
\* with nothing to give.
THEOREM ClaimersArePaidAlike == Spec => []PaidAlike
<1>1. Invariant => PaidAlike
  BY DEF Invariant, DaysInv
<1> QED
  BY <1>1, InvariantHolds, PTL

\* The pool a day was opened with lasts for the days left of its cycle.
THEOREM CycleStaysCovered == Spec => []CycleIsCovered
<1>1. Invariant => CycleIsCovered
  BY DEF Invariant
<1> QED
  BY <1>1, InvariantHolds, PTL

\* No claim counts twice towards GOOD.
THEOREM ClaimsCountAtMostOnce == Spec => []ClaimsCountOnce
<1>1. Invariant => ClaimsCountOnce
  <2> SUFFICES ASSUME Invariant, NEW a \in Account
               PROVE  Counted(a) <= totalClaimsPerUser[a]
    BY DEF ClaimsCountOnce
  <2>1. Counted(a) \in Nat /\ Due(a) \in {0, 1} /\ totalClaimsPerUser[a] \in Nat
    BY UBIAssumption, CountedType DEF Invariant, TypeOK, Due
  <2>2. Counted(a) + Due(a) <= totalClaimsPerUser[a]
    BY DEF Invariant, CountInv
  <2> QED
    BY <2>1, <2>2
<1> QED
  BY <1>1, InvariantHolds, PTL

\* What is minted for a month stays within what the month was given, in
\* whatever order and however late its claimers take their shares.
THEOREM MonthsAreNotOverpaid == Spec => []MonthWithinDistribution
<1>1. Invariant => MonthWithinDistribution
  BY UBIAssumption, SharesWithinMonth DEF Invariant
<1> QED
  BY <1>1, InvariantHolds, PTL
=============================================================================
