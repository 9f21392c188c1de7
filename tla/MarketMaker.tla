----------------------------- MODULE MarketMaker -----------------------------
(***************************************************************************)
(* GoodMarketMaker (contracts/reserve/GoodMarketMaker.sol): the bonding    *)
(* curve between G$ and its reserve token, and how it changes.  A curve is *)
(* the ReserveToken of cDAI; an operation that reverts has no next curve.  *)
(*                                                                         *)
(* A ratio of Whole is 100%.  The curve's power function                   *)
(* (contracts/utils/BancorFormula.sol) is its exact value, rounded down.   *)
(***************************************************************************)
EXTENDS Integers

CONSTANTS
    Whole,          \* 1e6
    Fine,           \* 1e21: what a ratio is multiplied with while it expands
    Scale,          \* 1e8: the precision of the price
    Width,          \* 2^32
    DayLength

ASSUME CurveAssumption ==
    /\ Whole \in Nat \ {0} /\ Fine \in Nat \ {0} /\ Scale \in Nat \ {0}
    /\ Width \in Nat /\ Width > Whole
    /\ DayLength \in Nat \ {0}

Curve == [reserveSupply : Nat, gdSupply : Nat,
          reserveRatio : 0..(Width - 1), lastExpansion : Nat]

\* uint32(n)
Unbounded(n) == n                                            \* faulty variant
Fits(n) == n % Width

Active(c) == c.gdSupply > 0

-----------------------------------------------------------------------------
(* Trading *)

\* What the formula asks of its arguments.
OnCurve(c) == Active(c) /\ c.reserveSupply > 0 /\ c.reserveRatio \in 1..Whole

\* x to the n, of which the formula takes roots.
power(x, n) ==
    LET p[k \in 0..n] == IF k = 0 THEN 1 ELSE x * p[k - 1] IN p[n]

\* The curve: supply^Whole is proportional to reserve^ratio.  Of all whole
\* amounts that leave it no steeper, n is the largest.
Bought(c, amount, n) ==
    power(c.gdSupply + n, Whole) * power(c.reserveSupply, c.reserveRatio)
        <= power(c.gdSupply, Whole) * power(c.reserveSupply + amount, c.reserveRatio)
buyReturn(c, amount, n) ==
    OnCurve(c) /\ Bought(c, amount, n) /\ ~Bought(c, amount, n + 1)

Sold(c, amount, n) ==
    /\ n <= c.reserveSupply
    /\ power(c.gdSupply - amount, Whole) * power(c.reserveSupply, c.reserveRatio)
        <= power(c.gdSupply, Whole) * power(c.reserveSupply - n, c.reserveRatio)
sellReturn(c, amount, n) ==
    OnCurve(c) /\ amount <= c.gdSupply /\ Sold(c, amount, n) /\ ~Sold(c, amount, n + 1)

\* The curve after n was bought for amount.
buy(c, amount, n) ==
    [c EXCEPT !.gdSupply = @ + n, !.reserveSupply = @ + amount]

\* And after amount was sold for n.  The contribution is burned off the curve,
\* which raises the ratio.
MaySell(c, amount, contribution) ==
    /\ contribution <= amount /\ amount <= c.gdSupply
    /\ contribution > 0 => amount < c.gdSupply      \* else it divides by 0
unpaid(c, amount, contribution, n) ==                        \* faulty variant
    [c EXCEPT !.gdSupply = @ - amount]
sellWithContribution(c, amount, contribution, n) ==
    LET traded == c.gdSupply - (amount - contribution) IN
    [c EXCEPT !.gdSupply = @ - amount,
              !.reserveSupply = @ - n,
              !.reserveRatio = IF contribution > 0
                               THEN Fits((traded * @) \div (c.gdSupply - amount))
                               ELSE @]

-----------------------------------------------------------------------------
(* Minting *)

\* The price is computed by a division, which must not be by 0.
Priced(c) == Active(c) /\ c.reserveRatio > 0
currentPrice(c) == (c.reserveSupply * Scale) \div (c.gdSupply * c.reserveRatio)

\* The ratio at which amount more G$ have the same price.
MayMintFromReserveRatio(c) == Priced(c) /\ currentPrice(c) > 0
uncounted(c, amount) == c                                    \* faulty variant
mintFromReserveRatio(c, amount) ==
    [c EXCEPT !.gdSupply = @ + amount,
              !.reserveRatio = Fits((c.reserveSupply * Scale)
                                    \div ((c.gdSupply + amount) * currentPrice(c)))]

\* The G$ for interest at the same price.
InterestDue(c, interest) ==
    IF interest = 0 THEN 0 ELSE (interest * c.gdSupply) \div c.reserveSupply
MayMintInterest(c, interest) ==
    Active(c) /\ interest >= 0 /\ (interest > 0 => c.reserveSupply > 0)
mintInterest(c, interest) ==
    [c EXCEPT !.gdSupply = @ + InterestDue(c, interest), !.reserveSupply = @ + interest]

\* The ratio after some days, in fine units; a ratio of 0 counts as 100%.
expanded(c, factor, days) ==
    LET fine[d \in 0..days] ==
            IF d = 0 THEN (IF c.reserveRatio = 0 THEN Whole ELSE c.reserveRatio) * Fine
            ELSE (fine[d - 1] * factor) \div (Whole * Fine)
    IN fine[days]
DaysPassed(c, now) == (now - c.lastExpansion) \div DayLength
calculateNewReserveRatio(c, factor, now) ==
    Fits(expanded(c, factor, DaysPassed(c, now)) \div Fine)

\* lastExpansion stays at the same time of day.
atNow(c, now) == now                                         \* faulty variant
startOfDay(c, now) == now - ((now - c.lastExpansion) % DayLength)

expandReserveRatio(c, factor, now) ==
    [c EXCEPT !.reserveRatio = calculateNewReserveRatio(c, factor, now),
              !.lastExpansion = startOfDay(c, now)]

\* The G$ the lower ratio makes room for.  A curve with a ratio of 0 has none.
MayMintExpansion(c, factor, now) ==
    LET new == calculateNewReserveRatio(c, factor, now) IN
    Active(c) /\ 0 < new /\ new <= c.reserveRatio
roundedUp(c, factor, now) ==                                 \* faulty variant
    LET new == calculateNewReserveRatio(c, factor, now) IN
    (c.gdSupply * (c.reserveRatio - new) + new - 1) \div new
ExpansionDue(c, factor, now) ==
    LET new == calculateNewReserveRatio(c, factor, now) IN
    (c.gdSupply * (c.reserveRatio - new)) \div new
mintExpansion(c, factor, now) ==
    expandReserveRatio([c EXCEPT !.gdSupply = @ + ExpansionDue(c, factor, now)],
                       factor, now)
=============================================================================
