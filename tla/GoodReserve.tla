----------------------------- MODULE GoodReserve -----------------------------
(***************************************************************************)
(* GoodReserveCDai (contracts/reserve/GoodReserveCDai.sol) over its market *)
(* maker: G$ are bought and sold for cDAI, minted for interest, expansion  *)
(* and stakers' rewards.                                                   *)
(*                                                                         *)
(* G$ and GDX change hands freely, so of each only the sum counts: any of  *)
(* it may be in the hands of who sells.  Transfers cost no fee.            *)
(***************************************************************************)
EXTENDS MarketMaker

CONSTANTS
    cap,                    \* of the G$ supply
    InitCurve, InitFactor,  \* initializeToken and initialize
    Amounts,                \* of cDAI that is paid in
    Sales,                  \* of G$ that is sold
    Rewards,                \* of G$ that stakers get
    MinReturns,             \* the least return a trader accepts
    Contributions,          \* the contribution of a seller, as <<nom, denom>>
    Factors,                \* the daily expansions the DAO may set
    MaxTime,                \* bound: the last moment
    MaxReserve, MaxOnCurve, \* bounds: cDAI held, G$ on the curve
    MaxGDX,                 \* bound: GDX in circulation
    MaxDecisions            \* bound: decisions of the DAO

Ray == Whole * Fine

ASSUME ReserveAssumption ==
    /\ cap \in Nat
    /\ InitCurve \in Curve /\ InitCurve.gdSupply <= cap
    /\ InitFactor \in 0..(Ray - 1) /\ Factors \subseteq Nat
    /\ Amounts \subseteq Nat /\ Sales \subseteq Nat /\ Rewards \subseteq Nat
    /\ MinReturns \subseteq Nat
    /\ Contributions \subseteq {c \in Nat \X Nat : c[1] <= c[2] /\ c[2] > 0}
    /\ MaxTime \in Nat /\ MaxReserve \in Nat /\ MaxOnCurve \in Nat
    /\ MaxGDX \in Nat /\ MaxDecisions \in Nat

VARIABLES
    now,
    curve, reserveRatioDailyExpansion,      \* the market maker
    cdai,                                   \* cDAI the reserve holds
    gdSupply,                               \* G$ in circulation
    gdx,                                    \* GDX in circulation
    gdxDisabled, discountDisabled, paused,
    helperSet,                              \* distributionHelper # 0
    isMinter,                               \* until the reserve ends
    decisions                               \* counted towards the bound

tokens == <<cdai, gdSupply, gdx>>
settings == <<reserveRatioDailyExpansion, gdxDisabled, discountDisabled, paused,
              helperSet, isMinter, decisions>>
vars == <<now, curve, reserveRatioDailyExpansion, cdai, gdSupply, gdx,
          gdxDisabled, discountDisabled, paused, helperSet, isMinter, decisions>>

\* Types.  The curve's amounts are natural numbers: a sale takes no more off it
\* than is on it, and a ratio always fits its width.
TypeOK ==
    /\ now \in Nat /\ curve \in Curve
    /\ reserveRatioDailyExpansion \in 0..(Ray - 1)
    /\ cdai \in Nat /\ gdSupply \in Nat /\ gdx \in Nat
    /\ gdxDisabled \in BOOLEAN /\ discountDisabled \in BOOLEAN
    /\ paused \in BOOLEAN /\ helperSet \in BOOLEAN /\ isMinter \in BOOLEAN
    /\ decisions \in 0..MaxDecisions

Init ==
    /\ now = InitCurve.lastExpansion
    /\ curve = InitCurve
    /\ reserveRatioDailyExpansion = InitFactor
    /\ cdai = InitCurve.reserveSupply
    /\ gdSupply = InitCurve.gdSupply
    /\ gdx = 0
    /\ gdxDisabled = FALSE /\ discountDisabled = FALSE
    /\ paused = FALSE /\ helperSet = TRUE /\ isMinter = TRUE
    /\ decisions = 0

-----------------------------------------------------------------------------
(* Trading *)

\* _mintGoodDollars, called by who may.
_mintGoodDollars(amount) ==
    /\ ~paused /\ isMinter
    /\ gdSupply + amount <= cap
    /\ gdSupply' = gdSupply + amount

_mintGDX(amount) == gdx' = IF gdxDisabled THEN gdx ELSE gdx + amount

Buy(amount, minReturn) ==
    \E n \in minReturn..(cap - gdSupply) :
        /\ buyReturn(curve, amount, n)
        /\ curve' = buy(curve, amount, n)
        /\ cdai' = cdai + amount
        /\ _mintGoodDollars(n)
        /\ _mintGDX(n)
        /\ UNCHANGED <<now, settings>>

Least(a, b) == IF a <= b THEN a ELSE b

\* The seller may hold any part of the GDX, which are burned for a discount.
Discounts(amount) == IF discountDisabled THEN {0} ELSE 0..Least(gdx, amount)

\* Contribution of what the discount does not cover, at ratio r.
contributionOf(amount, r) == (amount * r[1]) \div r[2]

Sell(amount, minReturn) ==
    /\ ~paused
    /\ amount <= gdSupply /\ gdSupply' = gdSupply - amount
    /\ \E discount \in Discounts(amount), r \in Contributions :
        LET contribution == contributionOf(amount - discount, r) IN
        /\ gdx' = gdx - discount
        /\ MaySell(curve, amount, contribution)
        /\ \E n \in minReturn..cdai :
              /\ sellReturn(curve, amount - contribution, n)
              /\ curve' = sellWithContribution(curve, amount, contribution, n)
              /\ cdai' = cdai - n
    /\ UNCHANGED <<now, settings>>

-----------------------------------------------------------------------------
(* Minting, called by the fund manager *)

mintRewardFromRR(amount) ==
    /\ MayMintFromReserveRatio(curve)
    /\ curve' = mintFromReserveRatio(curve, amount)
    /\ _mintGoodDollars(amount)
    /\ _mintGDX(amount)
    /\ UNCHANGED <<now, cdai, settings>>

\* With the DAI that is turned to income cDAI, and whatever cDAI the reserve
\* was sent before.
mintUBI(income) ==
    LET interest == cdai + income - curve.reserveSupply
        grown == mintInterest(curve, interest)
        factor == reserveRatioDailyExpansion
    IN /\ MayMintInterest(curve, interest)
       /\ MayMintExpansion(grown, factor, now)
       /\ curve' = mintExpansion(grown, factor, now)
       /\ cdai' = cdai + income
       /\ helperSet
       /\ _mintGoodDollars(InterestDue(curve, interest) + ExpansionDue(grown, factor, now))
       /\ UNCHANGED <<now, gdx, settings>>

-----------------------------------------------------------------------------
(* The DAO *)

Decides == decisions < MaxDecisions /\ decisions' = decisions + 1

setReserveRatioDailyExpansion(factor) ==
    /\ Decides /\ factor < Ray
    /\ reserveRatioDailyExpansion' = factor
    /\ UNCHANGED <<now, curve, tokens, gdxDisabled, discountDisabled, paused,
                   helperSet, isMinter>>

\* The avatar may call the market maker itself.
Expand ==
    /\ Decides /\ Active(curve)
    /\ curve' = expandReserveRatio(curve, reserveRatioDailyExpansion, now)
    /\ UNCHANGED <<now, tokens, reserveRatioDailyExpansion, gdxDisabled,
                   discountDisabled, paused, helperSet, isMinter>>

setGDXDisabled(noGDX, noDiscount) ==
    /\ Decides /\ gdxDisabled' = noGDX /\ discountDisabled' = noDiscount
    /\ UNCHANGED <<now, curve, tokens, reserveRatioDailyExpansion, paused, helperSet,
                   isMinter>>

pause(b) ==
    /\ Decides /\ paused # b /\ paused' = b
    /\ UNCHANGED <<now, curve, tokens, reserveRatioDailyExpansion, gdxDisabled,
                   discountDisabled, helperSet, isMinter>>

setDistributionHelper(b) ==
    /\ Decides /\ helperSet' = b
    /\ UNCHANGED <<now, curve, tokens, reserveRatioDailyExpansion, gdxDisabled,
                   discountDisabled, paused, isMinter>>

\* The cDAI go to the avatar, which may mint from now on.
end ==
    /\ Decides /\ isMinter /\ isMinter' = FALSE /\ cdai' = 0
    /\ UNCHANGED <<now, curve, gdSupply, gdx, reserveRatioDailyExpansion, gdxDisabled,
                   discountDisabled, paused, helperSet>>

-----------------------------------------------------------------------------
(* The world around *)

\* Anyone may send cDAI to the reserve, and burn their own G$.
Send(amount) ==
    /\ cdai' = cdai + amount
    /\ UNCHANGED <<now, curve, gdSupply, gdx, settings>>
Burn(amount) ==
    /\ amount <= gdSupply /\ gdSupply' = gdSupply - amount
    /\ UNCHANGED <<now, curve, cdai, gdx, settings>>

Tick ==
    /\ now < MaxTime /\ now' = now + 1
    /\ UNCHANGED <<curve, tokens, settings>>

Decide ==
    \/ \E f \in Factors : setReserveRatioDailyExpansion(f)
    \/ Expand
    \/ \E a, b \in BOOLEAN : setGDXDisabled(a, b)
    \/ \E b \in BOOLEAN : pause(b) \/ setDistributionHelper(b)
    \/ end

Bounded == cdai' <= MaxReserve /\ curve'.gdSupply <= MaxOnCurve /\ gdx' <= MaxGDX

Next ==
    \/ \E n \in Amounts, m \in MinReturns : Buy(n, m) /\ Bounded
    \/ \E n \in Sales, m \in MinReturns : Sell(n, m)
    \/ \E n \in Amounts : mintUBI(n) /\ Bounded
    \/ \E n \in Rewards : mintRewardFromRR(n) /\ Bounded
    \/ \E n \in Amounts : Send(n) /\ Bounded
    \/ \E n \in Sales : Burn(n)
    \/ Decide
    \/ Tick

Spec == Init /\ [][Next]_vars
-----------------------------------------------------------------------------
\* The curve never promises cDAI the reserve does not hold, until it ends:
\* every sale is paid, and the interest of mintUBI is never negative.
ReserveIsBacked == isMinter => curve.reserveSupply <= cdai

\* Every G$ that circulates is on the curve, however they were bought, minted
\* and burned: "GD amount is higher than the total supply" refuses nobody.
EveryGDIsOnCurve == gdSupply <= curve.gdSupply

\* "in order to keep G$ price the same at the bonding curve": G$ for interest
\* and expansion do not lower the price, whatever was rounded, and neither does
\* buying.  (The price is reserveSupply / (gdSupply * reserveRatio).)
PriceHolds ==
    curve'.reserveSupply * curve.gdSupply * curve.reserveRatio
        >= curve.reserveSupply * curve'.gdSupply * curve'.reserveRatio
MintingKeepsPrice == [][
    (\E n \in Amounts : mintUBI(n) \/ Buy(n, 0)) => PriceHolds]_vars

\* The ratio expands once for every whole day since the curve began: the hours
\* of a day that are left when it expands count towards the next.
ExpansionKeepsTime ==
    /\ curve.lastExpansion <= now
    /\ (curve.lastExpansion - InitCurve.lastExpansion) % DayLength = 0

\* "reserve weight, represented in ppm (1-1000000)", of which BancorFormula
\* takes no other, or no trade is possible.
RatioIsWeight == curve.reserveRatio \in 1..Whole
=============================================================================
