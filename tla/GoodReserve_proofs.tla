-------------------------- MODULE GoodReserve_proofs --------------------------
(***************************************************************************)
(* The reserve is backed and every G$ is on the curve, for all amounts,    *)
(* contributions, factors and moments, and what is minted for interest and *)
(* expansion does not lower the price, and neither does buying.  Expansion *)
(* runs a recursive function over the days passed: that its values are     *)
(* natural numbers, and do not grow, is shown by induction, and so are the *)
(* laws of the powers that buying goes by.                                 *)
(***************************************************************************)
EXTENDS GoodReserve, Lemmas

-----------------------------------------------------------------------------
(* Arithmetic *)

LEMMA ProductPositive == \A a, b \in Nat : a * b \in Nat /\ (a > 0 /\ b > 0 => a * b > 0)
  OBVIOUS
LEMMA Quotient == \A a \in Nat, b \in Nat \ {0} : a \div b \in Nat
  OBVIOUS
Run(f, n, start, factor, whole) ==
    f = [d \in 0..n |-> IF d = 0 THEN start ELSE (f[d - 1] * factor) \div whole]

LEMMA RunExists ==
    ASSUME NEW n \in Nat, NEW start \in Nat, NEW factor \in Nat, NEW whole \in Nat \ {0}
    PROVE  \E f : Run(f, n, start, factor, whole)
<1> DEFINE Good(f, k) == \A d \in 0..k : f[d] = IF d = 0 THEN start
                                               ELSE (f[d - 1] * factor) \div whole
           T == {k \in Nat : \E f \in [0..k -> Nat] : Good(f, k)}
<1>1. 0 \in T
  <2> DEFINE f == [d \in 0..0 |-> start]
  <2>1. f \in [0..0 -> Nat] /\ Good(f, 0)
    OBVIOUS
  <2> QED
    BY <2>1
<1>2. ASSUME NEW k \in Nat, k \in T PROVE k + 1 \in T
  <2>1. PICK f \in [0..k -> Nat] : Good(f, k)
    BY <1>2
  <2> DEFINE next == (f[k] * factor) \div whole
             g == [d \in 0..(k + 1) |-> IF d = k + 1 THEN next ELSE f[d]]
  <2>2. next \in Nat
    <3>1. f[k] \in Nat
      OBVIOUS
    <3> QED
      BY <3>1, ProductPositive, Quotient
  <2>3. g \in [0..(k + 1) -> Nat]
    <3> HIDE DEF next
    <3> QED
      BY <2>2
  <2>5. \A d \in 0..(k + 1) : g[d] = IF d = 0 THEN start ELSE (g[d - 1] * factor) \div whole
    <3> TAKE d \in 0..(k + 1)
    <3>1. CASE d = k + 1
      <4>1. g[d] = next /\ d # 0 /\ d - 1 = k /\ g[d - 1] = f[k]
        <5> HIDE DEF next
        <5> QED
          BY <3>1
      <4> QED
        BY <4>1
    <3>2. CASE d # k + 1
      <4>1. d \in 0..k /\ g[d] = f[d]
        BY <3>2
      <4>2. f[d] = IF d = 0 THEN start ELSE (f[d - 1] * factor) \div whole
        BY <2>1, <4>1
      <4>3. d # 0 => g[d - 1] = f[d - 1]
        BY <4>1
      <4> QED
        BY <4>1, <4>2, <4>3
    <3> QED
      BY <3>1, <3>2
  <2>6. Good(g, k + 1)
    BY <2>5
  <2> HIDE DEF g, Good
  <2> QED
    BY <2>3, <2>6
<1> HIDE DEF T
<1>3. n \in T
  BY <1>1, <1>2, Induction
<1>4. PICK f \in [0..n -> Nat] : Good(f, n)
  BY <1>3 DEF T
<1>5. f = [d \in 0..n |-> IF d = 0 THEN start ELSE (f[d - 1] * factor) \div whole]
  <2>1. f = [d \in 0..n |-> f[d]]
    OBVIOUS
  <2> QED
    BY <1>4, <2>1
<1> QED
  BY <1>5 DEF Run

LEMMA RunIsNat ==
    ASSUME NEW n \in Nat, NEW start \in Nat, NEW factor \in Nat, NEW whole \in Nat \ {0},
           NEW f, Run(f, n, start, factor, whole)
    PROVE  f[n] \in Nat
<1>1. f[0] = start
  BY DEF Run
<1>2. \A k \in Nat : k + 1 <= n => f[k + 1] = (f[k] * factor) \div whole
  <2> TAKE k \in Nat
  <2> HAVE k + 1 <= n
  <2>1. k + 1 \in 0..n /\ k + 1 # 0 /\ (k + 1) - 1 = k
    OBVIOUS
  <2> QED
    BY <2>1 DEF Run
<1> DEFINE T == {k \in Nat : k <= n => f[k] \in Nat}
<1>3. 0 \in T
  BY <1>1
<1>4. ASSUME NEW k \in Nat, k \in T PROVE k + 1 \in T
  <2>1. SUFFICES ASSUME k + 1 <= n PROVE f[k + 1] \in Nat
    OBVIOUS
  <2>2. f[k] \in Nat
    BY <1>4, <2>1
  <2> QED
    BY <1>2, <2>1, <2>2, ProductPositive, Quotient
<1>5. n \in T
  <2> HIDE DEF T
  <2> QED
    BY <1>3, <1>4, Induction
<1> QED
  BY <1>5

LEMMA ExpandedIsNat ==
    ASSUME CurveAssumption, NEW c \in Curve, NEW factor \in Nat, NEW days \in Nat
    PROVE  expanded(c, factor, days) \in Nat
<1> DEFINE start == (IF c.reserveRatio = 0 THEN Whole ELSE c.reserveRatio) * Fine
           whole == Whole * Fine
           F == CHOOSE f : Run(f, days, start, factor, whole)
<1>1. start \in Nat /\ whole \in Nat \ {0}
  <2>1. Whole \in Nat \ {0} /\ Fine \in Nat \ {0} /\ c.reserveRatio \in Nat
    BY DEF CurveAssumption, Curve
  <2> QED
    BY <2>1, ProductPositive
<1>2. expanded(c, factor, days) = F[days]
  BY DEF expanded, Run
<1> HIDE DEF start, whole
<1>3. \E f : Run(f, days, start, factor, whole)
  BY <1>1, RunExists
<1>4. Run(F, days, start, factor, whole)
  BY <1>3
<1> HIDE DEF F
<1>5. F[days] \in Nat
  BY <1>1, <1>4, RunIsNat
<1> QED
  BY <1>2, <1>5

\* Expansion only lowers a ratio in fine units.
LEMMA QuotientShrinks ==
    ASSUME NEW x \in Nat, NEW factor \in Nat, NEW whole \in Nat \ {0}, factor <= whole
    PROVE  (x * factor) \div whole <= x
<1> DEFINE p == x * factor
           q == p \div whole
<1>1. p \in Nat /\ p <= x * whole
  OBVIOUS
<1>2. q \in Int /\ whole * q <= p
  <2> HIDE DEF p
  <2> QED
    BY <1>1
<1>3. ASSUME q > x PROVE FALSE
  <2>1. q >= x + 1
    BY <1>2, <1>3
  <2>2. whole * q >= whole * (x + 1)
    BY <2>1, <1>2
  <2> QED
    BY <1>1, <1>2, <2>2
<1> QED
  BY <1>2, <1>3

LEMMA RunShrinks ==
    ASSUME NEW n \in Nat, NEW start \in Nat, NEW factor \in Nat, NEW whole \in Nat \ {0},
           factor <= whole, NEW f, Run(f, n, start, factor, whole)
    PROVE  f[n] <= start
<1>1. f[0] = start
  BY DEF Run
<1>2. \A k \in Nat : k + 1 <= n => f[k + 1] = (f[k] * factor) \div whole
  <2> TAKE k \in Nat
  <2> HAVE k + 1 <= n
  <2>1. k + 1 \in 0..n /\ k + 1 # 0 /\ (k + 1) - 1 = k
    OBVIOUS
  <2> QED
    BY <2>1 DEF Run
<1> DEFINE T == {k \in Nat : k <= n => f[k] \in Nat /\ f[k] <= start}
<1>3. 0 \in T
  BY <1>1
<1>4. ASSUME NEW k \in Nat, k \in T PROVE k + 1 \in T
  <2>1. SUFFICES ASSUME k + 1 <= n PROVE f[k + 1] \in Nat /\ f[k + 1] <= start
    OBVIOUS
  <2>2. f[k] \in Nat /\ f[k] <= start
    BY <1>4, <2>1
  <2>3. f[k + 1] \in Nat
    BY <1>2, <2>1, <2>2, ProductPositive, Quotient
  <2>4. f[k + 1] <= f[k]
    BY <1>2, <2>1, <2>2, QuotientShrinks
  <2> QED
    BY <2>2, <2>3, <2>4
<1>5. n \in T
  <2> HIDE DEF T
  <2> QED
    BY <1>3, <1>4, Induction
<1> QED
  BY <1>5

-----------------------------------------------------------------------------
(* The curve after each operation *)

LEMMA FitsWidth == ASSUME CurveAssumption, NEW n \in Nat PROVE Fits(n) \in 0..(Width - 1)
<1>1. Width \in Nat /\ Width > 0
  BY DEF CurveAssumption
<1> QED
  BY <1>1 DEF Fits

LEMMA CurveFields ==
    ASSUME NEW c \in Curve
    PROVE  /\ c.reserveSupply \in Nat /\ c.gdSupply \in Nat /\ c.lastExpansion \in Nat
           /\ c.reserveRatio \in 0..(Width - 1)
BY DEF Curve

LEMMA BuyCurve ==
    ASSUME NEW c \in Curve, NEW amount \in Nat, NEW n \in Nat
    PROVE  /\ buy(c, amount, n) \in Curve
           /\ buy(c, amount, n).reserveSupply = c.reserveSupply + amount
           /\ buy(c, amount, n).gdSupply = c.gdSupply + n
           /\ buy(c, amount, n).lastExpansion = c.lastExpansion
<1> DEFINE g == c.gdSupply + n
           r == c.reserveSupply + amount
           w == buy(c, amount, n)
<1>1. g \in Nat /\ r \in Nat
  BY CurveFields
<1>2. w = [c EXCEPT !.gdSupply = g, !.reserveSupply = r]
  BY DEF buy
<1> HIDE DEF g, r, w
<1>3. w \in Curve /\ w.gdSupply = g /\ w.reserveSupply = r /\ w.lastExpansion = c.lastExpansion
  BY <1>1, <1>2 DEF Curve
<1> QED
  BY <1>3 DEF g, r, w

LEMMA SellCurve ==
    ASSUME CurveAssumption, NEW c \in Curve,
           NEW amount \in Nat, NEW contribution \in Nat, NEW n \in Nat,
           MaySell(c, amount, contribution), n <= c.reserveSupply
    PROVE  LET s == sellWithContribution(c, amount, contribution, n) IN
           /\ s \in Curve
           /\ s.reserveSupply = c.reserveSupply - n
           /\ s.gdSupply = c.gdSupply - amount
           /\ s.lastExpansion = c.lastExpansion
<1> DEFINE traded == c.gdSupply - (amount - contribution)
           left == c.gdSupply - amount
           ratio == IF contribution > 0 THEN Fits((traded * c.reserveRatio) \div left)
                    ELSE c.reserveRatio
           s == sellWithContribution(c, amount, contribution, n)
<1>1. /\ traded \in Nat /\ left \in Nat /\ (contribution > 0 => left > 0)
      /\ c.reserveRatio \in Nat /\ c.reserveRatio \in 0..(Width - 1)
      /\ c.reserveSupply - n \in Nat
  BY CurveFields DEF MaySell, CurveAssumption
<1>2. s = [c EXCEPT !.gdSupply = left, !.reserveSupply = c.reserveSupply - n,
                    !.reserveRatio = ratio]
  BY DEF sellWithContribution, Curve
<1> HIDE DEF traded, left, s
<1>3. ratio \in 0..(Width - 1)
  <2>1. CASE contribution > 0
    <3>1. (traded * c.reserveRatio) \div left \in Nat
      BY <1>1, <2>1, ProductPositive, Quotient
    <3> QED
      BY <2>1, <3>1, FitsWidth
  <2> QED
    BY <1>1, <2>1
<1> HIDE DEF ratio
<1>4. /\ s \in Curve /\ s.reserveSupply = c.reserveSupply - n
      /\ s.gdSupply = left /\ s.lastExpansion = c.lastExpansion
  BY <1>1, <1>2, <1>3 DEF Curve
<1> QED
  BY <1>4 DEF s, left

LEMMA MintCurve ==
    ASSUME CurveAssumption, NEW c \in Curve, NEW amount \in Nat, MayMintFromReserveRatio(c)
    PROVE  LET m == mintFromReserveRatio(c, amount) IN
           /\ m \in Curve
           /\ m.reserveSupply = c.reserveSupply
           /\ m.gdSupply = c.gdSupply + amount
           /\ m.lastExpansion = c.lastExpansion
<1> DEFINE supply == c.gdSupply + amount
           price == currentPrice(c)
           worth == c.reserveSupply * Scale
           ratio == Fits(worth \div (supply * price))
           m == mintFromReserveRatio(c, amount)
<1>1. /\ c.gdSupply > 0 /\ supply \in Nat /\ supply > 0
      /\ c.reserveRatio > 0 /\ c.reserveRatio \in Nat
      /\ price > 0
  BY CurveFields DEF MayMintFromReserveRatio, Priced, Active, CurveAssumption
<1>2. worth \in Nat
  BY CurveFields, ProductPositive DEF CurveAssumption
<1>3. price \in Nat
  <2>1. c.gdSupply * c.reserveRatio \in Nat \ {0}
    BY <1>1, CurveFields, ProductPositive
  <2> QED
    BY <1>2, <2>1, Quotient DEF currentPrice
<1>4. m = [c EXCEPT !.gdSupply = supply, !.reserveRatio = ratio]
  BY DEF mintFromReserveRatio, Curve
<1> HIDE DEF supply, price, worth, m
<1>5. ratio \in 0..(Width - 1)
  <2>1. supply * price \in Nat \ {0}
    BY <1>1, <1>3, ProductPositive
  <2>2. worth \div (supply * price) \in Nat
    BY <1>2, <2>1, Quotient
  <2> QED
    BY <2>2, FitsWidth
<1> HIDE DEF ratio
<1>6. /\ m \in Curve /\ m.reserveSupply = c.reserveSupply
      /\ m.gdSupply = supply /\ m.lastExpansion = c.lastExpansion
  BY <1>1, <1>4, <1>5 DEF Curve
<1> QED
  BY <1>6 DEF m, supply

LEMMA InterestCurve ==
    ASSUME NEW c \in Curve, NEW interest \in Int, MayMintInterest(c, interest)
    PROVE  /\ interest \in Nat
           /\ InterestDue(c, interest) \in Nat
           /\ mintInterest(c, interest) \in Curve
           /\ mintInterest(c, interest).reserveSupply = c.reserveSupply + interest
           /\ mintInterest(c, interest).gdSupply = c.gdSupply + InterestDue(c, interest)
           /\ mintInterest(c, interest).lastExpansion = c.lastExpansion
<1>1. interest \in Nat
  BY DEF MayMintInterest
<1>2. InterestDue(c, interest) \in Nat
  <2>1. CASE interest > 0
    <3>1. c.reserveSupply \in Nat \ {0}
      BY <2>1, CurveFields DEF MayMintInterest
    <3>2. (interest * c.gdSupply) \div c.reserveSupply \in Nat
      BY <1>1, <3>1, CurveFields, ProductPositive, Quotient
    <3> QED
      BY <2>1, <3>2 DEF InterestDue
  <2> QED
    BY <1>1, <2>1 DEF InterestDue
<1> DEFINE g == c.gdSupply + InterestDue(c, interest)
           r == c.reserveSupply + interest
           w == mintInterest(c, interest)
<1>3. g \in Nat /\ r \in Nat
  BY <1>1, <1>2, CurveFields
<1>4. w = [c EXCEPT !.gdSupply = g, !.reserveSupply = r]
  BY DEF mintInterest
<1> HIDE DEF g, r, w
<1>5. w \in Curve /\ w.gdSupply = g /\ w.reserveSupply = r /\ w.lastExpansion = c.lastExpansion
  BY <1>3, <1>4 DEF Curve
<1> QED
  BY <1>1, <1>2, <1>5 DEF g, r, w

-----------------------------------------------------------------------------
(* Expansion *)

LEMMA DaysPassedIsNat ==
    ASSUME CurveAssumption, NEW c \in Curve, NEW t \in Nat, c.lastExpansion <= t
    PROVE  DaysPassed(c, t) \in Nat
<1>1. t - c.lastExpansion \in Nat /\ DayLength \in Nat \ {0}
  BY CurveFields DEF CurveAssumption
<1> QED
  BY <1>1, Quotient DEF DaysPassed

LEMMA NewRatio ==
    ASSUME CurveAssumption, NEW c \in Curve, NEW factor \in Nat,
           NEW t \in Nat, c.lastExpansion <= t
    PROVE  calculateNewReserveRatio(c, factor, t) \in 0..(Width - 1)
<1>1. Fine \in Nat \ {0}
  BY DEF CurveAssumption
<1>2. expanded(c, factor, DaysPassed(c, t)) \in Nat
  BY DaysPassedIsNat, ExpandedIsNat
<1>3. expanded(c, factor, DaysPassed(c, t)) \div Fine \in Nat
  BY <1>1, <1>2, Quotient
<1> QED
  BY <1>3, FitsWidth DEF calculateNewReserveRatio

LEMMA Multiples ==
    ASSUME NEW day \in Nat \ {0}, NEW x \in Int, x % day = 0, NEW y \in Nat
    PROVE  /\ (x + (y - (y % day))) % day = 0
           /\ y % day \in Nat /\ y % day <= y
<1> DEFINE q == x \div day
           r == y \div day
           rest == y % day
<1>1. q \in Int /\ x = day * q
  OBVIOUS
<1>2. r \in Int /\ rest \in Nat /\ y = day * r + rest /\ r >= 0
  OBVIOUS
<1>3. \A n \in Int : (day * n) % day = 0
  OBVIOUS
<1> HIDE DEF q, r, rest
<1>4. x + (y - rest) = day * (q + r) /\ q + r \in Int
  BY <1>1, <1>2
<1>5. day * r >= 0
  BY <1>2
<1>6. (x + (y - rest)) % day = 0
  BY <1>3, <1>4
<1> QED
  BY <1>2, <1>5, <1>6 DEF rest

LEMMA StartOfDay ==
    ASSUME CurveAssumption, NEW c \in Curve, NEW t \in Nat, c.lastExpansion <= t,
           NEW first \in Nat, (c.lastExpansion - first) % DayLength = 0
    PROVE  /\ startOfDay(c, t) \in Nat /\ startOfDay(c, t) <= t
           /\ (startOfDay(c, t) - first) % DayLength = 0
<1> DEFINE x == c.lastExpansion - first
           y == t - c.lastExpansion
<1>1. x \in Int /\ y \in Nat /\ DayLength \in Nat \ {0} /\ c.lastExpansion \in Nat
  BY CurveFields DEF CurveAssumption
<1>2. /\ (x + (y - (y % DayLength))) % DayLength = 0
      /\ y % DayLength \in Nat /\ y % DayLength <= y
  <2> HIDE DEF x, y
  <2>1. x % DayLength = 0
    BY DEF x
  <2> QED
    BY <1>1, <2>1, Multiples
<1>3. startOfDay(c, t) = t - (y % DayLength)
  BY DEF startOfDay
<1>4. \A rest \in Nat : rest <= y => /\ t - rest \in Nat /\ t - rest <= t
                                   /\ (t - rest) - first = x + (y - rest)
  <2>1. \A l, rest \in Nat : l <= t /\ rest <= t - l =>
            /\ t - rest \in Nat /\ t - rest <= t
            /\ (t - rest) - first = (l - first) + ((t - l) - rest)
    OBVIOUS
  <2> QED
    BY <1>1, <2>1
<1> HIDE DEF x, y
<1> QED
  BY <1>2, <1>3, <1>4

LEMMA ExpandCurve ==
    ASSUME CurveAssumption, NEW c \in Curve, NEW factor \in Nat,
           NEW t \in Nat, c.lastExpansion <= t,
           NEW first \in Nat, (c.lastExpansion - first) % DayLength = 0
    PROVE  LET e == expandReserveRatio(c, factor, t) IN
           /\ e \in Curve
           /\ e.reserveSupply = c.reserveSupply /\ e.gdSupply = c.gdSupply
           /\ e.lastExpansion <= t /\ (e.lastExpansion - first) % DayLength = 0
<1> DEFINE ratio == calculateNewReserveRatio(c, factor, t)
           start == startOfDay(c, t)
<1>1. ratio \in 0..(Width - 1)
  BY NewRatio
<1>2. start \in Nat /\ start <= t /\ (start - first) % DayLength = 0
  BY StartOfDay
<1>3. expandReserveRatio(c, factor, t) =
          [c EXCEPT !.reserveRatio = ratio, !.lastExpansion = start]
  BY DEF expandReserveRatio
<1> HIDE DEF ratio, start
<1>4. LET e == [c EXCEPT !.reserveRatio = ratio, !.lastExpansion = start] IN
      /\ e \in Curve
      /\ e.reserveSupply = c.reserveSupply /\ e.gdSupply = c.gdSupply
      /\ e.lastExpansion = start
  BY <1>1, <1>2 DEF Curve
<1> QED
  BY <1>2, <1>3, <1>4

LEMMA WithSupply ==
    ASSUME NEW c \in Curve, NEW g \in Nat
    PROVE  LET w == [c EXCEPT !.gdSupply = g] IN
           /\ w \in Curve /\ w.gdSupply = g /\ w.reserveSupply = c.reserveSupply
           /\ w.lastExpansion = c.lastExpansion
BY DEF Curve

LEMMA ExpansionCurve ==
    ASSUME CurveAssumption, NEW c \in Curve, NEW factor \in Nat,
           NEW t \in Nat, c.lastExpansion <= t, MayMintExpansion(c, factor, t),
           NEW first \in Nat, (c.lastExpansion - first) % DayLength = 0
    PROVE  LET e == mintExpansion(c, factor, t) IN
           /\ e \in Curve
           /\ ExpansionDue(c, factor, t) \in Nat
           /\ e.reserveSupply = c.reserveSupply
           /\ e.gdSupply = c.gdSupply + ExpansionDue(c, factor, t)
           /\ e.lastExpansion <= t /\ (e.lastExpansion - first) % DayLength = 0
<1> DEFINE new == calculateNewReserveRatio(c, factor, t)
           due == ExpansionDue(c, factor, t)
           w == [c EXCEPT !.gdSupply = c.gdSupply + due]
<1>1. due \in Nat
  <2>1. new \in 0..(Width - 1)
    BY NewRatio
  <2>2. new \in Nat \ {0} /\ c.reserveRatio - new \in Nat
    BY <2>1, CurveFields DEF MayMintExpansion, CurveAssumption
  <2>3. c.gdSupply * (c.reserveRatio - new) \in Nat
    BY <2>2, CurveFields, ProductPositive
  <2>4. due = (c.gdSupply * (c.reserveRatio - new)) \div new
    BY DEF ExpansionDue
  <2> QED
    BY <2>2, <2>3, <2>4, Quotient
<1>2. mintExpansion(c, factor, t) = expandReserveRatio(w, factor, t)
  BY DEF mintExpansion
<1>3. c.gdSupply + due \in Nat
  BY <1>1, CurveFields
<1> HIDE DEF due
<1>4. /\ w \in Curve /\ w.gdSupply = c.gdSupply + due /\ w.reserveSupply = c.reserveSupply
      /\ w.lastExpansion = c.lastExpansion
  BY <1>3, WithSupply
<1> HIDE DEF w
<1>5. LET e == expandReserveRatio(w, factor, t) IN
      /\ e \in Curve
      /\ e.reserveSupply = w.reserveSupply /\ e.gdSupply = w.gdSupply
      /\ e.lastExpansion <= t /\ (e.lastExpansion - first) % DayLength = 0
  BY <1>4, ExpandCurve
<1> QED
  BY <1>1, <1>2, <1>4, <1>5 DEF due

-----------------------------------------------------------------------------
(* The invariant *)

Inv == TypeOK /\ ReserveIsBacked /\ EveryGDIsOnCurve /\ ExpansionKeepsTime

first == InitCurve.lastExpansion

LEMMA FirstIsNat == ASSUME ReserveAssumption PROVE first \in Nat
BY DEF ReserveAssumption, Curve, first

LEMMA InitInv == ASSUME ReserveAssumption, CurveAssumption PROVE Init => Inv
<1> SUFFICES ASSUME Init PROVE Inv
  OBVIOUS
<1>1. TypeOK
  <2>1. InitCurve \in Curve /\ InitFactor \in 0..(Ray - 1) /\ MaxDecisions \in Nat
    BY DEF ReserveAssumption
  <2>2. InitCurve.lastExpansion \in Nat /\ InitCurve.reserveSupply \in Nat
        /\ InitCurve.gdSupply \in Nat
    BY <2>1, CurveFields
  <2>3. 0 \in 0..MaxDecisions
    BY <2>1
  <2> QED
    BY <2>1, <2>2, <2>3 DEF Init, TypeOK
<1>2. ReserveIsBacked /\ EveryGDIsOnCurve
  BY DEF Init, ReserveIsBacked, EveryGDIsOnCurve, ReserveAssumption, Curve
<1>3. ExpansionKeepsTime
  <2>1. 0 % DayLength = 0
    BY DEF CurveAssumption
  <2>2. first \in Nat
    BY FirstIsNat
  <2>3. first - first = 0 /\ first <= first
    BY <2>2
  <2> QED
    BY <2>1, <2>3 DEF Init, ExpansionKeepsTime, first
<1> QED
  BY <1>1, <1>2, <1>3 DEF Inv

\* What the invariant asks of a step that mints or burns no more than it puts
\* on the curve.
LEMMA Kept ==
    ASSUME Inv,
           curve' \in Curve, now' = now, cdai' \in Nat, gdSupply' \in Nat, gdx' \in Nat,
           UNCHANGED <<settings>>,
           isMinter => curve'.reserveSupply <= cdai',
           gdSupply' <= curve'.gdSupply,
           curve'.lastExpansion <= now,
           (curve'.lastExpansion - first) % DayLength = 0
    PROVE  Inv'
BY DEF Inv, TypeOK, settings, ReserveIsBacked, EveryGDIsOnCurve, ExpansionKeepsTime, first

LEMMA BuyKeeps ==
    ASSUME ReserveAssumption, Inv, NEW amount \in Amounts, NEW m \in MinReturns, Buy(amount, m)
    PROVE  Inv'
<1>1. /\ curve \in Curve /\ cdai \in Nat /\ gdSupply \in Nat /\ gdx \in Nat
      /\ (isMinter => curve.reserveSupply <= cdai) /\ gdSupply <= curve.gdSupply
      /\ curve.lastExpansion <= now /\ (curve.lastExpansion - first) % DayLength = 0
      /\ amount \in Nat /\ m \in Nat /\ cap \in Nat
  BY DEF Inv, TypeOK, ReserveIsBacked, EveryGDIsOnCurve, ExpansionKeepsTime,
         ReserveAssumption, first
<1>2. PICK n \in m..(cap - gdSupply) :
          /\ curve' = buy(curve, amount, n) /\ cdai' = cdai + amount
          /\ gdSupply' = gdSupply + n
          /\ gdx' = IF gdxDisabled THEN gdx ELSE gdx + n
          /\ now' = now /\ UNCHANGED settings
  BY DEF Buy, _mintGoodDollars, _mintGDX
<1>3. n \in Nat
  BY <1>1
<1>4. /\ curve' \in Curve
      /\ curve'.reserveSupply = curve.reserveSupply + amount
      /\ curve'.gdSupply = curve.gdSupply + n
      /\ curve'.lastExpansion = curve.lastExpansion
  <2>1. /\ buy(curve, amount, n) \in Curve
        /\ buy(curve, amount, n).reserveSupply = curve.reserveSupply + amount
        /\ buy(curve, amount, n).gdSupply = curve.gdSupply + n
        /\ buy(curve, amount, n).lastExpansion = curve.lastExpansion
    <3>1. curve \in Curve /\ amount \in Nat
      BY <1>1
    <3> QED
      BY <3>1, <1>3, BuyCurve
  <2> QED
    BY <1>2, <2>1
<1>5. gdx' \in Nat
  BY <1>1, <1>2, <1>3
<1> QED
  BY <1>1, <1>2, <1>3, <1>4, <1>5, CurveFields, Kept

LEMMA SellKeeps ==
    ASSUME CurveAssumption, ReserveAssumption, Inv,
           NEW amount \in Sales, NEW m \in MinReturns, Sell(amount, m)
    PROVE  Inv'
<1>1. /\ curve \in Curve /\ cdai \in Nat /\ gdSupply \in Nat /\ gdx \in Nat
      /\ (isMinter => curve.reserveSupply <= cdai) /\ gdSupply <= curve.gdSupply
      /\ curve.lastExpansion <= now /\ (curve.lastExpansion - first) % DayLength = 0
      /\ amount \in Nat /\ m \in Nat
  BY DEF Inv, TypeOK, ReserveIsBacked, EveryGDIsOnCurve, ExpansionKeepsTime,
         ReserveAssumption, first
<1>2. PICK discount \in Discounts(amount), r \in Contributions :
          /\ gdx' = gdx - discount
          /\ MaySell(curve, amount, contributionOf(amount - discount, r))
          /\ \E n \in m..cdai :
                /\ sellReturn(curve, amount - contributionOf(amount - discount, r), n)
                /\ curve' = sellWithContribution(curve, amount,
                                contributionOf(amount - discount, r), n)
                /\ cdai' = cdai - n
  BY DEF Sell
<1> DEFINE contribution == contributionOf(amount - discount, r)
<1>3. PICK n \in m..cdai : /\ sellReturn(curve, amount - contribution, n)
                           /\ curve' = sellWithContribution(curve, amount, contribution, n)
                           /\ cdai' = cdai - n
  BY <1>2
<1>4. /\ amount <= gdSupply /\ gdSupply' = gdSupply - amount
      /\ now' = now /\ UNCHANGED settings
  BY DEF Sell
<1>5. discount \in Nat /\ discount <= gdx /\ discount <= amount
  BY <1>1 DEF Discounts, Least
<1>6. contribution \in Nat
  <2>1. r[1] \in Nat /\ r[2] \in Nat \ {0}
    BY DEF ReserveAssumption
  <2>2. amount - discount \in Nat
    BY <1>1, <1>5
  <2>3. (amount - discount) * r[1] \in Nat
    BY <2>1, <2>2, ProductPositive
  <2> QED
    BY <2>1, <2>3, Quotient DEF contributionOf
<1>7. n \in Nat /\ n <= cdai /\ n <= curve.reserveSupply
  BY <1>1, <1>3 DEF sellReturn, Sold
<1>8. MaySell(curve, amount, contribution)
  BY <1>2
<1> HIDE DEF contribution
<1>9. /\ curve' \in Curve
      /\ curve'.reserveSupply = curve.reserveSupply - n
      /\ curve'.gdSupply = curve.gdSupply - amount
      /\ curve'.lastExpansion = curve.lastExpansion
  BY <1>1, <1>3, <1>6, <1>7, <1>8, SellCurve
<1>10. /\ cdai' \in Nat /\ gdSupply' \in Nat /\ gdx' \in Nat
  BY <1>1, <1>2, <1>3, <1>4, <1>5, <1>7
<1>11. /\ isMinter => curve'.reserveSupply <= cdai'
       /\ gdSupply' <= curve'.gdSupply
  <2>1. \A a, b, d \in Nat : a <= b => a - d <= b - d
    OBVIOUS
  <2> QED
    BY <1>1, <1>3, <1>4, <1>7, <1>9, <2>1, CurveFields
<1> QED
  BY <1>1, <1>4, <1>9, <1>10, <1>11, Kept

LEMMA RewardKeeps ==
    ASSUME CurveAssumption, ReserveAssumption, Inv, NEW amount \in Rewards,
           mintRewardFromRR(amount)
    PROVE  Inv'
<1>1. /\ curve \in Curve /\ cdai \in Nat /\ gdSupply \in Nat /\ gdx \in Nat /\ now \in Nat
      /\ reserveRatioDailyExpansion \in 0..(Ray - 1)
      /\ (isMinter => curve.reserveSupply <= cdai) /\ gdSupply <= curve.gdSupply
      /\ curve.lastExpansion <= now /\ (curve.lastExpansion - first) % DayLength = 0
  BY DEF Inv, TypeOK, ReserveIsBacked, EveryGDIsOnCurve, ExpansionKeepsTime, first
<1>2. amount \in Nat
  BY DEF ReserveAssumption
<1>3. /\ MayMintFromReserveRatio(curve)
      /\ curve' = mintFromReserveRatio(curve, amount)
      /\ gdSupply' = gdSupply + amount
      /\ gdx' = IF gdxDisabled THEN gdx ELSE gdx + amount
      /\ now' = now /\ cdai' = cdai /\ UNCHANGED settings
  BY DEF mintRewardFromRR, _mintGoodDollars, _mintGDX
<1>4. /\ curve' \in Curve
      /\ curve'.reserveSupply = curve.reserveSupply
      /\ curve'.gdSupply = curve.gdSupply + amount
      /\ curve'.lastExpansion = curve.lastExpansion
  BY <1>1, <1>2, <1>3, MintCurve
<1>5. gdSupply' \in Nat /\ gdx' \in Nat /\ gdSupply' <= curve'.gdSupply
  BY <1>1, <1>2, <1>3, <1>4, CurveFields
<1> QED
  BY <1>1, <1>3, <1>4, <1>5, Kept

LEMMA UBIKeeps ==
    ASSUME CurveAssumption, ReserveAssumption, Inv, NEW income \in Amounts, mintUBI(income)
    PROVE  Inv'
<1>1. /\ curve \in Curve /\ cdai \in Nat /\ gdSupply \in Nat /\ gdx \in Nat /\ now \in Nat
      /\ reserveRatioDailyExpansion \in 0..(Ray - 1)
      /\ (isMinter => curve.reserveSupply <= cdai) /\ gdSupply <= curve.gdSupply
      /\ curve.lastExpansion <= now /\ (curve.lastExpansion - first) % DayLength = 0
  BY DEF Inv, TypeOK, ReserveIsBacked, EveryGDIsOnCurve, ExpansionKeepsTime, first
<1> DEFINE interest == cdai + income - curve.reserveSupply
           grown == mintInterest(curve, interest)
           factor == reserveRatioDailyExpansion
           minted == InterestDue(curve, interest)
           due == ExpansionDue(grown, factor, now)
<1>2. /\ MayMintInterest(curve, interest) /\ MayMintExpansion(grown, factor, now)
      /\ curve' = mintExpansion(grown, factor, now)
      /\ cdai' = cdai + income
      /\ gdSupply' = gdSupply + (minted + due)
      /\ now' = now /\ gdx' = gdx /\ UNCHANGED settings
  BY DEF mintUBI, _mintGoodDollars
<1>3. income \in Nat /\ interest \in Int
  BY <1>1, CurveFields DEF ReserveAssumption
<1>4. factor \in Nat
  BY <1>1
<1>5. curve.reserveSupply + interest = cdai + income
  BY <1>1, <1>3, CurveFields
<1> HIDE DEF interest
<1>6. /\ interest \in Nat /\ minted \in Nat /\ grown \in Curve
      /\ grown.reserveSupply = curve.reserveSupply + interest
      /\ grown.gdSupply = curve.gdSupply + minted
      /\ grown.lastExpansion = curve.lastExpansion
  BY <1>1, <1>2, <1>3, InterestCurve
<1> HIDE DEF grown, factor, minted
<1>7. grown.lastExpansion <= now /\ (grown.lastExpansion - first) % DayLength = 0
  BY <1>1, <1>6
<1>8. LET e == mintExpansion(grown, factor, now) IN
      /\ e \in Curve /\ due \in Nat
      /\ e.reserveSupply = grown.reserveSupply
      /\ e.gdSupply = grown.gdSupply + due
      /\ e.lastExpansion <= now /\ (e.lastExpansion - first) % DayLength = 0
  BY <1>1, <1>2, <1>4, <1>6, <1>7, FirstIsNat, ExpansionCurve
<1> HIDE DEF due
<1>9. /\ curve' \in Curve /\ due \in Nat
      /\ curve'.reserveSupply = cdai + income
      /\ curve'.gdSupply = (curve.gdSupply + minted) + due
      /\ curve'.lastExpansion <= now /\ (curve'.lastExpansion - first) % DayLength = 0
  BY <1>2, <1>5, <1>6, <1>8
<1>10. gdSupply' \in Nat /\ gdSupply' <= curve'.gdSupply
  <2>1. \A a, b, d, e \in Nat : a <= b => a + (d + e) \in Nat /\ a + (d + e) <= (b + d) + e
    OBVIOUS
  <2> QED
    BY <1>1, <1>2, <1>6, <1>9, <2>1, CurveFields
<1>11. cdai' \in Nat /\ curve'.reserveSupply <= cdai'
  BY <1>1, <1>2, <1>3, <1>9
<1> QED
  BY <1>1, <1>2, <1>9, <1>10, <1>11, Kept

LEMMA DecisionKeeps ==
    ASSUME CurveAssumption, ReserveAssumption, Inv, Decide
    PROVE  Inv'
<1>1. /\ curve \in Curve /\ cdai \in Nat /\ gdSupply \in Nat /\ gdx \in Nat /\ now \in Nat
      /\ reserveRatioDailyExpansion \in 0..(Ray - 1)
      /\ (isMinter => curve.reserveSupply <= cdai) /\ gdSupply <= curve.gdSupply
      /\ curve.lastExpansion <= now /\ (curve.lastExpansion - first) % DayLength = 0
  BY DEF Inv, TypeOK, ReserveIsBacked, EveryGDIsOnCurve, ExpansionKeepsTime, first
<1>2. /\ decisions \in 0..MaxDecisions /\ MaxDecisions \in Nat
      /\ gdxDisabled \in BOOLEAN /\ discountDisabled \in BOOLEAN
      /\ paused \in BOOLEAN /\ helperSet \in BOOLEAN /\ isMinter \in BOOLEAN
  BY DEF Inv, TypeOK, ReserveAssumption
<1>3. decisions' \in 0..MaxDecisions
  BY <1>2 DEF Decide, setReserveRatioDailyExpansion, Expand, setGDXDisabled, pause,
              setDistributionHelper, end, Decides
<1>4. ASSUME NEW f \in Factors, setReserveRatioDailyExpansion(f) PROVE Inv'
  <2>1. f \in Nat /\ f < Ray
    BY <1>4 DEF ReserveAssumption, setReserveRatioDailyExpansion
  <2>2. f \in 0..(Ray - 1)
    <3>1. Ray \in Nat
      BY ProductPositive DEF CurveAssumption, Ray
    <3> QED
      BY <2>1, <3>1
  <2> QED
    BY <1>1, <1>2, <1>3, <1>4, <2>2
    DEF setReserveRatioDailyExpansion, tokens, Inv, TypeOK, ReserveIsBacked,
        EveryGDIsOnCurve, ExpansionKeepsTime
<1>5. CASE Expand
  <2>1. /\ curve' = expandReserveRatio(curve, reserveRatioDailyExpansion, now)
        /\ now' = now /\ UNCHANGED tokens
        /\ UNCHANGED <<reserveRatioDailyExpansion, gdxDisabled, discountDisabled, paused,
                       helperSet, isMinter>>
    BY <1>5 DEF Expand
  <2>2. /\ curve' \in Curve
        /\ curve'.reserveSupply = curve.reserveSupply /\ curve'.gdSupply = curve.gdSupply
        /\ curve'.lastExpansion <= now /\ (curve'.lastExpansion - first) % DayLength = 0
    <3>1. reserveRatioDailyExpansion \in Nat
      BY <1>1
    <3> QED
      BY <1>1, <2>1, <3>1, FirstIsNat, ExpandCurve
  <2> QED
    BY <1>1, <1>2, <1>3, <2>1, <2>2
    DEF tokens, Inv, TypeOK, ReserveIsBacked, EveryGDIsOnCurve, ExpansionKeepsTime, first
<1>6. ASSUME NEW a \in BOOLEAN, NEW b \in BOOLEAN,
             setGDXDisabled(a, b) \/ pause(b) \/ setDistributionHelper(b) \/ end
      PROVE  Inv'
  <2>1. /\ now' = now /\ curve' = curve /\ gdSupply' = gdSupply /\ gdx' = gdx
        /\ reserveRatioDailyExpansion' = reserveRatioDailyExpansion
    BY <1>6 DEF setGDXDisabled, pause, setDistributionHelper, end, tokens
  <2>2. \/ cdai' = cdai /\ isMinter' = isMinter
        \/ cdai' = 0 /\ isMinter' = FALSE
    BY <1>6 DEF setGDXDisabled, pause, setDistributionHelper, end, tokens
  <2>3. /\ gdxDisabled' \in BOOLEAN /\ discountDisabled' \in BOOLEAN
        /\ paused' \in BOOLEAN /\ helperSet' \in BOOLEAN
    BY <1>2, <1>6 DEF setGDXDisabled, pause, setDistributionHelper, end
  <2>4. isMinter' \in BOOLEAN /\ cdai' \in Nat
    <3>1. isMinter' \in BOOLEAN
      BY <1>2, <2>2, Zenon
    <3>2. cdai' = cdai \/ cdai' = 0
      BY <2>2, Zenon
    <3> QED
      BY <1>1, <3>1, <3>2
  <2>5. TypeOK'
    BY <1>1, <1>3, <2>1, <2>3, <2>4 DEF TypeOK
  <2>6. ReserveIsBacked'
    BY <1>1, <2>1, <2>2 DEF ReserveIsBacked
  <2>7. EveryGDIsOnCurve' /\ ExpansionKeepsTime'
    BY <1>1, <2>1 DEF EveryGDIsOnCurve, ExpansionKeepsTime, first
  <2> QED
    BY <2>5, <2>6, <2>7 DEF Inv
<1> QED
  BY <1>4, <1>5, <1>6 DEF Decide

LEMMA WorldKeeps ==
    ASSUME ReserveAssumption, Inv,
           \/ \E n \in Amounts : Send(n)
           \/ \E n \in Sales : Burn(n)
           \/ Tick
           \/ UNCHANGED vars
    PROVE  Inv'
<1>1. /\ curve \in Curve /\ cdai \in Nat /\ gdSupply \in Nat /\ gdx \in Nat /\ now \in Nat
      /\ reserveRatioDailyExpansion \in 0..(Ray - 1)
      /\ (isMinter => curve.reserveSupply <= cdai) /\ gdSupply <= curve.gdSupply
      /\ curve.lastExpansion <= now /\ (curve.lastExpansion - first) % DayLength = 0
  BY DEF Inv, TypeOK, ReserveIsBacked, EveryGDIsOnCurve, ExpansionKeepsTime, first
<1>2. ASSUME NEW n \in Amounts, Send(n) PROVE Inv'
  <2>1. n \in Nat
    BY DEF ReserveAssumption
  <2>2. /\ cdai' = cdai + n /\ curve' = curve /\ now' = now
        /\ gdSupply' = gdSupply /\ gdx' = gdx /\ UNCHANGED settings
    BY <1>2 DEF Send
  <2>3. cdai' \in Nat /\ (isMinter => curve'.reserveSupply <= cdai')
    BY <1>1, <2>1, <2>2, CurveFields
  <2> QED
    BY <1>1, <2>2, <2>3, Kept
<1>3. ASSUME NEW n \in Sales, Burn(n) PROVE Inv'
  <2>1. n \in Nat
    BY DEF ReserveAssumption
  <2>2. /\ n <= gdSupply /\ gdSupply' = gdSupply - n
        /\ cdai' = cdai /\ curve' = curve /\ now' = now
        /\ gdx' = gdx /\ UNCHANGED settings
    BY <1>3 DEF Burn
  <2>3. gdSupply' \in Nat /\ gdSupply' <= curve'.gdSupply
    BY <1>1, <2>1, <2>2, CurveFields
  <2> QED
    BY <1>1, <2>2, <2>3, Kept
<1>4. CASE Tick
  <2>1. now' = now + 1 /\ UNCHANGED <<curve, tokens, settings>>
    BY <1>4 DEF Tick
  <2>2. now' \in Nat /\ curve.lastExpansion <= now'
    BY <1>1, <2>1, CurveFields
  <2> QED
    BY <2>1, <2>2
    DEF tokens, settings, Inv, TypeOK, ReserveIsBacked, EveryGDIsOnCurve, ExpansionKeepsTime
<1>5. CASE UNCHANGED vars
  BY <1>5 DEF vars, Inv, TypeOK, ReserveIsBacked, EveryGDIsOnCurve, ExpansionKeepsTime
<1> QED
  BY <1>2, <1>3, <1>4, <1>5

\* For every start, amount, contribution, factor and moment: the curve promises
\* no more cDAI than the reserve holds until it ends, every G$ is on the curve,
\* and expansion keeps to whole days since the start.
THEOREM ReserveIsSound ==
    ASSUME CurveAssumption, ReserveAssumption
    PROVE  Spec => [](TypeOK /\ ReserveIsBacked /\ EveryGDIsOnCurve /\ ExpansionKeepsTime)
<1>1. Init => Inv
  BY InitInv
<1>2. Inv /\ [Next]_vars => Inv'
  <2> SUFFICES ASSUME Inv, [Next]_vars PROVE Inv'
    OBVIOUS
  <2>1. ASSUME NEW n \in Amounts, NEW m \in MinReturns, Buy(n, m) PROVE Inv'
    BY <2>1, BuyKeeps
  <2>2. ASSUME NEW n \in Sales, NEW m \in MinReturns, Sell(n, m) PROVE Inv'
    BY <2>2, SellKeeps
  <2>3. ASSUME NEW n \in Amounts, mintUBI(n) PROVE Inv'
    BY <2>3, UBIKeeps
  <2>4. ASSUME NEW n \in Rewards, mintRewardFromRR(n) PROVE Inv'
    BY <2>4, RewardKeeps
  <2>5. ASSUME \/ \E n \in Amounts : Send(n)
               \/ \E n \in Sales : Burn(n)
               \/ Tick
               \/ UNCHANGED vars
        PROVE  Inv'
    BY <2>5, WorldKeeps
  <2>6. CASE Decide
    BY <2>6, DecisionKeeps
  <2> QED
    BY <2>1, <2>2, <2>3, <2>4, <2>5, <2>6 DEF Next
<1> QED
  BY <1>1, <1>2, PTL DEF Spec, Inv

-----------------------------------------------------------------------------
(* The price *)

\* Multiplying keeps an order, and a quotient is not too large.
LEMMA Larger == \A k, x, y \in Nat : x <= y => k * x <= k * y
<1> TAKE k, x, y \in Nat
<1> HAVE x <= y
<1>1. PICK d \in Nat : y = x + d
  <2>1. y - x \in Nat /\ y = x + (y - x)
    OBVIOUS
  <2> QED
    BY <2>1
<1>2. k * y = k * x + k * d
  BY <1>1
<1>3. k * d \in Nat /\ k * x \in Nat
  BY <1>1
<1> QED
  BY <1>2, <1>3

LEMMA QuotientBound == \A n \in Nat, d \in Nat \ {0} : d * (n \div d) <= n
  OBVIOUS

\* R cDAI and S G$ at ratio r become R + i and S + m + due at ratio new.
LEMMA PriceArithmetic ==
    ASSUME NEW R \in Nat, NEW S \in Nat, NEW r \in Nat, NEW new \in Nat,
           NEW i \in Nat, NEW m \in Nat, NEW due \in Nat,
           R * m <= i * S, (S + m + due) * new <= (S + m) * r
    PROVE  (R + i) * S * r >= R * (S + m + due) * new
<1>1. R * ((S + m + due) * new) <= R * ((S + m) * r)
  <2>1. (S + m + due) * new \in Nat /\ (S + m) * r \in Nat
    BY ProductPositive
  <2> QED
    BY <2>1, Larger
<1>2. r * (R * (S + m)) <= r * ((R + i) * S)
  <2>1. R * (S + m) = R * S + R * m /\ (R + i) * S = R * S + i * S
    OBVIOUS
  <2>2. R * (S + m) \in Nat /\ (R + i) * S \in Nat /\ R * S \in Nat /\ R * m \in Nat
        /\ i * S \in Nat
    BY ProductPositive
  <2>3. R * (S + m) <= (R + i) * S
    BY <2>1, <2>2
  <2> QED
    BY <2>2, <2>3, Larger
<1>3. /\ R * ((S + m + due) * new) = R * (S + m + due) * new
      /\ R * ((S + m) * r) = r * (R * (S + m))
      /\ r * ((R + i) * S) = (R + i) * S * r
  OBVIOUS
<1>4. /\ R * ((S + m + due) * new) \in Nat /\ R * ((S + m) * r) \in Nat
      /\ r * ((R + i) * S) \in Nat
  BY ProductPositive
<1> QED
  BY <1>1, <1>2, <1>3, <1>4

\* The ratio of a curve expands however many G$ are on it.
LEMMA RatioIgnoresSupply ==
    ASSUME NEW c \in Curve, NEW g \in Nat, NEW factor, NEW t
    PROVE  calculateNewReserveRatio([c EXCEPT !.gdSupply = g], factor, t)
              = calculateNewReserveRatio(c, factor, t)
<1>1. /\ [c EXCEPT !.gdSupply = g].reserveRatio = c.reserveRatio
      /\ [c EXCEPT !.gdSupply = g].lastExpansion = c.lastExpansion
  BY DEF Curve
<1> QED
  BY <1>1 DEF calculateNewReserveRatio, expanded, DaysPassed

LEMMA InterestBound ==
    ASSUME NEW c \in Curve, NEW interest \in Nat, MayMintInterest(c, interest)
    PROVE  /\ c.reserveSupply * InterestDue(c, interest) <= interest * c.gdSupply
           /\ mintInterest(c, interest).reserveRatio = c.reserveRatio
<1>1. c.reserveSupply \in Nat /\ c.gdSupply \in Nat
  BY CurveFields
<1>2. CASE interest = 0
  BY <1>1, <1>2 DEF InterestDue, mintInterest, Curve
<1>3. CASE interest > 0
  <2>1. c.reserveSupply \in Nat \ {0} /\ interest * c.gdSupply \in Nat
    BY <1>1, <1>3, ProductPositive DEF MayMintInterest
  <2>2. c.reserveSupply * ((interest * c.gdSupply) \div c.reserveSupply)
           <= interest * c.gdSupply
    BY <2>1, QuotientBound
  <2> QED
    BY <1>3, <2>2 DEF InterestDue, mintInterest, Curve
<1> QED
  BY <1>2, <1>3

LEMMA ExpansionBound ==
    ASSUME CurveAssumption, NEW c \in Curve, NEW factor \in Nat,
           NEW t \in Nat, c.lastExpansion <= t, MayMintExpansion(c, factor, t)
    PROVE  LET e == mintExpansion(c, factor, t)
           IN  /\ e.reserveRatio \in Nat /\ ExpansionDue(c, factor, t) \in Nat
               /\ (c.gdSupply + ExpansionDue(c, factor, t)) * e.reserveRatio
                     <= c.gdSupply * c.reserveRatio
<1> DEFINE new == calculateNewReserveRatio(c, factor, t)
           due == ExpansionDue(c, factor, t)
           w == [c EXCEPT !.gdSupply = c.gdSupply + due]
<1>1. /\ new \in Nat \ {0} /\ c.reserveRatio - new \in Nat /\ c.gdSupply \in Nat
      /\ c.reserveRatio \in Nat
  <2>1. new \in 0..(Width - 1) /\ Width \in Nat
    BY NewRatio DEF CurveAssumption
  <2> QED
    BY <2>1, CurveFields DEF MayMintExpansion, CurveAssumption
<1>2. due = (c.gdSupply * (c.reserveRatio - new)) \div new
  BY DEF ExpansionDue
<1> DEFINE y == c.gdSupply * (c.reserveRatio - new)
<1>3. y \in Nat /\ y = c.gdSupply * c.reserveRatio - c.gdSupply * new
  BY <1>1, ProductPositive
<1>4. new * due <= y /\ due \in Nat
  BY <1>1, <1>2, <1>3, Quotient, QuotientBound
<1>5. mintExpansion(c, factor, t).reserveRatio = new
  <2>1. c.gdSupply + due \in Nat
    BY <1>1, <1>4
  <2>2. calculateNewReserveRatio(w, factor, t) = new
    BY <2>1, RatioIgnoresSupply
  <2>3. mintExpansion(c, factor, t) = [w EXCEPT !.reserveRatio = new,
                                                 !.lastExpansion = startOfDay(w, t)]
    BY <2>2 DEF mintExpansion, expandReserveRatio
  <2>4. w \in Curve
    BY <2>1, WithSupply
  <2> HIDE DEF w, new
  <2> QED
    BY <2>3, <2>4 DEF Curve
<1> HIDE DEF new, due, y
<1>6. (c.gdSupply + due) * new = c.gdSupply * new + new * due
  BY <1>1, <1>4
<1>7. c.gdSupply * new \in Nat /\ new * due \in Nat /\ c.gdSupply * c.reserveRatio \in Nat
  BY <1>1, <1>4, ProductPositive
<1>8. (c.gdSupply + due) * new <= c.gdSupply * c.reserveRatio
  BY <1>3, <1>4, <1>6, <1>7
<1> QED
  BY <1>1, <1>4, <1>5, <1>8 DEF due

\* Whatever interest has come in and however long it was since the last time,
\* the G$ minted for it and for expansion do not lower the price.
LEMMA MintingUBIKeepsPrice ==
    ASSUME CurveAssumption, ReserveAssumption
    PROVE  Spec => [][\A n \in Amounts : mintUBI(n) => PriceHolds]_vars
<1>1. ASSUME Inv, NEW income \in Amounts, mintUBI(income) PROVE PriceHolds
  <2>1. /\ curve \in Curve /\ cdai \in Nat /\ now \in Nat /\ curve.lastExpansion <= now
        /\ reserveRatioDailyExpansion \in Nat /\ income \in Nat
    BY <1>1 DEF Inv, TypeOK, ExpansionKeepsTime, ReserveAssumption
  <2> DEFINE interest == cdai + income - curve.reserveSupply
             grown == mintInterest(curve, interest)
             factor == reserveRatioDailyExpansion
             minted == InterestDue(curve, interest)
             due == ExpansionDue(grown, factor, now)
  <2>2. /\ MayMintInterest(curve, interest) /\ MayMintExpansion(grown, factor, now)
        /\ curve' = mintExpansion(grown, factor, now)
    BY <1>1 DEF mintUBI
  <2>3. /\ curve.reserveSupply \in Nat /\ curve.gdSupply \in Nat
        /\ curve.reserveRatio \in Nat
    BY <2>1, CurveFields DEF CurveAssumption
  <2>4. interest \in Int
    BY <2>1, <2>3
  <2> HIDE DEF interest
  <2>5. /\ interest \in Nat /\ minted \in Nat /\ grown \in Curve
        /\ grown.reserveSupply = curve.reserveSupply + interest
        /\ grown.gdSupply = curve.gdSupply + minted
        /\ grown.lastExpansion = curve.lastExpansion
    BY <2>1, <2>2, <2>4, InterestCurve
  <2>6. /\ curve.reserveSupply * minted <= interest * curve.gdSupply
        /\ grown.reserveRatio = curve.reserveRatio
    BY <2>1, <2>2, <2>5, InterestBound
  <2> HIDE DEF grown, factor, minted
  <2>7. /\ mintExpansion(grown, factor, now).reserveRatio \in Nat /\ due \in Nat
        /\ (grown.gdSupply + due) * mintExpansion(grown, factor, now).reserveRatio
              <= grown.gdSupply * grown.reserveRatio
    BY <2>1, <2>2, <2>5, ExpansionBound DEF factor
  <2>8. /\ mintExpansion(grown, factor, now).reserveSupply = grown.reserveSupply
        /\ mintExpansion(grown, factor, now).gdSupply = grown.gdSupply + due
    <3>1. (grown.lastExpansion - grown.lastExpansion) % DayLength = 0
          /\ grown.lastExpansion \in Nat
      BY <2>5, CurveFields DEF CurveAssumption
    <3> QED
      BY <2>1, <2>2, <2>5, <3>1, ExpansionCurve DEF factor
  <2> HIDE DEF due
  <2> DEFINE new == mintExpansion(grown, factor, now).reserveRatio
  <2>9. /\ curve'.reserveSupply = curve.reserveSupply + interest
        /\ curve'.gdSupply = curve.gdSupply + minted + due
        /\ curve'.reserveRatio = new
    BY <2>2, <2>5, <2>8
  <2>10. new \in Nat /\ (curve.gdSupply + minted + due) * new
             <= (curve.gdSupply + minted) * curve.reserveRatio
    BY <2>5, <2>6, <2>7
  <2> HIDE DEF new
  <2>11. (curve.reserveSupply + interest) * curve.gdSupply * curve.reserveRatio
            >= curve.reserveSupply * (curve.gdSupply + minted + due) * new
    BY <2>3, <2>5, <2>6, <2>7, <2>10, PriceArithmetic
  <2> QED
    BY <2>9, <2>11 DEF PriceHolds
<1>2. Inv /\ [Next]_vars => [\A n \in Amounts : mintUBI(n) => PriceHolds]_vars
  BY <1>1
<1>3. Spec => [](TypeOK /\ ReserveIsBacked /\ EveryGDIsOnCurve /\ ExpansionKeepsTime)
  BY ReserveIsSound
<1>4. TypeOK /\ ReserveIsBacked /\ EveryGDIsOnCurve /\ ExpansionKeepsTime => Inv
  BY DEF Inv
<1>5. Spec => [][Next]_vars
  BY DEF Spec
<1> QED
  BY <1>2, <1>3, <1>4, <1>5, PTL

\* Expansion never raises a ratio, so the subtraction of calculateMintExpansion
\* goes below 0 for a ratio of 0 only, which counts as 100% there.
THEOREM ExpansionLowersRatio ==
    ASSUME CurveAssumption, NEW c \in Curve, c.reserveRatio > 0,
           NEW factor \in Nat, factor <= Ray,
           NEW t \in Nat, c.lastExpansion <= t
    PROVE  /\ calculateNewReserveRatio(c, factor, t) <= c.reserveRatio
           /\ MayMintExpansion(c, factor, t)
                  <=> Active(c) /\ calculateNewReserveRatio(c, factor, t) > 0
<1> DEFINE start == c.reserveRatio * Fine
           days == DaysPassed(c, t)
           fine == expanded(c, factor, days)
           F == CHOOSE f : Run(f, days, start, factor, Ray)
<1>1. /\ c.reserveRatio \in Nat \ {0} /\ c.reserveRatio < Width
      /\ Fine \in Nat \ {0} /\ Whole \in Nat \ {0} /\ Width \in Nat
  BY CurveFields DEF CurveAssumption
<1>2. start \in Nat /\ Ray \in Nat \ {0} /\ days \in Nat
  BY <1>1, ProductPositive, DaysPassedIsNat DEF Ray
<1>3. fine = F[days]
  BY <1>1 DEF expanded, Run, Ray
<1> HIDE DEF start, days
<1>4. Run(F, days, start, factor, Ray)
  BY <1>2, RunExists
<1> HIDE DEF F
<1>5. fine \in Nat /\ fine <= start
  BY <1>2, <1>3, <1>4, RunIsNat, RunShrinks
<1> HIDE DEF fine
<1>6. fine \div Fine \in Nat /\ fine \div Fine <= c.reserveRatio
  <2> DEFINE q == fine \div Fine
  <2>1. q \in Nat /\ Fine * q <= fine
    BY <1>1, <1>5
  <2> HIDE DEF q
  <2>2. ASSUME q > c.reserveRatio PROVE FALSE
    <3>1. q >= c.reserveRatio + 1
      BY <1>1, <2>1, <2>2
    <3>2. Fine * q >= Fine * (c.reserveRatio + 1)
      BY <1>1, <2>1, <3>1
    <3> QED
      BY <1>1, <1>5, <2>1, <3>2 DEF start
  <2> QED
    BY <1>1, <2>1, <2>2 DEF q
<1>7. calculateNewReserveRatio(c, factor, t) = fine \div Fine
  <2>1. calculateNewReserveRatio(c, factor, t) = (fine \div Fine) % Width
    BY DEF calculateNewReserveRatio, Fits, fine, days
  <2>2. \A n \in Nat : n < Width => n % Width = n
    BY <1>1
  <2> QED
    BY <1>1, <1>6, <2>1, <2>2
<1> QED
  BY <1>6, <1>7 DEF MayMintExpansion

-----------------------------------------------------------------------------
(* Powers *)

Powers(f, x, n) == f = [k \in 0..n |-> IF k = 0 THEN 1 ELSE x * f[k - 1]]

LEMMA PowersStep ==
    ASSUME NEW x \in Nat, NEW n \in Nat, NEW f, Powers(f, x, n)
    PROVE  f[0] = 1 /\ \A k \in Nat : k + 1 <= n => f[k + 1] = x * f[k]
<1>1. f[0] = 1
  BY DEF Powers
<1>2. \A k \in Nat : k + 1 <= n => f[k + 1] = x * f[k]
  <2> TAKE k \in Nat
  <2> HAVE k + 1 <= n
  <2>1. k + 1 \in 0..n /\ k + 1 # 0 /\ (k + 1) - 1 = k
    OBVIOUS
  <2> QED
    BY <2>1 DEF Powers
<1> QED
  BY <1>1, <1>2

LEMMA PowersExist == ASSUME NEW x \in Nat, NEW n \in Nat PROVE \E f : Powers(f, x, n)
<1> DEFINE Good(f, k) == \A d \in 0..k : f[d] = IF d = 0 THEN 1 ELSE x * f[d - 1]
           T == {k \in Nat : \E f \in [0..k -> Nat] : Good(f, k)}
<1>1. 0 \in T
  <2> DEFINE f == [d \in 0..0 |-> 1]
  <2>1. f \in [0..0 -> Nat] /\ Good(f, 0)
    OBVIOUS
  <2> QED
    BY <2>1
<1>2. ASSUME NEW k \in Nat, k \in T PROVE k + 1 \in T
  <2>1. PICK f \in [0..k -> Nat] : Good(f, k)
    BY <1>2
  <2> DEFINE next == x * f[k]
             g == [d \in 0..(k + 1) |-> IF d = k + 1 THEN next ELSE f[d]]
  <2>2. next \in Nat
    <3>1. f[k] \in Nat
      OBVIOUS
    <3> QED
      BY <3>1, ProductPositive
  <2>3. g \in [0..(k + 1) -> Nat]
    <3> HIDE DEF next
    <3> QED
      BY <2>2
  <2>4. \A d \in 0..(k + 1) : g[d] = IF d = 0 THEN 1 ELSE x * g[d - 1]
    <3> TAKE d \in 0..(k + 1)
    <3>1. CASE d = k + 1
      <4>1. g[d] = next /\ d # 0 /\ d - 1 = k /\ g[d - 1] = f[k]
        <5> HIDE DEF next
        <5> QED
          BY <3>1
      <4> QED
        BY <4>1
    <3>2. CASE d # k + 1
      <4>1. d \in 0..k /\ g[d] = f[d]
        BY <3>2
      <4>2. f[d] = IF d = 0 THEN 1 ELSE x * f[d - 1]
        BY <2>1, <4>1
      <4>3. d # 0 => g[d - 1] = f[d - 1]
        BY <4>1
      <4> QED
        BY <4>1, <4>2, <4>3
    <3> QED
      BY <3>1, <3>2
  <2>5. Good(g, k + 1)
    BY <2>4
  <2> HIDE DEF g, Good
  <2> QED
    BY <2>3, <2>5
<1> HIDE DEF T
<1>3. n \in T
  BY <1>1, <1>2, Induction
<1>4. PICK f \in [0..n -> Nat] : Good(f, n)
  BY <1>3 DEF T
<1>5. f = [d \in 0..n |-> IF d = 0 THEN 1 ELSE x * f[d - 1]]
  <2>1. f = [d \in 0..n |-> f[d]]
    OBVIOUS
  <2> QED
    BY <1>4, <2>1
<1> QED
  BY <1>5 DEF Powers

\* A shorter run of powers is the start of a longer one.
LEMMA PowersAgree ==
    ASSUME NEW x \in Nat, NEW n \in Nat, NEW f, Powers(f, x, n + 1), NEW g, Powers(g, x, n)
    PROVE  f[n] = g[n]
<1>1. f[0] = 1 /\ g[0] = 1
  BY PowersStep
<1>2. \A k \in Nat : k + 1 <= n + 1 => f[k + 1] = x * f[k]
  BY PowersStep
<1>3. \A k \in Nat : k + 1 <= n => g[k + 1] = x * g[k]
  BY PowersStep
<1> DEFINE T == {k \in Nat : k <= n => f[k] = g[k]}
<1>4. 0 \in T
  BY <1>1
<1>5. ASSUME NEW k \in Nat, k \in T PROVE k + 1 \in T
  <2>1. SUFFICES ASSUME k + 1 <= n PROVE f[k + 1] = g[k + 1]
    OBVIOUS
  <2>2. f[k] = g[k]
    BY <1>5, <2>1
  <2>3. f[k + 1] = x * f[k] /\ g[k + 1] = x * g[k]
    BY <1>2, <1>3, <2>1
  <2> QED
    BY <2>2, <2>3
<1>6. n \in T
  <2> HIDE DEF T
  <2> QED
    BY <1>4, <1>5, Induction
<1> QED
  BY <1>6

LEMMA Power ==
    ASSUME NEW x \in Nat
    PROVE  power(x, 0) = 1 /\ \A n \in Nat : power(x, n + 1) = x * power(x, n)
<1> DEFINE G(n) == CHOOSE f : Powers(f, x, n)
<1>1. \A n \in Nat : power(x, n) = G(n)[n]
  BY DEF power, Powers
<1>2. \A n \in Nat : Powers(G(n), x, n)
  BY PowersExist
<1> HIDE DEF G
<1>3. power(x, 0) = 1
  BY <1>1, <1>2, PowersStep
<1>4. ASSUME NEW n \in Nat PROVE power(x, n + 1) = x * power(x, n)
  <2>1. n + 1 \in Nat /\ n + 1 <= n + 1
    OBVIOUS
  <2>2. G(n + 1)[n + 1] = x * G(n + 1)[n]
    BY <1>2, <2>1, PowersStep
  <2>3. G(n + 1)[n] = G(n)[n]
    BY <1>2, <2>1, PowersAgree
  <2> QED
    BY <1>1, <2>1, <2>2, <2>3
<1> QED
  BY <1>3, <1>4

LEMMA PowerIsNat == ASSUME NEW x \in Nat, NEW n \in Nat PROVE power(x, n) \in Nat
<1> DEFINE T == {k \in Nat : power(x, k) \in Nat}
<1>1. 0 \in T
  BY Power
<1>2. ASSUME NEW k \in Nat, k \in T PROVE k + 1 \in T
  BY <1>2, Power, ProductPositive
<1>3. n \in T
  <2> HIDE DEF T
  <2> QED
    BY <1>1, <1>2, Induction
<1> QED
  BY <1>3

LEMMA PowerOfSum ==
    ASSUME NEW x \in Nat, NEW m \in Nat, NEW n \in Nat
    PROVE  power(x, m + n) = power(x, m) * power(x, n)
<1> DEFINE T == {k \in Nat : power(x, m + k) = power(x, m) * power(x, k)}
<1>1. 0 \in T
  <2>1. m + 0 = m /\ power(x, m) \in Nat
    BY PowerIsNat
  <2> QED
    BY <2>1, Power
<1>2. ASSUME NEW k \in Nat, k \in T PROVE k + 1 \in T
  <2> DEFINE a == power(x, m)
             b == power(x, k)
  <2>1. m + k \in Nat /\ m + (k + 1) = (m + k) + 1
    OBVIOUS
  <2>2. power(x, m + (k + 1)) = x * power(x, m + k) /\ power(x, k + 1) = x * b
    BY <2>1, Power
  <2>3. power(x, m + k) = a * b
    BY <1>2
  <2>4. a \in Nat /\ b \in Nat
    BY PowerIsNat
  <2> HIDE DEF a, b
  <2>5. x * (a * b) = a * (x * b)
    BY <2>4
  <2>6. power(x, m + (k + 1)) = a * power(x, k + 1)
    BY <2>2, <2>3, <2>5
  <2> QED
    BY <2>6 DEF a
<1>3. n \in T
  <2> HIDE DEF T
  <2> QED
    BY <1>1, <1>2, Induction
<1> QED
  BY <1>3

LEMMA PowerOfProduct ==
    ASSUME NEW x \in Nat, NEW y \in Nat, NEW n \in Nat
    PROVE  power(x * y, n) = power(x, n) * power(y, n)
<1> DEFINE T == {k \in Nat : power(x * y, k) = power(x, k) * power(y, k)}
<1>1. x * y \in Nat
  BY ProductPositive
<1>2. 0 \in T
  BY <1>1, Power
<1>3. ASSUME NEW k \in Nat, k \in T PROVE k + 1 \in T
  <2> DEFINE a == power(x, k)
             b == power(y, k)
  <2>1. /\ power(x * y, k + 1) = (x * y) * power(x * y, k)
        /\ power(x, k + 1) = x * a /\ power(y, k + 1) = y * b
    BY <1>1, Power
  <2>2. power(x * y, k) = a * b
    BY <1>3
  <2>3. a \in Nat /\ b \in Nat
    BY PowerIsNat
  <2> HIDE DEF a, b
  <2>4. (x * y) * (a * b) = (x * a) * (y * b)
    BY <2>3
  <2> QED
    BY <2>1, <2>2, <2>4
<1>4. n \in T
  <2> HIDE DEF T
  <2> QED
    BY <1>2, <1>3, Induction
<1> QED
  BY <1>4

LEMMA Products ==
    \A a, b, c, d \in Nat :
        /\ a <= b /\ c <= d => a * c <= b * d
        /\ a < b /\ c <= d /\ d > 0 => a * c < b * d
<1> TAKE a, b, c, d \in Nat
<1>1. ASSUME a <= b, c <= d PROVE a * c <= b * d
  <2>1. PICK i \in Nat : b = a + i
    <3>1. b - a \in Nat /\ b = a + (b - a)
      BY <1>1
    <3> QED
      BY <3>1
  <2>2. PICK j \in Nat : d = c + j
    <3>1. d - c \in Nat /\ d = c + (d - c)
      BY <1>1
    <3> QED
      BY <3>1
  <2>3. (a + i) * (c + j) = a * c + a * j + i * c + i * j
    OBVIOUS
  <2>4. a * c \in Nat /\ a * j \in Nat /\ i * c \in Nat /\ i * j \in Nat
    BY ProductPositive
  <2> QED
    BY <2>1, <2>2, <2>3, <2>4
<1>2. ASSUME a < b, c <= d, d > 0 PROVE a * c < b * d
  <2>1. PICK i \in Nat : b = a + i /\ i > 0
    <3>1. b - a \in Nat /\ b = a + (b - a) /\ b - a > 0
      BY <1>2
    <3> QED
      BY <3>1
  <2>2. PICK j \in Nat : d = c + j
    <3>1. d - c \in Nat /\ d = c + (d - c)
      BY <1>2
    <3> QED
      BY <3>1
  <2>3. b * d = a * c + a * j + i * d
    BY <2>1, <2>2
  <2>4. a * c \in Nat /\ a * j \in Nat /\ i * d \in Nat /\ i * d > 0
    BY <1>2, <2>1, ProductPositive
  <2> QED
    BY <2>3, <2>4
<1> QED
  BY <1>1, <1>2

LEMMA PowerGrows ==
    ASSUME NEW x \in Nat, NEW y \in Nat, x <= y, NEW n \in Nat
    PROVE  power(x, n) <= power(y, n)
<1> DEFINE T == {k \in Nat : power(x, k) <= power(y, k)}
<1>1. 0 \in T
  BY Power
<1>2. ASSUME NEW k \in Nat, k \in T PROVE k + 1 \in T
  <2>1. power(x, k + 1) = x * power(x, k) /\ power(y, k + 1) = y * power(y, k)
    BY Power
  <2>2. power(x, k) \in Nat /\ power(y, k) \in Nat
    BY PowerIsNat
  <2>3. x * power(x, k) <= y * power(y, k)
    BY <1>2, <2>2, Products
  <2> QED
    BY <2>1, <2>3
<1>3. n \in T
  <2> HIDE DEF T
  <2> QED
    BY <1>1, <1>2, Induction
<1> QED
  BY <1>3

LEMMA PowerIsPositive ==
    ASSUME NEW x \in Nat, x > 0, NEW n \in Nat PROVE power(x, n) > 0
<1> DEFINE T == {k \in Nat : power(x, k) > 0}
<1>1. 0 \in T
  BY Power
<1>2. ASSUME NEW k \in Nat, k \in T PROVE k + 1 \in T
  <2>1. power(x, k + 1) = x * power(x, k) /\ power(x, k) \in Nat /\ power(x, k) > 0
    BY <1>2, Power, PowerIsNat
  <2> QED
    BY <2>1, ProductPositive
<1>3. n \in T
  <2> HIDE DEF T
  <2> QED
    BY <1>1, <1>2, Induction
<1> QED
  BY <1>3

LEMMA PowerIsStrict ==
    ASSUME NEW x \in Nat, NEW y \in Nat, x < y, NEW n \in Nat, n > 0
    PROVE  power(x, n) < power(y, n)
<1>1. n - 1 \in Nat /\ (n - 1) + 1 = n
  OBVIOUS
<1> DEFINE m == n - 1
           a == power(x, m)
           b == power(y, m)
<1>2. power(x, n) = x * a /\ power(y, n) = y * b
  BY <1>1, Power
<1>3. a \in Nat /\ b \in Nat /\ a <= b /\ b > 0
  <2>1. m \in Nat /\ x <= y /\ y > 0
    BY <1>1
  <2> HIDE DEF m
  <2> QED
    BY <2>1, PowerIsNat, PowerGrows, PowerIsPositive
<1> HIDE DEF m, a, b
<1>4. x * a < y * b
  BY <1>3, Products
<1> QED
  BY <1>2, <1>4

\* Whoever buys on the curve, supply^w : reserve^r, pays no less than its price.
LEMMA CurvePrice ==
    ASSUME NEW s \in Nat, NEW t \in Nat, NEW u \in Nat, NEW v \in Nat,
           NEW w \in Nat, NEW r \in Nat, 0 < r, r <= w, 0 < s, s <= t,
           power(t, w) * power(u, r) <= power(s, w) * power(v, r)
    PROVE  u * t <= v * s
<1>1. PICK d \in Nat : w = r + d
  <2>1. w - r \in Nat /\ w = r + (w - r)
    OBVIOUS
  <2> QED
    BY <2>1
<1>2. u * t \in Nat /\ v * s \in Nat
  BY ProductPositive
<1> SUFFICES ASSUME v * s < u * t PROVE FALSE
  BY <1>2
<1> DEFINE tr == power(t, r)
           td == power(t, d)
           sr == power(s, r)
           sd == power(s, d)
           ur == power(u, r)
           vr == power(v, r)
<1>3. power(t, w) = tr * td /\ power(s, w) = sr * sd
  <2>1. power(t, r + d) = tr * td /\ power(s, r + d) = sr * sd
    BY PowerOfSum
  <2> QED
    BY <1>1, <2>1
<1>4. /\ tr \in Nat /\ td \in Nat /\ sr \in Nat /\ sd \in Nat
      /\ ur \in Nat /\ vr \in Nat
  BY PowerIsNat
<1>5. td > 0 /\ sd <= td
  BY PowerIsPositive, PowerGrows
<1>6. power(v * s, r) = vr * sr /\ power(u * t, r) = ur * tr
  BY PowerOfProduct
<1>7. power(v * s, r) < power(u * t, r)
  BY <1>2, PowerIsStrict
<1>8. (tr * td) * ur <= (sr * sd) * vr
  BY <1>3
<1> HIDE DEF tr, td, sr, sd, ur, vr
<1>9. vr * sr < ur * tr /\ vr * sr \in Nat /\ ur * tr \in Nat
  BY <1>4, <1>6, <1>7, ProductPositive
<1>10. (vr * sr) * sd < (ur * tr) * td
  BY <1>4, <1>5, <1>9, Products
<1>11. (vr * sr) * sd = (sr * sd) * vr /\ (ur * tr) * td = (tr * td) * ur
  BY <1>4
<1>12. (tr * td) * ur \in Nat /\ (sr * sd) * vr \in Nat
  BY <1>4, ProductPositive
<1> QED
  BY <1>8, <1>10, <1>11, <1>12

\* Interest, expansion and buying, whatever has come in, however long it was
\* since the last time and at whatever weight the curve stands, do not lower
\* the price.
THEOREM MintingIsAtPrice ==
    ASSUME CurveAssumption, ReserveAssumption
    PROVE  Spec => MintingKeepsPrice
<1>1. ASSUME Inv, NEW amount \in Amounts, Buy(amount, 0) PROVE PriceHolds
  <2>1. PICK n \in 0..(cap - gdSupply) :
            buyReturn(curve, amount, n) /\ curve' = buy(curve, amount, n)
    BY <1>1 DEF Buy
  <2>2. /\ curve \in Curve /\ amount \in Nat /\ n \in Nat
        /\ curve.reserveSupply \in Nat /\ curve.gdSupply \in Nat
        /\ curve.reserveRatio \in Nat
    BY <1>1, CurveFields DEF Inv, TypeOK, ReserveAssumption, CurveAssumption
  <2>3. /\ curve.gdSupply > 0 /\ curve.reserveSupply > 0
        /\ curve.reserveRatio > 0 /\ curve.reserveRatio <= Whole /\ Whole \in Nat
    BY <2>1, <2>2 DEF buyReturn, OnCurve, Active, CurveAssumption
  <2> DEFINE s == curve.gdSupply
             u == curve.reserveSupply
             r == curve.reserveRatio
  <2>4. power(s + n, Whole) * power(u, r) <= power(s, Whole) * power(u + amount, r)
    BY <2>1 DEF buyReturn, Bought
  <2>5. /\ curve'.gdSupply = s + n /\ curve'.reserveSupply = u + amount
        /\ curve'.reserveRatio = r
    BY <2>1, <2>2 DEF buy, Curve
  <2>6. /\ s \in Nat /\ s + n \in Nat /\ u \in Nat /\ u + amount \in Nat /\ r \in Nat
        /\ 0 < r /\ r <= Whole /\ 0 < s /\ s <= s + n
    BY <2>2, <2>3
  <2> HIDE DEF s, u, r
  <2>7. u * (s + n) <= (u + amount) * s
    BY <2>3, <2>4, <2>6, CurvePrice
  <2>8. u * (s + n) * r <= (u + amount) * s * r
    <3>1. u * (s + n) \in Nat /\ (u + amount) * s \in Nat
      BY <2>6, ProductPositive
    <3> QED
      BY <2>6, <2>7, <3>1, Products
  <2> QED
    BY <2>5, <2>8 DEF PriceHolds, s, u, r
<1>2. Inv /\ [Next]_vars /\ [\A n \in Amounts : mintUBI(n) => PriceHolds]_vars
        => [(\E n \in Amounts : mintUBI(n) \/ Buy(n, 0)) => PriceHolds]_vars
  BY <1>1
<1>3. Spec => [][\A n \in Amounts : mintUBI(n) => PriceHolds]_vars
  BY MintingUBIKeepsPrice
<1>4. Spec => [](TypeOK /\ ReserveIsBacked /\ EveryGDIsOnCurve /\ ExpansionKeepsTime)
  BY ReserveIsSound
<1>5. TypeOK /\ ReserveIsBacked /\ EveryGDIsOnCurve /\ ExpansionKeepsTime => Inv
  BY DEF Inv
<1>6. Spec => [][Next]_vars
  BY DEF Spec
<1> QED
  BY <1>2, <1>3, <1>4, <1>5, <1>6, PTL DEF MintingKeepsPrice
=============================================================================
