----------------------------- MODULE Bridges_proofs -----------------------------
(***************************************************************************)
(* The bridges of G$: the totals of the wrapper that mints for them, for   *)
(* every set of minters, limits and amounts, and the proposals that moved  *)
(* them from locking to minting, for whatever people hold and bridge and   *)
(* however often scripts run and die.                                      *)
(***************************************************************************)
EXTENDS MintBurnWrapper, GuardianProposals, Lemmas

(* The wrapper *)

Inv == TypeOK /\ MintedCoversSupply

-----------------------------------------------------------------------------
(* What the operations do to the limits of a minter *)

LEMMA LeastType ==
    ASSUME NEW a \in Nat, NEW b \in Nat
    PROVE  Least(a, b) \in Nat /\ Least(a, b) <= a /\ Least(a, b) <= b
BY DEF Least

LEMMA LessType ==
    ASSUME NEW a \in Nat, NEW b \in Nat
    PROVE  Less(a, b) \in Nat /\ a - b <= Less(a, b)
BY DEF Less

LEMMA DailyCapType ==
    ASSUME TypeOK, NEW bps \in Nat
    PROVE  DailyCap(bps) \in Nat
<1>1. supply \in Nat
  BY DEF TypeOK, supply
<1>2. supply * bps \in Nat
  BY <1>1
<1>3. \A n \in Nat : n \div 10000 \in Nat
  OBVIOUS
<1> QED
  BY <1>2, <1>3 DEF DailyCap

LEMMA UpToDateType ==
    ASSUME WrapperAssumption, TypeOK, NEW m \in Minter
    PROVE  UpToDate(m) \in Limits
<1>1. limits[m] \in Limits
  BY DEF TypeOK
<1>2. limits[m].bpsIn \in Nat /\ limits[m].bpsOut \in Nat
  BY <1>1 DEF Limits
<1>3. DailyCap(limits[m].bpsIn) \in Nat /\ DailyCap(limits[m].bpsOut) \in Nat
  BY <1>2, DailyCapType
<1>4. today \in Nat /\ now \in Nat
  BY DEF today, TypeOK, WrapperAssumption
<1> QED
  BY <1>1, <1>3, <1>4 DEF UpToDate, Limits

LEMMA MintedType ==
    ASSUME NEW l \in Limits, NEW n \in Nat
    PROVE  Minted(l, n) \in Limits
<1>1. Less(l.totalOut, n) \in Nat
  BY LessType DEF Limits
<1>2. l.mintedToday + n \in Nat /\ l.totalIn + n \in Nat
  BY DEF Limits
<1>3. \A i, j, k \in Nat :
          [l EXCEPT !.mintedToday = i, !.totalIn = j, !.totalOut = k] \in Limits
  BY DEF Limits
<1> QED
  BY <1>1, <1>2, <1>3 DEF Minted

LEMMA BurnedType ==
    ASSUME NEW l \in Limits, NEW n \in Nat
    PROVE  Burned(l, n) \in Limits
<1>1. Less(l.totalIn, n) \in Nat
  BY LessType DEF Limits
<1>2. l.burnedToday + n \in Nat /\ l.totalOut + n \in Nat
  BY DEF Limits
<1>3. \A i, j, k \in Nat :
          [l EXCEPT !.burnedToday = i, !.totalOut = j, !.totalIn = k] \in Limits
  BY DEF Limits
<1> QED
  BY <1>1, <1>2, <1>3 DEF Burned

LEMMA CappedType ==
    ASSUME TypeOK, NEW l \in Limits, NEW c \in Caps
    PROVE  Capped(l, c) \in Limits
<1>1. DailyCap(c.bpsIn) \in Nat /\ DailyCap(c.bpsOut) \in Nat
  BY DailyCapType DEF Caps
<1>2. now \in Nat
  BY DEF TypeOK
<1> QED
  BY <1>1, <1>2 DEF Capped, Limits, Caps

\* The supply may grow by what the count of minted G$ grows by, at most.
LEMMA CoverKept ==
    ASSUME WrapperAssumption, Inv,
           balance' \in Nat, circulating' \in Nat, totalMinted' \in Nat,
           NEW d \in Int, balance' + circulating' <= balance + circulating + d,
           totalMinted + d <= totalMinted'
    PROVE  MintedCoversSupply'
<1>1. /\ supply \in Nat /\ totalMinted \in Nat /\ InitSupply \in Nat
      /\ supply - InitSupply <= totalMinted
  BY DEF Inv, TypeOK, WrapperAssumption, supply, MintedCoversSupply
<1>2. supply' \in Nat /\ supply' <= supply + d
  <2>1. balance \in Nat /\ circulating \in Nat
    BY DEF Inv, TypeOK
  <2>2. \A b, c \in Nat : b + c \in Nat
    OBVIOUS
  <2>3. balance' + circulating' \in Nat
    BY <2>2
  <2> QED
    BY <2>1, <2>3 DEF supply
<1>3. \A s, t, i, m, n \in Nat :
         s - i <= m /\ t <= s + d /\ m + d <= n => t - i <= n
  OBVIOUS
<1>4. supply' - InitSupply <= totalMinted'
  BY <1>1, <1>2, <1>3
<1> QED
  BY <1>4 DEF MintedCoversSupply

-----------------------------------------------------------------------------
(* The operations *)

LEMMA InitInv == ASSUME WrapperAssumption, Init PROVE Inv
<1>1. NoLimits \in Limits
  BY DEF NoLimits, Limits
<1>2. TypeOK
  BY <1>1 DEF Init, TypeOK, WrapperAssumption
<1>3. MintedCoversSupply
  BY DEF Init, MintedCoversSupply, supply, WrapperAssumption
<1> QED
  BY <1>2, <1>3 DEF Inv

LEMMA MintInv ==
    ASSUME WrapperAssumption, Inv, NEW m \in Minter, NEW to, NEW n \in Amounts,
           mint(m, to, n)
    PROVE  Inv'
<1>1. n \in Nat
  BY DEF WrapperAssumption
<1>2. Minted(UpToDate(m), n) \in Limits
  BY <1>1, UpToDateType, MintedType DEF Inv
<1>3. TypeOK'
  BY <1>1, <1>2 DEF Inv, TypeOK, mint
<1>4. MintedCoversSupply'
  BY <1>1 DEF Inv, TypeOK, mint, MintedCoversSupply, supply, WrapperAssumption
<1> QED
  BY <1>3, <1>4 DEF Inv

LEMMA _BurnTypes ==
    ASSUME WrapperAssumption, Inv, NEW m \in Minter, NEW n \in Amounts, _burn(m, n)
    PROVE  /\ n \in Nat
           /\ limits' \in [Minter -> Limits]
           /\ totalMinted' \in Nat /\ totalMinted - n <= totalMinted'
<1>1. n \in Nat
  BY DEF WrapperAssumption
<1>2. Burned(UpToDate(m), n) \in Limits
  BY <1>1, UpToDateType, BurnedType DEF Inv
<1>3. Less(totalMinted, n) \in Nat /\ totalMinted - n <= Less(totalMinted, n)
  BY <1>1, LessType DEF Inv, TypeOK
<1> QED
  BY <1>1, <1>2, <1>3 DEF Inv, TypeOK, _burn

LEMMA BurnInv ==
    ASSUME WrapperAssumption, Inv, NEW m \in Minter, NEW from, NEW n \in Amounts,
           burn(m, from, n)
    PROVE  Inv'
<1>1. _burn(m, n)
  BY DEF burn
<1>2. /\ n \in Nat
      /\ limits' \in [Minter -> Limits]
      /\ totalMinted' \in Nat /\ totalMinted - n <= totalMinted'
  BY <1>1, _BurnTypes
<1>3. balance' \in Nat /\ circulating' \in Nat
      /\ balance' + circulating' = balance + circulating - n
  BY <1>2 DEF Inv, TypeOK, burn
<1>4. TypeOK'
  BY <1>1, <1>2, <1>3 DEF Inv, TypeOK, _burn
<1>5. MintedCoversSupply'
  <2>1. 0 - n \in Int /\ totalMinted + (0 - n) <= totalMinted'
    BY <1>2 DEF Inv, TypeOK
  <2>2. balance' + circulating' <= balance + circulating + (0 - n)
    <3>1. balance \in Nat /\ circulating \in Nat
      BY DEF Inv, TypeOK
    <3>2. \A b, c, u, v, k \in Nat : u + v = b + c - k => u + v <= b + c + (0 - k)
      OBVIOUS
    <3> QED
      BY <1>2, <1>3, <3>1, <3>2
  <2> QED
    BY <1>2, <1>3, <2>1, <2>2, CoverKept
<1> QED
  BY <1>4, <1>5 DEF Inv

LEMMA TransferInv ==
    ASSUME WrapperAssumption, Inv, NEW m \in Minter, NEW n \in Amounts,
           onTokenTransfer(m, n)
    PROVE  Inv'
<1>1. _burn(m, n)
  BY DEF onTokenTransfer
<1>2. /\ n \in Nat
      /\ limits' \in [Minter -> Limits]
      /\ totalMinted' \in Nat /\ totalMinted - n <= totalMinted'
  BY <1>1, _BurnTypes
<1>3. balance' \in Nat /\ circulating' \in Nat
      /\ balance' + circulating' = balance + circulating - n
  BY <1>2 DEF Inv, TypeOK, onTokenTransfer
<1>4. TypeOK'
  BY <1>1, <1>2, <1>3 DEF Inv, TypeOK, _burn
<1>5. MintedCoversSupply'
  <2>1. 0 - n \in Int /\ totalMinted + (0 - n) <= totalMinted'
    BY <1>2 DEF Inv, TypeOK
  <2>2. balance' + circulating' <= balance + circulating + (0 - n)
    <3>1. balance \in Nat /\ circulating \in Nat
      BY DEF Inv, TypeOK
    <3>2. \A b, c, u, v, k \in Nat : u + v = b + c - k => u + v <= b + c + (0 - k)
      OBVIOUS
    <3> QED
      BY <1>2, <1>3, <3>1, <3>2
  <2> QED
    BY <1>2, <1>3, <2>1, <2>2, CoverKept
<1> QED
  BY <1>4, <1>5 DEF Inv

\* What is minted is counted whole, and what is burned of the balance pays
\* debt and is taken off the count one to one.
LEMMA SendOrMintInv ==
    ASSUME WrapperAssumption, Inv, NEW m \in Minter,
           NEW to \in {"wrapper", "user"}, NEW n \in Amounts,
           sendOrMint(m, to, n)
    PROVE  Inv'
<1> DEFINE l == UpToDate(m)
           sent == IF to = "wrapper" THEN 0 ELSE toSend(n)
           minted == toMint(l, n)
           burnt == IF minted = 0 THEN toBurn(to, n) ELSE 0
<1>1. n \in Nat /\ l \in Limits
  BY UpToDateType DEF WrapperAssumption, Inv
<1>2. toSend(n) \in Nat /\ toSend(n) <= balance /\ toSend(n) <= n
  BY <1>1, LeastType DEF toSend, Inv, TypeOK
<1>3. sent \in Nat /\ sent <= balance
  BY <1>2 DEF Inv, TypeOK
<1>4. minted \in Nat
  <2>1. MaxMintToday(l, n) \in Nat
    BY <1>1 DEF sendOrMint, MaxMintToday, Limits
  <2>2. n - toSend(n) \in Nat
    BY <1>1, <1>2
  <2> QED
    BY <2>1, <2>2, LeastType DEF toMint
<1>5. burnt \in Nat /\ burnt <= totalMintDebt /\ burnt <= balance - sent
  <2>1. Left(to, n) \in Nat /\ Left(to, n) = balance - sent
    BY <1>2 DEF Left, Inv, TypeOK
  <2>2. toBurn(to, n) \in Nat /\ toBurn(to, n) <= totalMintDebt
        /\ toBurn(to, n) <= Left(to, n)
    BY <2>1, LeastType DEF toBurn, Inv, TypeOK
  <2> QED
    BY <1>3, <2>1, <2>2 DEF Inv, TypeOK
<1>6. /\ burnt <= totalMinted + minted
      /\ totalRewards' = totalRewards + toSend(n) + minted
      /\ totalMintDebt' = totalMintDebt + minted - burnt
      /\ totalMinted' = totalMinted + minted - burnt
      /\ balance' = balance - sent - burnt
      /\ circulating' = circulating + sent + minted
  BY DEF sendOrMint
<1>7. limits' \in [Minter -> Limits]
  <2> DEFINE k == IF minted > 0 THEN Minted(l, minted) ELSE l
  <2>1. k \in Limits
    BY <1>1, <1>4, MintedType
  <2>2. [k EXCEPT !.totalRewards = @ + toSend(n) + minted] \in Limits
    BY <2>1, <1>2, <1>4 DEF Limits
  <2>3. limits' = [limits EXCEPT ![m] =
            [k EXCEPT !.totalRewards = @ + toSend(n) + minted]]
    BY DEF sendOrMint
  <2> HIDE DEF k
  <2> QED
    BY <2>2, <2>3 DEF Inv, TypeOK
<1>8. balance \in Nat /\ circulating \in Nat /\ totalMinted \in Nat
      /\ totalMintDebt \in Nat /\ totalRewards \in Nat
  BY DEF Inv, TypeOK
<1>9. UNCHANGED <<now, role, paused, updateFrequency>>
  BY DEF sendOrMint
<1> HIDE DEF sent, minted, burnt, l
<1>10. /\ balance' \in Nat /\ circulating' \in Nat /\ totalMinted' \in Nat
       /\ totalMintDebt' \in Nat /\ totalRewards' \in Nat
  <2>1. toSend(n) \in Nat
    BY <1>2
  <2> QED
    BY <2>1, <1>3, <1>4, <1>5, <1>6, <1>8
<1>11. TypeOK'
  BY <1>7, <1>9, <1>10 DEF Inv, TypeOK
<1>12. MintedCoversSupply'
  <2>1. minted - burnt \in Int /\ totalMinted + (minted - burnt) <= totalMinted'
    BY <1>4, <1>5, <1>6, <1>8
  <2>2. balance' + circulating' <= balance + circulating + (minted - burnt)
    BY <1>3, <1>4, <1>5, <1>6, <1>8
  <2> QED
    BY <1>10, <2>1, <2>2, CoverKept
<1> QED
  BY <1>11, <1>12 DEF Inv

LEMMA CapsInv ==
    ASSUME WrapperAssumption, Inv, NEW c \in Caps, _setMinterCaps(c),
           role' \in [Minter -> {"none", "minter", "rewards"}]
    PROVE  Inv'
<1>1. c.minter \in Minter
  BY DEF Caps
<1>2. Capped(limits[c.minter], c) \in Limits
  BY <1>1, CappedType DEF Inv, TypeOK
<1>3. TypeOK'
  BY <1>1, <1>2 DEF Inv, TypeOK, _setMinterCaps, token, totals
<1>4. MintedCoversSupply'
  BY DEF Inv, MintedCoversSupply, supply, _setMinterCaps, token, totals
<1> QED
  BY <1>3, <1>4 DEF Inv

LEMMA NextInv == ASSUME WrapperAssumption, Inv, [Next]_vars PROVE Inv'
<1>1. CASE Tick
  BY <1>1 DEF Inv, TypeOK, MintedCoversSupply, supply, Tick, token, totals
<1>2. ASSUME NEW n \in Amounts, Fund(n) PROVE Inv'
  <2>1. n \in Nat
    BY DEF WrapperAssumption
  <2> QED
    BY <1>2, <2>1 DEF Inv, TypeOK, MintedCoversSupply, supply, Fund, totals,
                      WrapperAssumption
<1>3. CASE Bridge
  BY <1>3, MintInv, BurnInv, TransferInv DEF Bridge
<1>4. CASE Reward
  BY <1>4, SendOrMintInv DEF Reward
<1>5. CASE Administer
  <2>1. ASSUME NEW s \in Settings, addMinter(s.caps, s.rewards) PROVE Inv'
    <3>1. s.caps \in Caps
      BY DEF WrapperAssumption
    <3>2. role' \in [Minter -> {"none", "minter", "rewards"}]
      BY <2>1, <3>1 DEF addMinter, Inv, TypeOK, Caps
    <3> QED
      BY <2>1, <3>1, <3>2, CapsInv DEF addMinter
  <2>2. ASSUME NEW c \in NewCaps, setMinterCaps(c) PROVE Inv'
    <3>1. c \in Caps
      BY DEF WrapperAssumption
    <3>2. role' \in [Minter -> {"none", "minter", "rewards"}]
      BY <2>2 DEF setMinterCaps, Inv, TypeOK
    <3> QED
      BY <2>2, <3>1, <3>2, CapsInv DEF setMinterCaps
  <2>3. ASSUME NEW f \in Frequencies, setUpdateFrequency(f) PROVE Inv'
    BY <2>3 DEF setUpdateFrequency, Inv, TypeOK, MintedCoversSupply, supply, token,
                totals, WrapperAssumption
  <2>4. ASSUME NEW r \in PausedRoles, pause(r) \/ unpause(r) PROVE Inv'
    BY <2>4 DEF pause, unpause, Inv, TypeOK, MintedCoversSupply, supply, token,
                totals, WrapperAssumption
  <2> QED
    BY <1>5, <2>1, <2>2, <2>3, <2>4 DEF Administer
<1>6. CASE UNCHANGED vars
  BY <1>6 DEF Inv, TypeOK, MintedCoversSupply, supply, vars
<1> QED
  BY <1>1, <1>2, <1>3, <1>4, <1>5, <1>6 DEF Next

\* Whatever bridges and rewarders do within their limits, the wrapper's totals
\* stay counts, and what it counts as minted covers what the supply grew by.
THEOREM TotalsCoverSupply == Spec => [](TypeOK /\ MintedCoversSupply)
<1>1. Init => Inv
  BY InitInv, WrapperAssumption
<1>2. Inv /\ [Next]_vars => Inv'
  BY NextInv, WrapperAssumption
<1> QED
  BY <1>1, <1>2, PTL DEF Spec, Inv

-----------------------------------------------------------------------------
(* The caps *)

InOf == [m \in Minter |-> limits[m].totalIn]
OutOf == [m \in Minter |-> limits[m].totalOut]
CapIn == [m \in Minter |-> limits[m].capIn]
CapOut == [m \in Minter |-> limits[m].capOut]

\* Inductive invariant: every minter's counts are within the largest cap it may
\* have had, and the counts together cover how far the supply is from where it
\* began; what rewarders minted and did not burn yet is not taken out by anyone.
CapInv ==
    /\ \A m \in Minter :
          /\ role[m] = "minter" => m \in Bridges
          /\ role[m] = "rewards" => m \notin Bridges
          /\ role[m] # "none" => CapIn[m] \in CapsInOf(m) /\ CapOut[m] \in CapsOutOf(m)
          /\ InOf[m] <= LargestCap(m) /\ OutOf[m] <= LargestOut(m)
          /\ m \notin Bridges => OutOf[m] = 0
    /\ supply - InitSupply <= SumFunctionOnSet(InOf, Minter)
    /\ InitSupply + totalMintDebt - supply <= SumFunctionOnSet(OutOf, Minter)

LEMMA CapsTypes ==
    /\ \A s \in Settings : /\ s.caps \in Caps /\ s.caps.minter \in Minter
                           /\ s.caps.capIn \in Nat /\ s.caps.capOut \in Nat
    /\ \A c \in NewCaps : /\ c \in Caps /\ c.minter \in Minter
                          /\ c.capIn \in Nat /\ c.capOut \in Nat
  BY WrapperAssumption DEF Caps

LEMMA FiniteImage ==
    ASSUME NEW S, IsFiniteSet(S), NEW f
    PROVE  IsFiniteSet({f[x] : x \in S})
<1> DEFINE g == [x \in S |-> f[x]]
           T == {f[x] : x \in S}
<1>1. g \in Surjection(S, T)
  BY DEF Surjection
<1> HIDE DEF g, T
<1>2. IsFiniteSet(T)
  BY <1>1, FS_Surjection
<1> QED
  BY <1>2 DEF T

\* The largest cap is one of them, or 0, and none is larger.
LEMMA GreatestWithZero ==
    ASSUME NEW S, IsFiniteSet(S), S \subseteq Nat
    PROVE  Max({0} \union S) \in Nat /\ \A v \in S : v <= Max({0} \union S)
<1>1. IsFiniteSet({0} \union S)
  <2>1. {0} \union S = S \union {0}
    OBVIOUS
  <2> QED
    BY <2>1, FS_AddElement
<1>2. \E x \in {0} \union S : \A y \in {0} \union S : x >= y
  <2>1. PICK U : U = {0} \union S
    OBVIOUS
  <2>2. IsFiniteSet(U) /\ U \subseteq Nat /\ U # {}
    BY <1>1, <2>1
  <2> QED
    BY <2>1, <2>2, GreatestOfFinite
<1>3. /\ Max({0} \union S) \in {0} \union S
      /\ \A y \in {0} \union S : Max({0} \union S) >= y
  BY <1>2 DEF Max
<1>4. PICK z : z = Max({0} \union S)
  OBVIOUS
<1>5. z \in Nat /\ \A v \in S : v <= z
  <2>1. z \in {0} \union S /\ \A v \in S : z >= v
    BY <1>3, <1>4
  <2> QED
    BY <2>1
<1> QED
  BY <1>4, <1>5

LEMMA FiniteCaps ==
    ASSUME NEW m
    PROVE  /\ IsFiniteSet(CapsInOf(m)) /\ CapsInOf(m) \subseteq Nat
           /\ IsFiniteSet(CapsOutOf(m)) /\ CapsOutOf(m) \subseteq Nat
<1> DEFINE S == {t \in Settings : t.caps.minter = m}
           C == {d \in NewCaps : d.minter = m}
<1>1. IsFiniteSet(S) /\ IsFiniteSet(C)
  BY WrapperAssumption, FS_Subset
<1>2. /\ CapsInOf(m) = {s.caps.capIn : s \in S} \union {c.capIn : c \in C}
      /\ CapsOutOf(m) = {s.caps.capOut : s \in S} \union {c.capOut : c \in C}
  BY DEF CapsInOf, CapsOutOf
<1>3. CapsInOf(m) \subseteq Nat /\ CapsOutOf(m) \subseteq Nat
  BY CapsTypes DEF CapsInOf, CapsOutOf
<1> HIDE DEF S, C
<1>4. /\ IsFiniteSet({s.caps.capIn : s \in S}) /\ IsFiniteSet({s.caps.capOut : s \in S})
      /\ IsFiniteSet({c.capIn : c \in C}) /\ IsFiniteSet({c.capOut : c \in C})
  <2>1. PICK f, g : f = [s \in S |-> s.caps.capIn] /\ g = [s \in S |-> s.caps.capOut]
    OBVIOUS
  <2>2. PICK h, k : h = [c \in C |-> c.capIn] /\ k = [c \in C |-> c.capOut]
    OBVIOUS
  <2>3. /\ {s.caps.capIn : s \in S} = {f[s] : s \in S}
        /\ {s.caps.capOut : s \in S} = {g[s] : s \in S}
    BY <2>1
  <2>4. /\ {c.capIn : c \in C} = {h[c] : c \in C}
        /\ {c.capOut : c \in C} = {k[c] : c \in C}
    BY <2>2
  <2>5. /\ IsFiniteSet({f[s] : s \in S}) /\ IsFiniteSet({g[s] : s \in S})
        /\ IsFiniteSet({h[c] : c \in C}) /\ IsFiniteSet({k[c] : c \in C})
    BY <1>1, FiniteImage
  <2> QED
    BY <2>3, <2>4, <2>5
<1>5. IsFiniteSet(CapsInOf(m)) /\ IsFiniteSet(CapsOutOf(m))
  <2>1. PICK a, b, c, d : /\ a = {s.caps.capIn : s \in S} /\ b = {s.caps.capOut : s \in S}
                          /\ c = {e.capIn : e \in C} /\ d = {e.capOut : e \in C}
    OBVIOUS
  <2>2. IsFiniteSet(a) /\ IsFiniteSet(b) /\ IsFiniteSet(c) /\ IsFiniteSet(d)
    BY <1>4, <2>1
  <2>3. IsFiniteSet(a \union c) /\ IsFiniteSet(b \union d)
    BY <2>2, FS_Union
  <2> QED
    BY <1>2, <2>1, <2>3
<1> QED
  BY <1>3, <1>5

LEMMA LargestIsLargest ==
    ASSUME NEW m
    PROVE  /\ LargestCap(m) \in Nat /\ \A v \in CapsInOf(m) : v <= LargestCap(m)
           /\ LargestOut(m) \in Nat /\ \A v \in CapsOutOf(m) : v <= LargestOut(m)
<1>1. PICK S, T : S = CapsInOf(m) /\ T = CapsOutOf(m)
  OBVIOUS
<1>2. IsFiniteSet(S) /\ S \subseteq Nat /\ IsFiniteSet(T) /\ T \subseteq Nat
  BY <1>1, FiniteCaps
<1>3. /\ Max({0} \union S) \in Nat /\ \A v \in S : v <= Max({0} \union S)
      /\ Max({0} \union T) \in Nat /\ \A v \in T : v <= Max({0} \union T)
  BY <1>2, GreatestWithZero
<1> QED
  BY <1>1, <1>3 DEF LargestCap, LargestOut

LEMMA SetCapsArePositive ==
    ASSUME CapsAreSet, NEW m
    PROVE  /\ \A v \in CapsInOf(m) : v > 0
           /\ m \in Bridges => \A v \in CapsOutOf(m) : v > 0
  BY DEF CapsAreSet, CapsInOf, CapsOutOf

LEMMA CountTypes ==
    ASSUME TypeOK
    PROVE  /\ InOf \in [Minter -> Nat] /\ OutOf \in [Minter -> Nat]
           /\ CapIn \in [Minter -> Nat] /\ CapOut \in [Minter -> Nat]
           /\ supply \in Nat /\ totalMintDebt \in Nat /\ InitSupply \in Nat
<1>1. \A m \in Minter : limits[m] \in Limits
  BY DEF TypeOK
<1>2. \A l \in Limits : /\ l.totalIn \in Nat /\ l.totalOut \in Nat
                        /\ l.capIn \in Nat /\ l.capOut \in Nat
  BY DEF Limits
<1>3. supply \in Nat /\ totalMintDebt \in Nat /\ InitSupply \in Nat
  BY WrapperAssumption DEF TypeOK, supply
<1> QED
  BY <1>1, <1>2, <1>3 DEF InOf, OutOf, CapIn, CapOut

\* The counts of m become i and o, the supply grows by ds, the debt by dd.
IsChange(m, i, o, ds, dd) ==
    /\ InOf' = [InOf EXCEPT ![m] = i] /\ OutOf' = [OutOf EXCEPT ![m] = o]
    /\ CapIn' = CapIn /\ CapOut' = CapOut /\ role' = role
    /\ i <= LargestCap(m) /\ o <= LargestOut(m)
    /\ m \notin Bridges => o = 0
    /\ supply' = supply + ds /\ totalMintDebt' = totalMintDebt + dd
    /\ ds <= i - InOf[m] /\ dd - ds <= o - OutOf[m]

\* The count of one minter changes by as much as the supply, or more.
LEMMA CountChanges ==
    ASSUME TypeOK, CapInv, NEW m \in Minter, NEW i \in Nat, NEW o \in Nat,
           NEW ds \in Int, NEW dd \in Int, IsChange(m, i, o, ds, dd)
    PROVE  CapInv'
<1> USE DEF IsChange
<1>1. /\ InOf \in [Minter -> Nat] /\ OutOf \in [Minter -> Nat]
      /\ supply \in Nat /\ totalMintDebt \in Nat /\ InitSupply \in Nat
      /\ IsFiniteSet(Minter)
  BY CountTypes, WrapperAssumption
<1>2. PICK f, g, h, k : /\ f = InOf /\ g = InOf' /\ h = OutOf /\ k = OutOf'
  OBVIOUS
<1>3. /\ \A x \in Minter : f[x] \in Int /\ g[x] \in Int /\ h[x] \in Int /\ k[x] \in Int
      /\ \A x \in Minter \ {m} : g[x] = f[x] /\ k[x] = h[x]
      /\ g[m] = i /\ k[m] = o
  BY <1>1, <1>2
<1>4. /\ SumFunctionOnSet(g, Minter) = SumFunctionOnSet(f, Minter) - f[m] + g[m]
      /\ SumFunctionOnSet(k, Minter) = SumFunctionOnSet(h, Minter) - h[m] + k[m]
  BY <1>1, <1>3, SumUpdate
<1>5. SumFunctionOnSet(f, Minter) \in Int /\ SumFunctionOnSet(h, Minter) \in Int
  BY <1>1, <1>3, SumType
<1>6. /\ supply - InitSupply <= SumFunctionOnSet(f, Minter)
      /\ InitSupply + totalMintDebt - supply <= SumFunctionOnSet(h, Minter)
  BY <1>2 DEF CapInv
<1>7. supply' - InitSupply <= SumFunctionOnSet(g, Minter)
  BY <1>1, <1>2, <1>3, <1>4, <1>5, <1>6
<1>8. InitSupply + totalMintDebt' - supply' <= SumFunctionOnSet(k, Minter)
  BY <1>1, <1>2, <1>3, <1>4, <1>5, <1>6
<1>9. ASSUME NEW x \in Minter
      PROVE  /\ role'[x] = "minter" => x \in Bridges
             /\ role'[x] = "rewards" => x \notin Bridges
             /\ role'[x] # "none" => CapIn'[x] \in CapsInOf(x) /\ CapOut'[x] \in CapsOutOf(x)
             /\ g[x] <= LargestCap(x) /\ k[x] <= LargestOut(x)
             /\ x \notin Bridges => k[x] = 0
  <2>1. /\ role[x] = "minter" => x \in Bridges
        /\ role[x] = "rewards" => x \notin Bridges
        /\ role[x] # "none" => CapIn[x] \in CapsInOf(x) /\ CapOut[x] \in CapsOutOf(x)
        /\ f[x] <= LargestCap(x) /\ h[x] <= LargestOut(x)
        /\ x \notin Bridges => h[x] = 0
    BY <1>2 DEF CapInv
  <2> QED
    BY <1>3, <2>1
<1> QED
  BY <1>2, <1>7, <1>8, <1>9 DEF CapInv

-----------------------------------------------------------------------------
(* What the operations do to the counts *)

LEMMA CountsOf ==
    ASSUME NEW m \in Minter
    PROVE  /\ InOf[m] = limits[m].totalIn /\ OutOf[m] = limits[m].totalOut
           /\ CapIn[m] = limits[m].capIn /\ CapOut[m] = limits[m].capOut
BY DEF InOf, OutOf, CapIn, CapOut

\* Counts move on bringing limits up to date, minting and burning.
LEMMA UpToDateCounts ==
    ASSUME TypeOK, NEW m \in Minter
    PROVE  LET l == UpToDate(m)
           IN  /\ l.totalIn = InOf[m] /\ l.totalOut = OutOf[m]
               /\ l.capIn = CapIn[m] /\ l.capOut = CapOut[m]
<1>1. limits[m] \in Limits
  BY DEF TypeOK
<1>2. \A k \in Limits : \A a, b, c, d, e, f :
          LET l == [k EXCEPT !.dailyCapIn = a, !.dailyCapOut = b, !.lastUpdate = c,
                             !.mintedToday = d, !.burnedToday = e, !.lastDayReset = f]
          IN  /\ l.totalIn = k.totalIn /\ l.totalOut = k.totalOut
              /\ l.capIn = k.capIn /\ l.capOut = k.capOut
  BY DEF Limits
<1> QED
  BY <1>1, <1>2, CountsOf DEF UpToDate

LEMMA MintedCounts ==
    ASSUME NEW l \in Limits, NEW n \in Nat
    PROVE  /\ Minted(l, n).totalIn = l.totalIn + n
           /\ Minted(l, n).totalOut = Less(l.totalOut, n)
           /\ Minted(l, n).capIn = l.capIn /\ Minted(l, n).capOut = l.capOut
BY DEF Minted, Limits

LEMMA BurnedCounts ==
    ASSUME NEW l \in Limits, NEW n \in Nat
    PROVE  /\ Burned(l, n).totalIn = Less(l.totalIn, n)
           /\ Burned(l, n).totalOut = l.totalOut + n
           /\ Burned(l, n).capIn = l.capIn /\ Burned(l, n).capOut = l.capOut
BY DEF Burned, Limits

\* One minter's new limits are the only change to the counts.
LEMMA CountsOfChanged ==
    ASSUME TypeOK, NEW m \in Minter, NEW l, limits' = [limits EXCEPT ![m] = l],
           l.capIn = CapIn[m], l.capOut = CapOut[m]
    PROVE  /\ InOf' = [InOf EXCEPT ![m] = l.totalIn]
           /\ OutOf' = [OutOf EXCEPT ![m] = l.totalOut]
           /\ CapIn' = CapIn /\ CapOut' = CapOut
<1>1. limits'[m] = l /\ \A x \in Minter : x # m => limits'[x] = limits[x]
  BY DEF TypeOK
<1>2. InOf' = [InOf EXCEPT ![m] = l.totalIn]
  <2>1. InOf' = [x \in Minter |-> limits'[x].totalIn]
    BY DEF InOf
  <2>2. InOf \in [Minter -> Nat] /\ \A x \in Minter : InOf[x] = limits[x].totalIn
    BY CountTypes, CountsOf
  <2>3. \A x \in Minter : limits'[x].totalIn = IF x = m THEN l.totalIn ELSE InOf[x]
    BY <1>1, <2>2
  <2> HIDE DEF InOf
  <2>4. [InOf EXCEPT ![m] = l.totalIn] = [x \in Minter |-> IF x = m THEN l.totalIn ELSE InOf[x]]
    BY <2>2
  <2> QED
    BY <2>1, <2>3, <2>4
<1>3. OutOf' = [OutOf EXCEPT ![m] = l.totalOut]
  <2>1. OutOf' = [x \in Minter |-> limits'[x].totalOut]
    BY DEF OutOf
  <2>2. OutOf \in [Minter -> Nat] /\ \A x \in Minter : OutOf[x] = limits[x].totalOut
    BY CountTypes, CountsOf
  <2>3. \A x \in Minter : limits'[x].totalOut = IF x = m THEN l.totalOut ELSE OutOf[x]
    BY <1>1, <2>2
  <2> HIDE DEF OutOf
  <2>4. [OutOf EXCEPT ![m] = l.totalOut] = [x \in Minter |-> IF x = m THEN l.totalOut ELSE OutOf[x]]
    BY <2>2
  <2> QED
    BY <2>1, <2>3, <2>4
<1>4. CapIn' = CapIn /\ CapOut' = CapOut
  BY <1>1 DEF CapIn, CapOut
<1> QED
  BY <1>2, <1>3, <1>4

\* Within a cap that is set, a count is within the largest one.
LEMMA WithinLargest ==
    ASSUME TypeOK, CapInv, CapsAreSet, NEW m \in Minter, NEW n \in Nat
    PROVE  /\ role[m] # "none" /\ Within(InOf[m] + n, CapIn[m])
                  => InOf[m] + n <= LargestCap(m)
           /\ role[m] = "minter" /\ Within(OutOf[m] + n, CapOut[m])
                  => OutOf[m] + n <= LargestOut(m)
<1>1. PICK a, b, c, d, e, f : /\ a = InOf[m] /\ b = CapIn[m] /\ c = LargestCap(m)
                              /\ d = OutOf[m] /\ e = CapOut[m] /\ f = LargestOut(m)
  OBVIOUS
<1>2. a \in Nat /\ b \in Nat /\ c \in Nat /\ d \in Nat /\ e \in Nat /\ f \in Nat
  BY <1>1, CountTypes, LargestIsLargest
<1>3. role[m] # "none" => b > 0 /\ b <= c
  <2>1. role[m] # "none" => CapIn[m] \in CapsInOf(m)
    BY DEF CapInv
  <2> QED
    BY <1>1, <2>1, SetCapsArePositive, LargestIsLargest
<1>4. role[m] = "minter" => e > 0 /\ e <= f
  <2>1. role[m] = "minter" => m \in Bridges /\ CapOut[m] \in CapsOutOf(m)
    BY DEF CapInv
  <2> QED
    BY <1>1, <2>1, SetCapsArePositive, LargestIsLargest
<1>5. role[m] # "none" /\ Within(a + n, b) => a + n <= c
  BY <1>2, <1>3 DEF Within
<1>6. role[m] = "minter" /\ Within(d + n, e) => d + n <= f
  BY <1>2, <1>4 DEF Within
<1> QED
  BY <1>1, <1>5, <1>6

LEMMA LessFacts ==
    ASSUME NEW a \in Nat, NEW n \in Nat
    PROVE  /\ Less(a, n) \in Nat /\ Less(a, n) <= a /\ a - n <= Less(a, n)
           /\ a = 0 => Less(a, n) = 0
BY DEF Less

LEMMA SupplyIs ==
    ASSUME TypeOK, NEW d \in Int, balance' + circulating' = balance + circulating + d
    PROVE  supply' = supply + d
BY DEF supply

-----------------------------------------------------------------------------
(* The operations keep within the caps *)

LEMMA MintCaps ==
    ASSUME Inv, CapInv, CapsAreSet, NEW m \in Minter, NEW to, NEW n \in Amounts,
           mint(m, to, n)
    PROVE  CapInv'
<1>1. TypeOK /\ n \in Nat /\ UpToDate(m) \in Limits
  BY WrapperAssumption, UpToDateType DEF Inv
<1>2. PICK l : l = Minted(UpToDate(m), n)
  OBVIOUS
<1>3. /\ l.totalIn = InOf[m] + n /\ l.totalOut = Less(OutOf[m], n)
      /\ l.capIn = CapIn[m] /\ l.capOut = CapOut[m]
  BY <1>1, <1>2, MintedCounts, UpToDateCounts
<1>4. limits' = [limits EXCEPT ![m] = l]
  BY <1>2 DEF mint
<1>5. /\ InOf' = [InOf EXCEPT ![m] = l.totalIn]
      /\ OutOf' = [OutOf EXCEPT ![m] = l.totalOut]
      /\ CapIn' = CapIn /\ CapOut' = CapOut
  BY <1>1, <1>3, <1>4, CountsOfChanged
<1>6. /\ InOf[m] \in Nat /\ OutOf[m] \in Nat
      /\ LargestCap(m) \in Nat /\ LargestOut(m) \in Nat
  BY <1>1, CountTypes, LargestIsLargest
<1>7. /\ Less(OutOf[m], n) \in Nat /\ Less(OutOf[m], n) <= OutOf[m]
      /\ OutOf[m] - n <= Less(OutOf[m], n)
      /\ OutOf[m] = 0 => Less(OutOf[m], n) = 0
  BY <1>1, <1>6, LessFacts
<1>8. l.totalIn \in Nat /\ l.totalOut \in Nat
  BY <1>1, <1>3, <1>6, <1>7
<1>9. l.totalIn <= LargestCap(m)
  <2>1. role[m] # "none" /\ Within(InOf[m] + n, CapIn[m])
    BY <1>1, UpToDateCounts DEF mint, MayMint, CapAllows
  <2> QED
    BY <1>1, <1>3, <2>1, WithinLargest
<1>10. OutOf[m] <= LargestOut(m) /\ (m \notin Bridges => OutOf[m] = 0)
  BY DEF CapInv
<1>11. l.totalOut <= LargestOut(m) /\ (m \notin Bridges => l.totalOut = 0)
  BY <1>3, <1>6, <1>7, <1>10
<1>12. balance' + circulating' = balance + circulating + n
  BY <1>1 DEF mint, TypeOK
<1>13. supply' = supply + n
  BY <1>1, <1>12, SupplyIs
<1>14. totalMintDebt' = totalMintDebt + 0 /\ role' = role
  BY <1>1 DEF mint, TypeOK
<1>15. n <= l.totalIn - InOf[m] /\ 0 - n <= l.totalOut - OutOf[m]
  BY <1>1, <1>3, <1>6, <1>7
<1>16. IsChange(m, l.totalIn, l.totalOut, n, 0)
  BY <1>5, <1>9, <1>11, <1>13, <1>14, <1>15 DEF IsChange
<1> QED
  BY <1>1, <1>8, <1>16, CountChanges

\* A burn, by a bridge or the router.
LEMMA BurnCaps ==
    ASSUME Inv, CapInv, CapsAreSet, NEW m \in Minter, NEW n \in Amounts,
           _burn(m, n), balance' + circulating' = balance + circulating - n
    PROVE  CapInv'
<1>1. TypeOK /\ n \in Nat /\ UpToDate(m) \in Limits
  BY WrapperAssumption, UpToDateType DEF Inv
<1>2. PICK l : l = Burned(UpToDate(m), n)
  OBVIOUS
<1>3. /\ l.totalIn = Less(InOf[m], n) /\ l.totalOut = OutOf[m] + n
      /\ l.capIn = CapIn[m] /\ l.capOut = CapOut[m]
  BY <1>1, <1>2, BurnedCounts, UpToDateCounts
<1>4. limits' = [limits EXCEPT ![m] = l]
  BY <1>2 DEF _burn
<1>5. /\ InOf' = [InOf EXCEPT ![m] = l.totalIn]
      /\ OutOf' = [OutOf EXCEPT ![m] = l.totalOut]
      /\ CapIn' = CapIn /\ CapOut' = CapOut
  BY <1>1, <1>3, <1>4, CountsOfChanged
<1>6. /\ InOf[m] \in Nat /\ OutOf[m] \in Nat
      /\ LargestCap(m) \in Nat /\ LargestOut(m) \in Nat
  BY <1>1, CountTypes, LargestIsLargest
<1>7. /\ Less(InOf[m], n) \in Nat /\ Less(InOf[m], n) <= InOf[m]
      /\ InOf[m] - n <= Less(InOf[m], n)
  BY <1>1, <1>6, LessFacts
<1>8. l.totalIn \in Nat /\ l.totalOut \in Nat
  BY <1>1, <1>3, <1>6, <1>7
<1>9. l.totalOut <= LargestOut(m) /\ m \in Bridges
  <2>1. role[m] = "minter" /\ Within(OutOf[m] + n, CapOut[m])
    BY <1>1, UpToDateCounts DEF _burn, MayBurn
  <2> QED
    BY <1>1, <1>3, <2>1, WithinLargest DEF CapInv
<1>10. l.totalIn <= LargestCap(m)
  <2>1. InOf[m] <= LargestCap(m)
    BY DEF CapInv
  <2> QED
    BY <1>3, <1>6, <1>7, <2>1
<1>11. supply' = supply + (0 - n)
  <2>1. balance \in Nat /\ circulating \in Nat
    BY <1>1 DEF TypeOK
  <2>2. \A b, c \in Nat : b + c - n = b + c + (0 - n)
    BY <1>1
  <2>3. balance' + circulating' = balance + circulating + (0 - n)
    BY <2>1, <2>2
  <2> QED
    BY <1>1, <2>3, SupplyIs
<1>12. totalMintDebt' = totalMintDebt + 0 /\ role' = role
  BY <1>1 DEF _burn, TypeOK
<1>13. 0 - n <= l.totalIn - InOf[m] /\ 0 - (0 - n) <= l.totalOut - OutOf[m]
  BY <1>1, <1>3, <1>6, <1>7
<1>14. 0 - n \in Int
  BY <1>1
<1>15. IsChange(m, l.totalIn, l.totalOut, 0 - n, 0)
  BY <1>5, <1>9, <1>10, <1>11, <1>12, <1>13 DEF IsChange
<1> QED
  BY <1>1, <1>8, <1>14, <1>15, CountChanges

\* A rewarder's mint counts whole and is owed as debt; what it burns of the
\* wrapper's balance is taken off the debt.
LEMMA RewardCaps ==
    ASSUME Inv, CapInv, CapsAreSet, NEW m \in Minter,
           NEW to \in {"wrapper", "user"}, NEW n \in Amounts, sendOrMint(m, to, n)
    PROVE  CapInv'
<1> DEFINE l == UpToDate(m)
           sent == IF to = "wrapper" THEN 0 ELSE toSend(n)
           minted == toMint(l, n)
           burnt == IF minted = 0 THEN toBurn(to, n) ELSE 0
           k == IF minted > 0 THEN Minted(l, minted) ELSE l
           k2 == [k EXCEPT !.totalRewards = @ + toSend(n) + minted]
<1>1. TypeOK /\ n \in Nat /\ l \in Limits
  BY WrapperAssumption, UpToDateType DEF Inv
<1>2. toSend(n) \in Nat /\ toSend(n) <= balance /\ toSend(n) <= n
  BY <1>1, LeastType DEF toSend, TypeOK
<1>3. sent \in Nat
  BY <1>2
<1>4. minted \in Nat
  <2>1. MaxMintToday(l, n) \in Nat
    BY <1>1 DEF sendOrMint, MaxMintToday, Limits
  <2>2. n - toSend(n) \in Nat
    BY <1>1, <1>2
  <2> QED
    BY <2>1, <2>2, LeastType DEF toMint
<1>5. burnt \in Nat /\ (minted > 0 => burnt = 0)
  <2>1. Left(to, n) \in Nat
    BY <1>1, <1>2 DEF Left, TypeOK
  <2>2. toBurn(to, n) \in Nat
    BY <1>1, <2>1, LeastType DEF toBurn, TypeOK
  <2> QED
    BY <1>4, <2>2
<1>6. /\ totalMintDebt' = totalMintDebt + minted - burnt
      /\ balance' = balance - sent - burnt
      /\ circulating' = circulating + sent + minted
      /\ role' = role
      /\ limits' = [limits EXCEPT ![m] = k2]
      /\ minted > 0 => CapAllows(l, minted)
      /\ role[m] = "rewards"
  BY DEF sendOrMint, MayMint
<1>7. /\ l.totalIn = InOf[m] /\ l.totalOut = OutOf[m]
      /\ l.capIn = CapIn[m] /\ l.capOut = CapOut[m]
  BY <1>1, UpToDateCounts
<1>8. OutOf[m] = 0 /\ m \notin Bridges
  BY <1>6 DEF CapInv
<1>9. InOf[m] \in Nat /\ LargestCap(m) \in Nat /\ LargestOut(m) \in Nat
  BY <1>1, CountTypes, LargestIsLargest
<1>10. /\ k \in Limits /\ k.totalIn = InOf[m] + minted /\ k.totalOut = 0
       /\ k.capIn = CapIn[m] /\ k.capOut = CapOut[m]
  <2>1. CASE minted > 0
    <3>1. PICK j \in Nat : j = minted
      BY <1>4
    <3>2. k = Minted(l, j)
      BY <2>1, <3>1
    <3>3. Minted(l, j) \in Limits
      BY <1>1, MintedType
    <3>4. /\ Minted(l, j).totalIn = l.totalIn + j
          /\ Minted(l, j).totalOut = Less(l.totalOut, j)
          /\ Minted(l, j).capIn = l.capIn /\ Minted(l, j).capOut = l.capOut
      BY <1>1, MintedCounts
    <3>5. Less(0, j) = 0
      BY LessFacts
    <3> HIDE DEF k, l, minted
    <3> QED
      BY <1>7, <1>8, <3>1, <3>2, <3>3, <3>4, <3>5
  <2>2. CASE minted = 0
    BY <1>1, <1>7, <1>8, <1>9, <2>2
  <2> QED
    BY <1>4, <2>1, <2>2
<1>11. InOf[m] + minted <= LargestCap(m)
  <2>1. CASE minted > 0
    BY <1>4, <1>1, <1>6, <1>7, <2>1, WithinLargest DEF CapAllows
  <2>2. CASE minted = 0
    BY <1>9, <2>2 DEF CapInv
  <2> QED
    BY <1>4, <2>1, <2>2
<1> HIDE DEF k, l, sent, minted, burnt
<1>12. k2.totalIn = k.totalIn /\ k2.totalOut = k.totalOut
       /\ k2.capIn = k.capIn /\ k2.capOut = k.capOut
  BY <1>10 DEF Limits
<1>13. /\ InOf' = [InOf EXCEPT ![m] = InOf[m] + minted]
       /\ OutOf' = [OutOf EXCEPT ![m] = 0]
       /\ CapIn' = CapIn /\ CapOut' = CapOut
  <2>1. PICK q : q = k2
    OBVIOUS
  <2>2. limits' = [limits EXCEPT ![m] = q] /\ q.capIn = CapIn[m] /\ q.capOut = CapOut[m]
    BY <1>6, <1>10, <1>12, <2>1
  <2>3. q.totalIn = InOf[m] + minted /\ q.totalOut = 0
    BY <1>10, <1>12, <2>1
  <2>4. /\ InOf' = [InOf EXCEPT ![m] = q.totalIn]
        /\ OutOf' = [OutOf EXCEPT ![m] = q.totalOut]
        /\ CapIn' = CapIn /\ CapOut' = CapOut
    BY <1>1, <2>2, CountsOfChanged
  <2> QED
    BY <2>3, <2>4
<1>14. supply' = supply + (minted - burnt) /\ totalMintDebt' = totalMintDebt + (minted - burnt)
  <2>1. balance \in Nat /\ circulating \in Nat /\ totalMintDebt \in Nat
    BY <1>1 DEF TypeOK
  <2>2. balance' + circulating' = balance + circulating + (minted - burnt)
    BY <2>1, <1>3, <1>4, <1>5, <1>6
  <2>3. minted - burnt \in Int
    BY <1>4, <1>5
  <2> QED
    BY <1>1, <1>4, <1>5, <1>6, <2>1, <2>2, <2>3, SupplyIs
<1>15. minted - burnt <= InOf[m] + minted - InOf[m]
       /\ (minted - burnt) - (minted - burnt) <= 0 - OutOf[m]
  BY <1>4, <1>5, <1>8, <1>9
<1>16. IsChange(m, InOf[m] + minted, 0, minted - burnt, minted - burnt)
  <2>1. 0 <= LargestOut(m)
    BY <1>9
  <2>2. role' = role
    BY <1>6
  <2>3. PICK i, d : i = InOf[m] + minted /\ d = minted - burnt
    OBVIOUS
  <2>4. /\ InOf' = [InOf EXCEPT ![m] = i] /\ OutOf' = [OutOf EXCEPT ![m] = 0]
        /\ CapIn' = CapIn /\ CapOut' = CapOut
    BY <1>13, <2>3
  <2>5. supply' = supply + d /\ totalMintDebt' = totalMintDebt + d
    BY <1>14, <2>3
  <2>6. i <= LargestCap(m) /\ d <= i - InOf[m] /\ d - d <= 0 - OutOf[m]
    <3>1. i <= LargestCap(m)
      BY <1>4, <1>9, <1>11, <2>3
    <3>2. d <= i - InOf[m]
      BY <1>4, <1>5, <1>8, <1>9, <2>3
    <3>3. d - d <= 0 - OutOf[m]
      BY <1>15, <2>3
    <3> QED
      BY <3>1, <3>2, <3>3
  <2>7. IsChange(m, i, 0, d, d)
    BY <2>1, <2>2, <2>4, <2>5, <2>6 DEF IsChange
  <2> QED
    BY <2>3, <2>7
<1>17. InOf[m] + minted \in Nat /\ minted - burnt \in Int
  BY <1>4, <1>5, <1>9
<1> QED
  BY <1>1, <1>16, <1>17, CountChanges

\* New caps leave every count as it was.
LEMMA NewCapsCaps ==
    ASSUME Inv, CapInv, NEW c \in Caps, _setMinterCaps(c),
           \A m \in Minter : /\ role'[m] = "minter" => m \in Bridges
                             /\ role'[m] = "rewards" => m \notin Bridges,
           \A m \in Minter : m # c.minter => role'[m] = role[m],
           c.capIn \in CapsInOf(c.minter), c.capOut \in CapsOutOf(c.minter)
    PROVE  CapInv'
<1>1. TypeOK /\ c.minter \in Minter
  BY DEF Inv, Caps
<1>2. PICK l : l = Capped(limits[c.minter], c)
  OBVIOUS
<1>3. limits[c.minter] \in Limits
  BY <1>1 DEF TypeOK
<1>4. /\ l.totalIn = limits[c.minter].totalIn /\ l.totalOut = limits[c.minter].totalOut
      /\ l.capIn = c.capIn /\ l.capOut = c.capOut
  BY <1>2, <1>3 DEF Capped, Limits
<1>5. limits'[c.minter] = l /\ \A x \in Minter : x # c.minter => limits'[x] = limits[x]
  BY <1>1, <1>2 DEF _setMinterCaps, TypeOK
<1>6. InOf' = InOf /\ OutOf' = OutOf
  BY <1>1, <1>4, <1>5 DEF InOf, OutOf
<1>7. /\ CapIn'[c.minter] = c.capIn /\ CapOut'[c.minter] = c.capOut
      /\ \A x \in Minter : x # c.minter => CapIn'[x] = CapIn[x] /\ CapOut'[x] = CapOut[x]
  BY <1>1, <1>4, <1>5 DEF CapIn, CapOut
<1>8. supply' = supply /\ totalMintDebt' = totalMintDebt
  BY DEF _setMinterCaps, token, totals, supply
<1>9. ASSUME NEW x \in Minter
      PROVE  role'[x] # "none" => CapIn'[x] \in CapsInOf(x) /\ CapOut'[x] \in CapsOutOf(x)
  <2>1. CASE x = c.minter
    BY <1>7, <2>1
  <2>2. CASE x # c.minter
    BY <1>7, <2>2 DEF CapInv
  <2> QED
    BY <2>1, <2>2
<1>10. ASSUME NEW x \in Minter
       PROVE  /\ InOf'[x] <= LargestCap(x) /\ OutOf'[x] <= LargestOut(x)
              /\ x \notin Bridges => OutOf'[x] = 0
  BY <1>6 DEF CapInv
<1>11. /\ supply' - InitSupply <= SumFunctionOnSet(InOf', Minter)
       /\ InitSupply + totalMintDebt' - supply' <= SumFunctionOnSet(OutOf', Minter)
  BY <1>6, <1>8 DEF CapInv
<1> QED
  BY <1>9, <1>10, <1>11 DEF CapInv

\* Whatever leaves counts, caps, roles, supply and debt alone.
LEMMA OthersCaps ==
    ASSUME TypeOK, CapInv, UNCHANGED <<limits, role, totalMintDebt>>,
           balance' + circulating' = balance + circulating
    PROVE  CapInv'
<1>1. supply' = supply
  BY DEF supply
<1>2. InOf' = InOf /\ OutOf' = OutOf /\ CapIn' = CapIn /\ CapOut' = CapOut
  BY DEF InOf, OutOf, CapIn, CapOut
<1> QED
  BY <1>1, <1>2 DEF CapInv

LEMMA InitCaps == ASSUME Init PROVE CapInv
<1>1. TypeOK
  BY InitInv, WrapperAssumption DEF Inv
<1>2. \A m \in Minter : InOf[m] = 0 /\ OutOf[m] = 0 /\ role[m] = "none"
  BY DEF Init, InOf, OutOf, NoLimits
<1>3. \A m \in Minter : LargestCap(m) \in Nat /\ LargestOut(m) \in Nat
  BY LargestIsLargest
<1>4. SumFunctionOnSet(InOf, Minter) = 0 /\ SumFunctionOnSet(OutOf, Minter) = 0
  BY <1>2, SumOfZeros, WrapperAssumption
<1>5. supply - InitSupply = 0 /\ InitSupply + totalMintDebt - supply = 0
  BY WrapperAssumption DEF Init, supply
<1>6. \A m \in Minter : InOf[m] <= LargestCap(m) /\ OutOf[m] <= LargestOut(m)
  BY <1>2, <1>3
<1> QED
  BY <1>2, <1>4, <1>5, <1>6 DEF CapInv

LEMMA NextCaps == ASSUME CapsAreSet, Inv, CapInv, [Next]_vars PROVE CapInv'
<1>1. TypeOK
  BY DEF Inv
<1>2. balance \in Nat /\ circulating \in Nat
  BY <1>1 DEF TypeOK
<1>3. CASE Tick
  BY <1>1, <1>3, OthersCaps DEF Tick, token, totals
<1>4. ASSUME NEW n \in Amounts, Fund(n) PROVE CapInv'
  <2>1. n \in Nat
    BY WrapperAssumption
  <2>2. balance' + circulating' = balance + circulating
    BY <1>2, <1>4, <2>1 DEF Fund
  <2> QED
    BY <1>1, <1>4, <2>2, OthersCaps DEF Fund, totals
<1>5. CASE Bridge
  <2>1. PICK m \in Minter, n \in Amounts :
            \/ \E a \in {"wrapper", "user"} : mint(m, a, n) \/ burn(m, a, n)
            \/ onTokenTransfer(m, n)
    BY <1>5 DEF Bridge
  <2>2. ASSUME NEW a \in {"wrapper", "user"}, mint(m, a, n) PROVE CapInv'
    BY <2>2, MintCaps
  <2>3. n \in Nat
    BY WrapperAssumption
  <2>4. ASSUME NEW a \in {"wrapper", "user"}, burn(m, a, n) PROVE CapInv'
    <3>1. balance' + circulating' = balance + circulating - n
      BY <1>2, <2>3, <2>4 DEF burn
    <3> QED
      BY <2>4, <3>1, BurnCaps DEF burn
  <2>5. CASE onTokenTransfer(m, n)
    <3>1. balance' + circulating' = balance + circulating - n
      BY <1>2, <2>3, <2>5 DEF onTokenTransfer
    <3> QED
      BY <2>5, <3>1, BurnCaps DEF onTokenTransfer
  <2> QED
    BY <2>1, <2>2, <2>4, <2>5
<1>6. CASE Reward
  BY <1>6, RewardCaps DEF Reward
<1>7. CASE Administer
  <2>1. ASSUME NEW s \in Settings, addMinter(s.caps, s.rewards) PROVE CapInv'
    <3>1. PICK c : c = s.caps
      OBVIOUS
    <3>2. c \in Caps /\ c.minter \in Minter /\ _setMinterCaps(c)
      BY <2>1, <3>1, CapsTypes DEF addMinter
    <3>3. role' = [role EXCEPT ![c.minter] = IF s.rewards THEN "rewards" ELSE "minter"]
      BY <2>1, <3>1 DEF addMinter
    <3>4. c.capIn \in CapsInOf(c.minter) /\ c.capOut \in CapsOutOf(c.minter)
      BY <3>1 DEF CapsInOf, CapsOutOf
    <3>5. s.rewards => c.minter \notin Bridges
      BY <3>1 DEF CapsAreSet
    <3>6. ~s.rewards => c.minter \in Bridges
      BY <3>1 DEF Bridges
    <3>7. role'[c.minter] = (IF s.rewards THEN "rewards" ELSE "minter")
          /\ \A m \in Minter : m # c.minter => role'[m] = role[m]
      BY <1>1, <3>2, <3>3 DEF TypeOK
    <3>8. \A m \in Minter : /\ role'[m] = "minter" => m \in Bridges
                            /\ role'[m] = "rewards" => m \notin Bridges
      <4>1. \A m \in Minter : /\ role[m] = "minter" => m \in Bridges
                              /\ role[m] = "rewards" => m \notin Bridges
        BY DEF CapInv
      <4> QED
        BY <3>5, <3>6, <3>7, <4>1
    <3> QED
      BY <3>2, <3>4, <3>7, <3>8, NewCapsCaps
  <2>2. ASSUME NEW c \in NewCaps, setMinterCaps(c) PROVE CapInv'
    <3>1. c \in Caps /\ _setMinterCaps(c) /\ role' = role
      BY <2>2, CapsTypes DEF setMinterCaps
    <3>2. c.capIn \in CapsInOf(c.minter) /\ c.capOut \in CapsOutOf(c.minter)
      BY DEF CapsInOf, CapsOutOf
    <3>3. \A m \in Minter : /\ role'[m] = "minter" => m \in Bridges
                            /\ role'[m] = "rewards" => m \notin Bridges
      BY <3>1 DEF CapInv
    <3> QED
      BY <3>1, <3>2, <3>3, NewCapsCaps
  <2>3. ASSUME NEW f \in Frequencies, setUpdateFrequency(f) PROVE CapInv'
    BY <1>1, <2>3, OthersCaps DEF setUpdateFrequency, token, totals
  <2>4. ASSUME NEW r \in PausedRoles, pause(r) \/ unpause(r) PROVE CapInv'
    BY <1>1, <2>4, OthersCaps DEF pause, unpause, token, totals
  <2> QED
    BY <1>7, <2>1, <2>2, <2>3, <2>4 DEF Administer
<1>8. CASE UNCHANGED vars
  BY <1>1, <1>8, OthersCaps DEF vars
<1> QED
  BY <1>3, <1>4, <1>5, <1>6, <1>7, <1>8 DEF Next

LEMMA CapsBoundSupply == ASSUME TypeOK, CapInv PROVE SupplyWithinCaps
<1>1. PICK f, g : /\ f = [m \in Minter |-> LargestCap(m)]
                  /\ g = [m \in Minter |-> LargestOut(m)]
  OBVIOUS
<1>2. /\ \A m \in Minter : f[m] \in Nat /\ InOf[m] \in Nat /\ InOf[m] <= f[m]
      /\ \A m \in Minter : g[m] \in Nat /\ OutOf[m] \in Nat /\ OutOf[m] <= g[m]
  BY <1>1, CountTypes, LargestIsLargest DEF CapInv
<1>3. IsFiniteSet(Minter)
  BY WrapperAssumption
<1>4. /\ SumFunctionOnSet(InOf, Minter) <= SumFunctionOnSet(f, Minter)
      /\ SumFunctionOnSet(OutOf, Minter) <= SumFunctionOnSet(g, Minter)
  BY <1>2, <1>3, SumMonotonic
<1>5. PICK a, b, c, d : /\ a = SumFunctionOnSet(InOf, Minter)
                        /\ b = SumFunctionOnSet(OutOf, Minter)
                        /\ c = SumFunctionOnSet(f, Minter)
                        /\ d = SumFunctionOnSet(g, Minter)
  OBVIOUS
<1>6. a \in Int /\ b \in Int /\ c \in Int /\ d \in Int
  BY <1>2, <1>3, <1>5, SumType
<1>7. a <= c /\ b <= d /\ supply - InitSupply <= a
      /\ InitSupply + totalMintDebt - supply <= b
  BY <1>4, <1>5 DEF CapInv
<1>8. supply <= InitSupply + c /\ supply >= InitSupply - d
  BY <1>6, <1>7, CountTypes
<1> QED
  BY <1>1, <1>5, <1>8 DEF SupplyWithinCaps

\* Where every minter has its caps and keeps its role, no order of mints,
\* burns, rewards and payments of debt, in however many days and whatever the
\* daily limits, brings the supply above the sum of the caps in, or below the
\* sum of the caps out.
THEOREM SupplyStaysWithinCaps == CapsAreSet => (Spec => []SupplyWithinCaps)
<1> SUFFICES ASSUME CapsAreSet PROVE Spec => []SupplyWithinCaps
  OBVIOUS
<1>1. Init => Inv /\ CapInv
  BY InitInv, InitCaps, WrapperAssumption
<1>2. Inv /\ CapInv /\ [Next]_vars => (Inv /\ CapInv)'
  BY NextInv, NextCaps, WrapperAssumption
<1>3. Inv /\ CapInv => SupplyWithinCaps
  BY CapsBoundSupply DEF Inv
<1> QED
  BY <1>1, <1>2, <1>3, PTL DEF Spec


---------------------------------------------------------------------------
(* What a chain holds and what a call does to it *)

Modes == {"lock", "wrapper", "scheme"}
Hold == [people : Nat, avatar : Nat, bridge : Nat, old : Nat, mode : Modes,
         rights : SUBSET Modes, upgraded : BOOLEAN]
Upgrading(a) == a.do \in {"upgradeTo", "upgradeToAndCall"}
Sound(a) == /\ a.amount \in Int
            /\ Upgrading(a) \/ a.do \in {"registerScheme", "revokeRole"} => a.arg \in Modes

\* A call, whichever it is, leaves a holding of numbers.
LEMMA CallsKeepTypes ==
    \A h \in Hold : \A a : Sound(a) => After(h, a) \in Hold
<1> SUFFICES ASSUME NEW h \in Hold, NEW a, Sound(a) PROVE After(h, a) \in Hold
  OBVIOUS
<1>1. CASE Fails(h, a)
  BY <1>1 DEF After
<1>2. CASE ~Fails(h, a) /\ Upgrading(a)
  <2>1. After(h, a) = [h EXCEPT !.mode = a.arg]
    BY <1>2 DEF After, Upgrading
  <2>2. a.arg \in Modes
    BY <1>2 DEF Sound
  <2> QED
    BY <2>1, <2>2 DEF Hold
<1>3. CASE ~Fails(h, a) /\ a.do = "withdraw"
  <2>1. h.avatar + h.bridge \in Nat
    BY DEF Hold
  <2> DEFINE g == [h EXCEPT !.avatar = h.avatar + h.bridge]
  <2>2. After(h, a) = [g EXCEPT !.bridge = 0]
    BY <1>3 DEF After
  <2>3. g \in Hold
    BY <2>1 DEF Hold
  <2> HIDE DEF g
  <2> QED
    BY <2>2, <2>3 DEF Hold
<1>8. CASE ~Fails(h, a) /\ a.do = "claimTokens"
  <2>1. h.avatar + h.old \in Nat
    BY DEF Hold
  <2> DEFINE g == [h EXCEPT !.avatar = h.avatar + h.old]
  <2>2. After(h, a) = [g EXCEPT !.old = 0]
    BY <1>8 DEF After
  <2>3. g \in Hold
    BY <2>1 DEF Hold
  <2> HIDE DEF g
  <2> QED
    BY <2>2, <2>3 DEF Hold
<1>4. CASE ~Fails(h, a) /\ a.do = "burn"
  BY <1>4 DEF After, Hold, Fails, Sound
<1>5. CASE ~Fails(h, a) /\ a.do \in {"registerScheme", "revokeRole"}
  BY <1>5 DEF After, Sound, Hold
<1>6. CASE ~Fails(h, a) /\ a.do = "mentoUpgrade"
  <2>1. h.bridge + a.amount - MintedOn(h) \in Nat
    BY <1>6 DEF Hold, Fails, Sound, MintedOn
  <2> QED
    BY <1>6, <2>1 DEF After, Hold
<1>7. CASE ~Fails(h, a) /\ ~Upgrading(a)
           /\ a.do \notin {"withdraw", "claimTokens", "burn", "registerScheme", "revokeRole",
                           "mentoUpgrade"}
  BY <1>7 DEF After, Upgrading
<1> QED
  BY <1>1, <1>2, <1>3, <1>4, <1>5, <1>6, <1>7, <1>8

\* What call a of holding h to g does to each thing a chain holds.
Does(h, a, g) ==
    /\ g.people = h.people
    /\ g.avatar = IF a.do = "withdraw" THEN h.avatar + h.bridge
                  ELSE IF a.do = "claimTokens" THEN h.avatar + h.old
                  ELSE IF a.do = "burn" /\ h.avatar >= a.amount THEN h.avatar - a.amount
                  ELSE h.avatar
    /\ g.old = IF a.do = "claimTokens" THEN 0 ELSE h.old
    /\ g.mode = IF Upgrading(a) THEN a.arg ELSE h.mode
    /\ g.rights = IF a.do = "registerScheme" THEN h.rights \cup {a.arg}
                  ELSE IF a.do = "revokeRole" THEN h.rights \ {a.arg} ELSE h.rights
    /\ a.do # "mentoUpgrade" =>
           /\ g.bridge = IF a.do = "withdraw" THEN 0 ELSE h.bridge
           /\ g.upgraded = h.upgraded
    /\ a.do = "mentoUpgrade" /\ Fails(h, a) => g = h
    /\ a.do = "mentoUpgrade" /\ ~Fails(h, a) =>
           g.bridge = h.bridge + a.amount - MintedOn(h) /\ g.upgraded = TRUE
    /\ Fails(h, a) => a.do \in {"burn", "mentoUpgrade"}
    /\ a.do = "set" => g = h

LEMMA CallsDo ==
    ASSUME NEW h \in Hold, NEW a, Sound(a)
    PROVE  Does(h, a, After(h, a))
<1> USE DEF Does
<1>1. CASE Fails(h, a)
  <2>1. a.do = "mentoUpgrade" \/ (a.do = "burn" /\ h.avatar < a.amount)
    BY <1>1 DEF Fails
  <2>2. After(h, a) = h
    BY <1>1 DEF After
  <2>3. ~(h.avatar < a.amount) <=> h.avatar >= a.amount
    BY DEF Hold, Sound
  <2> QED
    BY <1>1, <2>1, <2>2, <2>3 DEF Upgrading
<1>2. CASE ~Fails(h, a) /\ Upgrading(a)
  BY <1>2 DEF After, Upgrading, Hold
<1>3. CASE ~Fails(h, a) /\ a.do \in {"withdraw", "claimTokens"}
  BY <1>3 DEF After, Hold, Upgrading
<1>4. CASE ~Fails(h, a) /\ a.do = "burn"
  BY <1>4 DEF After, Hold, Fails, Sound, Upgrading
<1>5. CASE ~Fails(h, a) /\ a.do \in {"registerScheme", "revokeRole"}
  BY <1>5 DEF After, Sound, Hold, Upgrading
<1>6. CASE ~Fails(h, a) /\ a.do = "mentoUpgrade"
  BY <1>6 DEF After, Hold, Upgrading
<1>7. CASE ~Fails(h, a) /\ ~Upgrading(a)
           /\ a.do \notin {"withdraw", "claimTokens", "burn", "registerScheme", "revokeRole",
                           "mentoUpgrade"}
  BY <1>7 DEF After, Upgrading
<1> QED
  BY <1>1, <1>2, <1>3, <1>4, <1>5, <1>6, <1>7

---------------------------------------------------------------------------
(* What the calls of a proposal do, one after the other *)

Begun(p) == [h |-> chain[On(p.script)], failed |-> FALSE]
Then(e, a) == [h |-> After(e.h, a), failed |-> e.failed \/ Fails(e.h, a)]
Following(f, p) ==
    f = [n \in 0 .. Len(p.calls) |-> IF n = 0 THEN Begun(p) ELSE Then(f[n - 1], p.calls[n])]

LEMMA CallsFollow ==
    ASSUME NEW p, Len(p.calls) \in Nat
    PROVE  \E f : Following(f, p)
<1> DEFINE Turn(f, d) == IF d = 0 THEN Begun(p) ELSE Then(f[d - 1], p.calls[d])
           Good(f, k) == \A d \in 0..k : f[d] = Turn(f, d)
           T == {k \in Nat : \E f : Good(f, k)}
           last == Len(p.calls)
<1>1. 0 \in T
  <2> DEFINE f == [d \in 0..0 |-> Begun(p)]
  <2>1. Good(f, 0)
    OBVIOUS
  <2> QED
    BY <2>1
<1>2. ASSUME NEW k \in Nat, k \in T PROVE k + 1 \in T
  <2>1. PICK f : Good(f, k)
    BY <1>2
  <2> DEFINE next == Then(f[k], p.calls[k + 1])
             g == [d \in 0..(k + 1) |-> IF d = k + 1 THEN next ELSE f[d]]
  <2>2. ASSUME NEW d \in 0..(k + 1) PROVE g[d] = Turn(g, d)
    <3>1. CASE d = k + 1
      <4>1. g[d] = next /\ d # 0 /\ d - 1 = k /\ g[d - 1] = f[k]
        <5> HIDE DEF next
        <5> QED
          BY <3>1
      <4>2. Turn(g, d) = Then(g[d - 1], p.calls[d])
        BY <4>1
      <4> HIDE DEF g
      <4> QED
        BY <3>1, <4>1, <4>2
    <3>2. CASE d # k + 1
      <4>1. d \in 0..k /\ g[d] = f[d]
        BY <3>2
      <4>2. f[d] = Turn(f, d)
        BY <2>1, <4>1
      <4>3. d # 0 => g[d - 1] = f[d - 1]
        BY <4>1
      <4> HIDE DEF g
      <4> QED
        BY <4>1, <4>2, <4>3
    <3> QED
      BY <3>1, <3>2
  <2>3. Good(g, k + 1)
    BY <2>2
  <2> HIDE DEF g, Good
  <2> QED
    BY <2>3
<1>3. last \in T
  <2> HIDE DEF T
  <2> QED
    BY <1>1, <1>2, Induction
<1>4. PICK f : Good(f, last)
  BY <1>3
<1> DEFINE h == [d \in 0..last |-> f[d]]
<1> HIDE DEF last
<1>5. ASSUME NEW d \in 0..last PROVE Turn(f, d) = Turn(h, d) /\ f[d] = Turn(f, d)
  <2>1. d # 0 => h[d - 1] = f[d - 1]
    BY DEF last
  <2> HIDE DEF h
  <2> QED
    BY <1>4, <2>1
<1>6. h = [d \in 0..last |-> Turn(h, d)]
  <2>1. \A d \in 0..last : f[d] = Turn(h, d)
    BY <1>5
  <2> HIDE DEF Turn
  <2> QED
    BY <2>1
<1>7. Following(h, p)
  BY <1>6 DEF Following, last
<1> QED
  BY <1>7

\* What Called returns, call by call.
LEMMA CalledIs ==
    ASSUME NEW p, Len(p.calls) \in Nat
    PROVE  /\ Called(p)[0] = Begun(p)
           /\ \A n \in 1 .. Len(p.calls) : Called(p)[n] = Then(Called(p)[n - 1], p.calls[n])
<1>1. Called(p) = CHOOSE f : Following(f, p)
  BY DEF Called, Following, Begun, Then
<1>2. PICK f : f = Called(p)
  OBVIOUS
<1>3. Following(f, p)
  BY <1>1, <1>2, CallsFollow
<1>4. \A n \in 0 .. Len(p.calls) :
          f[n] = IF n = 0 THEN Begun(p) ELSE Then(f[n - 1], p.calls[n])
  BY <1>3 DEF Following
<1> QED
  BY <1>2, <1>4

---------------------------------------------------------------------------
(* The calls of the scripts *)

Proposed == {"upgradeMainnet", "upgradeFuse", "upgradeCelo", "upgradeCeloStep1",
             "upgradeFuseStep1", "upgradeEthStep1", "upgradeCeloFix", "upgradeXdcFix",
             "upgradeFuseFix", "upgradeEthFix"}
Readings(script) == {r \in Seq(Nat) : Len(r) = Len(Reads(script))}

LEMMA WhatIsRead ==
    /\ Reads("upgradeMainnet") = << "ForeignBridge", "MpbBridge" >>
    /\ Reads("upgradeCelo") = << "locked", "mainnet", "fuse", "celo" >>
    /\ Reads("upgradeCeloStep1") = << "Avatar", "MpbBridge" >>
    /\ Reads("upgradeCeloFix") = << "Avatar" >>
    /\ Reads("celoUpgrade") = << "celo", "celo", "xdc", "fuse", "mainnet", "LOCKED_ACCOUNTS" >>
    /\ \A script \in {"upgradeFuse", "upgradeFuseStep1", "upgradeEthStep1", "upgradeXdcFix",
                       "upgradeFuseFix", "upgradeEthFix"} : Reads(script) = << >>
BY DEF Reads

\* Every call a script writes down is one of those there are.
LEMMA CallsAreSound ==
    ASSUME NEW script \in Proposed, NEW r \in Readings(script)
    PROVE  /\ Len(proposalActions(script, r)) \in Nat
           /\ \A i \in 1 .. Len(proposalActions(script, r)) : Sound(proposalActions(script, r)[i])
<1>1. \A name : Sound(set(name))
  BY DEF Sound, set, call, Upgrading
<1>2. \A mode \in Modes : Sound(upgradeTo(mode))
  BY DEF Sound, upgradeTo, call, Upgrading, Modes
<1>3. /\ Sound(upgradeToAndCall) /\ Sound(withdraw) /\ Sound(claimTokens)
      /\ Sound(registerScheme) /\ Sound(revokeRole)
  BY DEF Sound, upgradeToAndCall, withdraw, claimTokens, registerScheme, revokeRole, call,
         Upgrading, Modes
<1>4. \A n \in Int : Sound(burnLocked(n)) /\ Sound(mentoUpgrade(n))
  BY DEF Sound, burnLocked, mentoUpgrade, amount, Upgrading, Modes
<1>5. "lock" \in Modes /\ "scheme" \in Modes
  BY DEF Modes
<1>6. CASE script = "upgradeMainnet"
  <2>1. r[1] + r[2] \in Int
    BY <1>6, WhatIsRead DEF Readings
  <2>2. proposalActions(script, r) = upgradeMainnet(r)
    BY <1>6 DEF proposalActions
  <2> QED
    BY <2>1, <2>2, <1>1, <1>2, <1>3, <1>4, <1>5 DEF upgradeMainnet
<1>7. CASE script = "upgradeFuse"
  <2>1. proposalActions(script, r) = upgradeFuse(r)
    BY <1>7 DEF proposalActions
  <2> QED
    BY <2>1, <1>1, <1>2, <1>3, <1>5 DEF upgradeFuse
<1>8. CASE script = "upgradeCelo"
  <2>1. TOTAL_GLOBAL_SUPPLY(r) \in Int
    BY <1>8, WhatIsRead DEF Readings, TOTAL_GLOBAL_SUPPLY
  <2>2. proposalActions(script, r) = upgradeCelo(r)
    BY <1>8 DEF proposalActions
  <2> QED
    BY <2>1, <2>2, <1>1, <1>2, <1>3, <1>4, <1>5 DEF upgradeCelo
<1>9. CASE script = "upgradeCeloStep1"
  <2>1. r[1] + r[2] \in Int
    BY <1>9, WhatIsRead DEF Readings
  <2>2. proposalActions(script, r) = upgradeCeloStep1(r)
    BY <1>9 DEF proposalActions
  <2> QED
    BY <2>1, <2>2, <1>1, <1>3, <1>4 DEF upgradeCeloStep1
<1>10. CASE script = "upgradeCeloFix"
  <2>1. r[1] \in Int
    BY <1>10, WhatIsRead DEF Readings
  <2>2. proposalActions(script, r) = upgradeCeloFix(r)
    BY <1>10 DEF proposalActions
  <2> QED
    BY <2>1, <2>2, <1>2, <1>4, <1>5 DEF upgradeCeloFix
<1>11. CASE script \in {"upgradeFuseStep1", "upgradeEthStep1", "upgradeXdcFix", "upgradeFuseFix",
                        "upgradeEthFix"}
  <2>1. proposalActions(script, r) \in
            {upgradeFuseStep1(r), upgradeEthStep1(r), upgradeXdcFix(r), upgradeFuseFix(r),
             upgradeEthFix(r)}
    BY <1>11 DEF proposalActions
  <2> QED
    BY <2>1, <1>1, <1>2, <1>3, <1>5
       DEF upgradeFuseStep1, upgradeEthStep1, upgradeXdcFix, upgradeFuseFix, upgradeEthFix
<1> QED
  BY <1>6, <1>7, <1>8, <1>9, <1>10, <1>11 DEF Proposed

---------------------------------------------------------------------------
(* The types *)

Beginnings == [moves : Nat, nonce : Nat]
Entry(p) ==
    /\ p.script \in plan.scripts \cap Proposed
    /\ p.since \in Beginnings /\ p.nonce \in Nat /\ p.overtaken \in BOOLEAN
    /\ \E r \in Readings(p.script) : p.calls = proposalActions(p.script, r)
Outcome == [script : Proposed, drift : Int, failed : BOOLEAN, overtaken : BOOLEAN]

\* What is not yet where it goes was sent by somebody.
Ledgers ==
    /\ chain \in [Chains -> Hold] /\ flight \in [Chains -> Nat]
    /\ moves \in Nat /\ grown \in BOOLEAN /\ InFlight \in Nat /\ InFlight <= moves
TaskTypes ==
    /\ task \in plan.scripts \cup {None}
    /\ reading \in Seq(Nat) /\ (task # None => Len(reading) <= Len(Reads(task)))
    /\ (task = None => reading = << >>)
    /\ since \in Beginnings /\ call_at \in Nat \ {0} /\ failed \in BOOLEAN
    /\ task = None \/ plan.via = "safe" => call_at = 1 /\ failed = FALSE
ProposalTypes ==
    /\ plan \in Plans /\ Ledgers /\ TaskTypes
    /\ \A p \in queue : Entry(p)
    /\ nonce \in Nat /\ done \in Seq(Outcome)

\* Which plans there are.
LEMMA ThePlans ==
    \A p \in Plans :
        /\ p.via \in {"safe", "guardian"} /\ p.era \in {"v4", "gip25", "minting"}
        /\ p.era = "minting" => p.scripts = {"celoUpgrade"}
        /\ p.era = "v4" => /\ p.scripts \in {{"upgradeMainnet"}, {"upgradeFuse"}, {"upgradeCelo"}}
                           /\ p.scripts = {"upgradeMainnet"} => p.via = "safe"
        /\ p.era = "gip25" =>
               p.scripts \in {{"upgradeCeloStep1", "upgradeCeloFix"},
                              {"upgradeFuseStep1", "upgradeFuseFix"},
                              {"upgradeEthStep1", "upgradeEthFix"}, {"upgradeXdcFix"}}
<1> SUFFICES ASSUME NEW p \in Plans
             PROVE  /\ p.via \in {"safe", "guardian"} /\ p.era \in {"v4", "gip25", "minting"}
                    /\ p.era = "minting" => p.scripts = {"celoUpgrade"}
                    /\ p.era = "v4" =>
                           /\ p.scripts \in {{"upgradeMainnet"}, {"upgradeFuse"}, {"upgradeCelo"}}
                           /\ p.scripts = {"upgradeMainnet"} => p.via = "safe"
                    /\ p.era = "gip25" =>
                           p.scripts \in {{"upgradeCeloStep1", "upgradeCeloFix"},
                                          {"upgradeFuseStep1", "upgradeFuseFix"},
                                          {"upgradeEthStep1", "upgradeEthFix"}, {"upgradeXdcFix"}}
  OBVIOUS
<1>1. \A e, s, v : Plan(e, s, v).era = e /\ Plan(e, s, v).scripts = s /\ Plan(e, s, v).via = v
  BY DEF Plan
<1>2. CASE p \in {Plan("v4", {s}, "safe") : s \in {"upgradeMainnet", "upgradeFuse", "upgradeCelo"}}
  <2>1. PICK s \in {"upgradeMainnet", "upgradeFuse", "upgradeCelo"} : p = Plan("v4", {s}, "safe")
    BY <1>2
  <2>2. p.era = "v4" /\ p.scripts = {s} /\ p.via = "safe"
    BY <1>1, <2>1
  <2>3. {s} \in {{"upgradeMainnet"}, {"upgradeFuse"}, {"upgradeCelo"}}
    OBVIOUS
  <2> QED
    BY <2>2, <2>3
<1>3. CASE p \in {Plan("v4", {s}, "guardian") : s \in {"upgradeFuse", "upgradeCelo"}}
  <2>1. PICK s \in {"upgradeFuse", "upgradeCelo"} : p = Plan("v4", {s}, "guardian")
    BY <1>3
  <2>2. p.era = "v4" /\ p.scripts = {s} /\ p.via = "guardian"
    BY <1>1, <2>1
  <2>3. /\ {s} \in {{"upgradeMainnet"}, {"upgradeFuse"}, {"upgradeCelo"}}
        /\ {s} # {"upgradeMainnet"}
    OBVIOUS
  <2> QED
    BY <2>2, <2>3
<1>4. CASE p \in {Plan("gip25", s, via) : via \in {"safe", "guardian"},
            s \in {{"upgradeCeloStep1", "upgradeCeloFix"}, {"upgradeFuseStep1", "upgradeFuseFix"},
                   {"upgradeEthStep1", "upgradeEthFix"}, {"upgradeXdcFix"}}}
  <2>1. PICK via \in {"safe", "guardian"},
             s \in {{"upgradeCeloStep1", "upgradeCeloFix"}, {"upgradeFuseStep1", "upgradeFuseFix"},
                    {"upgradeEthStep1", "upgradeEthFix"}, {"upgradeXdcFix"}} :
                 p = Plan("gip25", s, via)
    BY <1>4
  <2> QED
    BY <1>1, <2>1
<1>5. CASE p = Plan("minting", {"celoUpgrade"}, "guardian")
  BY <1>1, <1>5
<1> QED
  BY <1>2, <1>3, <1>4, <1>5 DEF Plans

LEMMA PlannedScripts ==
    \A p \in Plans : /\ p.scripts \subseteq Proposed \cup {"celoUpgrade"} /\ None \notin p.scripts
                     /\ "celoUpgrade" \in p.scripts <=> p.era = "minting"
<1> SUFFICES ASSUME NEW p \in Plans
             PROVE  /\ p.scripts \subseteq Proposed \cup {"celoUpgrade"} /\ None \notin p.scripts
                    /\ "celoUpgrade" \in p.scripts <=> p.era = "minting"
  OBVIOUS
<1>1. /\ p.era \in {"v4", "gip25", "minting"}
      /\ p.scripts \in {{"celoUpgrade"}, {"upgradeMainnet"}, {"upgradeFuse"}, {"upgradeCelo"},
                        {"upgradeCeloStep1", "upgradeCeloFix"},
                        {"upgradeFuseStep1", "upgradeFuseFix"},
                        {"upgradeEthStep1", "upgradeEthFix"}, {"upgradeXdcFix"}}
      /\ p.scripts = {"celoUpgrade"} <=> p.era = "minting"
  BY ThePlans
<1> QED
  BY <1>1 DEF Proposed, None

---------------------------------------------------------------------------
(* What people do *)

\* Of two holdings: all but people and bridge agree.
Alike(h, g) == /\ h.avatar = g.avatar /\ h.old = g.old /\ h.mode = g.mode
               /\ h.rights = g.rights /\ h.upgraded = g.upgraded

Moved(h, m, b) == [h EXCEPT !.people = m, !.bridge = b]

LEMMA PeopleChange ==
    ASSUME NEW h \in Hold, NEW m \in Nat, NEW b \in Nat
    PROVE  /\ Moved(h, m, b) \in Hold /\ Alike(Moved(h, m, b), h)
           /\ Moved(h, m, b).people = m /\ Moved(h, m, b).bridge = b
<1> DEFINE k == [h EXCEPT !.people = m]
           g == Moved(h, m, b)
<1>1. g = [k EXCEPT !.bridge = b]
  BY DEF Moved
<1>2. k \in Hold /\ Alike(k, h) /\ k.people = m
  BY DEF Hold, Alike
<1> HIDE DEF k, g
<1>3. g \in Hold /\ g.bridge = b /\ g.people = k.people
  BY <1>1, <1>2 DEF Hold
<1>4. Alike(g, k)
  BY <1>1, <1>2 DEF Hold, Alike
<1> QED
  BY <1>2, <1>3, <1>4 DEF Alike, g

\* Somebody leaves chain c.
LEMMA LeavingDoes ==
    ASSUME Ledgers, NEW c \in Chains, NEW d \in Chains, Leave(c, d)
    PROVE  /\ Ledgers' /\ moves' = moves + 1 /\ InFlight' = InFlight + 1
           /\ \A e \in Chains : Alike(chain'[e], chain[e]) /\ (e # c => chain'[e] = chain[e])
           /\ chain'[c].people = chain[c].people - 1
           /\ chain'[c].bridge = IF chain[c].mode = "lock" THEN chain[c].bridge + 1
                                 ELSE chain[c].bridge
<1> DEFINE h == chain[c]
           b == IF h.mode = "lock" THEN h.bridge + 1 ELSE h.bridge
           g == [h EXCEPT !.people = h.people - 1, !.bridge = b]
<1>1. h \in Hold /\ h.people > 0 /\ c # d /\ grown' = grown /\ moves' = moves + 1
  BY DEF Ledgers, Leave
<1>2. h.people - 1 \in Nat /\ b \in Nat
  BY <1>1 DEF Hold
<1>3. chain' = [chain EXCEPT ![c] = g]
  BY DEF Leave, Ledgers
<1>4. g \in Hold /\ Alike(g, h) /\ g.people = h.people - 1 /\ g.bridge = b
  <2> DEFINE m == h.people - 1
  <2>1. g = Moved(h, m, b)
    BY DEF Moved
  <2>2. h \in Hold /\ m \in Nat /\ b \in Nat
    BY <1>1, <1>2
  <2> HIDE DEF b, h, m, g
  <2>3. g \in Hold /\ Alike(g, h) /\ g.people = m /\ g.bridge = b
    BY <2>1, <2>2, PeopleChange
  <2> QED
    BY <2>3 DEF m
<1>5. chain' \in [Chains -> Hold] /\ chain'[c] = g /\ \A e \in Chains : e # c => chain'[e] = chain[e]
  <2> HIDE DEF g
  <2> QED
    BY <1>3, <1>4 DEF Ledgers
<1>6. flight' \in [Chains -> Nat] /\ InFlight' = InFlight + 1
  <2>1. flight' = [flight EXCEPT ![d] = flight[d] + 1]
    BY DEF Leave, Ledgers
  <2> QED
    BY <2>1 DEF Ledgers, InFlight, TotalOf, Chains
<1>7. Ledgers'
  BY <1>1, <1>5, <1>6 DEF Ledgers
<1>8. \A e \in Chains : Alike(chain'[e], chain[e])
  <2>1. \A e \in Chains : Alike(chain[e], chain[e])
    BY DEF Alike
  <2> HIDE DEF g
  <2> QED
    BY <1>4, <1>5, <2>1
<1> HIDE DEF g
<1> QED
  BY <1>1, <1>4, <1>5, <1>6, <1>7, <1>8

\* Somebody arrives on chain d.
LEMMA ArrivingDoes ==
    ASSUME Ledgers, NEW d \in Chains, Arrive(d)
    PROVE  /\ Ledgers' /\ moves' = moves /\ InFlight' = InFlight - 1
           /\ \A e \in Chains : Alike(chain'[e], chain[e]) /\ (e # d => chain'[e] = chain[e])
           /\ chain'[d].people = chain[d].people + 1
           /\ chain'[d].bridge = IF chain[d].mode = "lock" THEN chain[d].bridge - 1
                                 ELSE chain[d].bridge
<1> DEFINE h == chain[d]
           b == IF h.mode = "lock" THEN h.bridge - 1 ELSE h.bridge
           g == [h EXCEPT !.people = h.people + 1, !.bridge = b]
<1>1. h \in Hold /\ (h.mode = "lock" => h.bridge > 0) /\ grown' = grown /\ moves' = moves
  BY DEF Ledgers, Arrive, Serves
<1>2. h.people + 1 \in Nat /\ b \in Nat
  BY <1>1 DEF Hold
<1>3. chain' = [chain EXCEPT ![d] = g]
  BY DEF Arrive, Ledgers
<1>4. g \in Hold /\ Alike(g, h) /\ g.people = h.people + 1 /\ g.bridge = b
  <2> DEFINE m == h.people + 1
  <2>1. g = Moved(h, m, b)
    BY DEF Moved
  <2>2. h \in Hold /\ m \in Nat /\ b \in Nat
    BY <1>1, <1>2
  <2> HIDE DEF b, h, m, g
  <2>3. g \in Hold /\ Alike(g, h) /\ g.people = m /\ g.bridge = b
    BY <2>1, <2>2, PeopleChange
  <2> QED
    BY <2>3 DEF m
<1>5. chain' \in [Chains -> Hold] /\ chain'[d] = g /\ \A e \in Chains : e # d => chain'[e] = chain[e]
  <2> HIDE DEF g
  <2> QED
    BY <1>3, <1>4 DEF Ledgers
<1>6. flight' \in [Chains -> Nat] /\ InFlight' = InFlight - 1 /\ InFlight' \in Nat
  <2>1. flight' = [flight EXCEPT ![d] = flight[d] - 1] /\ flight[d] > 0
    BY DEF Arrive, Ledgers
  <2> QED
    BY <2>1 DEF Ledgers, InFlight, TotalOf, Chains
<1>7. Ledgers'
  BY <1>1, <1>5, <1>6 DEF Ledgers
<1>8. \A e \in Chains : Alike(chain'[e], chain[e])
  <2>1. \A e \in Chains : Alike(chain[e], chain[e])
    BY DEF Alike
  <2> HIDE DEF g
  <2> QED
    BY <1>4, <1>5, <2>1
<1> HIDE DEF g
<1> QED
  BY <1>1, <1>4, <1>5, <1>6, <1>7, <1>8

\* The reserve of Celo mints.
LEMMA GrowingDoes ==
    ASSUME Ledgers, Grow
    PROVE  /\ Ledgers' /\ moves' = moves /\ InFlight' = InFlight /\ grown = FALSE /\ grown' = TRUE
           /\ "celoUpgrade" \in plan.scripts
           /\ \A e \in Chains : Alike(chain'[e], chain[e]) /\ (e # "celo" => chain'[e] = chain[e])
           /\ chain'["celo"].people = chain["celo"].people + 1
           /\ chain'["celo"].bridge = chain["celo"].bridge
<1> DEFINE h == chain["celo"]
           g == [h EXCEPT !.people = h.people + 1]
<1>1. h \in Hold /\ grown' = TRUE /\ grown = FALSE /\ moves' = moves /\ flight' = flight
      /\ "celoUpgrade" \in plan.scripts /\ "celo" \in Chains
  BY DEF Ledgers, Grow, Chains
<1>2. chain' = [chain EXCEPT !["celo"] = g]
  BY DEF Grow, Ledgers
<1>3. g \in Hold /\ Alike(g, h) /\ g.people = h.people + 1 /\ g.bridge = h.bridge
  BY <1>1 DEF Hold, Alike
<1>4. /\ chain' \in [Chains -> Hold] /\ chain'["celo"] = g
      /\ \A e \in Chains : e # "celo" => chain'[e] = chain[e]
  <2> HIDE DEF g
  <2> QED
    BY <1>1, <1>2, <1>3 DEF Ledgers
<1>5. InFlight' = InFlight
  BY <1>1 DEF InFlight
<1>6. Ledgers'
  BY <1>1, <1>4, <1>5 DEF Ledgers
<1>7. \A e \in Chains : Alike(chain'[e], chain[e])
  <2>1. \A e \in Chains : Alike(chain[e], chain[e])
    BY DEF Alike
  <2> HIDE DEF g
  <2> QED
    BY <1>3, <1>4, <2>1
<1> HIDE DEF g
<1> QED
  BY <1>1, <1>3, <1>4, <1>5, <1>6, <1>7

---------------------------------------------------------------------------
(* What scripts and proposals do *)

LEMMA ChainsOfScripts == \A script : On(script) \in Chains
BY DEF On, Chains

\* What a chain holds is a number, and so is its supply.
LEMMA SuppliesAreNumbers ==
    ASSUME ProposalAssumption, Ledgers
    PROVE  /\ Stolen \in Nat
           /\ \A e \in Chains : /\ chain[e].people \in Nat /\ chain[e].avatar \in Nat
                                /\ chain[e].bridge \in Nat /\ chain[e].old \in Nat
                                /\ Supply(e) \in Nat
           /\ Stolen + chain["mainnet"].bridge + chain["mainnet"].old \in Nat
<1>1. \A e \in Chains : chain[e].people \in Nat /\ chain[e].avatar \in Nat
                        /\ chain[e].bridge \in Nat /\ chain[e].old \in Nat
  BY DEF Ledgers, Hold
<1>2. Stolen \in Nat
  BY DEF ProposalAssumption
<1>3. \A e \in Chains : Supply(e) \in Nat
  BY <1>1, <1>2 DEF Supply
<1>4. Stolen + chain["mainnet"].bridge + chain["mainnet"].old \in Nat
  BY <1>1, <1>2 DEF Chains
<1> QED
  BY <1>1, <1>2, <1>3, <1>4

\* What is read is a number.
LEMMA ReadingsAreNumbers ==
    ASSUME ProposalAssumption, Ledgers, NEW script, NEW i \in 1 .. Len(Reads(script)),
           script \in Proposed \cup {"celoUpgrade"}, NEW c \in Chains
    PROVE  ReadingOf(Reads(script)[i], c) \in Nat
<1>1. /\ Stolen \in Nat
      /\ \A e \in Chains : /\ chain[e].people \in Nat /\ chain[e].avatar \in Nat
                           /\ chain[e].bridge \in Nat /\ chain[e].old \in Nat
                           /\ Supply(e) \in Nat
      /\ Stolen + chain["mainnet"].bridge + chain["mainnet"].old \in Nat
  BY SuppliesAreNumbers
<1>4. {"mainnet", "fuse", "celo", "xdc"} \subseteq Chains
  BY DEF Chains
<1>5. Reads(script)[i] \in {"ForeignBridge", "MpbBridge", "Avatar", "locked", "LOCKED_ACCOUNTS"}
                           \cup {"mainnet", "fuse", "celo", "xdc"}
  <2>1. CASE script = "upgradeMainnet"
    BY <2>1, WhatIsRead
  <2>2. CASE script = "upgradeCelo"
    BY <2>2, WhatIsRead
  <2>3. CASE script = "upgradeCeloStep1"
    BY <2>3, WhatIsRead
  <2>4. CASE script = "upgradeCeloFix"
    BY <2>4, WhatIsRead
  <2>5. CASE script = "celoUpgrade"
    BY <2>5, WhatIsRead
  <2>6. CASE script \in {"upgradeFuse", "upgradeFuseStep1", "upgradeEthStep1", "upgradeXdcFix",
                         "upgradeFuseFix", "upgradeEthFix"}
    BY <2>6, WhatIsRead
  <2> QED
    BY <2>1, <2>2, <2>3, <2>4, <2>5, <2>6 DEF Proposed
<1>6. CASE Reads(script)[i] \in {"ForeignBridge", "MpbBridge", "Avatar", "locked", "LOCKED_ACCOUNTS"}
  <2> DEFINE what == Reads(script)[i]
  <2>1. /\ what = "ForeignBridge" => ReadingOf(what, c) = chain[c].old
        /\ what = "MpbBridge" => ReadingOf(what, c) = chain[c].bridge
        /\ what = "Avatar" => ReadingOf(what, c) = chain[c].avatar
        /\ what = "locked" =>
               ReadingOf(what, c) = Stolen + chain["mainnet"].bridge + chain["mainnet"].old
        /\ what = "LOCKED_ACCOUNTS" => ReadingOf(what, c) = Stolen
    BY DEF ReadingOf
  <2> QED
    BY <1>1, <1>6, <2>1
<1>7. CASE Reads(script)[i] \in {"mainnet", "fuse", "celo", "xdc"}
  BY <1>1, <1>4, <1>7 DEF ReadingOf
<1> QED
  BY <1>5, <1>6, <1>7

\* The script that sends its calls has read what they are made of.
LEMMA CallsAreMade ==
    ASSUME ProposalTypes, HasRead, task # "celoUpgrade"
    PROVE  /\ task \in Proposed /\ reading \in Readings(task) /\ Len(Calls) \in Nat
           /\ \A i \in 1 .. Len(Calls) : Sound(Calls[i])
<1>1. task \in plan.scripts /\ task # None
  BY DEF ProposalTypes, TaskTypes, HasRead
<1>2. plan \in Plans
  BY DEF ProposalTypes
<1>3. task \in Proposed
  BY <1>1, <1>2, PlannedScripts
<1>4. reading \in Readings(task)
  BY DEF ProposalTypes, TaskTypes, HasRead, Readings
<1> QED
  BY <1>3, <1>4, CallsAreSound DEF Calls

\* It sends one of them.
LEMMA SendingDoes ==
    ASSUME ProposalTypes, SendGenericCall
    PROVE  /\ task \in Proposed /\ plan.via = "guardian" /\ call_at \in 1 .. Len(Calls)
           /\ reading \in Readings(task)
           /\ Sound(Calls[call_at]) /\ Here \in Hold
           /\ chain' \in [Chains -> Hold] /\ chain'[On(task)] = After(Here, Calls[call_at])
           /\ \A c \in Chains : c # On(task) => chain'[c] = chain[c]
           /\ failed' = (failed \/ Fails(Here, Calls[call_at])) /\ call_at' = call_at + 1
           /\ Ledgers'
<1>1. HasRead /\ task # "celoUpgrade" /\ plan.via = "guardian" /\ call_at <= Len(Calls)
      /\ chain' = [chain EXCEPT ![On(task)] = After(Here, Calls[call_at])]
      /\ failed' = (failed \/ Fails(Here, Calls[call_at])) /\ call_at' = call_at + 1
      /\ flight' = flight /\ moves' = moves /\ grown' = grown
  BY DEF SendGenericCall, Calling
<1>2. /\ task \in Proposed /\ Len(Calls) \in Nat /\ \A i \in 1 .. Len(Calls) : Sound(Calls[i])
      /\ reading \in Readings(task)
  BY <1>1, CallsAreMade
<1>3. call_at \in 1 .. Len(Calls)
  BY <1>1, <1>2 DEF ProposalTypes, TaskTypes
<1>4. On(task) \in Chains /\ Here \in Hold
  BY ChainsOfScripts DEF Here, ProposalTypes, Ledgers
<1>5. Sound(Calls[call_at])
  BY <1>2, <1>3
<1>6. After(Here, Calls[call_at]) \in Hold
  BY <1>4, <1>5, CallsKeepTypes
<1>7. /\ chain' \in [Chains -> Hold] /\ chain'[On(task)] = After(Here, Calls[call_at])
      /\ \A c \in Chains : c # On(task) => chain'[c] = chain[c]
  BY <1>1, <1>4, <1>6 DEF ProposalTypes, Ledgers
<1>8. InFlight' = InFlight
  BY <1>1 DEF InFlight
<1>9. Ledgers'
  BY <1>1, <1>7, <1>8 DEF ProposalTypes, Ledgers
<1> QED
  BY <1>1, <1>2, <1>3, <1>4, <1>5, <1>7, <1>9

\* The owners of the Safe execute a proposal.
LEMMA ExecutingDoes ==
    ASSUME ProposalTypes, NEW p \in queue, execTransaction(p)
    PROVE  /\ Len(p.calls) \in Nat /\ \A i \in 1 .. Len(p.calls) : Sound(p.calls[i])
           /\ \A i \in 0 .. Len(p.calls) : Called(p)[i].h \in Hold /\ Called(p)[i].failed \in BOOLEAN
           /\ chain' \in [Chains -> Hold] /\ chain'[On(p.script)] = Called(p)[Len(p.calls)].h
           /\ \A c \in Chains : c # On(p.script) => chain'[c] = chain[c]
           /\ nonce' = nonce + 1 /\ p.nonce = nonce /\ Ledgers'
           /\ done' = Append(done, Record(p.script, p.since, Called(p)[Len(p.calls)].failed,
                                          p.overtaken))
           /\ Record(p.script, p.since, Called(p)[Len(p.calls)].failed, p.overtaken) \in Outcome
<1>1. Entry(p)
  BY DEF ProposalTypes
<1>2. PICK r \in Readings(p.script) : p.calls = proposalActions(p.script, r)
  BY <1>1 DEF Entry
<1>3. Len(p.calls) \in Nat /\ \A i \in 1 .. Len(p.calls) : Sound(p.calls[i])
  BY <1>1, <1>2, CallsAreSound DEF Entry
<1>4. /\ Called(p)[0] = Begun(p)
      /\ \A n \in 1 .. Len(p.calls) : Called(p)[n] = Then(Called(p)[n - 1], p.calls[n])
  BY <1>3, CalledIs
<1> DEFINE T == {n \in Nat : n <= Len(p.calls) =>
                                 Called(p)[n].h \in Hold /\ Called(p)[n].failed \in BOOLEAN}
<1>5. On(p.script) \in Chains /\ chain[On(p.script)] \in Hold
  BY ChainsOfScripts DEF ProposalTypes, Ledgers
<1>6. 0 \in T
  <2>1. Begun(p).h = chain[On(p.script)] /\ Begun(p).failed = FALSE
    BY DEF Begun
  <2> QED
    BY <1>4, <1>5, <2>1
<1>7. ASSUME NEW n \in Nat, n \in T PROVE n + 1 \in T
  <2>1. SUFFICES ASSUME n + 1 <= Len(p.calls)
                 PROVE  Called(p)[n + 1].h \in Hold /\ Called(p)[n + 1].failed \in BOOLEAN
    OBVIOUS
  <2>2. n + 1 \in 1 .. Len(p.calls) /\ (n + 1) - 1 = n /\ n <= Len(p.calls)
    BY <1>3, <2>1
  <2>3. Called(p)[n + 1] = Then(Called(p)[n], p.calls[n + 1]) /\ Sound(p.calls[n + 1])
    BY <1>3, <1>4, <2>2
  <2>4. Called(p)[n].h \in Hold
    BY <1>7, <2>2
  <2>5. After(Called(p)[n].h, p.calls[n + 1]) \in Hold
    BY <2>3, <2>4, CallsKeepTypes
  <2> QED
    BY <2>3, <2>5 DEF Then
<1>8. Nat \subseteq T
  <2> HIDE DEF T
  <2> QED
    BY <1>6, <1>7, Induction
<1>9. \A i \in 0 .. Len(p.calls) : Called(p)[i].h \in Hold /\ Called(p)[i].failed \in BOOLEAN
  BY <1>3, <1>8
<1> HIDE DEF T
<1>10. PICK end : end = Called(p)[Len(p.calls)]
  OBVIOUS
<1>11. end.h \in Hold /\ end.failed \in BOOLEAN
  BY <1>3, <1>9, <1>10
<1>12. /\ chain' = [chain EXCEPT ![On(p.script)] = end.h]
       /\ nonce' = nonce + 1 /\ p.nonce = nonce
       /\ flight' = flight /\ moves' = moves /\ grown' = grown
       /\ done' = Append(done, Record(p.script, p.since, end.failed, p.overtaken))
  BY <1>10 DEF execTransaction
<1>13. /\ chain' \in [Chains -> Hold] /\ chain'[On(p.script)] = end.h
       /\ \A c \in Chains : c # On(p.script) => chain'[c] = chain[c]
  BY <1>5, <1>11, <1>12 DEF ProposalTypes, Ledgers
<1>14. InFlight' = InFlight
  BY <1>12 DEF InFlight
<1>15. Ledgers'
  BY <1>12, <1>13, <1>14 DEF ProposalTypes, Ledgers
<1>16. Record(p.script, p.since, end.failed, p.overtaken) \in Outcome
  BY <1>1, <1>11 DEF Record, Outcome, Entry, Drift, Beginnings, ProposalTypes, Ledgers
<1> QED
  BY <1>3, <1>9, <1>10, <1>12, <1>13, <1>15, <1>16

---------------------------------------------------------------------------
(* The types are kept *)

\* What a chain holds before its era.
LEMMA HoldingsBefore ==
    ASSUME ProposalAssumption, NEW era, NEW c \in Chains
    PROVE  Before(era, c) \in Hold
<1>1. People \in [Chains -> Nat] /\ Own \in Nat /\ {"mainnet", "fuse", "celo", "xdc"} \subseteq Chains
  BY DEF ProposalAssumption, Chains
<1>2. \A n, a, b, o \in Nat : \A m \in Modes : \A r \in SUBSET Modes :
          Holding(n, a, b, o, m, r) \in Hold
  BY DEF Holding, Hold
<1>3. /\ 0 \in Nat /\ People[c] \in Nat /\ People["celo"] \in Nat /\ People["fuse"] \in Nat
      /\ People["mainnet"] + People["fuse"] + People["xdc"] \in Nat
      /\ Modes = {"lock", "wrapper", "scheme"}
      /\ {} \in SUBSET Modes /\ {"wrapper"} \in SUBSET Modes /\ {"scheme"} \in SUBSET Modes
  BY <1>1 DEF Modes
<1>4. Before(era, c) \in
          {Holding(People[c], Own, People["celo"], People["fuse"], "lock", {}),
           Holding(People[c], 0, 0, 0, "wrapper", {"wrapper"}),
           Holding(People[c], Own, People["mainnet"] + People["fuse"] + People["xdc"], 0, "lock", {}),
           Holding(0, 0, 0, 0, "scheme", {"scheme"}),
           Holding(People[c], 0, 0, 0, "scheme", {"scheme"})}
  BY DEF Before, Chains
<1>5. /\ Holding(People[c], Own, People["celo"], People["fuse"], "lock", {}) \in Hold
      /\ Holding(People[c], 0, 0, 0, "wrapper", {"wrapper"}) \in Hold
  BY <1>1, <1>2, <1>3
<1>6. Holding(People[c], Own, People["mainnet"] + People["fuse"] + People["xdc"], 0, "lock", {}) \in Hold
  <2>1. PICK n \in Nat : n = People["mainnet"] + People["fuse"] + People["xdc"]
    BY <1>3
  <2> QED
    BY <1>1, <1>2, <1>3, <2>1
<1>7. /\ Holding(0, 0, 0, 0, "scheme", {"scheme"}) \in Hold
      /\ Holding(People[c], 0, 0, 0, "scheme", {"scheme"}) \in Hold
  BY <1>2, <1>3
<1> QED
  BY <1>4, <1>5, <1>6, <1>7

LEMMA TypesBegin ==
    ASSUME ProposalAssumption, ProposalInit(Plans)
    PROVE  ProposalTypes
<1>1. Ledgers
  <2>1. chain \in [Chains -> Hold]
    BY HoldingsBefore DEF ProposalInit
  <2>2. InFlight = 0 /\ flight \in [Chains -> Nat]
    BY DEF ProposalInit, InFlight, TotalOf, Chains
  <2>3. moves = 0 /\ grown = FALSE
    BY DEF ProposalInit
  <2>4. grown \in BOOLEAN
    BY <2>3, Zenon
  <2> QED
    BY <2>1, <2>2, <2>3, <2>4 DEF Ledgers
<1>2. TaskTypes
  <2>1. task = None /\ reading = << >> /\ since = Beginning /\ call_at = 1 /\ failed = FALSE
    BY DEF ProposalInit
  <2>2. Beginning \in Beginnings
    BY DEF Beginning, Beginnings
  <2>3. failed \in BOOLEAN
    BY <2>1, Zenon
  <2>4. reading \in Seq(Nat)
    BY <2>1
  <2> QED
    BY <2>1, <2>2, <2>3, <2>4 DEF TaskTypes
<1> QED
  BY <1>1, <1>2 DEF ProposalInit, ProposalTypes

\* The script stops.
LEMMA StoppingTypes ==
    ASSUME Stop
    PROVE  TaskTypes'
<1>1. /\ task' = None /\ reading' = << >> /\ since' = Beginning /\ call_at' = 1
      /\ failed' = FALSE
  BY DEF Stop
<1>2. Beginning \in Beginnings
  BY DEF Beginning, Beginnings
<1>3. failed' \in BOOLEAN
  BY <1>1, Zenon
<1>4. reading' \in Seq(Nat)
  BY <1>1
<1> QED
  BY <1>1, <1>2, <1>3, <1>4 DEF TaskTypes

LEMMA TypesAreKept ==
    ASSUME ProposalAssumption, ProposalTypes, [ProposalNext]_proposal_vars
    PROVE  ProposalTypes' /\ plan' = plan
<1> USE DEF ProposalTypes
<1>1. \A p \in queue : plan' = plan => Entry(p)'
  BY DEF Entry
<1>2. ASSUME NEW c \in Chains, NEW d \in Chains, Leave(c, d) PROVE ProposalTypes' /\ plan' = plan
  <2>1. Ledgers'
    BY <1>2, LeavingDoes
  <2>2. UNCHANGED << plan, run_vars, safe_vars, done >>
    BY <1>2 DEF Leave
  <2> QED
    BY <1>1, <2>1, <2>2 DEF run_vars, safe_vars, TaskTypes
<1>3. ASSUME NEW d \in Chains, Arrive(d) PROVE ProposalTypes' /\ plan' = plan
  <2>1. Ledgers'
    BY <1>3, ArrivingDoes
  <2>2. UNCHANGED << plan, run_vars, safe_vars, done >>
    BY <1>3 DEF Arrive
  <2> QED
    BY <1>1, <2>1, <2>2 DEF run_vars, safe_vars, TaskTypes
<1>4. CASE Grow
  <2>1. Ledgers'
    BY <1>4, GrowingDoes
  <2>2. UNCHANGED << plan, run_vars, safe_vars, done >>
    BY <1>4 DEF Grow
  <2> QED
    BY <1>1, <2>1, <2>2 DEF run_vars, safe_vars, TaskTypes
<1>5. ASSUME UNCHANGED << user_vars >> PROVE Ledgers'
  BY <1>5 DEF Ledgers, user_vars, InFlight
<1>6. ASSUME NEW script \in plan.scripts, StartScript(script) PROVE ProposalTypes' /\ plan' = plan
  <2>1. /\ task = None /\ task' = script /\ since' = [moves |-> moves - InFlight, nonce |-> nonce]
        /\ UNCHANGED << user_vars, plan, reading, call_at, failed, safe_vars, done >>
    BY <1>6 DEF StartScript
  <2>2. moves - InFlight \in Nat /\ nonce \in Nat
    BY DEF Ledgers
  <2>3. since' \in Beginnings
    BY <2>1, <2>2 DEF Beginnings
  <2>4. plan \in Plans /\ script # None
    BY PlannedScripts
  <2>5. reading = << >> /\ call_at = 1 /\ failed = FALSE
    BY <2>1 DEF TaskTypes
  <2> QED
    BY <1>1, <1>5, <2>1, <2>3, <2>4 DEF TaskTypes, safe_vars
<1>7. CASE ReadOne
  <2>1. /\ task # None /\ Len(reading) # Len(Reads(task))
        /\ reading' = Append(reading, ReadingOf(Reads(task)[Len(reading) + 1], On(task)))
        /\ UNCHANGED << user_vars, plan, task, since, call_at, failed, safe_vars, done >>
    BY <1>7 DEF ReadOne, HasRead
  <2>2. task \in plan.scripts /\ reading \in Seq(Nat) /\ Len(reading) <= Len(Reads(task))
    BY <2>1 DEF TaskTypes
  <2>3. task \in Proposed \cup {"celoUpgrade"}
    BY <2>2, PlannedScripts
  <2>4. Len(Reads(task)) \in Nat
    BY <2>3, WhatIsRead DEF Proposed
  <2>5. Len(reading) + 1 \in 1 .. Len(Reads(task))
    BY <2>1, <2>2, <2>4
  <2>6. ReadingOf(Reads(task)[Len(reading) + 1], On(task)) \in Nat
    BY <2>3, <2>5, ReadingsAreNumbers, ChainsOfScripts
  <2>7. reading' \in Seq(Nat) /\ Len(reading') = Len(reading) + 1
    BY <2>1, <2>2, <2>6
  <2>8. Len(reading') <= Len(Reads(task))
    BY <2>5, <2>7
  <2> QED
    BY <1>1, <1>5, <2>1, <2>2, <2>7, <2>8 DEF TaskTypes, safe_vars
<1>8. CASE executeViaSafe
  <2>1. /\ HasRead /\ task # "celoUpgrade" /\ Stop
        /\ UNCHANGED << user_vars, plan, nonce, done >>
        /\ queue' = queue \cup {[script |-> task, nonce |-> NonceOf(task), since |-> since,
                                 overtaken |-> nonce # since.nonce,
                                 calls |-> proposalActions(task, reading)]}
    BY <1>8 DEF executeViaSafe
  <2>2. task \in Proposed /\ reading \in Readings(task) /\ task \in plan.scripts
    BY <2>1, CallsAreMade DEF TaskTypes, HasRead
  <2>3. NonceOf(task) \in Nat /\ (nonce # since.nonce) \in BOOLEAN
    BY DEF NonceOf
  <2>4. \A p : p = [script |-> task, nonce |-> NonceOf(task), since |-> since,
                    overtaken |-> nonce # since.nonce,
                    calls |-> proposalActions(task, reading)] => Entry(p)
    BY <2>2, <2>3 DEF Entry, TaskTypes
  <2>5. \A p \in queue' : Entry(p)
    BY <2>1, <2>4
  <2>6. \A p \in queue' : Entry(p)'
    BY <2>1, <2>5 DEF Entry
  <2> QED
    BY <1>5, <2>1, <2>6, StoppingTypes
<1>9. CASE Simulate
  BY <1>1, <1>5, <1>9 DEF Simulate, TaskTypes, safe_vars
<1>10. CASE SimulationFailed
  BY <1>1, <1>5, <1>10, StoppingTypes DEF SimulationFailed, safe_vars
<1>11. CASE SendGenericCall
  <2>1. Ledgers' /\ plan.via = "guardian" /\ call_at' = call_at + 1
        /\ failed' = (failed \/ Fails(Here, Calls[call_at]))
    BY <1>11, SendingDoes
  <2>2. UNCHANGED << plan, task, reading, since, safe_vars, done >> /\ task # None
    BY <1>11 DEF SendGenericCall, Calling, HasRead
  <2> QED
    BY <1>1, <2>1, <2>2 DEF TaskTypes, safe_vars
<1>12. CASE Executed
  <2>1. /\ Calling /\ Stop /\ UNCHANGED << user_vars, plan, safe_vars >>
        /\ done' = Append(done, Record(task, since, failed, FALSE))
    BY <1>12 DEF Executed
  <2>2. task \in Proposed
    BY <2>1, CallsAreMade DEF Calling
  <2>3. Drift(since) \in Int /\ failed \in BOOLEAN
    BY DEF TaskTypes, Beginnings, Drift, Ledgers
  <2>4. Record(task, since, failed, FALSE) \in Outcome
    BY <2>2, <2>3 DEF Record, Outcome
  <2> DEFINE ended == Record(task, since, failed, FALSE)
  <2>5. done' \in Seq(Outcome)
    <3>1. done' = Append(done, ended) /\ ended \in Outcome
      BY <2>1, <2>4
    <3> HIDE DEF ended
    <3> QED
      BY <3>1
  <2>6. TaskTypes' /\ Ledgers'
    BY <1>5, <2>1, StoppingTypes
  <2> QED
    BY <1>1, <2>1, <2>5, <2>6 DEF safe_vars
<1>13. CASE celoUpgrade
  BY <1>1, <1>5, <1>13, StoppingTypes DEF celoUpgrade, safe_vars
<1>14. CASE ScriptDies
  BY <1>1, <1>5, <1>14, StoppingTypes DEF ScriptDies, safe_vars
<1>15. ASSUME NEW p \in queue, execTransaction(p) PROVE ProposalTypes' /\ plan' = plan
  <2>1. Ledgers' /\ nonce' = nonce + 1
        /\ done' = Append(done, Record(p.script, p.since, Called(p)[Len(p.calls)].failed,
                                       p.overtaken))
        /\ Record(p.script, p.since, Called(p)[Len(p.calls)].failed, p.overtaken) \in Outcome
    BY <1>15, ExecutingDoes
  <2>2. UNCHANGED << plan, run_vars, queue >>
    BY <1>15 DEF execTransaction
  <2> QED
    BY <1>1, <2>1, <2>2 DEF TaskTypes, run_vars
<1>16. CASE UNCHANGED proposal_vars
  BY <1>1, <1>5, <1>16 DEF proposal_vars, run_vars, safe_vars, TaskTypes
<1> QED
  BY <1>2, <1>3, <1>4, <1>6, <1>7, <1>8, <1>9, <1>10, <1>11, <1>12, <1>13, <1>14, <1>15, <1>16
     DEF ProposalNext, Run

---------------------------------------------------------------------------
(* What a whole proposal does *)

\* One call of it.
LEMMA OneCall ==
    ASSUME ProposalTypes, NEW p \in queue, execTransaction(p)
    PROVE  /\ Called(p)[0] = Begun(p)
           /\ \A n \in 1 .. Len(p.calls) :
                  /\ Called(p)[n - 1].h \in Hold /\ Called(p)[n].h \in Hold
                  /\ Does(Called(p)[n - 1].h, p.calls[n], Called(p)[n].h)
                  /\ Called(p)[n].failed
                         = (Called(p)[n - 1].failed \/ Fails(Called(p)[n - 1].h, p.calls[n]))
<1>1. /\ Len(p.calls) \in Nat /\ \A i \in 1 .. Len(p.calls) : Sound(p.calls[i])
      /\ \A i \in 0 .. Len(p.calls) : Called(p)[i].h \in Hold
  BY ExecutingDoes
<1>2. /\ Called(p)[0] = Begun(p)
      /\ \A n \in 1 .. Len(p.calls) : Called(p)[n] = Then(Called(p)[n - 1], p.calls[n])
  BY <1>1, CalledIs
<1>3. ASSUME NEW n \in 1 .. Len(p.calls)
      PROVE  /\ Called(p)[n - 1].h \in Hold /\ Called(p)[n].h \in Hold
             /\ Does(Called(p)[n - 1].h, p.calls[n], Called(p)[n].h)
             /\ Called(p)[n].failed
                    = (Called(p)[n - 1].failed \/ Fails(Called(p)[n - 1].h, p.calls[n]))
  <2>1. Called(p)[n - 1].h \in Hold /\ Called(p)[n].h \in Hold /\ Sound(p.calls[n])
    BY <1>1
  <2>2. Called(p)[n] = Then(Called(p)[n - 1], p.calls[n])
    BY <1>2
  <2>3. Does(Called(p)[n - 1].h, p.calls[n], After(Called(p)[n - 1].h, p.calls[n]))
    BY <2>1, CallsDo
  <2> QED
    BY <2>1, <2>2, <2>3 DEF Then
<1> QED
  BY <1>2, <1>3

\* A step that only sets something.
LEMMA SettingDoes ==
    ASSUME ProposalTypes, NEW p \in queue, execTransaction(p), NEW n \in 1 .. Len(p.calls),
           p.calls[n].do = "set"
    PROVE  /\ Called(p)[n].h = Called(p)[n - 1].h
           /\ Called(p)[n].failed <=> Called(p)[n - 1].failed
<1>1. /\ Does(Called(p)[n - 1].h, p.calls[n], Called(p)[n].h)
      /\ Called(p)[n].failed
             = (Called(p)[n - 1].failed \/ Fails(Called(p)[n - 1].h, p.calls[n]))
  BY OneCall
<1> QED
  BY <1>1 DEF Does

LEMMA SettingIs == \A name : set(name).do = "set"
BY DEF set, call

\* upgradeMainnet: what the bridges held is burned, as far as it was read.
LEMMA MainnetProposalDoes ==
    ASSUME ProposalTypes, NEW p \in queue, execTransaction(p), p.script = "upgradeMainnet",
           NEW r \in Readings("upgradeMainnet"), p.calls = upgradeMainnet(r),
           NEW all, all = chain["mainnet"].avatar + chain["mainnet"].old + chain["mainnet"].bridge
    PROVE  /\ chain'["mainnet"].mode = "scheme" /\ chain'["mainnet"].bridge = 0
           /\ chain'["mainnet"].old = 0
           /\ chain'["mainnet"].avatar = IF all >= r[1] + r[2] THEN all - (r[1] + r[2]) ELSE all
           /\ Called(p)[Len(p.calls)].failed <=> all < r[1] + r[2]
<1> DEFINE e(n) == Called(p)[n]
<1>1. /\ Len(p.calls) = 13
      /\ p.calls[1] = set("StakersDistribution") /\ p.calls[2] = set("GoodReserveCDai")
      /\ p.calls[3] = set("upgrades") /\ p.calls[4] = set("StakingContractsV3")
      /\ p.calls[5] = set("ForeignBridge") /\ p.calls[6] = claimTokens
      /\ p.calls[7] = set("addBlacklisted") /\ p.calls[8] = upgradeTo("scheme")
      /\ p.calls[9] = withdraw /\ p.calls[10] = burnLocked(r[1] + r[2])
      /\ p.calls[11] = registerScheme /\ p.calls[12] = set("DistributionHelper")
      /\ p.calls[13] = set("grantRole")
  BY DEF upgradeMainnet
<1>2. ASSUME NEW n \in 1 .. 13
      PROVE  /\ e(n - 1).h \in Hold /\ Does(e(n - 1).h, p.calls[n], e(n).h)
             /\ e(n).failed = (e(n - 1).failed \/ Fails(e(n - 1).h, p.calls[n]))
  BY <1>1, OneCall
<1>3. On(p.script) = "mainnet" /\ e(0) = Begun(p) /\ e(0).h = chain["mainnet"] /\ ~e(0).failed
  BY OneCall DEF On, Begun
<1>4. ASSUME NEW n \in 1 .. 13, p.calls[n].do = "set"
      PROVE  e(n).h = e(n - 1).h /\ (e(n).failed <=> e(n - 1).failed)
  BY <1>1, <1>4, SettingDoes
<1> HIDE DEF e
<1>5. e(5).h = chain["mainnet"] /\ ~e(5).failed
  <2>1. e(1).h = e(0).h /\ (e(1).failed <=> e(0).failed)
    BY <1>1, <1>4, SettingIs
  <2>2. e(2).h = e(1).h /\ (e(2).failed <=> e(1).failed)
    BY <1>1, <1>4, SettingIs
  <2>3. e(3).h = e(2).h /\ (e(3).failed <=> e(2).failed)
    BY <1>1, <1>4, SettingIs
  <2>4. e(4).h = e(3).h /\ (e(4).failed <=> e(3).failed)
    BY <1>1, <1>4, SettingIs
  <2>5. e(5).h = e(4).h /\ (e(5).failed <=> e(4).failed)
    BY <1>1, <1>4, SettingIs
  <2> QED
    BY <1>3, <2>1, <2>2, <2>3, <2>4, <2>5
<1>6. /\ e(6).h.avatar = chain["mainnet"].avatar + chain["mainnet"].old
      /\ e(6).h.old = 0 /\ e(6).h.bridge = chain["mainnet"].bridge /\ ~e(6).failed
  <2>1. Does(e(5).h, claimTokens, e(6).h) /\ e(6).failed = (e(5).failed \/ Fails(e(5).h, claimTokens))
    BY <1>1, <1>2
  <2> QED
    BY <1>5, <2>1 DEF Does, claimTokens, call
<1>7. e(7).h = e(6).h /\ (e(7).failed <=> e(6).failed)
  BY <1>1, <1>4, SettingIs
<1>8. /\ e(8).h.avatar = e(6).h.avatar /\ e(8).h.old = 0 /\ e(8).h.bridge = e(6).h.bridge
      /\ ~e(8).failed /\ e(8).h.mode = "scheme"
  <2>1. /\ Does(e(7).h, upgradeTo("scheme"), e(8).h)
        /\ e(8).failed = (e(7).failed \/ Fails(e(7).h, upgradeTo("scheme")))
    BY <1>1, <1>2
  <2> QED
    BY <1>6, <1>7, <2>1 DEF Does, upgradeTo, call, Upgrading
<1>9. /\ e(9).h.avatar = all /\ e(9).h.old = 0 /\ e(9).h.bridge = 0
      /\ ~e(9).failed /\ e(9).h.mode = "scheme"
  <2>1. /\ Does(e(8).h, withdraw, e(9).h)
        /\ e(9).failed = (e(8).failed \/ Fails(e(8).h, withdraw))
    BY <1>1, <1>2
  <2> QED
    BY <1>6, <1>8, <2>1 DEF Does, withdraw, call, Upgrading
<1>10. /\ e(10).h.avatar = IF all >= r[1] + r[2] THEN all - (r[1] + r[2]) ELSE all
       /\ e(10).h.old = 0 /\ e(10).h.bridge = 0
       /\ (e(10).failed <=> all < r[1] + r[2]) /\ e(10).h.mode = "scheme"
  <2>1. /\ Does(e(9).h, burnLocked(r[1] + r[2]), e(10).h)
        /\ e(10).failed = (e(9).failed \/ Fails(e(9).h, burnLocked(r[1] + r[2])))
    BY <1>1, <1>2
  <2>2. Fails(e(9).h, burnLocked(r[1] + r[2])) <=> all < r[1] + r[2]
    BY <1>9 DEF Fails, burnLocked, amount
  <2> QED
    BY <1>9, <2>1, <2>2 DEF Does, burnLocked, amount, Upgrading
<1>11. /\ e(11).h.avatar = e(10).h.avatar /\ e(11).h.old = 0 /\ e(11).h.bridge = 0
       /\ (e(11).failed <=> e(10).failed) /\ e(11).h.mode = "scheme"
  <2>1. /\ Does(e(10).h, registerScheme, e(11).h)
        /\ e(11).failed = (e(10).failed \/ Fails(e(10).h, registerScheme))
    BY <1>1, <1>2
  <2> QED
    BY <1>10, <2>1 DEF Does, registerScheme, call, Upgrading
<1>12. e(12).h = e(11).h /\ (e(12).failed <=> e(11).failed)
  BY <1>1, <1>4, SettingIs
<1>13. e(13).h = e(12).h /\ (e(13).failed <=> e(12).failed)
  BY <1>1, <1>4, SettingIs
<1>14. chain'["mainnet"] = e(13).h
  BY <1>1, <1>3, ExecutingDoes DEF e
<1>15. Called(p)[Len(p.calls)].failed <=> e(13).failed
  BY <1>1 DEF e
<1> QED
  BY <1>10, <1>11, <1>12, <1>13, <1>14, <1>15

\* upgradeCeloStep1: what the bridge holds and what the Avatar was read to
\* hold is burned, as far as it was read.
LEMMA StepOneProposalDoes ==
    ASSUME ProposalTypes, NEW p \in queue, execTransaction(p), p.script = "upgradeCeloStep1",
           NEW r \in Readings("upgradeCeloStep1"), p.calls = upgradeCeloStep1(r),
           NEW all, all = chain["celo"].avatar + chain["celo"].bridge
    PROVE  /\ chain'["celo"].mode = "scheme" /\ chain'["celo"].bridge = 0
           /\ "scheme" \in chain'["celo"].rights
           /\ chain'["celo"].avatar = IF all >= r[1] + r[2] THEN all - (r[1] + r[2]) ELSE all
           /\ Called(p)[Len(p.calls)].failed <=> all < r[1] + r[2]
<1> DEFINE e(n) == Called(p)[n]
<1>1. /\ Len(p.calls) = 7
      /\ p.calls[1] = set("UBIScheme") /\ p.calls[2] = set("Identity")
      /\ p.calls[3] = upgradeToAndCall /\ p.calls[4] = set("setConfig")
      /\ p.calls[5] = withdraw /\ p.calls[6] = burnLocked(r[1] + r[2])
      /\ p.calls[7] = registerScheme
  BY DEF upgradeCeloStep1
<1>2. ASSUME NEW n \in 1 .. 7
      PROVE  /\ e(n - 1).h \in Hold /\ Does(e(n - 1).h, p.calls[n], e(n).h)
             /\ e(n).failed = (e(n - 1).failed \/ Fails(e(n - 1).h, p.calls[n]))
  BY <1>1, OneCall
<1>3. On(p.script) = "celo" /\ e(0) = Begun(p) /\ e(0).h = chain["celo"] /\ ~e(0).failed
  BY OneCall DEF On, Begun
<1>4. ASSUME NEW n \in 1 .. 7, p.calls[n].do = "set"
      PROVE  e(n).h = e(n - 1).h /\ (e(n).failed <=> e(n - 1).failed)
  BY <1>1, <1>4, SettingDoes
<1> HIDE DEF e
<1>5. e(2).h = chain["celo"] /\ ~e(2).failed
  <2>1. e(1).h = e(0).h /\ (e(1).failed <=> e(0).failed)
    BY <1>1, <1>4, SettingIs
  <2>2. e(2).h = e(1).h /\ (e(2).failed <=> e(1).failed)
    BY <1>1, <1>4, SettingIs
  <2> QED
    BY <1>3, <2>1, <2>2
<1>6. /\ e(3).h.avatar = chain["celo"].avatar /\ e(3).h.bridge = chain["celo"].bridge
      /\ ~e(3).failed /\ e(3).h.mode = "scheme"
  <2>1. /\ Does(e(2).h, upgradeToAndCall, e(3).h)
        /\ e(3).failed = (e(2).failed \/ Fails(e(2).h, upgradeToAndCall))
    BY <1>1, <1>2
  <2> QED
    BY <1>5, <2>1 DEF Does, upgradeToAndCall, call, Upgrading
<1>7. e(4).h = e(3).h /\ (e(4).failed <=> e(3).failed)
  BY <1>1, <1>4, SettingIs
<1>8. e(5).h.avatar = all /\ e(5).h.bridge = 0 /\ ~e(5).failed /\ e(5).h.mode = "scheme"
  <2>1. /\ Does(e(4).h, withdraw, e(5).h)
        /\ e(5).failed = (e(4).failed \/ Fails(e(4).h, withdraw))
    BY <1>1, <1>2
  <2> QED
    BY <1>6, <1>7, <2>1 DEF Does, withdraw, call, Upgrading
<1>9. /\ e(6).h.avatar = IF all >= r[1] + r[2] THEN all - (r[1] + r[2]) ELSE all
      /\ e(6).h.bridge = 0
      /\ (e(6).failed <=> all < r[1] + r[2]) /\ e(6).h.mode = "scheme"
  <2>1. /\ Does(e(5).h, burnLocked(r[1] + r[2]), e(6).h)
        /\ e(6).failed = (e(5).failed \/ Fails(e(5).h, burnLocked(r[1] + r[2])))
    BY <1>1, <1>2
  <2>2. Fails(e(5).h, burnLocked(r[1] + r[2])) <=> all < r[1] + r[2]
    BY <1>8 DEF Fails, burnLocked, amount
  <2> QED
    BY <1>8, <2>1, <2>2 DEF Does, burnLocked, amount, Upgrading
<1>10. /\ e(7).h.avatar = e(6).h.avatar /\ e(7).h.bridge = 0
       /\ (e(7).failed <=> e(6).failed) /\ e(7).h.mode = "scheme" /\ "scheme" \in e(7).h.rights
  <2>1. /\ Does(e(6).h, registerScheme, e(7).h)
        /\ e(7).failed = (e(6).failed \/ Fails(e(6).h, registerScheme))
    BY <1>1, <1>2
  <2> QED
    BY <1>9, <2>1 DEF Does, registerScheme, call, Upgrading
<1>11. chain'["celo"] = e(7).h
  BY <1>1, <1>3, ExecutingDoes DEF e
<1>12. Called(p)[Len(p.calls)].failed <=> e(7).failed
  BY <1>1 DEF e
<1> QED
  BY <1>9, <1>10, <1>11, <1>12

\* upgradeCeloFix: the Avatar may lose something, and nothing else does.
LEMMA FixProposalDoes ==
    ASSUME ProposalTypes, NEW p \in queue, execTransaction(p), p.script = "upgradeCeloFix",
           NEW r \in Readings("upgradeCeloFix"), p.calls = upgradeCeloFix(r)
    PROVE  /\ chain'["celo"].mode = "scheme" /\ chain'["celo"].bridge = chain["celo"].bridge
           /\ chain'["celo"].rights = chain["celo"].rights
           /\ chain'["celo"].avatar <= chain["celo"].avatar
<1> DEFINE e(n) == Called(p)[n]
<1>1. /\ Len(p.calls) = 2
      /\ p.calls[1] = upgradeTo("scheme") /\ p.calls[2] = burnLocked(r[1])
  BY DEF upgradeCeloFix
<1>2. ASSUME NEW n \in 1 .. 2
      PROVE  e(n - 1).h \in Hold /\ Does(e(n - 1).h, p.calls[n], e(n).h)
  BY <1>1, OneCall
<1>3. On(p.script) = "celo" /\ e(0) = Begun(p) /\ e(0).h = chain["celo"]
  BY OneCall DEF On, Begun
<1>4. r[1] \in Nat
  BY WhatIsRead DEF Readings
<1> HIDE DEF e
<1>5. /\ e(1).h.avatar = chain["celo"].avatar /\ e(1).h.bridge = chain["celo"].bridge
      /\ e(1).h.rights = chain["celo"].rights /\ e(1).h.mode = "scheme"
  <2>1. Does(e(0).h, upgradeTo("scheme"), e(1).h)
    BY <1>1, <1>2
  <2> QED
    BY <1>3, <2>1 DEF Does, upgradeTo, call, Upgrading
<1>6. /\ e(2).h.avatar <= e(1).h.avatar /\ e(2).h.bridge = e(1).h.bridge
      /\ e(2).h.rights = e(1).h.rights /\ e(2).h.mode = "scheme"
  <2>1. Does(e(1).h, burnLocked(r[1]), e(2).h) /\ e(1).h.avatar \in Nat
    BY <1>1, <1>2 DEF Hold
  <2>2. burnLocked(r[1]).do = "burn" /\ burnLocked(r[1]).amount = r[1]
    BY DEF burnLocked, amount
  <2>3. e(2).h.avatar = e(1).h.avatar - r[1] \/ e(2).h.avatar = e(1).h.avatar
    BY <2>1, <2>2 DEF Does
  <2>4. e(2).h.avatar <= e(1).h.avatar
    BY <1>4, <2>1, <2>3
  <2> QED
    BY <1>5, <2>1, <2>2, <2>4 DEF Does, Upgrading
<1>7. chain'["celo"] = e(2).h
  BY <1>1, <1>3, ExecutingDoes DEF e
<1> QED
  BY <1>5, <1>6, <1>7

\* upgradeCelo: the bridge gets what the other chains were read to hold, once.
LEMMA CeloProposalDoes ==
    ASSUME ProposalTypes, NEW p \in queue, execTransaction(p), p.script = "upgradeCelo",
           NEW r \in Readings("upgradeCelo"), p.calls = upgradeCelo(r),
           NEW total, total = TOTAL_GLOBAL_SUPPLY(r)
    PROVE  /\ chain'["celo"].mode = "lock" /\ chain'["celo"].people = chain["celo"].people
           /\ chain'["celo"].avatar = chain["celo"].avatar
           /\ chain'["celo"].old = chain["celo"].old
           /\ chain'["celo"].rights \subseteq chain["celo"].rights
           /\ Called(p)[Len(p.calls)].failed
                  => /\ chain'["celo"].bridge = chain["celo"].bridge
                     /\ chain'["celo"].upgraded = chain["celo"].upgraded
           /\ ~Called(p)[Len(p.calls)].failed
                  => /\ ~chain["celo"].upgraded /\ chain'["celo"].upgraded
                     /\ chain'["celo"].bridge = chain["celo"].bridge + total - MintedOn(chain["celo"])
<1> DEFINE e(n) == Called(p)[n]
           give == mentoUpgrade(TOTAL_GLOBAL_SUPPLY(r))
           h == chain["celo"]
<1>1. /\ Len(p.calls) = 6
      /\ p.calls[1] = set("CeloDistributionHelper") /\ p.calls[2] = upgradeTo("lock")
      /\ p.calls[3] = revokeRole /\ p.calls[4] = set("addMinter")
      /\ p.calls[5] = set("Controller") /\ p.calls[6] = give
  BY DEF upgradeCelo
<1> HIDE DEF give
<1>2. ASSUME NEW n \in 1 .. 6
      PROVE  /\ e(n - 1).h \in Hold /\ Does(e(n - 1).h, p.calls[n], e(n).h)
             /\ e(n).failed = (e(n - 1).failed \/ Fails(e(n - 1).h, p.calls[n]))
  BY <1>1, OneCall
<1>3. On(p.script) = "celo" /\ e(0) = Begun(p) /\ e(0).h = chain["celo"] /\ ~e(0).failed
  BY OneCall DEF On, Begun
<1>4. ASSUME NEW n \in 1 .. 6, p.calls[n].do = "set"
      PROVE  e(n).h = e(n - 1).h /\ (e(n).failed <=> e(n - 1).failed)
  BY <1>1, <1>4, SettingDoes
<1> HIDE DEF e
<1>5. e(1).h = chain["celo"] /\ ~e(1).failed
  BY <1>1, <1>3, <1>4, SettingIs
<1> DEFINE Same(g) == /\ g.people = h.people /\ g.avatar = h.avatar /\ g.bridge = h.bridge
                      /\ g.old = h.old /\ g.upgraded = h.upgraded /\ g.rights \subseteq h.rights
                      /\ g.mode = "lock"
<1> HIDE DEF h
<1>6. Same(e(2).h) /\ ~e(2).failed
  <2>1. /\ Does(e(1).h, upgradeTo("lock"), e(2).h)
        /\ e(2).failed = (e(1).failed \/ Fails(e(1).h, upgradeTo("lock")))
    BY <1>1, <1>2
  <2> QED
    BY <1>5, <2>1 DEF Does, upgradeTo, call, Upgrading, h
<1>7. Same(e(3).h) /\ ~e(3).failed
  <2>1. /\ Does(e(2).h, revokeRole, e(3).h)
        /\ e(3).failed = (e(2).failed \/ Fails(e(2).h, revokeRole))
    BY <1>1, <1>2
  <2> QED
    BY <1>6, <2>1 DEF Does, revokeRole, call, Upgrading
<1>8. Same(e(5).h) /\ ~e(5).failed
  <2>1. e(4).h = e(3).h /\ (e(4).failed <=> e(3).failed)
    BY <1>1, <1>4, SettingIs
  <2>2. e(5).h = e(4).h /\ (e(5).failed <=> e(4).failed)
    BY <1>1, <1>4, SettingIs
  <2> QED
    BY <1>7, <2>1, <2>2
<1>9. /\ Does(e(5).h, give, e(6).h) /\ e(5).h \in Hold
      /\ e(6).failed = (e(5).failed \/ Fails(e(5).h, give))
  BY <1>1, <1>2
<1>10. give.do = "mentoUpgrade" /\ give.amount = total
  BY DEF give, mentoUpgrade, amount
<1>11. chain'["celo"] = e(6).h /\ (Called(p)[Len(p.calls)].failed <=> e(6).failed)
  BY <1>1, <1>3, ExecutingDoes DEF e
<1>12. CASE Fails(e(5).h, give)
  <2>1. e(6).failed /\ e(6).h = e(5).h
    BY <1>9, <1>10, <1>12 DEF Does
  <2> QED
    BY <1>8, <1>11, <2>1 DEF h
<1>13. CASE ~Fails(e(5).h, give)
  <2>1. /\ ~e(6).failed /\ e(6).h.upgraded /\ e(6).h.people = e(5).h.people
        /\ e(6).h.bridge = e(5).h.bridge + total - MintedOn(e(5).h)
        /\ e(6).h.avatar = e(5).h.avatar /\ e(6).h.old = e(5).h.old
        /\ e(6).h.rights = e(5).h.rights /\ e(6).h.mode = e(5).h.mode
    BY <1>8, <1>9, <1>10, <1>13 DEF Does, Upgrading
  <2>2. ~e(5).h.upgraded
    BY <1>10, <1>13 DEF Fails
  <2>3. MintedOn(e(5).h) = MintedOn(h)
    BY <1>8 DEF MintedOn
  <2> QED
    BY <1>8, <1>11, <2>1, <2>2, <2>3 DEF h
<1> QED
  BY <1>12, <1>13

---------------------------------------------------------------------------
(* Once a bridge mints nothing is locked in it *)

Minting(h) == h.mode # "lock" /\ h.bridge = 0
Locks(c) == \/ plan.era = "v4" /\ c \in {"mainnet", "celo"}
            \/ plan.era = "gip25" /\ c = "celo"
Locking(c) == Locks(c) /\ "scheme" \notin chain[c].rights

\* A chain that locks has no right to mint; one that mints has nothing locked.
\* The first step of gip-25 empties the bridge before it gives the right.
LockInv ==
    /\ \A c \in Chains : Minting(chain[c]) \/ Locking(c)
    /\ plan.era = "v4" => "scheme" \notin chain["celo"].rights
    /\ task = "upgradeCeloStep1" =>
           /\ call_at >= 4 => chain["celo"].mode # "lock"
           /\ call_at >= 6 => Minting(chain["celo"])
    /\ plan.via = "guardian" => queue = {}

Quiet(a) == a.do # "mentoUpgrade" /\ (Upgrading(a) => a.arg # "lock")

LEMMA QuietCalls ==
    ASSUME NEW script \in Proposed \ {"upgradeCelo"}, NEW r,
           NEW i \in 1 .. Len(proposalActions(script, r))
    PROVE  Quiet(proposalActions(script, r)[i])
<1>1. \A name : Quiet(set(name))
  BY DEF Quiet, set, call, Upgrading
<1>2. /\ Quiet(upgradeTo("scheme")) /\ Quiet(upgradeToAndCall) /\ Quiet(withdraw)
      /\ Quiet(claimTokens) /\ Quiet(registerScheme) /\ Quiet(revokeRole)
  BY DEF Quiet, upgradeTo, upgradeToAndCall, withdraw, claimTokens, registerScheme, revokeRole, call,
         Upgrading
<1>3. \A n : Quiet(burnLocked(n))
  BY DEF Quiet, burnLocked, amount, Upgrading
<1>4. CASE script = "upgradeMainnet"
  <2>1. proposalActions(script, r) = upgradeMainnet(r)
    BY <1>4 DEF proposalActions
  <2> QED
    BY <2>1, <1>1, <1>2, <1>3 DEF upgradeMainnet
<1>5. CASE script = "upgradeFuse"
  <2>1. proposalActions(script, r) = upgradeFuse(r)
    BY <1>5 DEF proposalActions
  <2> QED
    BY <2>1, <1>1, <1>2 DEF upgradeFuse
<1>6. CASE script = "upgradeCeloStep1"
  <2>1. proposalActions(script, r) = upgradeCeloStep1(r)
    BY <1>6 DEF proposalActions
  <2> QED
    BY <2>1, <1>1, <1>2, <1>3 DEF upgradeCeloStep1
<1>7. CASE script = "upgradeCeloFix"
  <2>1. proposalActions(script, r) = upgradeCeloFix(r)
    BY <1>7 DEF proposalActions
  <2> QED
    BY <2>1, <1>2, <1>3 DEF upgradeCeloFix
<1>8. CASE script \in {"upgradeFuseStep1", "upgradeEthStep1", "upgradeXdcFix", "upgradeFuseFix",
                       "upgradeEthFix"}
  <2>1. proposalActions(script, r) \in
            {upgradeFuseStep1(r), upgradeEthStep1(r), upgradeXdcFix(r), upgradeFuseFix(r),
             upgradeEthFix(r)}
    BY <1>8 DEF proposalActions
  <2> QED
    BY <2>1, <1>1, <1>2
       DEF upgradeFuseStep1, upgradeEthStep1, upgradeXdcFix, upgradeFuseFix, upgradeEthFix
<1> QED
  BY <1>4, <1>5, <1>6, <1>7, <1>8 DEF Proposed

\* Two scripts of Celo register nobody.
LEMMA NobodyIsRegistered ==
    ASSUME NEW r, NEW script \in {"upgradeCelo", "upgradeCeloFix"},
           NEW i \in 1 .. Len(proposalActions(script, r))
    PROVE  proposalActions(script, r)[i].do # "registerScheme"
<1>1. \A name : set(name).do # "registerScheme" /\ upgradeTo(name).do # "registerScheme"
  BY DEF set, call, upgradeTo
<1>2. \A n : burnLocked(n).do # "registerScheme" /\ mentoUpgrade(n).do # "registerScheme"
  BY DEF burnLocked, mentoUpgrade, amount
<1>3. revokeRole.do # "registerScheme"
  BY DEF revokeRole, call
<1>4. CASE script = "upgradeCelo"
  <2>1. proposalActions(script, r) = upgradeCelo(r)
    BY <1>4 DEF proposalActions
  <2> QED
    BY <2>1, <1>1, <1>2, <1>3 DEF upgradeCelo
<1>5. CASE script = "upgradeCeloFix"
  <2>1. proposalActions(script, r) = upgradeCeloFix(r)
    BY <1>5 DEF proposalActions
  <2> QED
    BY <2>1, <1>1, <1>2 DEF upgradeCeloFix
<1> QED
  BY <1>4, <1>5

LEMMA QuietKeepsMinting ==
    ASSUME NEW h, NEW a, NEW g, Does(h, a, g), Quiet(a), Minting(h)
    PROVE  Minting(g)
BY DEF Does, Quiet, Minting

\* What belongs to which era.
LEMMA ScriptsOfEras ==
    ASSUME plan \in Plans, NEW s \in plan.scripts
    PROVE  /\ s = "upgradeCelo" => plan.era = "v4"
           /\ s = "upgradeMainnet" => plan.era = "v4" /\ plan.via = "safe"
           /\ s \in {"upgradeCeloStep1", "upgradeCeloFix"} => plan.era = "gip25"
           /\ s \notin {"upgradeCelo", "upgradeMainnet", "upgradeCeloStep1", "upgradeCeloFix",
                        "celoUpgrade"} => ~Locks(On(s))
<1>1. CASE plan.era = "minting"
  <2>1. s = "celoUpgrade"
    BY <1>1, ThePlans
  <2> QED
    BY <2>1
<1>2. CASE plan.era = "v4"
  <2>1. plan.scripts \in {{"upgradeMainnet"}, {"upgradeFuse"}, {"upgradeCelo"}}
        /\ (plan.scripts = {"upgradeMainnet"} => plan.via = "safe")
    BY <1>2, ThePlans
  <2>2. s \in {"upgradeMainnet", "upgradeFuse", "upgradeCelo"}
        /\ (s = "upgradeMainnet" => plan.via = "safe")
    BY <2>1
  <2>3. s = "upgradeFuse" => On(s) = "fuse"
    BY DEF On
  <2> QED
    BY <1>2, <2>2, <2>3 DEF Locks
<1>3. CASE plan.era = "gip25"
  <2>1. s \in {"upgradeCeloStep1", "upgradeCeloFix", "upgradeFuseStep1", "upgradeFuseFix",
               "upgradeEthStep1", "upgradeEthFix", "upgradeXdcFix"}
    BY <1>3, ThePlans
  <2>2. s \in {"upgradeFuseStep1", "upgradeFuseFix", "upgradeEthStep1", "upgradeEthFix",
               "upgradeXdcFix"} => On(s) \in {"fuse", "mainnet", "xdc"}
    BY DEF On
  <2> QED
    BY <1>3, <2>1, <2>2 DEF Locks
<1> QED
  BY <1>1, <1>2, <1>3, ThePlans

LEMMA LockBegins ==
    ASSUME ProposalInit(Plans)
    PROVE  LockInv
<1>1. /\ plan.era \in {"v4", "gip25", "minting"} /\ queue = {} /\ task = None
      /\ \A c \in Chains : chain[c] = Before(plan.era, c)
  BY ThePlans DEF ProposalInit
<1>2. \A n, a, b, o, m, r :
          /\ Holding(n, a, b, o, m, r).mode = m /\ Holding(n, a, b, o, m, r).bridge = b
          /\ Holding(n, a, b, o, m, r).rights = r
  BY DEF Holding
<1>3. ASSUME NEW c \in Chains PROVE Minting(chain[c]) \/ Locking(c)
  <2>1. CASE plan.era = "v4" /\ c = "mainnet"
    <3>1. chain[c] = Holding(People[c], Own, People["celo"], People["fuse"], "lock", {})
      BY <1>1, <2>1 DEF Before
    <3> QED
      BY <1>2, <2>1, <3>1 DEF Locking, Locks
  <2>2. CASE plan.era = "v4" /\ c \in {"fuse", "celo"}
    <3>1. chain[c] = Holding(People[c], 0, 0, 0, "wrapper", {"wrapper"})
      BY <1>1, <2>2 DEF Before
    <3> QED
      BY <1>2, <2>2, <3>1 DEF Minting
  <2>3. CASE plan.era = "gip25" /\ c = "celo"
    <3>1. chain[c] = Holding(People[c], Own, People["mainnet"] + People["fuse"] + People["xdc"], 0,
                             "lock", {})
      BY <1>1, <2>3 DEF Before
    <3> QED
      BY <1>2, <2>3, <3>1 DEF Locking, Locks
  <2>4. CASE ~(plan.era = "v4" /\ c # "xdc") /\ ~(plan.era = "gip25" /\ c = "celo")
    <3>1. \E n : chain[c] = Holding(n, 0, 0, 0, "scheme", {"scheme"})
      BY <1>1, <2>4 DEF Before, Chains
    <3> QED
      BY <1>2, <3>1 DEF Minting
  <2> QED
    BY <2>1, <2>2, <2>3, <2>4 DEF Chains
<1>4. plan.era = "v4" => "scheme" \notin chain["celo"].rights
  <2>1. SUFFICES ASSUME plan.era = "v4" PROVE "scheme" \notin chain["celo"].rights
    OBVIOUS
  <2>2. chain["celo"] = Holding(People["celo"], 0, 0, 0, "wrapper", {"wrapper"})
    BY <1>1, <2>1 DEF Before, Chains
  <2> QED
    BY <1>2, <2>2
<1> QED
  BY <1>1, <1>3, <1>4 DEF LockInv, None

\* While people bridge, and while scripts only read.
LEMMA LockIsLeftAlone ==
    ASSUME LockInv, plan' = plan,
           \A c \in Chains : /\ Alike(chain'[c], chain[c])
                             /\ chain[c].mode # "lock" => chain'[c].bridge = chain[c].bridge,
           task' # "upgradeCeloStep1" \/ (task' = task /\ call_at' = call_at)
               \/ (\A n \in {4, 6} : ~(call_at' >= n)),
           plan.via = "guardian" => queue' = {}
    PROVE  LockInv'
<1>1. "celo" \in Chains
  BY DEF Chains
<1>2. \A c \in Chains : Minting(chain'[c]) \/ Locking(c)'
  BY DEF LockInv, Minting, Locking, Locks, Alike
<1>3. plan.era = "v4" => "scheme" \notin chain'["celo"].rights
  BY <1>1 DEF LockInv, Alike
<1>4. task' = "upgradeCeloStep1" =>
           /\ call_at' >= 4 => chain'["celo"].mode # "lock"
           /\ call_at' >= 6 => Minting(chain'["celo"])
  <2>1. SUFFICES ASSUME task' = "upgradeCeloStep1"
                 PROVE  /\ call_at' >= 4 => chain'["celo"].mode # "lock"
                        /\ call_at' >= 6 => Minting(chain'["celo"])
    OBVIOUS
  <2>2. CASE task' = task /\ call_at' = call_at
    <3>1. /\ call_at >= 4 => chain["celo"].mode # "lock"
          /\ call_at >= 6 => Minting(chain["celo"])
      BY <2>1, <2>2 DEF LockInv
    <3>2. chain'["celo"].mode = chain["celo"].mode
          /\ (chain["celo"].mode # "lock" => chain'["celo"].bridge = chain["celo"].bridge)
      BY <1>1 DEF Alike
    <3> QED
      BY <2>2, <3>1, <3>2 DEF Minting
  <2>3. CASE ~(call_at' >= 4) /\ ~(call_at' >= 6)
    BY <2>3
  <2> QED
    BY <2>1, <2>2, <2>3
<1> QED
  BY <1>2, <1>3, <1>4 DEF LockInv

\* When a script sends one of its calls.
LEMMA LockBySending ==
    ASSUME ProposalTypes, LockInv, SendGenericCall
    PROVE  LockInv'
<1> DEFINE a == Calls[call_at]
           g == After(Here, a)
<1>1. /\ task \in Proposed /\ plan.via = "guardian" /\ call_at \in 1 .. Len(Calls)
      /\ reading \in Readings(task) /\ Sound(a) /\ Here \in Hold
      /\ chain'[On(task)] = g /\ call_at' = call_at + 1
      /\ \A c \in Chains : c # On(task) => chain'[c] = chain[c]
  BY SendingDoes
<1>2. task' = task /\ plan' = plan /\ queue' = queue /\ task \in plan.scripts /\ task # None
  BY DEF SendGenericCall, Calling, HasRead, safe_vars, ProposalTypes, TaskTypes
<1>3. Does(Here, a, g)
  BY <1>1, CallsDo
<1>4. Here = chain[On(task)] /\ On(task) \in Chains /\ call_at \in Nat
  BY ChainsOfScripts DEF Here, ProposalTypes, TaskTypes
<1> HIDE DEF a, g
<1>5. task # "upgradeCelo" => Quiet(a)
  BY <1>1, QuietCalls DEF Calls, a
<1>6. task \in {"upgradeCelo", "upgradeCeloFix"} => a.do # "registerScheme"
  BY <1>1, NobodyIsRegistered DEF Calls, a
<1>7. a.do # "registerScheme" /\ "scheme" \notin Here.rights => "scheme" \notin g.rights
  BY <1>3 DEF Does
<1>8. plan \in Plans
  BY DEF ProposalTypes
<1>9. /\ task = "upgradeCelo" => plan.era = "v4"
      /\ task # "upgradeMainnet"
      /\ task \in {"upgradeCeloStep1", "upgradeCeloFix"} => plan.era = "gip25"
      /\ task \notin {"upgradeCelo", "upgradeCeloStep1", "upgradeCeloFix"} => ~Locks(On(task))
  <2>1. task # "upgradeMainnet" /\ task # "celoUpgrade"
    BY <1>1, <1>2, <1>8, ScriptsOfEras DEF Proposed
  <2> QED
    BY <1>2, <1>8, <2>1, ScriptsOfEras
<1>10. task \in {"upgradeCelo", "upgradeCeloStep1", "upgradeCeloFix"} => On(task) = "celo"
  BY DEF On
<1>11. task = "upgradeCeloStep1" =>
           /\ call_at' >= 4 => chain'["celo"].mode # "lock"
           /\ call_at' >= 6 => Minting(chain'["celo"])
           /\ a.do = "registerScheme" => Minting(chain'["celo"])
  <2>1. SUFFICES ASSUME task = "upgradeCeloStep1"
                 PROVE  /\ call_at' >= 4 => g.mode # "lock"
                        /\ call_at' >= 6 => Minting(g)
                        /\ a.do = "registerScheme" => Minting(g)
    BY <1>1, <1>10
  <2>2. Here = chain["celo"] /\ Quiet(a)
    BY <1>4, <1>5, <1>10, <2>1
  <2>3. Calls = upgradeCeloStep1(reading)
    BY <2>1 DEF Calls, proposalActions
  <2>4. call_at \in {1, 2, 3, 4, 5, 6, 7}
    <3>1. Len(Calls) = 7
      BY <2>3 DEF upgradeCeloStep1
    <3> QED
      BY <1>1, <3>1
  <2>5. /\ call_at >= 4 => Here.mode # "lock"
        /\ call_at >= 6 => Minting(Here)
    BY <2>1, <2>2 DEF LockInv
  <2>6. CASE call_at \in {1, 2}
    <3>1. a.do = "set"
      BY <2>3, <2>6, SettingIs DEF a, upgradeCeloStep1
    <3> QED
      BY <1>1, <2>6, <3>1
  <2>7. CASE call_at = 3
    <3>1. a = upgradeToAndCall
      BY <2>3, <2>7 DEF a, upgradeCeloStep1
    <3>2. a.do # "registerScheme" /\ g.mode = "scheme"
      BY <1>3, <3>1 DEF Does, upgradeToAndCall, call, Upgrading
    <3> QED
      BY <1>1, <2>7, <3>2
  <2>8. CASE call_at = 4
    <3>1. a.do = "set"
      BY <2>3, <2>8, SettingIs DEF a, upgradeCeloStep1
    <3>2. g = Here
      BY <1>3, <3>1 DEF Does
    <3> QED
      BY <1>1, <2>5, <2>8, <3>1, <3>2
  <2>9. CASE call_at = 5
    <3>1. a = withdraw
      BY <2>3, <2>9 DEF a, upgradeCeloStep1
    <3>2. a.do = "withdraw"
      BY <3>1 DEF withdraw, call
    <3>3. g.bridge = 0 /\ g.mode = Here.mode
      BY <1>3, <3>2 DEF Does, Upgrading
    <3> QED
      BY <1>1, <2>5, <2>9, <3>2, <3>3 DEF Minting
  <2>10. CASE call_at \in {6, 7}
    <3>1. Minting(g)
      BY <1>3, <2>2, <2>5, <2>10, QuietKeepsMinting
    <3> QED
      BY <3>1 DEF Minting
  <2> QED
    BY <2>4, <2>6, <2>7, <2>8, <2>9, <2>10
<1>12. ASSUME NEW c \in Chains PROVE Minting(chain'[c]) \/ Locking(c)'
  <2>1. CASE c # On(task)
    BY <1>1, <1>2, <2>1 DEF LockInv, Locking, Locks
  <2>2. CASE c = On(task) /\ task = "upgradeCelo"
    <3>1. "scheme" \notin Here.rights
      BY <1>4, <1>9, <1>10, <2>2 DEF LockInv
    <3> QED
      BY <1>1, <1>2, <1>6, <1>7, <1>9, <1>10, <2>2, <3>1 DEF Locking, Locks
  <2>3. CASE c = On(task) /\ task # "upgradeCelo" /\ Minting(Here)
    BY <1>1, <1>3, <1>5, <2>3, QuietKeepsMinting
  <2>4. CASE c = On(task) /\ task # "upgradeCelo" /\ ~Minting(Here)
    <3>1. Locks(c) /\ "scheme" \notin Here.rights
      BY <1>4, <2>4 DEF LockInv, Locking
    <3>2. task \in {"upgradeCeloStep1", "upgradeCeloFix"}
      BY <1>9, <2>4, <3>1
    <3>3. a.do # "registerScheme" => Locking(c)'
      BY <1>1, <1>2, <1>7, <2>4, <3>1 DEF Locking, Locks
    <3> QED
      BY <1>6, <1>10, <1>11, <2>4, <3>2, <3>3
  <2> QED
    BY <2>1, <2>2, <2>3, <2>4
<1>13. plan.era = "v4" => "scheme" \notin chain'["celo"].rights
  <2>1. CASE On(task) = "celo"
    <3>1. plan.era = "v4" => task = "upgradeCelo"
      <4>1. CASE task \notin {"upgradeCelo", "upgradeCeloStep1", "upgradeCeloFix"}
        BY <1>9, <2>1, <4>1 DEF Locks
      <4> QED
        BY <1>9, <4>1
    <3> QED
      BY <1>1, <1>4, <1>6, <1>7, <2>1, <3>1 DEF LockInv
  <2>2. CASE On(task) # "celo"
    <3>1. chain'["celo"] = chain["celo"]
      BY <1>1, <2>2 DEF Chains
    <3> QED
      BY <3>1 DEF LockInv
  <2> QED
    BY <2>1, <2>2
<1> QED
  BY <1>1, <1>2, <1>11, <1>12, <1>13 DEF LockInv

\* When the Safe executes a proposal.
LEMMA LockByExecuting ==
    ASSUME ProposalTypes, LockInv, NEW p \in queue, execTransaction(p)
    PROVE  LockInv'
<1>1. Entry(p) /\ p.script \in plan.scripts \cap Proposed /\ plan \in Plans
  BY DEF ProposalTypes, Entry
<1>2. PICK r \in Readings(p.script) : p.calls = proposalActions(p.script, r)
  BY <1>1 DEF Entry
<1>3. /\ \A c \in Chains : c # On(p.script) => chain'[c] = chain[c]
      /\ chain'[On(p.script)] = Called(p)[Len(p.calls)].h
      /\ Len(p.calls) \in Nat
  BY ExecutingDoes
<1>4. plan' = plan /\ task' = task /\ call_at' = call_at /\ queue' = queue
  BY DEF execTransaction, run_vars
<1>5. p.script \in {"upgradeCelo", "upgradeCeloStep1", "upgradeCeloFix"} => On(p.script) = "celo"
  BY DEF On
<1>6. p.script = "upgradeMainnet" => On(p.script) = "mainnet"
  BY DEF On
<1>7. CASE p.script = "upgradeMainnet"
  <2>1. p.calls = upgradeMainnet(r)
    BY <1>2, <1>7 DEF proposalActions
  <2>2. chain'["mainnet"].mode = "scheme" /\ chain'["mainnet"].bridge = 0
    BY <1>2, <1>7, <2>1, MainnetProposalDoes
  <2>3. Minting(chain'["mainnet"]) /\ \A c \in Chains : c # "mainnet" => chain'[c] = chain[c]
    BY <1>3, <1>6, <1>7, <2>2 DEF Minting
  <2>4. plan.era = "v4" /\ chain'["celo"] = chain["celo"]
    BY <1>1, <1>7, <2>3, ScriptsOfEras DEF Chains
  <2> QED
    BY <1>4, <2>3, <2>4 DEF LockInv, Locking, Locks
<1>8. CASE p.script = "upgradeCelo"
  <2>1. p.calls = upgradeCelo(r)
    BY <1>2, <1>8 DEF proposalActions
  <2>2. chain'["celo"].rights \subseteq chain["celo"].rights
    BY <1>2, <1>8, <2>1, CeloProposalDoes
  <2>3. plan.era = "v4" /\ \A c \in Chains : c # "celo" => chain'[c] = chain[c]
    BY <1>1, <1>3, <1>5, <1>8, ScriptsOfEras
  <2>4. "scheme" \notin chain'["celo"].rights
    BY <2>2, <2>3 DEF LockInv
  <2>5. task # "upgradeCeloStep1"
    <3>1. task = None \/ task \in plan.scripts
      BY DEF ProposalTypes, TaskTypes
    <3> QED
      BY <1>1, <2>3, <3>1, ScriptsOfEras DEF None
  <2> QED
    BY <1>4, <2>3, <2>4, <2>5 DEF LockInv, Locking, Locks
<1>9. CASE p.script = "upgradeCeloStep1"
  <2>1. p.calls = upgradeCeloStep1(r)
    BY <1>2, <1>9 DEF proposalActions
  <2>2. chain'["celo"].mode = "scheme" /\ chain'["celo"].bridge = 0
    BY <1>2, <1>9, <2>1, StepOneProposalDoes
  <2>3. plan.era = "gip25" /\ Minting(chain'["celo"])
        /\ \A c \in Chains : c # "celo" => chain'[c] = chain[c]
    BY <1>1, <1>3, <1>5, <1>9, <2>2, ScriptsOfEras DEF Minting
  <2> QED
    BY <1>4, <2>3 DEF LockInv, Locking, Locks, Minting
<1>10. CASE p.script = "upgradeCeloFix"
  <2>1. p.calls = upgradeCeloFix(r)
    BY <1>2, <1>10 DEF proposalActions
  <2>2. /\ chain'["celo"].mode = "scheme" /\ chain'["celo"].bridge = chain["celo"].bridge
        /\ chain'["celo"].rights = chain["celo"].rights
    BY <1>2, <1>10, <2>1, FixProposalDoes
  <2>3. plan.era = "gip25" /\ \A c \in Chains : c # "celo" => chain'[c] = chain[c]
    BY <1>1, <1>3, <1>5, <1>10, ScriptsOfEras
  <2> QED
    BY <1>4, <2>2, <2>3 DEF LockInv, Locking, Locks, Minting
<1>11. CASE p.script \notin {"upgradeMainnet", "upgradeCelo", "upgradeCeloStep1", "upgradeCeloFix"}
  <2> DEFINE c == On(p.script)
             T == {n \in Nat : n <= Len(p.calls) => Minting(Called(p)[n].h)}
  <2>1. ~Locks(c) /\ c \in Chains
    BY <1>1, <1>11, ScriptsOfEras, ChainsOfScripts DEF Proposed
  <2>2. Minting(chain[c])
    BY <2>1 DEF LockInv, Locking
  <2>3. /\ Called(p)[0].h = chain[c]
        /\ \A n \in 1 .. Len(p.calls) : Does(Called(p)[n - 1].h, p.calls[n], Called(p)[n].h)
    <3>1. Begun(p).h = chain[c]
      BY DEF Begun
    <3> HIDE DEF c
    <3> QED
      BY <3>1, OneCall
  <2>4. \A n \in 1 .. Len(p.calls) : Quiet(p.calls[n])
    BY <1>1, <1>2, <1>11, QuietCalls
  <2> HIDE DEF c
  <2>5. 0 \in T
    BY <2>2, <2>3
  <2>6. ASSUME NEW n \in Nat, n \in T PROVE n + 1 \in T
    <3>1. SUFFICES ASSUME n + 1 <= Len(p.calls) PROVE Minting(Called(p)[n + 1].h)
      OBVIOUS
    <3>2. n + 1 \in 1 .. Len(p.calls) /\ (n + 1) - 1 = n /\ n <= Len(p.calls)
      BY <1>3, <3>1
    <3>3. Does(Called(p)[n].h, p.calls[n + 1], Called(p)[n + 1].h) /\ Quiet(p.calls[n + 1])
      BY <2>3, <2>4, <3>2
    <3>4. Minting(Called(p)[n].h)
      BY <2>6, <3>2
    <3> QED
      BY <3>3, <3>4, QuietKeepsMinting
  <2>7. Nat \subseteq T
    <3> HIDE DEF T
    <3> QED
      BY <2>5, <2>6, Induction
  <2>8. Minting(chain'[c])
    BY <1>3, <2>7 DEF c
  <2>9. \A d \in Chains : d # c => chain'[d] = chain[d]
    BY <1>3 DEF c
  <2>10. \A d \in Chains : Minting(chain'[d]) \/ Locking(d)'
    BY <1>4, <2>8, <2>9 DEF LockInv, Locking, Locks
  <2>11. plan.era = "v4" \/ plan.era = "gip25" => chain'["celo"] = chain["celo"]
    <3>1. plan.era = "v4" \/ plan.era = "gip25" => c # "celo"
      BY <2>1 DEF Locks
    <3> QED
      BY <2>9, <3>1 DEF Chains
  <2>12. task = "upgradeCeloStep1" => plan.era = "gip25"
    <3>1. task = None \/ task \in plan.scripts
      BY DEF ProposalTypes, TaskTypes
    <3> QED
      BY <1>1, <3>1, ScriptsOfEras DEF None
  <2> QED
    BY <1>4, <2>10, <2>11, <2>12 DEF LockInv
<1> QED
  BY <1>7, <1>8, <1>9, <1>10, <1>11

LEMMA LockIsKept ==
    ASSUME ProposalTypes, LockInv, [ProposalNext]_proposal_vars, plan' = plan
    PROVE  LockInv'
<1>1. ASSUME UNCHANGED user_vars
      PROVE  \A c \in Chains : /\ Alike(chain'[c], chain[c])
                               /\ chain[c].mode # "lock" => chain'[c].bridge = chain[c].bridge
  BY <1>1 DEF user_vars, Alike
<1>2. ASSUME Stop PROVE task' # "upgradeCeloStep1"
  BY <1>2 DEF Stop, None
<1>3. ASSUME UNCHANGED << run_vars, queue >>
      PROVE  task' = task /\ call_at' = call_at /\ (plan.via = "guardian" => queue' = {})
  BY <1>3 DEF run_vars, LockInv
<1>4. ASSUME NEW c \in Chains, NEW d \in Chains, Leave(c, d) PROVE LockInv'
  <2>1. UNCHANGED << run_vars, queue >>
    BY <1>4 DEF Leave, safe_vars
  <2>2. \A e \in Chains : /\ Alike(chain'[e], chain[e])
                          /\ chain[e].mode # "lock" => chain'[e].bridge = chain[e].bridge
    BY <1>4, LeavingDoes DEF ProposalTypes
  <2> QED
    BY <1>3, <2>1, <2>2, LockIsLeftAlone
<1>5. ASSUME NEW d \in Chains, Arrive(d) PROVE LockInv'
  <2>1. UNCHANGED << run_vars, queue >>
    BY <1>5 DEF Arrive, safe_vars
  <2>2. \A e \in Chains : /\ Alike(chain'[e], chain[e])
                          /\ chain[e].mode # "lock" => chain'[e].bridge = chain[e].bridge
    BY <1>5, ArrivingDoes DEF ProposalTypes
  <2> QED
    BY <1>3, <2>1, <2>2, LockIsLeftAlone
<1>6. CASE Grow
  <2>1. UNCHANGED << run_vars, queue >>
    BY <1>6 DEF Grow, safe_vars
  <2>2. \A e \in Chains : /\ Alike(chain'[e], chain[e])
                          /\ chain[e].mode # "lock" => chain'[e].bridge = chain[e].bridge
    BY <1>6, GrowingDoes DEF ProposalTypes
  <2> QED
    BY <1>3, <2>1, <2>2, LockIsLeftAlone
<1>7. ASSUME NEW script \in plan.scripts, StartScript(script) PROVE LockInv'
  <2>1. UNCHANGED << user_vars, queue, call_at >> /\ task = None
    BY <1>7 DEF StartScript, safe_vars
  <2>2. call_at' = 1
    BY <2>1 DEF ProposalTypes, TaskTypes
  <2>3. plan.via = "guardian" => queue' = {}
    BY <2>1 DEF LockInv
  <2> QED
    BY <1>1, <2>1, <2>2, <2>3, LockIsLeftAlone
<1>8. CASE ReadOne \/ Simulate
  <2>1. UNCHANGED << user_vars, queue, call_at, task >>
    BY <1>8 DEF ReadOne, Simulate, safe_vars
  <2>2. plan.via = "guardian" => queue' = {}
    BY <2>1 DEF LockInv
  <2> QED
    BY <1>1, <2>1, <2>2, LockIsLeftAlone
<1>9. CASE executeViaSafe
  <2>1. UNCHANGED user_vars /\ Stop /\ plan.via = "safe"
    BY <1>9 DEF executeViaSafe
  <2> QED
    BY <1>1, <1>2, <2>1, LockIsLeftAlone
<1>10. CASE SimulationFailed \/ Executed \/ celoUpgrade \/ ScriptDies
  <2>1. UNCHANGED << user_vars, queue >> /\ Stop
    BY <1>10 DEF SimulationFailed, Executed, celoUpgrade, ScriptDies, safe_vars
  <2>2. plan.via = "guardian" => queue' = {}
    BY <2>1 DEF LockInv
  <2> QED
    BY <1>1, <1>2, <2>1, <2>2, LockIsLeftAlone
<1>11. CASE UNCHANGED proposal_vars
  <2>1. UNCHANGED << user_vars, run_vars, queue >>
    BY <1>11 DEF proposal_vars, safe_vars
  <2> QED
    BY <1>1, <1>3, <2>1, LockIsLeftAlone
<1> QED
  BY <1>4, <1>5, <1>6, <1>7, <1>8, <1>9, <1>10, <1>11, LockBySending, LockByExecuting
     DEF ProposalNext, Run

\* Once the bridge of a chain mints, nothing is locked in it (the comment
\* in v4Upgrade.ts that "all bridges are mint/burn").
THEOREM NothingIsLeftLocked == ASSUME ProposalAssumption PROVE ProposalSpec => []NothingStaysLocked
<1> DEFINE Both == ProposalTypes /\ LockInv
<1>1. ProposalInit(Plans) => Both
  BY TypesBegin, LockBegins
<1>2. Both /\ [ProposalNext]_proposal_vars => Both'
  BY TypesAreKept, LockIsKept
<1>3. Both => NothingStaysLocked
  BY DEF LockInv, Minting, Locking, NothingStaysLocked
<1> QED
  BY <1>1, <1>2, <1>3, PTL DEF ProposalSpec

---------------------------------------------------------------------------
(* The ratio of the reserve *)

\* How much more was read of the supply of a chain than there is now.
Gap(i, c) == IF i <= Len(reading) THEN reading[i] - Supply(c) ELSE 0
Rest == Gap(2, "celo") + Gap(3, "xdc") + Gap(4, "fuse") + Gap(5, "mainnet")

\* Who left a chain after it was read is counted twice, who arrived there is
\* not counted; G$ minted meanwhile are not noticed only if somebody left Celo.
ReadingFits ==
    /\ InFlight <= Drift(since) /\ Rest <= Drift(since)
    /\ \/ -Rest <= Drift(since) - InFlight /\ Gap(1, "celo") <= Drift(since)
       \/ grown /\ -Rest <= Drift(since) - InFlight + 1 /\ Gap(1, "celo") + 1 <= Drift(since)
    /\ Len(reading) = 6 => reading[6] = Stolen
RatioInv ==
    /\ RatioFitsSupply
    /\ plan.era = "minting" => /\ \A c \in Chains : chain[c].old = 0
                               /\ task # None => ReadingFits

\* Where nothing is locked the supply follows the people.
LEMMA SupplyFollows ==
    ASSUME ProposalAssumption, Ledgers, Ledgers', NEW c \in Chains, Alike(chain'[c], chain[c]),
           chain'[c].bridge = chain[c].bridge
    PROVE  Supply(c)' = Supply(c) + (chain'[c].people - chain[c].people)
<1>1. /\ chain[c].people \in Nat /\ chain[c].avatar \in Nat
      /\ chain[c].bridge \in Nat /\ chain[c].old \in Nat /\ chain'[c].people \in Nat
  BY DEF Ledgers, Hold
<1> DEFINE stolen == IF c = "mainnet" THEN Stolen ELSE 0
<1>2. stolen \in Nat
  BY DEF ProposalAssumption
<1>3. /\ Supply(c) = chain[c].people + chain[c].avatar + chain[c].bridge + chain[c].old + stolen
      /\ Supply(c)' = chain'[c].people + chain[c].avatar + chain[c].bridge + chain[c].old + stolen
  BY DEF Supply, Alike
<1> HIDE DEF stolen
<1> QED
  BY <1>1, <1>2, <1>3

LEMMA GapsAreNumbers ==
    ASSUME ProposalAssumption, ProposalTypes, NEW i \in Nat \ {0}, NEW c \in Chains
    PROVE  Gap(i, c) \in Int
<1>1. Supply(c) \in Nat
  BY SuppliesAreNumbers DEF ProposalTypes
<1>2. i <= Len(reading) => reading[i] \in Nat
  BY DEF ProposalTypes, TaskTypes
<1> QED
  BY <1>1, <1>2 DEF Gap

\* One supply changes by d and nothing is read: the gaps of that chain follow.
LEMMA GapsFollow ==
    ASSUME ProposalAssumption, ProposalTypes, NEW c \in Chains, NEW d \in Int,
           Supply(c)' = Supply(c) + d, \A e \in Chains \ {c} : Supply(e)' = Supply(e),
           reading' = reading
    PROVE  \A i \in Nat \ {0} : \A e \in Chains :
               Gap(i, e)' = IF e = c /\ i <= Len(reading) THEN Gap(i, e) - d ELSE Gap(i, e)
<1> SUFFICES ASSUME NEW i \in Nat \ {0}, NEW e \in Chains
             PROVE  Gap(i, e)' = IF e = c /\ i <= Len(reading) THEN Gap(i, e) - d ELSE Gap(i, e)
  OBVIOUS
<1>1. Supply(e) \in Nat /\ Supply(e)' = IF e = c THEN Supply(e) + d ELSE Supply(e)
  BY SuppliesAreNumbers DEF ProposalTypes
<1>2. i <= Len(reading) => reading[i] \in Nat
  BY DEF ProposalTypes, TaskTypes
<1>3. Gap(i, e)' = IF i <= Len(reading) THEN reading[i] - Supply(e)' ELSE 0
  BY DEF Gap
<1>4. Gap(i, e) = IF i <= Len(reading) THEN reading[i] - Supply(e) ELSE 0
  BY DEF Gap
<1> QED
  BY <1>1, <1>2, <1>3, <1>4

\* So the sum follows: every chain is in it once.
LEMMA RestFollows ==
    ASSUME ProposalAssumption, ProposalTypes, NEW c \in Chains, NEW d \in {-1, 1},
           Supply(c)' = Supply(c) + d, \A e \in Chains \ {c} : Supply(e)' = Supply(e),
           reading' = reading
    PROVE  /\ Rest \in Int /\ Gap(1, "celo") \in Int
           /\ Rest' \in {Rest, Rest - d}
           /\ Gap(1, "celo")' \in {Gap(1, "celo"), Gap(1, "celo") - d}
           /\ c = "celo" /\ 1 <= Len(reading) => Gap(1, "celo")' = Gap(1, "celo") - d
           /\ c = "celo" /\ ~(1 <= Len(reading)) => Rest' = Rest
<1>1. {"mainnet", "fuse", "celo", "xdc"} = Chains
  BY DEF Chains
<1>2. /\ Gap(1, "celo") \in Int /\ Gap(2, "celo") \in Int /\ Gap(3, "xdc") \in Int
      /\ Gap(4, "fuse") \in Int /\ Gap(5, "mainnet") \in Int
  BY <1>1, GapsAreNumbers
<1>3. \A i \in Nat \ {0} : \A e \in Chains :
          Gap(i, e)' = IF e = c /\ i <= Len(reading) THEN Gap(i, e) - d ELSE Gap(i, e)
  BY GapsFollow
<1>4. /\ Gap(1, "celo")' = IF "celo" = c /\ 1 <= Len(reading) THEN Gap(1, "celo") - d ELSE Gap(1, "celo")
      /\ Gap(2, "celo")' = IF "celo" = c /\ 2 <= Len(reading) THEN Gap(2, "celo") - d ELSE Gap(2, "celo")
      /\ Gap(3, "xdc")' = IF "xdc" = c /\ 3 <= Len(reading) THEN Gap(3, "xdc") - d ELSE Gap(3, "xdc")
      /\ Gap(4, "fuse")' = IF "fuse" = c /\ 4 <= Len(reading) THEN Gap(4, "fuse") - d ELSE Gap(4, "fuse")
      /\ Gap(5, "mainnet")' = IF "mainnet" = c /\ 5 <= Len(reading) THEN Gap(5, "mainnet") - d
                              ELSE Gap(5, "mainnet")
  BY <1>1, <1>3
<1>5. /\ Rest = Gap(2, "celo") + Gap(3, "xdc") + Gap(4, "fuse") + Gap(5, "mainnet")
      /\ Rest' = Gap(2, "celo")' + Gap(3, "xdc")' + Gap(4, "fuse")' + Gap(5, "mainnet")'
  BY DEF Rest
<1>6. Len(reading) \in Nat
  BY DEF ProposalTypes, TaskTypes
<1>7. Rest \in Int
  BY <1>2, <1>5
<1>8. Rest' \in {Rest, Rest - d}
  <2>1. CASE c = "celo"
    <3>1. /\ (Gap(2, "celo")' = Gap(2, "celo") \/ Gap(2, "celo")' = Gap(2, "celo") - d)
          /\ Gap(3, "xdc")' = Gap(3, "xdc")
          /\ Gap(4, "fuse")' = Gap(4, "fuse")
          /\ Gap(5, "mainnet")' = Gap(5, "mainnet")
      BY <1>4, <2>1
    <3> QED
      BY <1>2, <1>5, <3>1
  <2>2. CASE c = "xdc"
    <3>1. /\ Gap(2, "celo")' = Gap(2, "celo")
          /\ (Gap(3, "xdc")' = Gap(3, "xdc") \/ Gap(3, "xdc")' = Gap(3, "xdc") - d)
          /\ Gap(4, "fuse")' = Gap(4, "fuse")
          /\ Gap(5, "mainnet")' = Gap(5, "mainnet")
      BY <1>4, <2>2
    <3> QED
      BY <1>2, <1>5, <3>1
  <2>3. CASE c = "fuse"
    <3>1. /\ Gap(2, "celo")' = Gap(2, "celo")
          /\ Gap(3, "xdc")' = Gap(3, "xdc")
          /\ (Gap(4, "fuse")' = Gap(4, "fuse") \/ Gap(4, "fuse")' = Gap(4, "fuse") - d)
          /\ Gap(5, "mainnet")' = Gap(5, "mainnet")
      BY <1>4, <2>3
    <3> QED
      BY <1>2, <1>5, <3>1
  <2>4. CASE c = "mainnet"
    <3>1. /\ Gap(2, "celo")' = Gap(2, "celo")
          /\ Gap(3, "xdc")' = Gap(3, "xdc")
          /\ Gap(4, "fuse")' = Gap(4, "fuse")
          /\ (Gap(5, "mainnet")' = Gap(5, "mainnet") \/ Gap(5, "mainnet")' = Gap(5, "mainnet") - d)
      BY <1>4, <2>4
    <3> QED
      BY <1>2, <1>5, <3>1
  <2> QED
    BY <1>1, <2>1, <2>2, <2>3, <2>4
<1>9. c = "celo" /\ ~(1 <= Len(reading)) => Rest' = Rest
  BY <1>4, <1>5, <1>6
<1> QED
  BY <1>2, <1>4, <1>7, <1>8, <1>9

LEMMA RatioBegins ==
    ASSUME ProposalInit(Plans)
    PROVE  RatioInv
<1>1. exchange = Unset /\ task = None /\ plan \in Plans
  BY DEF ProposalInit
<1>2. ASSUME plan.era = "minting", NEW c \in Chains PROVE chain[c].old = 0
  <2>1. \E n : chain[c] = Holding(n, 0, 0, 0, "scheme", {"scheme"})
    BY <1>2 DEF ProposalInit, Before, Chains
  <2> QED
    BY <2>1 DEF Holding
<1> QED
  BY <1>1, <1>2 DEF RatioInv, RatioFitsSupply

\* In the era of minting nothing is locked anywhere and nobody proposes.
LEMMA EraOfMinting ==
    ASSUME ProposalTypes, LockInv, plan.era = "minting"
    PROVE  /\ \A c \in Chains : chain[c].mode # "lock" /\ chain[c].bridge = 0
           /\ queue = {} /\ task \in {None, "celoUpgrade"} /\ None # "celoUpgrade"
<1>1. plan.scripts = {"celoUpgrade"}
  BY ThePlans DEF ProposalTypes
<1>2. "celoUpgrade" \notin Proposed /\ None # "celoUpgrade"
  BY DEF Proposed, None
<1>3. queue = {}
  BY <1>1, <1>2 DEF ProposalTypes, Entry
<1> QED
  BY <1>1, <1>2, <1>3 DEF LockInv, Minting, Locking, Locks, ProposalTypes, TaskTypes

\* The numbers the bounds are about.
LEMMA DriftsAreNumbers ==
    ASSUME ProposalTypes
    PROVE  Drift(since) \in Int /\ InFlight \in Nat /\ moves \in Nat
BY DEF ProposalTypes, TaskTypes, Beginnings, Ledgers, Drift

LEMMA FittingIsKept ==
    ASSUME ProposalAssumption, ProposalTypes, LockInv, plan.era = "minting", task = "celoUpgrade",
           ReadingFits, ProposalTypes', task' = task, since' = since, reading' = reading,
           (\E c, d \in Chains : Leave(c, d)) \/ (\E d \in Chains : Arrive(d)) \/ Grow
    PROVE  ReadingFits'
<1>1. Ledgers /\ Ledgers' /\ "celo" \in Chains
  BY DEF ProposalTypes, Chains
<1>2. \A c \in Chains : chain[c].mode # "lock"
  BY EraOfMinting
<1>3. \A c \in Chains : Supply(c) \in Nat /\ chain[c].people \in Nat
  BY <1>1, SuppliesAreNumbers
<1>4. Drift(since) \in Int /\ InFlight \in Nat /\ Drift(since)' = moves' - since.moves
      /\ Drift(since) = moves - since.moves /\ since.moves \in Nat /\ moves \in Nat
  BY DriftsAreNumbers DEF Drift, ProposalTypes, TaskTypes, Beginnings
<1>5. Len(reading') = 6 => reading'[6] = Stolen
  BY DEF ReadingFits
<1> DEFINE first == Gap(1, "celo")
<1>6. ASSUME NEW c \in Chains, NEW d \in Chains, Leave(c, d) PROVE ReadingFits'
  <2>1. /\ moves' = moves + 1 /\ InFlight' = InFlight + 1
        /\ \A e \in Chains : Alike(chain'[e], chain[e]) /\ (e # c => chain'[e] = chain[e])
        /\ chain'[c].people = chain[c].people - 1 /\ chain'[c].bridge = chain[c].bridge
    BY <1>1, <1>2, <1>6, LeavingDoes
  <2>2. Supply(c)' = Supply(c) + (-1)
    BY <1>1, <1>3, <2>1, SupplyFollows
  <2>3. \A e \in Chains \ {c} : Supply(e)' = Supply(e)
    BY <2>1 DEF Supply
  <2>4. /\ Rest \in Int /\ first \in Int /\ Rest' \in {Rest, Rest + 1}
        /\ first' \in {first, first + 1}
    <3>1. /\ Rest \in Int /\ Gap(1, "celo") \in Int /\ Rest' \in {Rest, Rest - (-1)}
          /\ Gap(1, "celo")' \in {Gap(1, "celo"), Gap(1, "celo") - (-1)}
      BY <2>2, <2>3, RestFollows
    <3> QED
      BY <3>1
  <2>5. grown' = grown /\ Drift(since)' = Drift(since) + 1
    BY <1>4, <1>6, <2>1 DEF Leave
  <2>6. /\ InFlight' <= Drift(since)' /\ Rest' <= Drift(since)'
    BY <1>4, <2>1, <2>4, <2>5 DEF ReadingFits
  <2>7. CASE -Rest <= Drift(since) - InFlight /\ first <= Drift(since)
    <3>1. -Rest' <= Drift(since)' - InFlight' /\ first' <= Drift(since)'
      BY <1>4, <2>1, <2>4, <2>5, <2>7
    <3> QED
      BY <1>5, <2>6, <3>1 DEF ReadingFits
  <2>8. CASE grown /\ -Rest <= Drift(since) - InFlight + 1 /\ first + 1 <= Drift(since)
    <3>1. -Rest' <= Drift(since)' - InFlight' + 1 /\ first' + 1 <= Drift(since)'
      BY <1>4, <2>1, <2>4, <2>5, <2>8
    <3> QED
      BY <1>5, <2>5, <2>6, <2>8, <3>1 DEF ReadingFits
  <2> QED
    BY <2>7, <2>8 DEF ReadingFits
<1>7. ASSUME NEW d \in Chains, Arrive(d) PROVE ReadingFits'
  <2>1. /\ moves' = moves /\ InFlight' = InFlight - 1
        /\ \A e \in Chains : Alike(chain'[e], chain[e]) /\ (e # d => chain'[e] = chain[e])
        /\ chain'[d].people = chain[d].people + 1 /\ chain'[d].bridge = chain[d].bridge
    BY <1>1, <1>2, <1>7, ArrivingDoes
  <2>2. Supply(d)' = Supply(d) + 1
    BY <1>1, <1>3, <2>1, SupplyFollows
  <2>3. \A e \in Chains \ {d} : Supply(e)' = Supply(e)
    BY <2>1 DEF Supply
  <2>4. /\ Rest \in Int /\ first \in Int /\ Rest' \in {Rest, Rest - 1}
        /\ first' \in {first, first - 1}
    BY <2>2, <2>3, RestFollows
  <2>5. grown' = grown /\ Drift(since)' = Drift(since)
    BY <1>4, <1>7, <2>1 DEF Arrive
  <2>6. /\ InFlight' <= Drift(since)' /\ Rest' <= Drift(since)'
    BY <1>4, <2>1, <2>4, <2>5 DEF ReadingFits
  <2>7. CASE -Rest <= Drift(since) - InFlight /\ first <= Drift(since)
    <3>1. -Rest' <= Drift(since)' - InFlight' /\ first' <= Drift(since)'
      BY <1>4, <2>1, <2>4, <2>5, <2>7
    <3> QED
      BY <1>5, <2>6, <3>1 DEF ReadingFits
  <2>8. CASE grown /\ -Rest <= Drift(since) - InFlight + 1 /\ first + 1 <= Drift(since)
    <3>1. -Rest' <= Drift(since)' - InFlight' + 1 /\ first' + 1 <= Drift(since)'
      BY <1>4, <2>1, <2>4, <2>5, <2>8
    <3> QED
      BY <1>5, <2>5, <2>6, <2>8, <3>1 DEF ReadingFits
  <2> QED
    BY <2>7, <2>8 DEF ReadingFits
<1>8. CASE Grow
  <2>1. /\ moves' = moves /\ InFlight' = InFlight /\ ~grown /\ grown'
        /\ \A e \in Chains : Alike(chain'[e], chain[e]) /\ (e # "celo" => chain'[e] = chain[e])
        /\ chain'["celo"].people = chain["celo"].people + 1
        /\ chain'["celo"].bridge = chain["celo"].bridge
    BY <1>1, <1>8, GrowingDoes
  <2>2. Supply("celo")' = Supply("celo") + 1
    BY <1>1, <1>3, <2>1, SupplyFollows
  <2>3. \A e \in Chains \ {"celo"} : Supply(e)' = Supply(e)
    BY <2>1 DEF Supply
  <2>4. /\ Rest \in Int /\ first \in Int /\ Rest' \in {Rest, Rest - 1}
        /\ first' \in {first, first - 1}
        /\ 1 <= Len(reading) => first' = first - 1
        /\ ~(1 <= Len(reading)) => Rest' = Rest
    BY <1>1, <2>2, <2>3, RestFollows
  <2>5. Drift(since)' = Drift(since)
    BY <1>4, <2>1
  <2>6. /\ InFlight' <= Drift(since)' /\ Rest' <= Drift(since)'
    <3>1. InFlight <= Drift(since) /\ Rest <= Drift(since)
      BY <2>1 DEF ReadingFits
    <3>2. Rest' <= Rest
      BY <2>4
    <3>3. InFlight' = InFlight
      BY <2>1
    <3> QED
      BY <1>4, <2>4, <2>5, <3>1, <3>2, <3>3
  <2>7. -Rest <= Drift(since) - InFlight /\ first <= Drift(since)
    BY <2>1 DEF ReadingFits
  <2>8. CASE 1 <= Len(reading)
    <3>1. -Rest' <= Drift(since)' - InFlight' + 1
      <4>1. Rest \in Int /\ (Rest' = Rest \/ Rest' = Rest - 1)
        BY <2>4
      <4>2. InFlight' = InFlight
        BY <2>1
      <4> QED
        BY <1>4, <2>5, <2>7, <4>1, <4>2
    <3>2. first' + 1 <= Drift(since)'
      <4>1. first' = first - 1
        BY <2>4, <2>8
      <4> QED
        BY <1>4, <2>4, <2>5, <2>7, <4>1
    <3> QED
      BY <1>5, <2>1, <2>6, <3>1, <3>2 DEF ReadingFits
  <2>9. CASE ~(1 <= Len(reading))
    <3>1. -Rest' <= Drift(since)' - InFlight' /\ first' <= Drift(since)'
      BY <1>4, <2>1, <2>4, <2>5, <2>7, <2>9
    <3> QED
      BY <1>5, <2>6, <3>1 DEF ReadingFits
  <2> QED
    BY <2>8, <2>9
<1> QED
  BY <1>6, <1>7, <1>8

\* What has just been read is what there is.
LEMMA FittingByReading ==
    ASSUME ProposalAssumption, ProposalTypes, task = "celoUpgrade", ReadingFits, ReadOne
    PROVE  ReadingFits'
<1>1. /\ Len(reading) # 6 /\ UNCHANGED << user_vars, since, task >>
      /\ reading' = Append(reading, ReadingOf(Reads("celoUpgrade")[Len(reading) + 1], On(task)))
  BY WhatIsRead DEF ReadOne, HasRead
<1>2. reading \in Seq(Nat) /\ Len(reading) <= 6 /\ Len(reading) \in Nat
  <2>1. reading \in Seq(Nat) /\ Len(reading) <= Len(Reads("celoUpgrade"))
    BY DEF ProposalTypes, TaskTypes, None
  <2>2. Len(Reads("celoUpgrade")) = 6
    BY WhatIsRead
  <2>3. Len(reading) \in Nat
    BY <2>1
  <2>4. Len(reading) <= 6
    BY <2>1, <2>2
  <2> QED
    BY <2>1, <2>3, <2>4
<1>3. /\ Reads("celoUpgrade")[1] = "celo" /\ Reads("celoUpgrade")[2] = "celo"
      /\ Reads("celoUpgrade")[3] = "xdc" /\ Reads("celoUpgrade")[4] = "fuse"
      /\ Reads("celoUpgrade")[5] = "mainnet" /\ Reads("celoUpgrade")[6] = "LOCKED_ACCOUNTS"
  BY WhatIsRead
<1>4. /\ \A c : ReadingOf("celo", c) = Supply("celo") /\ ReadingOf("xdc", c) = Supply("xdc")
                /\ ReadingOf("fuse", c) = Supply("fuse")
                /\ ReadingOf("mainnet", c) = Supply("mainnet")
                /\ ReadingOf("LOCKED_ACCOUNTS", c) = Stolen
  BY DEF ReadingOf
<1> DEFINE v == ReadingOf(Reads("celoUpgrade")[Len(reading) + 1], On(task))
<1>5. /\ \A c : Supply(c)' = Supply(c)
      /\ InFlight' = InFlight /\ Drift(since)' = Drift(since) /\ grown' = grown
  BY <1>1 DEF user_vars, Supply, InFlight, Drift
<1>6. \A i \in 1 .. 6 : /\ i <= Len(reading) => reading'[i] = reading[i]
                        /\ i = Len(reading) + 1 => reading'[i] = v
  <2>1. reading' = Append(reading, v)
    BY <1>1
  <2> HIDE DEF v
  <2>2. PICK s \in Seq(Nat) : s = reading
    BY <1>2
  <2>3. PICK t : t = reading'
    OBVIOUS
  <2>4. t = Append(s, v) /\ Len(s) \in Nat /\ DOMAIN s = 1 .. Len(s)
    BY <2>1, <2>2, <2>3
  <2>5. \A i \in 1 .. Len(s) : t[i] = s[i]
    BY <2>4
  <2>6. t[Len(s) + 1] = v
    BY <2>4
  <2> QED
    BY <2>2, <2>3, <2>4, <2>5, <2>6
<1>7. Len(reading') = Len(reading) + 1
  BY <1>1, <1>2
<1>8. \A c \in Chains : Supply(c) \in Nat
  BY SuppliesAreNumbers DEF ProposalTypes
<1>9. ASSUME NEW i \in 1 .. 5, NEW c \in Chains, Reads("celoUpgrade")[i] = c,
             \A d : ReadingOf(c, d) = Supply(c)
      PROVE  Gap(i, c)' = Gap(i, c)
  <2>1. Gap(i, c)' = IF i <= Len(reading') THEN reading'[i] - Supply(c) ELSE 0
    BY <1>5 DEF Gap
  <2>2. CASE i <= Len(reading)
    <3>1. reading'[i] = reading[i]
      <4>1. i \in 1 .. 6
        OBVIOUS
      <4> QED
        BY <1>6, <2>2, <4>1
    <3>2. i <= Len(reading')
      BY <1>2, <1>7, <2>2
    <3>3. Gap(i, c)' = reading'[i] - Supply(c)
      BY <2>1, <3>2
    <3>4. Gap(i, c) = reading[i] - Supply(c)
      BY <2>2 DEF Gap
    <3> QED
      BY <3>1, <3>3, <3>4
  <2>3. CASE i = Len(reading) + 1
    <3>1. reading'[i] = Supply(c)
      BY <1>6, <1>9, <2>3
    <3>2. Gap(i, c)' = 0
      BY <1>2, <1>7, <1>8, <2>1, <2>3, <3>1
    <3> QED
      BY <1>2, <2>3, <3>2 DEF Gap
  <2>4. CASE i > Len(reading) + 1
    BY <1>2, <1>7, <2>1, <2>4 DEF Gap
  <2> QED
    BY <1>2, <2>2, <2>3, <2>4
<1>10. /\ Gap(1, "celo")' = Gap(1, "celo") /\ Gap(2, "celo")' = Gap(2, "celo")
       /\ Gap(3, "xdc")' = Gap(3, "xdc") /\ Gap(4, "fuse")' = Gap(4, "fuse")
       /\ Gap(5, "mainnet")' = Gap(5, "mainnet")
  BY <1>3, <1>4, <1>9 DEF Chains
<1>11. Rest' = Rest
  BY <1>10 DEF Rest
<1>12. Len(reading') = 6 => reading'[6] = Stolen
  <2>1. SUFFICES ASSUME Len(reading') = 6 PROVE reading'[6] = Stolen
    OBVIOUS
  <2>2. Len(reading) + 1 = 6
    BY <1>7, <2>1
  <2>3. v = Stolen
    BY <1>3, <1>4, <2>2
  <2> HIDE DEF v
  <2> QED
    BY <1>6, <2>2, <2>3
<1> QED
  BY <1>5, <1>10, <1>11, <1>12 DEF ReadingFits

LEMMA ReadNumbers == \A s \in Seq(Nat) : \A i \in 1 .. Len(s) : s[i] \in Nat
OBVIOUS

LEMMA FittingBegins ==
    ASSUME ProposalTypes, NEW script \in plan.scripts, StartScript(script)
    PROVE  ReadingFits'
<1>1. /\ reading' = reading /\ UNCHANGED user_vars /\ task = None
      /\ since' = [moves |-> moves - InFlight, nonce |-> nonce]
  BY DEF StartScript
<1>2. reading = << >> /\ InFlight \in Nat /\ moves \in Nat
  BY <1>1 DEF ProposalTypes, TaskTypes, Ledgers
<1>3. InFlight' = InFlight /\ moves' = moves
  BY <1>1 DEF user_vars, InFlight
<1>4. Drift(since)' = InFlight
  BY <1>1, <1>2, <1>3 DEF Drift
<1>5. Len(reading') = 0
  BY <1>1, <1>2
<1>6. \A i \in 1 .. 5 : \A c \in Chains : Gap(i, c)' = 0
  BY <1>5 DEF Gap
<1>7. Rest' = 0 /\ Gap(1, "celo")' = 0
  BY <1>6 DEF Rest, Chains
<1> QED
  BY <1>2, <1>3, <1>4, <1>5, <1>7 DEF ReadingFits

\* All is read, and what was read first still holds.
LEMMA FittingIsEnough ==
    ASSUME ProposalAssumption, ProposalTypes, LockInv, RatioInv, celoUpgrade
    PROVE  RatioFitsSupply'
<1>1. CASE exchange' = exchange
  BY <1>1 DEF RatioInv, RatioFitsSupply
<1>2. CASE exchange' # exchange
  <2>1. /\ HasRead /\ task = "celoUpgrade" /\ IsCurrent(reading[1])
        /\ exchange' = [real |-> calculateReserveParams(reading).real,
                        celo |-> calculateReserveParams(reading).celo,
                        circulating |-> Circulating, drift |-> Drift(since)]
    BY <1>2 DEF celoUpgrade
  <2>2. exchange'.real = realSupply(reading) /\ exchange'.circulating = Circulating
        /\ exchange'.drift = Drift(since)
    BY <2>1 DEF calculateReserveParams
  <2>3. plan.era = "minting" /\ task # None
    <3>1. task \in plan.scripts /\ plan \in Plans
      BY <2>1 DEF ProposalTypes, TaskTypes, HasRead
    <3> QED
      BY <2>1, <3>1, PlannedScripts DEF HasRead
  <2>4. ReadingFits /\ \A c \in Chains : chain[c].old = 0 /\ chain[c].bridge = 0
    BY <2>3, EraOfMinting DEF RatioInv
  <2>5. Len(reading) = 6 /\ reading \in Seq(Nat)
    BY <2>1, WhatIsRead DEF HasRead, ProposalTypes, TaskTypes
  <2>6. /\ reading[1] \in Nat /\ reading[2] \in Nat /\ reading[3] \in Nat /\ reading[4] \in Nat
        /\ reading[5] \in Nat /\ reading[6] = Stolen
    <3>1. reading[6] = Stolen
      BY <2>4, <2>5 DEF ReadingFits
    <3>2. \A i \in 1 .. 6 : reading[i] \in Nat
      <4>1. \A i \in 1 .. Len(reading) : reading[i] \in Nat
        BY <2>5, ReadNumbers
      <4> QED
        BY <2>5, <4>1
    <3> QED
      BY <3>1, <3>2
  <2>7. {"mainnet", "fuse", "celo", "xdc"} = Chains
    BY DEF Chains
  <2>8. /\ Stolen \in Nat
        /\ \A c \in Chains : Supply(c) \in Nat /\ chain[c].people \in Nat /\ chain[c].avatar \in Nat
    BY SuppliesAreNumbers DEF ProposalTypes
  <2>9. \A c \in Chains : Supply(c) = chain[c].people + chain[c].avatar
                                      + (IF c = "mainnet" THEN Stolen ELSE 0)
    BY <2>4, <2>8 DEF Supply
  <2>10. /\ Supply("mainnet") = chain["mainnet"].people + chain["mainnet"].avatar + Stolen
         /\ Supply("fuse") = chain["fuse"].people + chain["fuse"].avatar
         /\ Supply("celo") = chain["celo"].people + chain["celo"].avatar
         /\ Supply("xdc") = chain["xdc"].people + chain["xdc"].avatar
    BY <2>7, <2>8, <2>9
  <2>11. Drift(since) \in Int /\ InFlight \in Nat
    BY DriftsAreNumbers
  <2>12. Circulating = chain["mainnet"].people + chain["mainnet"].avatar
                       + (chain["fuse"].people + chain["fuse"].avatar)
                       + (chain["celo"].people + chain["celo"].avatar)
                       + (chain["xdc"].people + chain["xdc"].avatar) + InFlight
    BY <2>7 DEF Circulating, TotalOf
  <2>13. Circulating = Supply("mainnet") + Supply("fuse") + Supply("celo") + Supply("xdc") - Stolen
                       + InFlight
    BY <2>7, <2>8, <2>10, <2>11, <2>12
  <2>14. /\ Gap(1, "celo") = reading[1] - Supply("celo") /\ Gap(2, "celo") = reading[2] - Supply("celo")
         /\ Gap(3, "xdc") = reading[3] - Supply("xdc") /\ Gap(4, "fuse") = reading[4] - Supply("fuse")
         /\ Gap(5, "mainnet") = reading[5] - Supply("mainnet")
    BY <2>5 DEF Gap
  <2>15. Gap(1, "celo") = 0
    <3>1. Supply("celo") = reading[1]
      BY <2>1 DEF IsCurrent
    <3> QED
      BY <2>6, <2>14, <3>1
  <2>16. realSupply(reading) = Circulating + Rest - InFlight /\ Rest \in Int /\ Circulating \in Int
    <3>1. Supply("mainnet") \in Nat /\ Supply("fuse") \in Nat /\ Supply("celo") \in Nat
          /\ Supply("xdc") \in Nat
      BY <2>7, <2>8
    <3>2. Rest = (reading[2] - Supply("celo")) + (reading[3] - Supply("xdc"))
                 + (reading[4] - Supply("fuse")) + (reading[5] - Supply("mainnet"))
      BY <2>14 DEF Rest
    <3>3. realSupply(reading) = reading[2] + reading[3] + reading[4] + reading[5] - Stolen
      BY <2>6 DEF realSupply
    <3> QED
      BY <2>6, <2>8, <2>11, <2>13, <3>1, <3>2, <3>3
  <2> DEFINE real == realSupply(reading)
             far == Drift(since)
  <2>17. real - Circulating <= 2 * far /\ Circulating - real <= 2 * far /\ real \in Int
    <3>1. InFlight <= far /\ Rest <= far
      BY <2>4 DEF ReadingFits
    <3>2. -Rest <= far - InFlight \/ (-Rest <= far - InFlight + 1 /\ 1 <= far)
      BY <2>4, <2>11, <2>15 DEF ReadingFits
    <3>3. real = Circulating + Rest - InFlight /\ Rest \in Int /\ Circulating \in Int
          /\ far \in Int /\ InFlight \in Nat
      BY <2>11, <2>16
    <3> HIDE DEF real, far
    <3>4. real - Circulating <= 2 * far
      BY <3>1, <3>3
    <3>5. Circulating - real <= 2 * far
      BY <3>1, <3>2, <3>3
    <3> QED
      BY <3>3, <3>4, <3>5
  <2>18. Distance(real, Circulating) <= 2 * far
    BY <2>16, <2>17 DEF Distance
  <2> QED
    BY <2>2, <2>18 DEF RatioFitsSupply
<1> QED
  BY <1>1, <1>2

LEMMA RatioIsKept ==
    ASSUME ProposalAssumption, ProposalTypes, LockInv, RatioInv, ProposalTypes', plan' = plan,
           [ProposalNext]_proposal_vars
    PROVE  RatioInv'
<1>1. ASSUME exchange' = exchange PROVE RatioFitsSupply'
  BY <1>1 DEF RatioInv, RatioFitsSupply
<1>2. RatioFitsSupply'
  <2>1. CASE celoUpgrade
    BY <2>1, FittingIsEnough
  <2>2. ~celoUpgrade => exchange' = exchange
    BY DEF ProposalNext, Run, Leave, Arrive, Grow, StartScript, ReadOne, executeViaSafe, Simulate,
           SimulationFailed, SendGenericCall, Executed, ScriptDies, execTransaction, proposal_vars
  <2> QED
    BY <1>1, <2>1, <2>2
<1>3. SUFFICES ASSUME plan.era = "minting"
               PROVE  /\ \A c \in Chains : chain'[c].old = 0
                      /\ task' # None => ReadingFits'
  BY <1>2 DEF RatioInv
<1>4. /\ queue = {} /\ task \in {None, "celoUpgrade"} /\ None # "celoUpgrade"
      /\ \A c \in Chains : chain[c].old = 0
      /\ task # None => ReadingFits
  BY <1>3, EraOfMinting DEF RatioInv
<1>5. Ledgers
  BY DEF ProposalTypes
<1>6. ASSUME UNCHANGED << user_vars, task, since, reading >>
      PROVE  (\A c \in Chains : chain'[c].old = 0) /\ (task' # None => ReadingFits')
  <2>1. Rest' = Rest /\ Gap(1, "celo")' = Gap(1, "celo") /\ InFlight' = InFlight
        /\ Drift(since)' = Drift(since)
    BY <1>6 DEF Rest, Gap, Supply, user_vars, InFlight, Drift
  <2> QED
    BY <1>4, <1>6, <2>1 DEF ReadingFits, user_vars
<1>7. ASSUME Stop, UNCHANGED user_vars
      PROVE  (\A c \in Chains : chain'[c].old = 0) /\ (task' # None => ReadingFits')
  BY <1>4, <1>7 DEF Stop, user_vars
<1>8. ASSUME (\E c, d \in Chains : Leave(c, d)) \/ (\E d \in Chains : Arrive(d)) \/ Grow
      PROVE  (\A c \in Chains : chain'[c].old = 0) /\ (task' # None => ReadingFits')
  <2>1. UNCHANGED << task, since, reading >>
    BY <1>8 DEF Leave, Arrive, Grow, run_vars
  <2>2. \A c \in Chains : Alike(chain'[c], chain[c])
    BY <1>5, <1>8, LeavingDoes, ArrivingDoes, GrowingDoes
  <2>3. task = "celoUpgrade" => ReadingFits'
    BY <1>3, <1>4, <1>8, <2>1, FittingIsKept
  <2> QED
    BY <1>4, <2>1, <2>2, <2>3 DEF Alike
<1>9. ASSUME NEW script \in plan.scripts, StartScript(script)
      PROVE  (\A c \in Chains : chain'[c].old = 0) /\ (task' # None => ReadingFits')
  <2>1. UNCHANGED user_vars
    BY <1>9 DEF StartScript
  <2> QED
    BY <1>4, <1>9, <2>1, FittingBegins DEF user_vars
<1>10. CASE ReadOne
  <2>1. task # None /\ UNCHANGED user_vars
    BY <1>10 DEF ReadOne
  <2> QED
    BY <1>4, <1>10, <2>1, FittingByReading DEF user_vars
<1>11. CASE executeViaSafe \/ SimulationFailed \/ Executed \/ celoUpgrade \/ ScriptDies
  <2>1. Stop /\ UNCHANGED user_vars
    BY <1>11 DEF executeViaSafe, SimulationFailed, Executed, celoUpgrade, ScriptDies
  <2> QED
    BY <1>7, <2>1
<1>12. CASE Simulate
  BY <1>6, <1>12 DEF Simulate
<1>13. ~SendGenericCall
  <2>1. SUFFICES ASSUME SendGenericCall PROVE FALSE
    OBVIOUS
  <2>2. task \in Proposed
    BY <2>1, SendingDoes
  <2> QED
    BY <1>4, <2>2 DEF Proposed, None
<1>14. CASE UNCHANGED proposal_vars
  BY <1>6, <1>14 DEF proposal_vars, run_vars
<1> QED
  BY <1>4, <1>6, <1>8, <1>9, <1>10, <1>11, <1>12, <1>13, <1>14 DEF ProposalNext, Run

\* The ratio of the reserve is that of the G$ there are when it is set (the
\* check of UpdateReserveRatio.upgrade), but for what was bridged meanwhile.
THEOREM RatioIsOfTheSupply == ASSUME ProposalAssumption PROVE ProposalSpec => []RatioFitsSupply
<1> DEFINE All == ProposalTypes /\ LockInv /\ RatioInv
<1>1. ProposalInit(Plans) => All
  BY TypesBegin, LockBegins, RatioBegins
<1>2. All /\ [ProposalNext]_proposal_vars => All'
  BY TypesAreKept, LockIsKept, RatioIsKept
<1>3. All => RatioFitsSupply
  BY DEF RatioInv
<1> QED
  BY <1>1, <1>2, <1>3, PTL DEF ProposalSpec

---------------------------------------------------------------------------
(* The bridge of Celo holds what the other chains hold *)

Funding == plan.scripts = {"upgradeCelo"}
Funded == chain["celo"].upgraded
LockedOnMainnet == Stolen + chain["mainnet"].bridge + chain["mainnet"].old

\* How much more was read than there is now of what is counted.
Excess(r) == (IF Len(r) >= 1 THEN LockedOnMainnet - r[1] ELSE 0)
             + (IF Len(r) >= 3 THEN r[3] - Supply("fuse") ELSE 0)
             + (IF Len(r) >= 4 THEN r[4] - Supply("celo") ELSE 0)
CeloFits(r, from) ==
    /\ -Excess(r) <= Drift(from) - InFlight
    /\ Excess(r) + chain["celo"].bridge <= moves
    /\ Len(r) >= 2 => r[2] = Supply("mainnet")

\* How much more the bridge holds than the other chains do.
Elsewhere == chain["mainnet"].people + chain["mainnet"].avatar
             + chain["fuse"].people + chain["fuse"].avatar + InFlight
Surplus == chain["celo"].bridge - Elsewhere
SurplusFits(drift) == Funded /\ -Surplus <= drift /\ Surplus <= moves

\* What else is so in the era of version 4 while Celo is upgraded.
FundingEra ==
    /\ chain["mainnet"].mode = "lock" /\ chain["fuse"].old = 0 /\ chain["celo"].old = 0
    /\ chain["xdc"].people = 0 /\ chain["xdc"].avatar = 0 /\ flight["xdc"] = 0
    /\ Funded => chain["celo"].mode = "lock"
    /\ task # None /\ call_at >= 3 => chain["celo"].mode = "lock"
FundingReads ==
    /\ chain["celo"].bridge <= moves
    /\ task # None => CeloFits(reading, since)
    /\ \A p \in queue : \E r \in Readings("upgradeCelo") :
           p.calls = upgradeCelo(r) /\ CeloFits(r, p.since)
BackedInv ==
    /\ \A i \in DOMAIN done : done[i].script \in plan.scripts
    /\ Funding =>
           /\ FundingEra
           /\ ~Funded => FundingReads
           /\ done # << >> /\ ~done[1].failed => SurplusFits(done[1].drift)
           /\ task # None /\ call_at >= 7 /\ ~failed => SurplusFits(Drift(since))

LEMMA FundingIsOfV4 ==
    ASSUME plan \in Plans, "upgradeCelo" \in plan.scripts
    PROVE  Funding /\ plan.era = "v4"
<1>1. plan.era = "v4"
  BY ScriptsOfEras
<1>2. plan.scripts \in {{"upgradeMainnet"}, {"upgradeFuse"}, {"upgradeCelo"}}
  BY <1>1, ThePlans
<1> QED
  BY <1>1, <1>2 DEF Funding

\* Numbers, for the arithmetic below.
LEMMA FundingNumbers ==
    ASSUME ProposalAssumption, ProposalTypes
    PROVE  /\ \A c \in Chains : /\ chain[c].people \in Nat /\ chain[c].avatar \in Nat
                                /\ chain[c].bridge \in Nat /\ chain[c].old \in Nat
                                /\ Supply(c) \in Nat
           /\ LockedOnMainnet \in Nat /\ InFlight \in Nat /\ moves \in Nat
           /\ Elsewhere \in Nat /\ Surplus \in Int
           /\ {"mainnet", "fuse", "celo", "xdc"} = Chains
<1>1. {"mainnet", "fuse", "celo", "xdc"} = Chains
  BY DEF Chains
<1>2. /\ \A c \in Chains : /\ chain[c].people \in Nat /\ chain[c].avatar \in Nat
                           /\ chain[c].bridge \in Nat /\ chain[c].old \in Nat
                           /\ Supply(c) \in Nat
      /\ Stolen + chain["mainnet"].bridge + chain["mainnet"].old \in Nat
  BY SuppliesAreNumbers DEF ProposalTypes
<1>3. InFlight \in Nat /\ moves \in Nat
  BY DEF ProposalTypes, Ledgers
<1>4. /\ chain["mainnet"].people \in Nat /\ chain["mainnet"].avatar \in Nat
      /\ chain["fuse"].people \in Nat /\ chain["fuse"].avatar \in Nat /\ chain["celo"].bridge \in Nat
  BY <1>1, <1>2
<1>5. Elsewhere \in Nat
  BY <1>3, <1>4 DEF Elsewhere
<1>6. Surplus \in Int
  BY <1>4, <1>5 DEF Surplus
<1> QED
  BY <1>1, <1>2, <1>3, <1>5, <1>6 DEF LockedOnMainnet

\* How far a number a is from a reading q, if it was read.
LEMMA BehindIsNumber ==
    ASSUME NEW p, NEW a \in Int, NEW q, p => q \in Int
    PROVE  (IF p THEN a - q ELSE 0) \in Int /\ (IF p THEN q - a ELSE 0) \in Int
OBVIOUS

LEMMA ExcessIsNumber ==
    ASSUME ProposalAssumption, ProposalTypes, NEW r \in Seq(Nat)
    PROVE  /\ Excess(r) \in Int
           /\ Len(r) \in Nat /\ \A i \in 1 .. Len(r) : r[i] \in Nat
<1>1. Len(r) \in Nat /\ \A i \in 1 .. Len(r) : r[i] \in Nat
  BY ReadNumbers
<1>2. LockedOnMainnet \in Nat /\ Supply("fuse") \in Nat /\ Supply("celo") \in Nat
  BY FundingNumbers
<1>3. /\ Len(r) >= 1 => r[1] \in Nat
      /\ Len(r) >= 3 => r[3] \in Nat
      /\ Len(r) >= 4 => r[4] \in Nat
  BY <1>1
<1>4. (IF Len(r) >= 1 THEN LockedOnMainnet - r[1] ELSE 0) \in Int
  BY <1>2, <1>3, BehindIsNumber
<1>5. (IF Len(r) >= 3 THEN r[3] - Supply("fuse") ELSE 0) \in Int
  BY <1>2, <1>3, BehindIsNumber
<1>6. (IF Len(r) >= 4 THEN r[4] - Supply("celo") ELSE 0) \in Int
  BY <1>2, <1>3, BehindIsNumber
<1>7. PICK x, y, z \in Int : /\ x = (IF Len(r) >= 1 THEN LockedOnMainnet - r[1] ELSE 0)
                             /\ y = (IF Len(r) >= 3 THEN r[3] - Supply("fuse") ELSE 0)
                             /\ z = (IF Len(r) >= 4 THEN r[4] - Supply("celo") ELSE 0)
  BY <1>4, <1>5, <1>6
<1>8. Excess(r) = x + y + z
  BY <1>7 DEF Excess
<1> QED
  BY <1>1, <1>8

\* When what is locked on mainnet grows by m, and the supplies of Fuse and
\* Celo by f and c, the excess follows as far as they have been read.
LEMMA ExcessFollows ==
    ASSUME ProposalAssumption, ProposalTypes, NEW r \in Seq(Nat),
           NEW m \in Int, NEW f \in Int, NEW c \in Int,
           LockedOnMainnet' = LockedOnMainnet + m,
           Supply("fuse")' = Supply("fuse") + f, Supply("celo")' = Supply("celo") + c
    PROVE  Excess(r)' = Excess(r) + (IF Len(r) >= 1 THEN m ELSE 0)
                        - (IF Len(r) >= 3 THEN f ELSE 0) - (IF Len(r) >= 4 THEN c ELSE 0)
<1>1. Len(r) \in Nat /\ \A i \in 1 .. Len(r) : r[i] \in Nat
  BY ReadNumbers
<1>2. LockedOnMainnet \in Nat /\ Supply("fuse") \in Nat /\ Supply("celo") \in Nat
  BY FundingNumbers
<1>3. /\ Len(r) >= 1 => r[1] \in Nat
      /\ Len(r) >= 3 => r[3] \in Nat
      /\ Len(r) >= 4 => r[4] \in Nat
  BY <1>1
<1>4. /\ (IF Len(r) >= 1 THEN LockedOnMainnet' - r[1] ELSE 0)
             = (IF Len(r) >= 1 THEN LockedOnMainnet - r[1] ELSE 0) + (IF Len(r) >= 1 THEN m ELSE 0)
      /\ (IF Len(r) >= 1 THEN LockedOnMainnet - r[1] ELSE 0) \in Int
  <2>1. PICK a, b, q : a \in Int /\ a = LockedOnMainnet /\ b = LockedOnMainnet' /\ q = r[1]
    BY <1>2
  <2>2. a \in Int /\ b = a + m
    BY <2>1, Zenon
  <2>3. CASE Len(r) >= 1
    <3>1. q \in Int
      <4>1. r[1] \in Int
        BY <1>3, <2>3
      <4> QED
        BY <2>1, <4>1
    <3>2. b - q = (a - q) + m /\ a - q \in Int
      BY <2>2, <3>1
    <3> QED
      BY <2>1, <2>3, <3>2
  <2>4. CASE ~(Len(r) >= 1)
    BY <2>4
  <2> QED
    BY <2>3, <2>4
<1>5. /\ (IF Len(r) >= 3 THEN r[3] - Supply("fuse")' ELSE 0)
             = (IF Len(r) >= 3 THEN r[3] - Supply("fuse") ELSE 0) - (IF Len(r) >= 3 THEN f ELSE 0)
      /\ (IF Len(r) >= 3 THEN r[3] - Supply("fuse") ELSE 0) \in Int
  <2>1. PICK a, b, q : a \in Int /\ a = Supply("fuse") /\ b = Supply("fuse")' /\ q = r[3]
    BY <1>2
  <2>2. a \in Int /\ b = a + f
    BY <2>1, Zenon
  <2>3. CASE Len(r) >= 3
    <3>1. q \in Int
      <4>1. r[3] \in Int
        BY <1>3, <2>3
      <4> QED
        BY <2>1, <4>1
    <3>2. q - b = (q - a) - f /\ q - a \in Int
      BY <2>2, <3>1
    <3> QED
      BY <2>1, <2>3, <3>2
  <2>4. CASE ~(Len(r) >= 3)
    BY <2>4
  <2> QED
    BY <2>3, <2>4
<1>6. /\ (IF Len(r) >= 4 THEN r[4] - Supply("celo")' ELSE 0)
             = (IF Len(r) >= 4 THEN r[4] - Supply("celo") ELSE 0) - (IF Len(r) >= 4 THEN c ELSE 0)
      /\ (IF Len(r) >= 4 THEN r[4] - Supply("celo") ELSE 0) \in Int
  <2>1. PICK a, b, q : a \in Int /\ a = Supply("celo") /\ b = Supply("celo")' /\ q = r[4]
    BY <1>2
  <2>2. a \in Int /\ b = a + c
    BY <2>1, Zenon
  <2>3. CASE Len(r) >= 4
    <3>1. q \in Int
      <4>1. r[4] \in Int
        BY <1>3, <2>3
      <4> QED
        BY <2>1, <4>1
    <3>2. q - b = (q - a) - c /\ q - a \in Int
      BY <2>2, <3>1
    <3> QED
      BY <2>1, <2>3, <3>2
  <2>4. CASE ~(Len(r) >= 4)
    BY <2>4
  <2> QED
    BY <2>3, <2>4
<1>7. Excess(r)' = (IF Len(r) >= 1 THEN LockedOnMainnet' - r[1] ELSE 0)
             + (IF Len(r) >= 3 THEN r[3] - Supply("fuse")' ELSE 0)
             + (IF Len(r) >= 4 THEN r[4] - Supply("celo")' ELSE 0)
  BY DEF Excess
<1> DEFINE a == IF Len(r) >= 1 THEN LockedOnMainnet - r[1] ELSE 0
           b == IF Len(r) >= 3 THEN r[3] - Supply("fuse") ELSE 0
           d == IF Len(r) >= 4 THEN r[4] - Supply("celo") ELSE 0
           am == IF Len(r) >= 1 THEN m ELSE 0
           bf == IF Len(r) >= 3 THEN f ELSE 0
           dc == IF Len(r) >= 4 THEN c ELSE 0
<1>8. Excess(r)' = (a + am) + (b - bf) + (d - dc) /\ Excess(r) = a + b + d
  BY <1>4, <1>5, <1>6, <1>7 DEF Excess
<1>9. a \in Int /\ b \in Int /\ d \in Int /\ am \in Int /\ bf \in Int /\ dc \in Int
  BY <1>4, <1>5, <1>6
<1>10. Excess(r)' = Excess(r) + am - bf - dc
  <2> HIDE DEF a, b, d, am, bf, dc
  <2> QED
    BY <1>8, <1>9
<1> QED
  BY <1>10

\* What people do in that era: nobody leaves for xdc, and a bridge that
\* locks holds what left over it.
LEMMA FundingByPeople ==
    ASSUME ProposalAssumption, ProposalTypes, ProposalTypes', LockInv, FundingEra, Funding,
           plan' = plan, (\E c, d \in Chains : Leave(c, d)) \/ (\E d \in Chains : Arrive(d)) \/ Grow
    PROVE  \E l, m, f, c, b \in {-1, 0, 1} :
               /\ LockedOnMainnet' = LockedOnMainnet + m /\ Supply("mainnet")' = Supply("mainnet")
               /\ Supply("fuse")' = Supply("fuse") + f /\ Supply("celo")' = Supply("celo") + c
               /\ chain'["celo"].bridge = chain["celo"].bridge + b
               /\ InFlight' = InFlight + l /\ moves' = moves + (IF l = 1 THEN 1 ELSE 0)
               /\ l = 1 \/ l = -1
               /\ <<m, f, c, b>> \in {<<l, 0, 0, 0>>, <<0, -l, 0, 0>>, <<0, 0, -l, 0>>, <<0, 0, 0, l>>}
               /\ b # 0 \/ c # 0 => (b # 0 <=> chain["celo"].mode = "lock")
               /\ chain["celo"].mode = "lock" => Surplus' = Surplus
               /\ FundingEra'
<1>1. plan \in Plans /\ plan.era = "v4" /\ plan.scripts = {"upgradeCelo"}
  <2>1. "upgradeCelo" \in plan.scripts /\ plan \in Plans
    BY DEF Funding, ProposalTypes
  <2> QED
    BY <2>1, FundingIsOfV4 DEF Funding
<1>2. Bridged = Chains \ {"xdc"} /\ {"mainnet", "fuse", "celo", "xdc"} = Chains
  BY <1>1 DEF Bridged, Chains
<1>3. chain["fuse"].mode # "lock" /\ chain["fuse"].bridge = 0
  BY <1>1, <1>2 DEF LockInv, Minting, Locking, Locks
<1>4. Ledgers /\ Ledgers'
  BY DEF ProposalTypes
<1>5. /\ \A c \in Chains : /\ chain[c].people \in Nat /\ chain[c].avatar \in Nat
                           /\ chain[c].bridge \in Nat /\ chain[c].old \in Nat /\ Supply(c) \in Nat
      /\ LockedOnMainnet \in Nat /\ InFlight \in Nat /\ moves \in Nat
  BY FundingNumbers
<1>6. Stolen \in Nat
  BY DEF ProposalAssumption
<1>7. UNCHANGED run_vars
  BY DEF Leave, Arrive, Grow
<1>8. ~Grow
  BY <1>1 DEF Grow
<1>9. ASSUME NEW e \in Chains, Alike(chain'[e], chain[e])
      PROVE  Supply(e)' = Supply(e) + (chain'[e].people - chain[e].people)
                          + (chain'[e].bridge - chain[e].bridge)
  <2> DEFINE stolen == IF e = "mainnet" THEN Stolen ELSE 0
  <2>1. stolen \in Nat
    BY <1>6
  <2>2. /\ Supply(e) = chain[e].people + chain[e].avatar + chain[e].bridge + chain[e].old + stolen
        /\ Supply(e)' = chain'[e].people + chain[e].avatar + chain'[e].bridge + chain[e].old + stolen
    BY <1>9 DEF Supply, Alike
  <2>3. chain'[e].people \in Nat /\ chain'[e].bridge \in Nat
    BY <1>4 DEF Ledgers, Hold
  <2> HIDE DEF stolen
  <2> QED
    BY <1>5, <2>1, <2>2, <2>3
<1>10. ASSUME NEW e \in Chains \ {"xdc"}, NEW l \in {-1, 1},
              \A k \in Chains : Alike(chain'[k], chain[k]) /\ (k # e => chain'[k] = chain[k]),
              chain'[e].people = chain[e].people - l,
              chain'[e].bridge = IF chain[e].mode = "lock" THEN chain[e].bridge + l
                                 ELSE chain[e].bridge,
              InFlight' = InFlight + l, moves' = moves + (IF l = 1 THEN 1 ELSE 0),
              flight'["xdc"] = 0
       PROVE  \E m, f, c, b \in {-1, 0, 1} :
               /\ LockedOnMainnet' = LockedOnMainnet + m /\ Supply("mainnet")' = Supply("mainnet")
               /\ Supply("fuse")' = Supply("fuse") + f /\ Supply("celo")' = Supply("celo") + c
               /\ chain'["celo"].bridge = chain["celo"].bridge + b
               /\ <<m, f, c, b>> \in {<<l, 0, 0, 0>>, <<0, -l, 0, 0>>, <<0, 0, -l, 0>>, <<0, 0, 0, l>>}
               /\ b # 0 \/ c # 0 => (b # 0 <=> chain["celo"].mode = "lock")
               /\ chain["celo"].mode = "lock" => Surplus' = Surplus
               /\ FundingEra'
  <2>1. FundingEra'
    <3>1. /\ chain'["mainnet"].mode = "lock" /\ chain'["fuse"].old = 0 /\ chain'["celo"].old = 0
          /\ chain'["xdc"] = chain["xdc"] /\ chain'["celo"].mode = chain["celo"].mode
          /\ (chain'["celo"].upgraded <=> chain["celo"].upgraded)
      BY <1>2, <1>10 DEF FundingEra, Alike
    <3> QED
      BY <1>7, <1>10, <3>1 DEF FundingEra, Funded, run_vars
  <2>2. \A k \in Chains : k # e => Supply(k)' = Supply(k)
    BY <1>10 DEF Supply
  <2>3. Supply(e)' = IF chain[e].mode = "lock" THEN Supply(e) ELSE Supply(e) - l
    BY <1>5, <1>9, <1>10
  <2>4. /\ Elsewhere = chain["mainnet"].people + chain["mainnet"].avatar
                       + chain["fuse"].people + chain["fuse"].avatar + InFlight
        /\ Elsewhere' = chain'["mainnet"].people + chain["mainnet"].avatar
                        + chain'["fuse"].people + chain["fuse"].avatar + (InFlight + l)
    BY <1>2, <1>10 DEF Elsewhere, Alike
  <2>5. /\ Surplus = chain["celo"].bridge - Elsewhere
        /\ Surplus' = chain'["celo"].bridge - Elsewhere'
    BY DEF Surplus
  <2>6. /\ chain["mainnet"].people \in Nat /\ chain["mainnet"].avatar \in Nat
        /\ chain["fuse"].people \in Nat /\ chain["fuse"].avatar \in Nat
        /\ chain["celo"].bridge \in Nat /\ chain["mainnet"].bridge \in Nat
        /\ chain["mainnet"].old \in Nat
    BY <1>2, <1>5
  <2>7. CASE e = "mainnet"
    <3>1. /\ chain'["fuse"] = chain["fuse"] /\ chain'["celo"] = chain["celo"]
          /\ chain'["mainnet"].people = chain["mainnet"].people - l
          /\ chain'["mainnet"].bridge = chain["mainnet"].bridge + l
          /\ chain'["mainnet"].old = chain["mainnet"].old
      BY <1>2, <1>10, <2>7 DEF FundingEra, Alike
    <3>2. LockedOnMainnet' = LockedOnMainnet + l
      BY <1>6, <2>6, <3>1 DEF LockedOnMainnet
    <3>3. Surplus' = Surplus
      BY <1>5, <2>4, <2>5, <2>6, <3>1
    <3>4. /\ Supply("mainnet")' = Supply("mainnet") /\ Supply("fuse")' = Supply("fuse") + 0
          /\ Supply("celo")' = Supply("celo") + 0
          /\ chain'["celo"].bridge = chain["celo"].bridge + 0
      BY <1>2, <1>5, <2>2, <2>3, <2>6, <2>7, <3>1 DEF FundingEra
    <3>5. l \in {-1, 0, 1} /\ 0 \in {-1, 0, 1}
      OBVIOUS
    <3> QED
      BY <2>1, <3>2, <3>3, <3>4, <3>5
  <2>8. CASE e = "fuse"
    <3>1. /\ chain'["mainnet"] = chain["mainnet"] /\ chain'["celo"] = chain["celo"]
          /\ chain'["fuse"].people = chain["fuse"].people - l
      BY <1>2, <1>10, <2>8
    <3>2. LockedOnMainnet' = LockedOnMainnet + 0
      BY <1>5, <3>1 DEF LockedOnMainnet
    <3>3. Surplus' = Surplus
      BY <1>5, <2>4, <2>5, <2>6, <3>1
    <3>4. /\ Supply("mainnet")' = Supply("mainnet") /\ Supply("fuse")' = Supply("fuse") + (-l)
          /\ Supply("celo")' = Supply("celo") + 0
          /\ chain'["celo"].bridge = chain["celo"].bridge + 0
      BY <1>2, <1>3, <1>5, <2>2, <2>3, <2>6, <2>8, <3>1
    <3>5. -l \in {-1, 0, 1} /\ 0 \in {-1, 0, 1}
      OBVIOUS
    <3> QED
      BY <2>1, <3>2, <3>3, <3>4, <3>5
  <2>9. CASE e = "celo" /\ chain["celo"].mode = "lock"
    <3>1. /\ chain'["mainnet"] = chain["mainnet"] /\ chain'["fuse"] = chain["fuse"]
          /\ chain'["celo"].bridge = chain["celo"].bridge + l
      BY <1>2, <1>10, <2>9
    <3>2. LockedOnMainnet' = LockedOnMainnet + 0
      BY <1>5, <3>1 DEF LockedOnMainnet
    <3>3. Surplus' = Surplus
      BY <1>5, <2>4, <2>5, <2>6, <3>1
    <3>4. /\ Supply("mainnet")' = Supply("mainnet") /\ Supply("fuse")' = Supply("fuse") + 0
          /\ Supply("celo")' = Supply("celo") + 0
      BY <1>2, <1>5, <2>2, <2>3, <2>9
    <3>5. l \in {-1, 0, 1} /\ 0 \in {-1, 0, 1} /\ l # 0
      OBVIOUS
    <3> QED
      BY <2>1, <2>9, <3>1, <3>2, <3>3, <3>4, <3>5
  <2>10. CASE e = "celo" /\ chain["celo"].mode # "lock"
    <3>1. /\ chain'["mainnet"] = chain["mainnet"] /\ chain'["fuse"] = chain["fuse"]
          /\ chain'["celo"].bridge = chain["celo"].bridge + 0
      BY <1>2, <1>10, <2>6, <2>10
    <3>2. LockedOnMainnet' = LockedOnMainnet + 0
      BY <1>5, <3>1 DEF LockedOnMainnet
    <3>4. /\ Supply("mainnet")' = Supply("mainnet") /\ Supply("fuse")' = Supply("fuse") + 0
          /\ Supply("celo")' = Supply("celo") + (-l)
      BY <1>2, <1>5, <2>2, <2>3, <2>10
    <3>5. -l \in {-1, 0, 1} /\ 0 \in {-1, 0, 1}
      OBVIOUS
    <3> QED
      BY <2>1, <2>10, <3>1, <3>2, <3>4, <3>5
  <2> QED
    BY <1>2, <2>7, <2>8, <2>9, <2>10
<1>11. ASSUME NEW e \in Chains, NEW d \in Chains, Leave(e, d)
       PROVE  /\ e \in Chains \ {"xdc"} /\ flight'["xdc"] = 0
              /\ \A k \in Chains : Alike(chain'[k], chain[k]) /\ (k # e => chain'[k] = chain[k])
              /\ chain'[e].people = chain[e].people - 1
              /\ chain'[e].bridge = IF chain[e].mode = "lock" THEN chain[e].bridge + 1
                                    ELSE chain[e].bridge
              /\ InFlight' = InFlight + 1 /\ moves' = moves + (IF 1 = 1 THEN 1 ELSE 0)
  <2>1. {e, d} \subseteq Bridged /\ flight' = [flight EXCEPT ![d] = @ + 1]
    BY <1>11 DEF Leave
  <2>2. flight'["xdc"] = 0
    BY <1>2, <1>4, <2>1 DEF Ledgers, FundingEra
  <2> QED
    BY <1>2, <1>4, <1>11, <2>1, <2>2, LeavingDoes
<1>12. ASSUME NEW e \in Chains, Arrive(e)
       PROVE  /\ e \in Chains \ {"xdc"} /\ flight'["xdc"] = 0
              /\ \A k \in Chains : Alike(chain'[k], chain[k]) /\ (k # e => chain'[k] = chain[k])
              /\ chain'[e].people = chain[e].people - (-1)
              /\ chain'[e].bridge = IF chain[e].mode = "lock" THEN chain[e].bridge + (-1)
                                    ELSE chain[e].bridge
              /\ InFlight' = InFlight + (-1) /\ moves' = moves + (IF -1 = 1 THEN 1 ELSE 0)
  <2>1. flight[e] > 0 /\ flight' = [flight EXCEPT ![e] = @ - 1]
    BY <1>12 DEF Arrive
  <2>2. e # "xdc" /\ flight'["xdc"] = 0
    BY <1>2, <1>4, <2>1 DEF Ledgers, FundingEra
  <2>3. /\ moves' = moves /\ InFlight' = InFlight - 1
        /\ chain'[e].people = chain[e].people + 1
        /\ \A k \in Chains : Alike(chain'[k], chain[k]) /\ (k # e => chain'[k] = chain[k])
        /\ chain'[e].bridge = IF chain[e].mode = "lock" THEN chain[e].bridge - 1
                              ELSE chain[e].bridge
    BY <1>4, <1>12, ArrivingDoes
  <2>4. chain[e].people \in Nat /\ chain[e].bridge \in Nat
    BY <1>5
  <2> QED
    BY <1>5, <2>2, <2>3, <2>4
<1>13. CASE \E e, d \in Chains : Leave(e, d)
  <2>1. PICK e \in Chains, d \in Chains : Leave(e, d)
    BY <1>13
  <2>2. 1 \in {-1, 1} /\ 1 \in {-1, 0, 1}
    OBVIOUS
  <2> DEFINE l == 1
  <2> HIDE DEF l
  <2>3. l \in {-1, 1} /\ l \in {-1, 0, 1}
    BY <2>2 DEF l
  <2>4. /\ e \in Chains \ {"xdc"} /\ flight'["xdc"] = 0
        /\ \A k \in Chains : Alike(chain'[k], chain[k]) /\ (k # e => chain'[k] = chain[k])
        /\ chain'[e].people = chain[e].people - l
        /\ chain'[e].bridge = IF chain[e].mode = "lock" THEN chain[e].bridge + l
                              ELSE chain[e].bridge
        /\ InFlight' = InFlight + l /\ moves' = moves + (IF l = 1 THEN 1 ELSE 0)
    BY <1>11, <2>1 DEF l
  <2>5. l = 1 \/ l = -1
    BY DEF l
  <2> QED
    BY <1>10, <2>3, <2>4, <2>5
<1>14. CASE \E e \in Chains : Arrive(e)
  <2>1. PICK e \in Chains : Arrive(e)
    BY <1>14
  <2>2. -1 \in {-1, 1} /\ -1 \in {-1, 0, 1}
    OBVIOUS
  <2> DEFINE l == -1
  <2> HIDE DEF l
  <2>3. l \in {-1, 1} /\ l \in {-1, 0, 1}
    BY <2>2 DEF l
  <2>4. /\ e \in Chains \ {"xdc"} /\ flight'["xdc"] = 0
        /\ \A k \in Chains : Alike(chain'[k], chain[k]) /\ (k # e => chain'[k] = chain[k])
        /\ chain'[e].people = chain[e].people - l
        /\ chain'[e].bridge = IF chain[e].mode = "lock" THEN chain[e].bridge + l
                              ELSE chain[e].bridge
        /\ InFlight' = InFlight + l /\ moves' = moves + (IF l = 1 THEN 1 ELSE 0)
    BY <1>12, <2>1 DEF l
  <2>5. l = 1 \/ l = -1
    BY DEF l
  <2> QED
    BY <1>10, <2>3, <2>4, <2>5
<1> QED
  BY <1>8, <1>13, <1>14

LEMMA CeloFitsByPeople ==
    ASSUME ProposalAssumption, ProposalTypes, ProposalTypes', LockInv, FundingEra, Funding,
           plan' = plan, (\E c, d \in Chains : Leave(c, d)) \/ (\E d \in Chains : Arrive(d)) \/ Grow,
           NEW r \in Seq(Nat), NEW from \in Beginnings, CeloFits(r, from)
    PROVE  CeloFits(r, from)'
<1>1. PICK l, m, f, c, b \in {-1, 0, 1} :
          /\ LockedOnMainnet' = LockedOnMainnet + m /\ Supply("mainnet")' = Supply("mainnet")
          /\ Supply("fuse")' = Supply("fuse") + f /\ Supply("celo")' = Supply("celo") + c
          /\ chain'["celo"].bridge = chain["celo"].bridge + b
          /\ InFlight' = InFlight + l /\ moves' = moves + (IF l = 1 THEN 1 ELSE 0)
          /\ l = 1 \/ l = -1
          /\ <<m, f, c, b>> \in {<<l, 0, 0, 0>>, <<0, -l, 0, 0>>, <<0, 0, -l, 0>>, <<0, 0, 0, l>>}
  BY FundingByPeople
<1>2. Excess(r)' = Excess(r) + (IF Len(r) >= 1 THEN m ELSE 0)
                   - (IF Len(r) >= 3 THEN f ELSE 0) - (IF Len(r) >= 4 THEN c ELSE 0)
  <2>1. m \in Int /\ f \in Int /\ c \in Int
    BY <1>1
  <2>2. LockedOnMainnet' = LockedOnMainnet + m /\ Supply("fuse")' = Supply("fuse") + f
        /\ Supply("celo")' = Supply("celo") + c
    BY <1>1
  <2> QED
    BY <2>1, <2>2, ExcessFollows
<1>3. Excess(r) \in Int /\ Len(r) \in Nat
  BY ExcessIsNumber
<1>4. /\ chain["celo"].bridge \in Nat /\ InFlight \in Nat /\ moves \in Nat
  BY FundingNumbers
<1>5. from.moves \in Nat /\ Drift(from) = moves - from.moves /\ Drift(from)' = moves' - from.moves
  BY DEF Beginnings, Drift
<1>6. \/ Excess(r)' = Excess(r) /\ b = 0
      \/ Excess(r)' = Excess(r) + l /\ b = 0
      \/ Excess(r)' = Excess(r) /\ b = l
  <2>1. CASE <<m, f, c, b>> = <<l, 0, 0, 0>>
    <3>1. m = l /\ f = 0 /\ c = 0 /\ b = 0
      BY <2>1
    <3> QED
      BY <1>2, <1>3, <3>1
  <2>2. CASE <<m, f, c, b>> = <<0, -l, 0, 0>>
    <3>1. m = 0 /\ f = -l /\ c = 0 /\ b = 0
      BY <2>2
    <3> QED
      BY <1>2, <1>3, <3>1
  <2>3. CASE <<m, f, c, b>> = <<0, 0, -l, 0>>
    <3>1. m = 0 /\ f = 0 /\ c = -l /\ b = 0
      BY <2>3
    <3> QED
      BY <1>2, <1>3, <3>1
  <2>4. CASE <<m, f, c, b>> = <<0, 0, 0, l>>
    <3>1. m = 0 /\ f = 0 /\ c = 0 /\ b = l
      BY <2>4
    <3> QED
      BY <1>2, <1>3, <3>1
  <2> QED
    BY <1>1, <2>1, <2>2, <2>3, <2>4
<1>7. /\ -Excess(r) <= Drift(from) - InFlight
      /\ Excess(r) + chain["celo"].bridge <= moves
      /\ Len(r) >= 2 => r[2] = Supply("mainnet")
  BY DEF CeloFits
<1> DEFINE x == Excess(r)
           held == chain["celo"].bridge
<1>10. x \in Int /\ held \in Nat /\ InFlight \in Nat /\ moves \in Nat /\ Drift(from) \in Int
       /\ -x <= Drift(from) - InFlight /\ x + held <= moves
  <2>1. Drift(from) \in Int
    BY <1>4, <1>5
  <2> QED
    BY <1>3, <1>4, <1>7, <2>1
<1>11. (x' = x /\ b = 0) \/ (x' = x + l /\ b = 0) \/ (x' = x /\ b = l)
  BY <1>6
<1>8. CASE l = 1
  <2>1. InFlight' = InFlight + 1 /\ moves' = moves + 1 /\ held' = held + b
        /\ Drift(from)' = Drift(from) + 1
    <3>1. InFlight' = InFlight + 1 /\ moves' = moves + 1 /\ held' = held + b
      BY <1>1, <1>8
    <3>2. Drift(from)' = Drift(from) + 1
      <4>1. PICK n, k \in Nat : n = moves /\ k = from.moves
        BY <1>4, <1>5
      <4>2. Drift(from) = n - k /\ Drift(from)' = (n + 1) - k
        BY <1>5, <3>1, <4>1
      <4> QED
        BY <4>2
    <3> QED
      BY <3>1, <3>2
  <2>2. -x' <= Drift(from)' - InFlight' /\ x' + held' <= moves'
    <3> HIDE DEF x, held
    <3>1. CASE x' = x /\ b = 0
      BY <1>10, <2>1, <3>1
    <3>2. CASE x' = x + 1 /\ b = 0
      BY <1>10, <2>1, <3>2
    <3>3. CASE x' = x /\ b = 1
      BY <1>10, <2>1, <3>3
    <3> QED
      BY <1>8, <1>11, <3>1, <3>2, <3>3
  <2> QED
    BY <1>1, <1>7, <2>2 DEF CeloFits
<1>9. CASE l = -1
  <2>1. InFlight' = InFlight - 1 /\ moves' = moves /\ held' = held + b
        /\ Drift(from)' = Drift(from)
    <3>1. l # 1
      BY <1>9
    <3> QED
      BY <1>1, <1>4, <1>5, <1>9, <3>1
  <2>2. -x' <= Drift(from)' - InFlight' /\ x' + held' <= moves'
    <3> HIDE DEF x, held
    <3>1. CASE x' = x /\ b = 0
      BY <1>10, <2>1, <3>1
    <3>2. CASE x' = x - 1 /\ b = 0
      BY <1>10, <2>1, <3>2
    <3>3. CASE x' = x /\ b = -1
      BY <1>10, <2>1, <3>3
    <3>4. x + l = x - 1
      BY <1>9, <1>10
    <3> QED
      BY <1>9, <1>11, <3>1, <3>2, <3>3, <3>4
  <2> QED
    BY <1>1, <1>7, <2>2 DEF CeloFits
<1> QED
  BY <1>1, <1>8, <1>9

\* What the upgrade mints leaves the bridge with what was read too much.
LEMMA SurplusArises ==
    ASSUME ProposalAssumption, ProposalTypes, LockInv, Funding, FundingEra,
           NEW r \in Readings("upgradeCelo"), NEW from \in Beginnings, CeloFits(r, from),
           \A c \in Chains : c # "celo" => chain'[c] = chain[c],
           InFlight' = InFlight,
           chain'["celo"].bridge = chain["celo"].bridge + TOTAL_GLOBAL_SUPPLY(r)
                                   - MintedOn(chain["celo"])
    PROVE  -Surplus' <= Drift(from) /\ Surplus' <= moves
<1>1. /\ \A c \in Chains : /\ chain[c].people \in Nat /\ chain[c].avatar \in Nat
                           /\ chain[c].bridge \in Nat /\ chain[c].old \in Nat /\ Supply(c) \in Nat
      /\ LockedOnMainnet \in Nat /\ InFlight \in Nat /\ moves \in Nat
      /\ {"mainnet", "fuse", "celo", "xdc"} = Chains
  BY FundingNumbers
<1>2. r \in Seq(Nat) /\ Len(r) = 4
  BY WhatIsRead DEF Readings
<1>3. r[1] \in Nat /\ r[2] \in Nat /\ r[3] \in Nat /\ r[4] \in Nat
  <2>1. \A i \in 1 .. 4 : r[i] \in Nat
    BY <1>2, ReadNumbers
  <2> QED
    BY <2>1
<1>4. Excess(r) = (LockedOnMainnet - r[1]) + (r[3] - Supply("fuse")) + (r[4] - Supply("celo"))
  BY <1>2 DEF Excess
<1>5. r[2] = Supply("mainnet")
  BY <1>2 DEF CeloFits
<1>6. plan.era = "v4"
  <2>1. "upgradeCelo" \in plan.scripts /\ plan \in Plans
    BY DEF Funding, ProposalTypes
  <2> QED
    BY <2>1, FundingIsOfV4
<1>7. chain["fuse"].bridge = 0
  BY <1>1, <1>6 DEF LockInv, Minting, Locking, Locks
<1>8. Stolen \in Nat
  BY DEF ProposalAssumption
<1> DEFINE pm == chain["mainnet"].people + chain["mainnet"].avatar
           pf == chain["fuse"].people + chain["fuse"].avatar
           pc == chain["celo"].people + chain["celo"].avatar
           b == chain["celo"].bridge
<1>9. pm \in Nat /\ pf \in Nat /\ pc \in Nat /\ b \in Nat
  BY <1>1
<1>10. Supply("mainnet") = pm + LockedOnMainnet
  <2>1. Supply("mainnet") = chain["mainnet"].people + chain["mainnet"].avatar
                            + chain["mainnet"].bridge + chain["mainnet"].old + Stolen
    BY DEF Supply
  <2>2. /\ chain["mainnet"].people \in Nat /\ chain["mainnet"].avatar \in Nat
        /\ chain["mainnet"].bridge \in Nat /\ chain["mainnet"].old \in Nat
    BY <1>1
  <2> QED
    BY <1>8, <2>1, <2>2 DEF LockedOnMainnet
<1>11. Supply("fuse") = pf
  <2>1. Supply("fuse") = chain["fuse"].people + chain["fuse"].avatar + chain["fuse"].bridge
                         + chain["fuse"].old + 0
    BY DEF Supply
  <2> QED
    BY <1>7, <1>9, <2>1 DEF FundingEra
<1>12. Supply("celo") = pc + b /\ MintedOn(chain["celo"]) = pc + b
  <2>1. Supply("celo") = chain["celo"].people + chain["celo"].avatar + chain["celo"].bridge
                         + chain["celo"].old + 0
    BY DEF Supply
  <2>2. chain["celo"].old = 0
    BY DEF FundingEra
  <2> QED
    BY <1>9, <2>1, <2>2 DEF MintedOn
<1>13. Elsewhere' = pm + pf + InFlight
  <2>1. chain'["mainnet"] = chain["mainnet"] /\ chain'["fuse"] = chain["fuse"]
    BY <1>1
  <2>2. Elsewhere' = chain["mainnet"].people + chain["mainnet"].avatar
                     + chain["fuse"].people + chain["fuse"].avatar + InFlight
    BY <2>1 DEF Elsewhere
  <2>3. /\ chain["mainnet"].people \in Nat /\ chain["mainnet"].avatar \in Nat
        /\ chain["fuse"].people \in Nat /\ chain["fuse"].avatar \in Nat
    BY <1>1
  <2> QED
    BY <1>1, <2>2, <2>3
<1>14. Surplus' = (b + (r[2] + r[3] - r[1] + r[4]) - (pc + b)) - (pm + pf + InFlight)
  BY <1>12, <1>13 DEF Surplus, TOTAL_GLOBAL_SUPPLY
<1>15. -Excess(r) <= Drift(from) - InFlight /\ Excess(r) + b <= moves
  BY DEF CeloFits
<1>16. Drift(from) \in Int
  BY <1>1 DEF Drift, Beginnings
<1> HIDE DEF pm, pf, pc, b
<1>17. Surplus' = Excess(r) + b - InFlight /\ Excess(r) \in Int
  BY <1>1, <1>3, <1>4, <1>5, <1>9, <1>10, <1>11, <1>12, <1>14
<1> QED
  BY <1>1, <1>9, <1>15, <1>16, <1>17

\* Nothing that is counted changes.
LEMMA CeloFitsStays ==
    ASSUME NEW r, NEW from, CeloFits(r, from), moves' = moves, InFlight' = InFlight,
           \A c \in Chains : /\ chain'[c].people = chain[c].people
                             /\ chain'[c].avatar = chain[c].avatar
                             /\ chain'[c].bridge = chain[c].bridge /\ chain'[c].old = chain[c].old
    PROVE  CeloFits(r, from)'
<1>1. \A c \in Chains : Supply(c)' = Supply(c)
  BY DEF Supply
<1>2. "mainnet" \in Chains /\ "fuse" \in Chains /\ "celo" \in Chains
  BY DEF Chains
<1>3. LockedOnMainnet' = LockedOnMainnet
  BY <1>2 DEF LockedOnMainnet
<1>4. Excess(r)' = Excess(r)
  BY <1>1, <1>2, <1>3 DEF Excess
<1>5. Drift(from)' = Drift(from)
  BY DEF Drift
<1> QED
  BY <1>1, <1>2, <1>4, <1>5 DEF CeloFits

LEMMA SurplusStays ==
    ASSUME InFlight' = InFlight, Chains = {"mainnet", "fuse", "celo", "xdc"},
           \A c \in Chains : /\ chain'[c].people = chain[c].people
                             /\ chain'[c].avatar = chain[c].avatar
                             /\ chain'[c].bridge = chain[c].bridge
    PROVE  Surplus' = Surplus
BY DEF Surplus, Elsewhere

\* What has just been read is what there is.
LEMMA FundingByReading ==
    ASSUME ProposalAssumption, ProposalTypes, task = "upgradeCelo", ReadOne,
           CeloFits(reading, since)
    PROVE  CeloFits(reading, since)'
<1>1. /\ Len(reading) # 4 /\ UNCHANGED << user_vars, since, task >>
      /\ reading' = Append(reading, ReadingOf(Reads("upgradeCelo")[Len(reading) + 1], On(task)))
  BY WhatIsRead DEF ReadOne, HasRead
<1>2. reading \in Seq(Nat) /\ Len(reading) \in 0 .. 4
  <2>1. reading \in Seq(Nat) /\ Len(reading) <= Len(Reads("upgradeCelo"))
    BY DEF ProposalTypes, TaskTypes, None
  <2>2. Len(Reads("upgradeCelo")) = 4
    BY WhatIsRead
  <2>3. Len(reading) \in Nat
    BY <2>1
  <2>4. Len(reading) <= 4
    BY <2>1, <2>2, <2>3
  <2>5. \A n \in Nat : n <= 4 => n \in 0 .. 4
    OBVIOUS
  <2> QED
    BY <2>1, <2>3, <2>4, <2>5
<1>3. PICK r : r = reading'
  OBVIOUS
<1>4. PICK v : v = ReadingOf(Reads("upgradeCelo")[Len(reading) + 1], On(task))
  OBVIOUS
<1>5. /\ Len(r) = Len(reading) + 1 /\ r[Len(reading) + 1] = v
      /\ \A i \in 1 .. Len(reading) : r[i] = reading[i]
  <2>1. r = Append(reading, v)
    BY <1>1, <1>3, <1>4
  <2> QED
    BY <1>2, <2>1
<1>6. /\ Len(reading) = 0 => v = LockedOnMainnet
      /\ Len(reading) = 1 => v = Supply("mainnet")
      /\ Len(reading) = 2 => v = Supply("fuse")
      /\ Len(reading) = 3 => v = Supply("celo")
  <2>1. /\ Reads("upgradeCelo")[1] = "locked" /\ Reads("upgradeCelo")[2] = "mainnet"
        /\ Reads("upgradeCelo")[3] = "fuse" /\ Reads("upgradeCelo")[4] = "celo"
    BY WhatIsRead
  <2>2. /\ ReadingOf("locked", On(task)) = LockedOnMainnet
        /\ ReadingOf("mainnet", On(task)) = Supply("mainnet")
        /\ ReadingOf("fuse", On(task)) = Supply("fuse")
        /\ ReadingOf("celo", On(task)) = Supply("celo")
    BY DEF ReadingOf, LockedOnMainnet
  <2>3. CASE Len(reading) = 0
    BY <1>4, <2>1, <2>2, <2>3
  <2>4. CASE Len(reading) = 1
    BY <1>4, <2>1, <2>2, <2>4
  <2>5. CASE Len(reading) = 2
    BY <1>4, <2>1, <2>2, <2>5
  <2>6. CASE Len(reading) = 3
    BY <1>4, <2>1, <2>2, <2>6
  <2> QED
    BY <2>3, <2>4, <2>5, <2>6
<1>7. LockedOnMainnet \in Nat /\ Supply("fuse") \in Nat /\ Supply("celo") \in Nat
  BY FundingNumbers
<1>8. \A i \in 1 .. Len(reading) : reading[i] \in Nat
  BY <1>2, ReadNumbers
<1>9. Excess(r) = Excess(reading)
  <2>1. CASE Len(reading) = 0
    <3>1. Excess(reading) = 0
      BY <2>1 DEF Excess
    <3>2. Len(r) = 1 /\ r[1] = LockedOnMainnet
      BY <1>5, <1>6, <2>1
    <3>3. Excess(r) = (LockedOnMainnet - LockedOnMainnet) + 0 + 0
      BY <3>2 DEF Excess
    <3> QED
      BY <1>7, <3>1, <3>3
  <2>2. CASE Len(reading) = 1
    <3>1. Len(r) = 2 /\ r[1] = reading[1]
      BY <1>5, <2>2
    <3> QED
      BY <2>2, <3>1 DEF Excess
  <2>3. CASE Len(reading) = 2
    <3>1. Len(r) = 3 /\ r[1] = reading[1] /\ r[3] = Supply("fuse")
      BY <1>5, <1>6, <2>3
    <3>2. Excess(r) = (LockedOnMainnet - reading[1]) + (Supply("fuse") - Supply("fuse")) + 0
      BY <3>1 DEF Excess
    <3>3. Excess(reading) = (LockedOnMainnet - reading[1]) + 0 + 0
      BY <2>3 DEF Excess
    <3>4. reading[1] \in Nat
      BY <1>8, <2>3
    <3> QED
      BY <1>7, <3>2, <3>3, <3>4
  <2>4. CASE Len(reading) = 3
    <3>1. Len(r) = 4 /\ r[1] = reading[1] /\ r[3] = reading[3] /\ r[4] = Supply("celo")
      BY <1>5, <1>6, <2>4
    <3>2. Excess(r) = (LockedOnMainnet - reading[1]) + (reading[3] - Supply("fuse"))
                      + (Supply("celo") - Supply("celo"))
      BY <3>1 DEF Excess
    <3>3. Excess(reading) = (LockedOnMainnet - reading[1]) + (reading[3] - Supply("fuse")) + 0
      BY <2>4 DEF Excess
    <3>4. reading[1] \in Nat /\ reading[3] \in Nat
      BY <1>8, <2>4
    <3> QED
      BY <1>7, <3>2, <3>3, <3>4
  <2> QED
    BY <1>1, <1>2, <2>1, <2>2, <2>3, <2>4
<1>10. Len(r) >= 2 => r[2] = Supply("mainnet")
  <2>1. CASE Len(reading) = 0
    BY <1>5, <2>1
  <2>2. CASE Len(reading) = 1
    BY <1>5, <1>6, <2>2
  <2>3. CASE Len(reading) \in {2, 3}
    <3>1. r[2] = reading[2] /\ Len(reading) >= 2
      BY <1>5, <2>3
    <3> QED
      BY <3>1 DEF CeloFits
  <2> QED
    BY <1>1, <1>2, <2>1, <2>2, <2>3
<1>11. PICK from : from = since
  OBVIOUS
<1>12. CeloFits(r, from)
  BY <1>9, <1>10, <1>11 DEF CeloFits
<1>13. CeloFits(r, from)'
  <2>1. moves' = moves /\ InFlight' = InFlight /\ chain' = chain
    BY <1>1 DEF user_vars, InFlight
  <2> QED
    BY <1>12, <2>1, CeloFitsStays
<1>14. r = reading' /\ from = since'
  BY <1>1, <1>3, <1>11
<1> QED
  BY <1>13, <1>14 DEF CeloFits, Excess, Drift

LEMMA BackedBegins ==
    ASSUME ProposalAssumption, ProposalInit(Plans)
    PROVE  BackedInv
<1>1. /\ done = << >> /\ task = None /\ queue = {} /\ moves = 0 /\ plan \in Plans
      /\ \A c \in Chains : chain[c] = Before(plan.era, c) /\ flight[c] = 0
  BY DEF ProposalInit
<1>2. SUFFICES ASSUME Funding PROVE FundingEra /\ ~Funded /\ FundingReads
  BY <1>1 DEF BackedInv
<1>3. plan.era = "v4"
  <2>1. "upgradeCelo" \in plan.scripts
    BY <1>2 DEF Funding
  <2> QED
    BY <1>1, <2>1, FundingIsOfV4
<1>4. \A n, a, b, o, m, r :
          /\ Holding(n, a, b, o, m, r).people = n /\ Holding(n, a, b, o, m, r).avatar = a
          /\ Holding(n, a, b, o, m, r).mode = m /\ Holding(n, a, b, o, m, r).bridge = b
          /\ Holding(n, a, b, o, m, r).old = o /\ Holding(n, a, b, o, m, r).upgraded = FALSE
  BY DEF Holding
<1>5. /\ "mainnet" \in Chains /\ "fuse" \in Chains /\ "celo" \in Chains /\ "xdc" \in Chains
  BY DEF Chains
<1>6. chain["mainnet"] = Holding(People["mainnet"], Own, People["celo"], People["fuse"], "lock", {})
  BY <1>1, <1>3, <1>5 DEF Before
<1>7. chain["fuse"] = Holding(People["fuse"], 0, 0, 0, "wrapper", {"wrapper"})
  BY <1>1, <1>3, <1>5 DEF Before
<1>8. chain["celo"] = Holding(People["celo"], 0, 0, 0, "wrapper", {"wrapper"})
  BY <1>1, <1>3, <1>5 DEF Before
<1>9. chain["xdc"] = Holding(0, 0, 0, 0, "scheme", {"scheme"})
  BY <1>1, <1>3, <1>5 DEF Before
<1>10. /\ chain["mainnet"].mode = "lock" /\ chain["fuse"].old = 0 /\ chain["celo"].old = 0
       /\ chain["xdc"].people = 0 /\ chain["xdc"].avatar = 0
       /\ chain["celo"].bridge = 0 /\ ~chain["celo"].upgraded
  BY <1>4, <1>6, <1>7, <1>8, <1>9
<1>11. FundingEra /\ ~Funded
  BY <1>1, <1>5, <1>10 DEF FundingEra, Funded
<1>12. FundingReads
  <2>1. chain["celo"].bridge <= moves
    BY <1>1, <1>10
  <2> QED
    BY <1>1, <2>1 DEF FundingReads
<1> QED
  BY <1>11, <1>12

\* What people do leaves what is counted as it was.
LEMMA BackedByPeople ==
    ASSUME ProposalAssumption, ProposalTypes, ProposalTypes', LockInv, BackedInv, plan' = plan,
           (\E c, d \in Chains : Leave(c, d)) \/ (\E d \in Chains : Arrive(d)) \/ Grow
    PROVE  BackedInv'
<1>1. UNCHANGED << run_vars, safe_vars, done >>
  BY DEF Leave, Arrive, Grow
<1>2. SUFFICES ASSUME Funding
               PROVE  /\ FundingEra'
                      /\ ~Funded' => FundingReads'
                      /\ done # << >> /\ ~done[1].failed => SurplusFits(done[1].drift)'
                      /\ task # None /\ call_at >= 7 /\ ~failed => SurplusFits(Drift(since))'
  <2>1. /\ task' = task /\ call_at' = call_at /\ failed' = failed /\ done' = done
        /\ (Funding' <=> Funding)
    BY <1>1 DEF run_vars, Funding
  <2>2. \A i \in DOMAIN done' : done'[i].script \in plan'.scripts
    BY <2>1 DEF BackedInv
  <2> QED
    BY <1>2, <2>1, <2>2 DEF BackedInv
<1>3. FundingEra
  BY <1>2 DEF BackedInv
<1>4. PICK l, m, f, c, b \in {-1, 0, 1} :
          /\ chain'["celo"].bridge = chain["celo"].bridge + b
          /\ InFlight' = InFlight + l /\ moves' = moves + (IF l = 1 THEN 1 ELSE 0)
          /\ l = 1 \/ l = -1
          /\ <<m, f, c, b>> \in {<<l, 0, 0, 0>>, <<0, -l, 0, 0>>, <<0, 0, -l, 0>>, <<0, 0, 0, l>>}
          /\ chain["celo"].mode = "lock" => Surplus' = Surplus
          /\ FundingEra'
  BY <1>2, <1>3, FundingByPeople
<1>5. Funded' <=> Funded
  <2>1. Alike(chain'["celo"], chain["celo"])
    <3>1. Ledgers /\ "celo" \in Chains
      BY DEF ProposalTypes, Chains
    <3> QED
      BY <3>1, LeavingDoes, ArrivingDoes, GrowingDoes
  <2> QED
    BY <2>1 DEF Funded, Alike
<1>6. /\ chain["celo"].bridge \in Nat /\ moves \in Nat /\ Surplus \in Int
  <2>1. "celo" \in Chains
    BY DEF Chains
  <2> QED
    BY <2>1, FundingNumbers
<1>7. moves' \in Int /\ moves' >= moves
  BY <1>4, <1>6
<1>8. ~Funded' => FundingReads'
  <2>1. SUFFICES ASSUME ~Funded' PROVE FundingReads'
    OBVIOUS
  <2>2. FundingReads
    BY <1>2, <1>5, <2>1 DEF BackedInv
  <2>3. chain'["celo"].bridge <= moves'
    <3>1. b = l \/ b = 0
      <4>1. CASE <<m, f, c, b>> = <<l, 0, 0, 0>>
        BY <4>1
      <4>2. CASE <<m, f, c, b>> = <<0, -l, 0, 0>>
        BY <4>2
      <4>3. CASE <<m, f, c, b>> = <<0, 0, -l, 0>>
        BY <4>3
      <4>4. CASE <<m, f, c, b>> = <<0, 0, 0, l>>
        BY <4>4
      <4> QED
        BY <1>4, <4>1, <4>2, <4>3, <4>4
    <3>2. chain["celo"].bridge <= moves
      BY <2>2 DEF FundingReads
    <3>3. CASE l = 1
      <4>1. moves' = moves + 1 /\ (b = 1 \/ b = 0) /\ chain'["celo"].bridge = chain["celo"].bridge + b
        BY <1>4, <3>1, <3>3
      <4> QED
        BY <1>6, <3>2, <4>1
    <3>4. CASE l = -1
      <4>1. moves' = moves /\ (b = -1 \/ b = 0) /\ chain'["celo"].bridge = chain["celo"].bridge + b
        BY <1>4, <1>6, <3>1, <3>4
      <4> QED
        BY <1>6, <3>2, <4>1
    <3> QED
      BY <1>4, <3>3, <3>4
  <2>4. task' # None => CeloFits(reading, since)'
    <3>1. SUFFICES ASSUME task # None PROVE CeloFits(reading, since)'
      BY <1>1 DEF run_vars
    <3>2. PICK r, from : r = reading /\ from = since
      OBVIOUS
    <3>3. r \in Seq(Nat) /\ from \in Beginnings /\ CeloFits(r, from)
      BY <2>2, <3>1, <3>2 DEF ProposalTypes, TaskTypes, FundingReads
    <3>4. CeloFits(r, from)'
      BY <1>2, <1>3, <3>3, CeloFitsByPeople
    <3>5. reading' = r /\ since' = from
      BY <1>1, <3>2 DEF run_vars
    <3> QED
      BY <3>4, <3>5 DEF CeloFits, Excess, Drift
  <2>5. ASSUME NEW p \in queue
        PROVE  \E r \in Readings("upgradeCelo") : p.calls = upgradeCelo(r) /\ CeloFits(r, p.since)'
    <3>1. PICK r \in Readings("upgradeCelo") : p.calls = upgradeCelo(r) /\ CeloFits(r, p.since)
      BY <2>2 DEF FundingReads
    <3>2. r \in Seq(Nat) /\ p.since \in Beginnings
      BY DEF Readings, ProposalTypes, Entry
    <3>3. CeloFits(r, p.since)'
      BY <1>2, <1>3, <3>1, <3>2, CeloFitsByPeople
    <3> QED
      BY <3>1, <3>3
  <2>6. queue' = queue
    BY <1>1 DEF safe_vars
  <2> QED
    BY <2>3, <2>4, <2>5, <2>6 DEF FundingReads
<1>9. ASSUME NEW n \in Int, SurplusFits(n) PROVE SurplusFits(n)'
  <2>1. chain["celo"].mode = "lock" /\ Funded
    BY <1>3, <1>9 DEF SurplusFits, FundingEra
  <2>2. Surplus' = Surplus
    BY <1>4, <2>1
  <2>3. -Surplus <= n /\ Surplus <= moves
    BY <1>9 DEF SurplusFits
  <2>4. Surplus' <= moves'
    BY <1>6, <1>7, <2>2, <2>3
  <2> QED
    BY <1>5, <2>1, <2>2, <2>3, <2>4 DEF SurplusFits
<1>10. done # << >> /\ ~done[1].failed => SurplusFits(done[1].drift)'
  <2>1. SUFFICES ASSUME done # << >>, ~done[1].failed PROVE SurplusFits(done[1].drift)'
    OBVIOUS
  <2>2. PICK e : e = done[1]
    OBVIOUS
  <2>3. e.drift \in Int
    <3>1. done \in Seq(Outcome)
      BY DEF ProposalTypes
    <3>2. e \in Outcome
      BY <2>1, <2>2, <3>1
    <3> QED
      BY <3>2 DEF Outcome
  <2>4. SurplusFits(e.drift)
    BY <1>2, <2>1, <2>2 DEF BackedInv
  <2>5. SurplusFits(e.drift)'
    BY <1>9, <2>3, <2>4
  <2>6. done'[1] = e
    BY <1>1, <2>2
  <2> QED
    BY <2>5, <2>6 DEF SurplusFits
<1>11. task # None /\ call_at >= 7 /\ ~failed => SurplusFits(Drift(since))'
  <2>1. SUFFICES ASSUME task # None, call_at >= 7, ~failed PROVE SurplusFits(Drift(since))'
    OBVIOUS
  <2>2. since.moves \in Int /\ since' = since
    BY <1>1 DEF ProposalTypes, TaskTypes, Beginnings, run_vars
  <2>3. Drift(since) = moves - since.moves /\ Drift(since)' = moves' - since.moves
    BY <2>2 DEF Drift
  <2>4. PICK n : n = Drift(since)
    OBVIOUS
  <2>5. n \in Int /\ Drift(since)' \in Int /\ n <= Drift(since)'
    BY <1>6, <1>7, <2>2, <2>3, <2>4
  <2>6. SurplusFits(Drift(since))
    BY <1>2, <2>1 DEF BackedInv
  <2>7. SurplusFits(n)
    BY <2>4, <2>6 DEF SurplusFits
  <2>8. SurplusFits(n)'
    BY <1>9, <2>5, <2>7
  <2>9. Funded' /\ -Surplus' <= n /\ Surplus' <= moves' /\ Surplus' \in Int
    <3>1. chain["celo"].mode = "lock"
      BY <1>3, <2>6 DEF SurplusFits, FundingEra
    <3>2. Surplus' \in Int
      BY <1>4, <1>6, <3>1
    <3> QED
      BY <2>8, <3>2 DEF SurplusFits
  <2>10. -Surplus' <= Drift(since)'
    <3>1. \A i, j, k \in Int : -i <= j /\ j <= k => -i <= k
      OBVIOUS
    <3> QED
      BY <2>5, <2>9, <3>1
  <2> QED
    BY <2>9, <2>10 DEF SurplusFits
<1> QED
  BY <1>4, <1>8, <1>10, <1>11

\* A proposal that ends is appended to those that did.
LEMMA Ending ==
    ASSUME NEW s \in Seq(Outcome), NEW e \in Outcome, NEW t, t = Append(s, e)
    PROVE  /\ t # << >>
           /\ \A i \in DOMAIN t : t[i] = e \/ (i \in DOMAIN s /\ t[i] = s[i])
           /\ s = << >> => t[1] = e
           /\ s # << >> => t[1] = s[1]
<1>1. Len(s) \in Nat /\ Len(t) = Len(s) + 1 /\ DOMAIN s = 1 .. Len(s) /\ DOMAIN t = 1 .. Len(t)
      /\ t \in Seq(Outcome)
  OBVIOUS
<1>2. t[Len(s) + 1] = e /\ \A i \in 1 .. Len(s) : t[i] = s[i]
  OBVIOUS
<1>3. \A i \in DOMAIN t : i = Len(s) + 1 \/ i \in 1 .. Len(s)
  BY <1>1
<1>4. s = << >> => Len(s) = 0
  OBVIOUS
<1>5. s # << >> => 1 \in 1 .. Len(s)
  BY <1>1
<1>6. t # << >>
  BY <1>1
<1>7. s = << >> => t[1] = e
  BY <1>2, <1>4
<1> QED
  BY <1>1, <1>2, <1>3, <1>5, <1>6, <1>7

\* What is counted stays, but for the bridge of Celo that may begin to lock.
LEMMA BackedStays ==
    ASSUME ProposalAssumption, ProposalTypes, BackedInv, Funding,
           flight' = flight, moves' = moves,
           \A c \in Chains : /\ chain'[c].people = chain[c].people
                             /\ chain'[c].avatar = chain[c].avatar
                             /\ chain'[c].bridge = chain[c].bridge /\ chain'[c].old = chain[c].old
                             /\ chain'[c].mode = chain[c].mode \/ (c = "celo" /\ chain'[c].mode = "lock")
                             /\ chain'[c].upgraded = chain[c].upgraded
    PROVE  /\ (task' # None /\ call_at' >= 3 => chain'["celo"].mode = "lock") => FundingEra'
           /\ Funded' <=> Funded
           /\ chain'["celo"].bridge <= moves' \/ Funded
           /\ \A r, from : CeloFits(r, from) => CeloFits(r, from)'
           /\ \A n : SurplusFits(n) => SurplusFits(n)'
<1>1. "mainnet" \in Chains /\ "celo" \in Chains /\ "fuse" \in Chains /\ "xdc" \in Chains
      /\ Chains = {"mainnet", "fuse", "celo", "xdc"}
  BY DEF Chains
<1>2. InFlight' = InFlight
  BY DEF InFlight
<1>3. Surplus' = Surplus
  BY <1>1, <1>2, SurplusStays
<1>4. Funded' <=> Funded
  BY <1>1 DEF Funded
<1>5. FundingEra /\ (~Funded => chain["celo"].bridge <= moves)
  BY DEF BackedInv, FundingReads
<1>6. ASSUME task' # None /\ call_at' >= 3 => chain'["celo"].mode = "lock"
      PROVE  FundingEra'
  BY <1>1, <1>4, <1>5, <1>6 DEF FundingEra
<1>7. ASSUME NEW r, NEW from, CeloFits(r, from) PROVE CeloFits(r, from)'
  BY <1>2, <1>7, CeloFitsStays
<1>8. ASSUME NEW n, SurplusFits(n) PROVE SurplusFits(n)'
  BY <1>3, <1>4, <1>8 DEF SurplusFits
<1> QED
  BY <1>1, <1>4, <1>5, <1>6, <1>7, <1>8

\* What the calls of the upgrade are.
LEMMA CallsOfCelo ==
    /\ \A name : set(name).do = "set"
    /\ upgradeTo("lock").do = "upgradeTo" /\ revokeRole.do = "revokeRole"
    /\ \A n : mentoUpgrade(n).do = "mentoUpgrade" /\ mentoUpgrade(n).amount = n
BY DEF set, upgradeTo, revokeRole, mentoUpgrade, call, amount

\* The script that sends its calls itself.
LEMMA BackedBySending ==
    ASSUME ProposalAssumption, ProposalTypes, LockInv, BackedInv, plan' = plan, SendGenericCall
    PROVE  BackedInv'
<1>1. /\ UNCHANGED << flight, moves, task, reading, since, queue, done >> /\ task # None
      /\ HasRead /\ task # "celoUpgrade"
  BY DEF SendGenericCall, safe_vars, Calling, HasRead
<1>2. SUFFICES ASSUME Funding
               PROVE  /\ FundingEra'
                      /\ ~Funded' => FundingReads'
                      /\ done # << >> /\ ~done[1].failed => SurplusFits(done[1].drift)'
                      /\ call_at' >= 7 /\ ~failed' => SurplusFits(Drift(since))'
  <2>1. (Funding' <=> Funding) /\ done' = done /\ task' = task
    BY <1>1 DEF Funding
  <2>2. \A i \in DOMAIN done' : done'[i].script \in plan'.scripts
    BY <2>1 DEF BackedInv
  <2> QED
    BY <1>2, <2>1, <2>2 DEF BackedInv
<1>3. /\ plan.via = "guardian" /\ call_at \in 1 .. Len(Calls) /\ reading \in Readings(task)
      /\ Sound(Calls[call_at]) /\ Here \in Hold
      /\ chain'[On(task)] = After(Here, Calls[call_at])
      /\ \A c \in Chains : c # On(task) => chain'[c] = chain[c]
      /\ failed' = (failed \/ Fails(Here, Calls[call_at])) /\ call_at' = call_at + 1
  BY SendingDoes
<1>4. task = "upgradeCelo" /\ queue = {}
  BY <1>1, <1>2, <1>3 DEF Funding, ProposalTypes, TaskTypes, LockInv
<1>5. On(task) = "celo" /\ Calls = upgradeCelo(reading) /\ reading \in Readings("upgradeCelo")
  BY <1>3, <1>4 DEF On, Calls, proposalActions
<1>6. /\ Len(Calls) = 6
      /\ Calls[1] = set("CeloDistributionHelper") /\ Calls[2] = upgradeTo("lock")
      /\ Calls[3] = revokeRole /\ Calls[4] = set("addMinter")
      /\ Calls[5] = set("Controller") /\ Calls[6] = mentoUpgrade(TOTAL_GLOBAL_SUPPLY(reading))
  BY <1>5 DEF upgradeCelo
<1>7. PICK h, a, g : h = chain["celo"] /\ a = Calls[call_at] /\ g = chain'["celo"]
  OBVIOUS
<1>8. Does(h, a, g) /\ failed' = (failed \/ Fails(h, a)) /\ h \in Hold
  BY <1>3, <1>5, <1>7, CallsDo DEF Here
<1>9. /\ FundingEra
      /\ ~Funded => FundingReads
      /\ done # << >> /\ ~done[1].failed => SurplusFits(done[1].drift)
      /\ call_at >= 3 => h.mode = "lock"
  BY <1>1, <1>2, <1>7 DEF BackedInv, FundingEra
<1>10. a.do \notin {"withdraw", "claimTokens", "burn"}
  <2>1. call_at \in 1 .. 6
    BY <1>3, <1>6
  <2> QED
    BY <1>6, <1>7, <2>1, CallsOfCelo
<1>11. g.people = h.people /\ g.avatar = h.avatar /\ g.old = h.old
  BY <1>8, <1>10 DEF Does
<1>12. "celo" \in Chains /\ \A c \in Chains : c # "celo" => chain'[c] = chain[c]
  BY <1>3, <1>5 DEF Chains
<1>13. ASSUME g.bridge = h.bridge, g.upgraded = h.upgraded, g.mode = h.mode \/ g.mode = "lock",
              call_at' >= 3 => g.mode = "lock"
       PROVE  /\ FundingEra'
              /\ ~Funded' => FundingReads'
              /\ done # << >> /\ ~done[1].failed => SurplusFits(done[1].drift)'
  <2>1. \A c \in Chains : /\ chain'[c].people = chain[c].people
                          /\ chain'[c].avatar = chain[c].avatar
                          /\ chain'[c].bridge = chain[c].bridge /\ chain'[c].old = chain[c].old
                          /\ chain'[c].mode = chain[c].mode \/ (c = "celo" /\ chain'[c].mode = "lock")
                          /\ chain'[c].upgraded = chain[c].upgraded
    BY <1>7, <1>11, <1>12, <1>13
  <2>2. /\ FundingEra' /\ (Funded' <=> Funded) /\ (chain'["celo"].bridge <= moves' \/ Funded)
        /\ \A r, from : CeloFits(r, from) => CeloFits(r, from)'
        /\ \A n : SurplusFits(n) => SurplusFits(n)'
    BY <1>1, <1>2, <1>7, <1>13, <2>1, BackedStays
  <2>3. ~Funded' => FundingReads'
    <3>1. SUFFICES ASSUME ~Funded' PROVE FundingReads'
      OBVIOUS
    <3>2. CeloFits(reading, since)
      BY <1>1, <1>9, <2>2, <3>1 DEF FundingReads
    <3>3. PICK r, from : r = reading /\ from = since
      OBVIOUS
    <3>4. CeloFits(r, from)'
      BY <2>2, <3>2, <3>3
    <3>5. CeloFits(reading, since)'
      BY <1>1, <3>3, <3>4 DEF CeloFits, Excess, Drift
    <3> QED
      BY <1>1, <1>4, <2>2, <3>1, <3>5 DEF FundingReads
  <2>4. done # << >> /\ ~done[1].failed => SurplusFits(done[1].drift)'
    <3>1. PICK n : n = done[1].drift
      OBVIOUS
    <3> QED
      BY <1>1, <1>9, <2>2, <3>1 DEF SurplusFits
  <2> QED
    BY <2>2, <2>3, <2>4
<1>14. CASE call_at \in 1 .. 5
  <2>1. a.do # "mentoUpgrade" /\ (a = upgradeTo("lock") \/ ~Upgrading(a))
    BY <1>6, <1>7, <1>14 DEF set, upgradeTo, revokeRole, call, Upgrading
  <2>2. g.bridge = h.bridge /\ g.upgraded = h.upgraded
    BY <1>8, <1>10, <2>1 DEF Does
  <2>3. g.mode = h.mode \/ g.mode = "lock"
    BY <1>8, <2>1 DEF Does, upgradeTo, call
  <2>4. call_at' >= 3 => g.mode = "lock"
    <3>1. CASE call_at >= 3
      BY <1>9, <2>3, <3>1
    <3>2. CASE call_at = 2
      BY <1>6, <1>7, <1>8, <3>2 DEF Does, upgradeTo, call, Upgrading
    <3>3. CASE call_at = 1
      BY <1>3, <3>3
    <3> QED
      BY <1>14, <3>1, <3>2, <3>3
  <2>5. ~(call_at' >= 7)
    BY <1>3, <1>14
  <2> QED
    BY <1>13, <2>2, <2>3, <2>4, <2>5
<1>15. CASE call_at = 6
  <2>1. a = mentoUpgrade(TOTAL_GLOBAL_SUPPLY(reading)) /\ a.do = "mentoUpgrade" /\ h.mode = "lock"
        /\ a.amount = TOTAL_GLOBAL_SUPPLY(reading)
    BY <1>6, <1>7, <1>9, <1>15, CallsOfCelo
  <2>2. CASE Fails(h, a)
    <3>1. g = h /\ failed'
      BY <1>8, <2>1, <2>2 DEF Does
    <3> QED
      BY <1>13, <2>1, <3>1
  <2>3. CASE ~Fails(h, a)
    <3>1. /\ g.bridge = h.bridge + TOTAL_GLOBAL_SUPPLY(reading) - MintedOn(h)
          /\ g.upgraded = TRUE /\ g.mode = h.mode
      BY <1>8, <2>1, <2>3 DEF Does, Upgrading
    <3>2. ~Funded /\ Funded'
      BY <1>7, <2>1, <2>3, <3>1 DEF Fails, Funded
    <3>3. FundingEra'
      BY <1>1, <1>7, <1>9, <1>11, <1>12, <2>1, <3>1 DEF FundingEra, Chains
    <3>4. done # << >> => done[1].failed
      BY <1>9, <3>2 DEF SurplusFits
    <3>5. CeloFits(reading, since)
      BY <1>1, <1>9, <3>2 DEF FundingReads
    <3>6. PICK r, from : r = reading /\ from = since
      OBVIOUS
    <3>7. r \in Readings("upgradeCelo") /\ from \in Beginnings /\ CeloFits(r, from)
      BY <1>5, <3>5, <3>6 DEF ProposalTypes, TaskTypes
    <3>8. InFlight' = InFlight
      BY <1>1 DEF InFlight
    <3>9. chain'["celo"].bridge = chain["celo"].bridge + TOTAL_GLOBAL_SUPPLY(r)
                                   - MintedOn(chain["celo"])
      BY <1>7, <3>1, <3>6
    <3>10. -Surplus' <= Drift(from) /\ Surplus' <= moves
      BY <1>2, <1>9, <1>12, <3>7, <3>8, <3>9, SurplusArises
    <3>11. Drift(since)' = Drift(from) /\ moves' = moves
      BY <1>1, <3>6 DEF Drift
    <3>12. SurplusFits(Drift(since))'
      BY <3>2, <3>10, <3>11 DEF SurplusFits
    <3> QED
      BY <3>2, <3>3, <3>4, <3>12
  <2> QED
    BY <2>2, <2>3
<1>16. call_at \in 1 .. 6
  BY <1>3, <1>6
<1> QED
  BY <1>14, <1>15, <1>16

\* The owners of the Safe execute the upgrade.
LEMMA BackedByExecuting ==
    ASSUME ProposalAssumption, ProposalTypes, LockInv, BackedInv, plan' = plan,
           NEW p \in queue, execTransaction(p)
    PROVE  BackedInv'
<1>1. /\ UNCHANGED << flight, moves, task, reading, since, call_at, failed, queue >>
  BY DEF execTransaction, run_vars
<1>2. PICK e : e = Record(p.script, p.since, Called(p)[Len(p.calls)].failed, p.overtaken)
  OBVIOUS
<1>3. /\ e \in Outcome /\ done' = Append(done, e) /\ e.script = p.script /\ e.drift = Drift(p.since)
      /\ (e.failed <=> Called(p)[Len(p.calls)].failed)
      /\ \A c \in Chains : c # On(p.script) => chain'[c] = chain[c]
  BY <1>2, ExecutingDoes DEF Record
<1>4. Entry(p) /\ done \in Seq(Outcome)
  BY DEF ProposalTypes
<1>5. /\ done' # << >>
      /\ \A i \in DOMAIN done' : done'[i] = e \/ (i \in DOMAIN done /\ done'[i] = done[i])
      /\ done = << >> => done'[1] = e
      /\ done # << >> => done'[1] = done[1]
  BY <1>3, <1>4, Ending
<1>6. \A i \in DOMAIN done' : done'[i].script \in plan'.scripts
  BY <1>3, <1>4, <1>5 DEF BackedInv, Entry
<1>7. SUFFICES ASSUME Funding
               PROVE  /\ FundingEra'
                      /\ ~Funded' => FundingReads'
                      /\ ~done'[1].failed => SurplusFits(done[1].drift)'
                      /\ task # None /\ call_at >= 7 /\ ~failed => SurplusFits(Drift(since))'
  <2>1. (Funding' <=> Funding) /\ task' = task /\ call_at' = call_at /\ failed' = failed
    BY <1>1 DEF Funding
  <2> QED
    BY <1>6, <1>7, <2>1 DEF BackedInv
<1>8. p.script = "upgradeCelo" /\ On(p.script) = "celo" /\ plan.via = "safe"
  <2>1. p.script = "upgradeCelo"
    BY <1>4, <1>7 DEF Entry, Funding
  <2>2. plan.via \in {"safe", "guardian"}
    BY ThePlans DEF ProposalTypes
  <2> QED
    BY <2>1, <2>2 DEF On, LockInv
<1>9. call_at = 1
  BY <1>8 DEF ProposalTypes, TaskTypes
<1>10. /\ FundingEra
       /\ ~Funded => FundingReads
       /\ done # << >> /\ ~done[1].failed => SurplusFits(done[1].drift)
  BY <1>7 DEF BackedInv
<1>11. PICK r \in Readings("upgradeCelo") :
           p.calls = upgradeCelo(r) /\ (~Funded => CeloFits(r, p.since))
  <2>1. CASE Funded
    <3>1. PICK r \in Readings("upgradeCelo") : p.calls = proposalActions("upgradeCelo", r)
      BY <1>4, <1>8 DEF Entry
    <3>2. p.calls = upgradeCelo(r)
      BY <3>1 DEF proposalActions
    <3> QED
      BY <2>1, <3>2
  <2>2. CASE ~Funded
    BY <1>10, <2>2 DEF FundingReads
  <2> QED
    BY <2>1, <2>2
<1>12. PICK total : total = TOTAL_GLOBAL_SUPPLY(r)
  OBVIOUS
<1>13. /\ chain'["celo"].mode = "lock" /\ chain'["celo"].people = chain["celo"].people
       /\ chain'["celo"].avatar = chain["celo"].avatar
       /\ chain'["celo"].old = chain["celo"].old
       /\ e.failed => /\ chain'["celo"].bridge = chain["celo"].bridge
                      /\ chain'["celo"].upgraded = chain["celo"].upgraded
       /\ ~e.failed => /\ ~chain["celo"].upgraded /\ chain'["celo"].upgraded
                       /\ chain'["celo"].bridge = chain["celo"].bridge + total
                                                  - MintedOn(chain["celo"])
  BY <1>3, <1>8, <1>11, <1>12, CeloProposalDoes
<1>14. \A c \in Chains : c # "celo" => chain'[c] = chain[c]
  BY <1>3, <1>8
<1>15. CASE e.failed
  <2>1. \A c \in Chains : /\ chain'[c].people = chain[c].people
                          /\ chain'[c].avatar = chain[c].avatar
                          /\ chain'[c].bridge = chain[c].bridge /\ chain'[c].old = chain[c].old
                          /\ chain'[c].mode = chain[c].mode \/ (c = "celo" /\ chain'[c].mode = "lock")
                          /\ chain'[c].upgraded = chain[c].upgraded
    BY <1>13, <1>14, <1>15
  <2>2. /\ FundingEra' /\ (Funded' <=> Funded) /\ (chain'["celo"].bridge <= moves' \/ Funded)
        /\ \A s, from : CeloFits(s, from) => CeloFits(s, from)'
        /\ \A n : SurplusFits(n) => SurplusFits(n)'
    BY <1>1, <1>7, <1>13, <2>1, BackedStays
  <2>3. ~Funded' => FundingReads'
    <3>1. SUFFICES ASSUME ~Funded' PROVE FundingReads'
      OBVIOUS
    <3>2. FundingReads
      BY <1>10, <2>2, <3>1
    <3>3. task' # None => CeloFits(reading, since)'
      <4>1. SUFFICES ASSUME task # None PROVE CeloFits(reading, since)'
        BY <1>1
      <4>2. PICK s, from : s = reading /\ from = since
        OBVIOUS
      <4>3. CeloFits(s, from)'
        BY <2>2, <3>2, <4>1, <4>2 DEF FundingReads
      <4> QED
        BY <1>1, <4>2, <4>3 DEF CeloFits, Excess, Drift
    <3>4. \A q \in queue : \E s \in Readings("upgradeCelo") :
              q.calls = upgradeCelo(s) /\ CeloFits(s, q.since)'
      BY <2>2, <3>2 DEF FundingReads
    <3> QED
      BY <1>1, <2>2, <3>1, <3>3, <3>4 DEF FundingReads
  <2>4. ~done'[1].failed => SurplusFits(done[1].drift)'
    <3>1. SUFFICES ASSUME ~done'[1].failed PROVE SurplusFits(done[1].drift)'
      OBVIOUS
    <3>2. done # << >> /\ done'[1] = done[1]
      BY <1>5, <1>15, <3>1
    <3>3. PICK n : n = done[1].drift
      OBVIOUS
    <3>4. SurplusFits(n)'
      BY <1>10, <2>2, <3>1, <3>2, <3>3
    <3> QED
      BY <3>2, <3>3, <3>4 DEF SurplusFits
  <2> QED
    BY <1>9, <2>2, <2>3, <2>4
<1>16. CASE ~e.failed
  <2>1. ~Funded /\ Funded'
    BY <1>13, <1>16 DEF Funded
  <2>2. FundingEra'
    BY <1>1, <1>10, <1>13, <1>14 DEF FundingEra, Chains
  <2>3. done # << >> => done[1].failed
    BY <1>10, <2>1 DEF SurplusFits
  <2>4. p.since \in Beginnings /\ CeloFits(r, p.since)
    BY <1>4, <1>11, <2>1 DEF Entry
  <2>5. InFlight' = InFlight
    BY <1>1 DEF InFlight
  <2>6. chain'["celo"].bridge = chain["celo"].bridge + TOTAL_GLOBAL_SUPPLY(r)
                                - MintedOn(chain["celo"])
    BY <1>12, <1>13, <1>16
  <2>7. -Surplus' <= Drift(p.since) /\ Surplus' <= moves
    BY <1>7, <1>10, <1>14, <2>4, <2>5, <2>6, SurplusArises
  <2>8. ~done'[1].failed => SurplusFits(done[1].drift)'
    <3>1. SUFFICES ASSUME ~done'[1].failed PROVE SurplusFits(done[1].drift)'
      OBVIOUS
    <3>2. done'[1].drift = Drift(p.since) /\ moves' = moves
      BY <1>1, <1>3, <1>5, <2>3, <3>1
    <3> QED
      BY <2>1, <2>7, <3>2 DEF SurplusFits
  <2> QED
    BY <1>9, <2>1, <2>2, <2>8
<1> QED
  BY <1>15, <1>16

\* A step that moves no G$.
LEMMA BackedByScript ==
    ASSUME ProposalAssumption, ProposalTypes, BackedInv, plan' = plan, UNCHANGED user_vars,
           \A i \in DOMAIN done' : done'[i].script \in plan.scripts,
           Funding /\ ~Funded /\ task' # None => CeloFits(reading, since)',
           Funding /\ ~Funded => \A p \in queue' : \E r \in Readings("upgradeCelo") :
               p.calls = upgradeCelo(r) /\ CeloFits(r, p.since),
           Funding /\ done' # << >> /\ ~done'[1].failed => SurplusFits(done'[1].drift),
           \/ task' = None \/ call_at' = 1
           \/ task # None /\ call_at' = call_at /\ failed' = failed /\ since' = since
    PROVE  BackedInv'
<1>1. chain' = chain /\ flight' = flight /\ moves' = moves
  BY DEF user_vars
<1>2. SUFFICES ASSUME Funding
               PROVE  /\ FundingEra'
                      /\ ~Funded' => FundingReads'
                      /\ done' # << >> /\ ~done'[1].failed => SurplusFits(done[1].drift)'
                      /\ task' # None /\ call_at' >= 7 /\ ~failed' => SurplusFits(Drift(since))'
  <2>1. (Funding' <=> Funding) /\ \A i \in DOMAIN done' : done'[i].script \in plan'.scripts
    BY DEF Funding
  <2> QED
    BY <1>2, <2>1 DEF BackedInv
<1>3. /\ FundingEra
      /\ ~Funded => FundingReads
      /\ task # None /\ call_at >= 7 /\ ~failed => SurplusFits(Drift(since))
  BY <1>2 DEF BackedInv
<1>4. call_at' = 1 => ~(call_at' >= 3) /\ ~(call_at' >= 7)
  OBVIOUS
<1>5. task' # None /\ call_at' >= 3 => chain'["celo"].mode = "lock"
  BY <1>1, <1>3, <1>4 DEF FundingEra
<1>6. /\ FundingEra' /\ (Funded' <=> Funded) /\ (chain'["celo"].bridge <= moves' \/ Funded)
      /\ \A r, from : CeloFits(r, from) => CeloFits(r, from)'
      /\ \A n : SurplusFits(n) => SurplusFits(n)'
  BY <1>1, <1>2, <1>5, BackedStays
<1>7. ~Funded' => FundingReads'
  BY <1>2, <1>6 DEF FundingReads
<1>8. done' # << >> /\ ~done'[1].failed => SurplusFits(done[1].drift)'
  <2>1. SUFFICES ASSUME done' # << >>, ~done'[1].failed PROVE SurplusFits(done[1].drift)'
    OBVIOUS
  <2>2. PICK n : n = done'[1].drift
    OBVIOUS
  <2>3. SurplusFits(n)'
    BY <1>2, <1>6, <2>1, <2>2
  <2> QED
    BY <2>2, <2>3 DEF SurplusFits
<1>9. task' # None /\ call_at' >= 7 /\ ~failed' => SurplusFits(Drift(since))'
  <2>1. SUFFICES ASSUME task' # None, call_at' >= 7, ~failed' PROVE SurplusFits(Drift(since))'
    OBVIOUS
  <2>2. task # None /\ call_at' = call_at /\ failed' = failed /\ since' = since
    BY <1>4, <2>1
  <2>3. PICK n : n = Drift(since)
    OBVIOUS
  <2>4. SurplusFits(n)'
    BY <1>3, <1>6, <2>1, <2>2, <2>3
  <2>5. Drift(since)' = n
    BY <1>1, <2>2, <2>3 DEF Drift
  <2> QED
    BY <2>4, <2>5 DEF SurplusFits
<1> QED
  BY <1>6, <1>7, <1>8, <1>9

LEMMA BackedIsKept ==
    ASSUME ProposalAssumption, ProposalTypes, ProposalTypes', LockInv, BackedInv, plan' = plan,
           [ProposalNext]_proposal_vars
    PROVE  BackedInv'
<1>1. /\ \A i \in DOMAIN done : done[i].script \in plan.scripts
      /\ Funding /\ ~Funded => FundingReads
      /\ Funding /\ done # << >> /\ ~done[1].failed => SurplusFits(done[1].drift)
  BY DEF BackedInv
<1>2. /\ Funding /\ ~Funded => \A p \in queue : \E r \in Readings("upgradeCelo") :
                                  p.calls = upgradeCelo(r) /\ CeloFits(r, p.since)
      /\ Funding /\ ~Funded /\ task # None => CeloFits(reading, since)
  BY <1>1 DEF FundingReads
<1>3. task # None => task \in plan.scripts
  BY DEF ProposalTypes, TaskTypes
<1>4. ASSUME NEW script \in plan.scripts, StartScript(script) PROVE BackedInv'
  <2>1. /\ UNCHANGED << user_vars, queue, done, reading, call_at >> /\ task = None
        /\ since' = [moves |-> moves - InFlight, nonce |-> nonce]
    BY <1>4 DEF StartScript, safe_vars
  <2>2. call_at' = 1 /\ reading' = << >> /\ InFlight' = InFlight /\ moves' = moves
    BY <2>1 DEF ProposalTypes, TaskTypes, user_vars, InFlight
  <2>3. Funding /\ ~Funded => CeloFits(reading, since)'
    <3>1. SUFFICES ASSUME Funding, ~Funded PROVE CeloFits(reading, since)'
      OBVIOUS
    <3>2. Len(reading') = 0
      BY <2>2
    <3>3. Excess(reading)' = 0
      BY <3>2 DEF Excess
    <3>4. InFlight \in Nat /\ moves \in Nat /\ chain["celo"].bridge \in Nat
      BY FundingNumbers
    <3>5. Drift(since)' = moves - (moves - InFlight)
      BY <2>1, <2>2 DEF Drift
    <3>6. -Excess(reading)' <= Drift(since)' - InFlight'
      BY <2>2, <3>3, <3>4, <3>5
    <3>7. chain'["celo"].bridge <= moves' /\ chain'["celo"].bridge \in Nat
      BY <1>1, <2>1, <3>1, <3>4 DEF FundingReads, user_vars
    <3>8. Excess(reading)' + chain'["celo"].bridge <= moves'
      BY <3>3, <3>7
    <3> QED
      BY <3>2, <3>6, <3>8 DEF CeloFits
  <2> QED
    BY <1>1, <1>2, <2>1, <2>2, <2>3, BackedByScript
<1>5. CASE ReadOne
  <2>1. UNCHANGED << user_vars, queue, done, task, since, call_at, failed >> /\ task # None
    BY <1>5 DEF ReadOne, safe_vars
  <2>2. Funding /\ ~Funded /\ task' # None => CeloFits(reading, since)'
    <3>1. SUFFICES ASSUME Funding, ~Funded PROVE CeloFits(reading, since)'
      OBVIOUS
    <3>2. task = "upgradeCelo"
      BY <1>3, <2>1, <3>1 DEF Funding
    <3> QED
      BY <1>2, <1>5, <2>1, <3>1, <3>2, FundingByReading
  <2> QED
    BY <1>1, <1>2, <2>1, <2>2, BackedByScript
<1>6. CASE executeViaSafe
  <2>1. /\ UNCHANGED << user_vars, done >> /\ task' = None /\ HasRead /\ task # "celoUpgrade"
        /\ task # None
    BY <1>6 DEF executeViaSafe, Stop, HasRead
  <2>2. \A p \in queue' : p \in queue \/ (p.calls = proposalActions(task, reading) /\ p.since = since)
    BY <1>6 DEF executeViaSafe
  <2>3. Funding /\ ~Funded => \A p \in queue' : \E r \in Readings("upgradeCelo") :
                                 p.calls = upgradeCelo(r) /\ CeloFits(r, p.since)
    <3>1. SUFFICES ASSUME Funding, ~Funded, NEW p \in queue'
                   PROVE  \E r \in Readings("upgradeCelo") :
                              p.calls = upgradeCelo(r) /\ CeloFits(r, p.since)
      OBVIOUS
    <3>2. task = "upgradeCelo"
      BY <1>3, <2>1, <3>1 DEF Funding
    <3>3. reading \in Readings("upgradeCelo") /\ CeloFits(reading, since)
      BY <1>2, <2>1, <3>1, <3>2, CallsAreMade
    <3>4. proposalActions(task, reading) = upgradeCelo(reading)
      BY <3>2 DEF proposalActions
    <3> QED
      BY <1>2, <2>2, <3>1, <3>3, <3>4
  <2> QED
    BY <1>1, <2>1, <2>3, BackedByScript
<1>7. CASE Simulate
  <2>1. UNCHANGED << user_vars, queue, done, task, reading, since, call_at, failed >> /\ task # None
    BY <1>7 DEF Simulate, Calling, HasRead, safe_vars
  <2>2. Funding /\ ~Funded /\ task' # None => CeloFits(reading, since)'
    BY <1>2, <2>1 DEF CeloFits, Excess, Drift, Supply, InFlight, LockedOnMainnet, user_vars
  <2> QED
    BY <1>1, <1>2, <2>1, <2>2, BackedByScript
<1>8. CASE SimulationFailed \/ celoUpgrade \/ ScriptDies
  <2>1. UNCHANGED << user_vars, queue, done >> /\ task' = None
    BY <1>8 DEF SimulationFailed, celoUpgrade, ScriptDies, safe_vars, Stop
  <2> QED
    BY <1>1, <1>2, <2>1, BackedByScript
<1>9. CASE Executed
  <2>1. /\ UNCHANGED << user_vars, queue >> /\ task' = None /\ Calling /\ call_at > Len(Calls)
        /\ HasRead /\ task # "celoUpgrade" /\ task # None
        /\ done' = Append(done, Record(task, since, failed, FALSE))
    BY <1>9 DEF Executed, Stop, Calling, HasRead, safe_vars
  <2>2. PICK e : e = Record(task, since, failed, FALSE)
    OBVIOUS
  <2>3. task \in Proposed /\ done \in Seq(Outcome) /\ reading \in Readings(task)
    BY <2>1, CallsAreMade DEF ProposalTypes
  <2>4. e.script = task /\ e.drift = Drift(since) /\ e.failed = failed
    BY <2>2 DEF Record
  <2>5. e \in Outcome
    <3>1. failed \in BOOLEAN /\ since \in Beginnings /\ moves \in Nat
      BY DEF ProposalTypes, TaskTypes, Ledgers
    <3>2. Drift(since) \in Int
      BY <3>1 DEF Beginnings, Drift
    <3> QED
      BY <2>2, <2>3, <3>1, <3>2 DEF Record, Outcome
  <2>6. /\ done' # << >>
        /\ \A i \in DOMAIN done' : done'[i] = e \/ (i \in DOMAIN done /\ done'[i] = done[i])
        /\ done = << >> => done'[1] = e
        /\ done # << >> => done'[1] = done[1]
    <3>1. done' = Append(done, e) /\ done \in Seq(Outcome)
      BY <2>1, <2>2, <2>3
    <3> QED
      BY <2>5, <3>1, Ending
  <2>7. \A i \in DOMAIN done' : done'[i].script \in plan.scripts
    BY <1>1, <1>3, <2>1, <2>4, <2>6
  <2>8. Funding /\ done' # << >> /\ ~done'[1].failed => SurplusFits(done'[1].drift)
    <3>1. SUFFICES ASSUME Funding, ~done'[1].failed PROVE SurplusFits(done'[1].drift)
      OBVIOUS
    <3>2. task = "upgradeCelo"
      BY <1>3, <2>1, <3>1 DEF Funding
    <3>3. Len(Calls) = 6
      BY <3>2 DEF Calls, proposalActions, upgradeCelo
    <3>4. call_at >= 7
      BY <2>1, <3>3 DEF ProposalTypes, TaskTypes
    <3>5. ~failed => SurplusFits(Drift(since))
      BY <2>1, <3>1, <3>4 DEF BackedInv
    <3> QED
      BY <1>1, <2>4, <2>6, <3>1, <3>5
  <2> QED
    BY <1>2, <2>1, <2>7, <2>8, BackedByScript
<1>10. CASE UNCHANGED proposal_vars
  <2>1. UNCHANGED << user_vars, queue, done, task, reading, since, call_at, failed >>
    BY <1>10 DEF proposal_vars, run_vars, safe_vars
  <2>2. Funding /\ ~Funded /\ task' # None => CeloFits(reading, since)'
    BY <1>2, <2>1 DEF CeloFits, Excess, Drift, Supply, InFlight, LockedOnMainnet, user_vars
  <2> QED
    BY <1>1, <1>2, <2>1, <2>2, BackedByScript
<1> QED
  BY <1>4, <1>5, <1>6, <1>7, <1>8, <1>9, <1>10, BackedByPeople, BackedBySending, BackedByExecuting
     DEF ProposalNext, Run

LEMMA BackedIsEnough ==
    ASSUME ProposalAssumption, ProposalTypes, BackedInv
    PROVE  BridgeIsBacked
<1>1. SUFFICES ASSUME done # << >>, done[1].script = "upgradeCelo", ~done[1].failed
               PROVE  LET elsewhere == Circulating - chain["celo"].people - chain["celo"].avatar
                          bridge == chain["celo"].bridge
                      IN  elsewhere - bridge <= done[1].drift /\ bridge - elsewhere <= moves
  BY DEF BridgeIsBacked
<1>2. done \in Seq(Outcome)
  BY DEF ProposalTypes
<1>3. 1 \in DOMAIN done
  BY <1>1, <1>2
<1>4. "upgradeCelo" \in plan.scripts
  BY <1>1, <1>3 DEF BackedInv
<1>5. Funding
  BY <1>4, FundingIsOfV4 DEF ProposalTypes
<1>6. FundingEra /\ SurplusFits(done[1].drift)
  BY <1>1, <1>5 DEF BackedInv
<1>7. \A c \in Chains : chain[c].people \in Nat /\ chain[c].avatar \in Nat /\ chain[c].bridge \in Nat
  BY FundingNumbers
<1>8. /\ "mainnet" \in Chains /\ "fuse" \in Chains /\ "celo" \in Chains /\ "xdc" \in Chains
      /\ InFlight \in Nat /\ Elsewhere \in Nat /\ moves \in Nat
  BY FundingNumbers
<1> DEFINE f == [c \in Chains |-> chain[c].people + chain[c].avatar]
<1>9. /\ f["mainnet"] = chain["mainnet"].people + chain["mainnet"].avatar
      /\ f["fuse"] = chain["fuse"].people + chain["fuse"].avatar
      /\ f["celo"] = chain["celo"].people + chain["celo"].avatar
      /\ f["xdc"] = chain["xdc"].people + chain["xdc"].avatar
  BY <1>8
<1>10. Circulating = f["mainnet"] + f["fuse"] + f["celo"] + f["xdc"] + InFlight
  BY DEF Circulating, TotalOf
<1>11. chain["xdc"].people = 0 /\ chain["xdc"].avatar = 0
  BY <1>6 DEF FundingEra
<1>12. /\ chain["mainnet"].people \in Nat /\ chain["mainnet"].avatar \in Nat
       /\ chain["fuse"].people \in Nat /\ chain["fuse"].avatar \in Nat
       /\ chain["celo"].people \in Nat /\ chain["celo"].avatar \in Nat
       /\ chain["celo"].bridge \in Nat
  BY <1>7, <1>8
<1> HIDE DEF f
<1>13. Circulating - chain["celo"].people - chain["celo"].avatar = Elsewhere
  BY <1>8, <1>9, <1>10, <1>11, <1>12 DEF Elsewhere
<1>14. done[1].drift \in Int
  <2>1. done[1] \in Outcome
    BY <1>2, <1>3
  <2> QED
    BY <2>1 DEF Outcome
<1>15. -Surplus <= done[1].drift /\ Surplus <= moves
  BY <1>6 DEF SurplusFits
<1>16. Elsewhere - chain["celo"].bridge <= done[1].drift
       /\ chain["celo"].bridge - Elsewhere <= moves
  BY <1>8, <1>12, <1>14, <1>15 DEF Surplus
<1> QED
  BY <1>13, <1>16

\* The bridge of Celo holds what the other chains hold ("Brigde balance should
\* equal other chains total supply"), but for what was bridged meanwhile.
THEOREM CeloHoldsTheOthers == ASSUME ProposalAssumption PROVE ProposalSpec => []BridgeIsBacked
<1> DEFINE All == ProposalTypes /\ LockInv /\ BackedInv
<1>1. ProposalInit(Plans) => All
  BY TypesBegin, LockBegins, BackedBegins
<1>2. All /\ [ProposalNext]_proposal_vars => All'
  BY TypesAreKept, LockIsKept, BackedIsKept
<1>3. All => BridgeIsBacked
  BY BackedIsEnough
<1> QED
  BY <1>1, <1>2, <1>3, PTL DEF ProposalSpec

---------------------------------------------------------------------------
(* The supply that is burned is that which was locked *)

Emptying == plan.scripts = {"upgradeMainnet"}
Stepping == plan.scripts = {"upgradeCeloStep1", "upgradeCeloFix"}

\* What was read of a bridge differs from what it holds by what people
\* bridged since: what left may be locked there, what arrived released.
LockFits(c, n, from) ==
    /\ chain[c].bridge - n <= Drift(from)
    /\ n - chain[c].bridge <= Drift(from) - InFlight
MainFits(r, from) ==
    /\ Len(r) >= 1 => r[1] = chain["mainnet"].old
    /\ Len(r) >= 2 => /\ LockFits("mainnet", r[2], from)
                      /\ chain["mainnet"].mode # "lock" => r[2] = 0
StepFits(r, from) ==
    /\ Len(r) >= 1 => r[1] = chain["celo"].avatar
    /\ Len(r) >= 2 => LockFits("celo", r[2], from)

\* The owners may still execute p, and executed nothing while its script ran.
Current(p) == p.nonce = nonce /\ ~p.overtaken
Excused(e) == e.failed => e.drift > 0 \/ e.overtaken

\* The first proposal finds the bridge locking, every other one finds it empty.
MainInv ==
    /\ IF done = << >> THEN nonce = 0 /\ chain["mainnet"].mode = "lock" /\ chain["mainnet"].avatar = Own
       ELSE /\ nonce > 0 /\ chain["mainnet"].mode # "lock"
            /\ chain["mainnet"].bridge = 0 /\ chain["mainnet"].old = 0
    /\ task # None /\ since.nonce = nonce => MainFits(reading, since)
    /\ \A p \in queue : /\ p.nonce <= nonce /\ (p.overtaken => nonce > 0)
                        /\ Current(p) => \E r \in Readings("upgradeMainnet") :
                               p.calls = upgradeMainnet(r) /\ MainFits(r, p.since)
    /\ \A i \in DOMAIN done : Excused(done[i])
    /\ done # << >> /\ (\A i \in DOMAIN done : BurnedWhole(done[i]))
          => Distance(chain["mainnet"].avatar, Own) <= moves

\* The treasury of Celo: read, joined by what was locked, burned.
StepAt(n) ==
    /\ since.nonce = nonce /\ n <= 5 => StepFits(reading, since)
    /\ n = 6 => /\ chain["celo"].avatar - (reading[1] + reading[2]) <= Drift(since)
                /\ reading[1] + reading[2] - chain["celo"].avatar <= Drift(since) - InFlight
    /\ n >= 7 /\ ~failed => chain["celo"].avatar <= Drift(since)
    /\ failed => Drift(since) > 0
    /\ n >= 8 => "scheme" \in chain["celo"].rights
Newest(i) == \A j \in Executions("upgradeCeloStep1") : j <= i
CeloInv ==
    /\ Executions("upgradeCeloStep1") # {} => "scheme" \in chain["celo"].rights
    /\ task = "upgradeCeloStep1" => StepAt(call_at)
    /\ \A p \in queue : p.script = "upgradeCeloStep1" =>
           /\ p.nonce <= nonce
           /\ Current(p) => \E r \in Readings("upgradeCeloStep1") :
                  p.calls = upgradeCeloStep1(r) /\ StepFits(r, p.since)
    /\ \A i \in Executions("upgradeCeloStep1") :
           /\ Excused(done[i])
           /\ Newest(i) /\ BurnedWhole(done[i]) => chain["celo"].avatar <= done[i].drift

\* What is not yet where it goes left after the script began, or was on its
\* way then; a script has read everything before it calls.
PaceInv == task # None => /\ InFlight <= Drift(since) /\ since.nonce <= nonce
                          /\ plan.via = "guardian" => since.nonce = nonce
                          /\ call_at > 1 => HasRead
BurnedInv == PaceInv /\ (Emptying => MainInv) /\ (Stepping => CeloInv)

LEMMA EmptyingIsOfV4 ==
    ASSUME plan \in Plans
    PROVE  /\ Emptying => plan.era = "v4" /\ plan.via = "safe"
           /\ Stepping => plan.era = "gip25"
<1>1. ASSUME Emptying PROVE plan.era = "v4" /\ plan.via = "safe"
  <2>1. "upgradeMainnet" \in plan.scripts
    BY <1>1 DEF Emptying
  <2> QED
    BY <2>1, ScriptsOfEras
<1>2. ASSUME Stepping PROVE plan.era = "gip25"
  <2>1. "upgradeCeloStep1" \in plan.scripts
    BY <1>2 DEF Stepping
  <2> QED
    BY <2>1, ScriptsOfEras
<1> QED
  BY <1>1, <1>2

\* What people do changes what a bridge holds no faster than what is counted.
LEMMA LockFitsByPeople ==
    ASSUME ProposalTypes,
           (\E e, d \in Chains : Leave(e, d)) \/ (\E d \in Chains : Arrive(d)) \/ Grow
    PROVE  /\ moves' \in Nat /\ moves <= moves' /\ UNCHANGED << run_vars, safe_vars, done >>
           /\ \A c \in Chains : /\ Alike(chain'[c], chain[c])
                                /\ chain[c].mode # "lock" => chain'[c].bridge = chain[c].bridge
           /\ \A from \in Beginnings :
                  /\ InFlight <= Drift(from) => InFlight' <= Drift(from)'
                  /\ Drift(from) \in Int /\ Drift(from)' \in Int /\ Drift(from) <= Drift(from)'
                  /\ Drift(from) - InFlight <= Drift(from)' - InFlight'
           /\ \A c \in Chains : \A n \in Nat : \A from \in Beginnings :
                  LockFits(c, n, from) => LockFits(c, n, from)'
<1>1. Ledgers /\ moves \in Nat /\ InFlight \in Nat
  BY DEF ProposalTypes, Ledgers
<1>2. \A c \in Chains : chain[c].bridge \in Nat
  BY <1>1 DEF Ledgers, Hold
<1>3. \A from \in Beginnings : /\ from.moves \in Nat /\ Drift(from) = moves - from.moves
                               /\ Drift(from)' = moves' - from.moves
  BY DEF Beginnings, Drift
<1>4. UNCHANGED << run_vars, safe_vars, done >>
  BY DEF Leave, Arrive, Grow
<1>5. \A c \in Chains : /\ Alike(chain'[c], chain[c])
                        /\ chain[c].mode # "lock" => chain'[c].bridge = chain[c].bridge
  BY <1>1, LeavingDoes, ArrivingDoes, GrowingDoes
<1>6. CASE \E e, d \in Chains : Leave(e, d)
  <2>1. PICK e \in Chains, d \in Chains : Leave(e, d)
    BY <1>6
  <2>2. moves' = moves + 1 /\ InFlight' = InFlight + 1
    BY <1>1, <2>1, LeavingDoes
  <2>3. \A c \in Chains : chain'[c].bridge = chain[c].bridge \/ chain'[c].bridge = chain[c].bridge + 1
    BY <1>1, <2>1, LeavingDoes
  <2>4. ASSUME NEW from \in Beginnings
        PROVE  /\ InFlight <= Drift(from) => InFlight' <= Drift(from)'
               /\ Drift(from) \in Int /\ Drift(from)' \in Int /\ Drift(from) <= Drift(from)'
               /\ Drift(from) - InFlight <= Drift(from)' - InFlight'
    BY <1>1, <1>3, <2>2
  <2>5. ASSUME NEW c \in Chains, NEW n \in Nat, NEW from \in Beginnings, LockFits(c, n, from)
        PROVE  LockFits(c, n, from)'
    <3>1. chain[c].bridge - n <= Drift(from) /\ n - chain[c].bridge <= Drift(from) - InFlight
      BY <2>5 DEF LockFits
    <3>2. Drift(from) \in Int /\ Drift(from)' = Drift(from) + 1
      BY <1>1, <1>3, <2>2
    <3>3. chain[c].bridge \in Nat
          /\ (chain'[c].bridge = chain[c].bridge \/ chain'[c].bridge = chain[c].bridge + 1)
      BY <1>2, <2>3
    <3>4. chain'[c].bridge - n <= Drift(from)' /\ n - chain'[c].bridge <= Drift(from)' - InFlight'
      BY <1>1, <2>2, <3>1, <3>2, <3>3
    <3> QED
      BY <3>4 DEF LockFits
  <2> QED
    BY <1>1, <1>4, <1>5, <2>2, <2>4, <2>5
<1>7. CASE \E d \in Chains : Arrive(d)
  <2>1. PICK e \in Chains : Arrive(e)
    BY <1>7
  <2>2. moves' = moves /\ InFlight' = InFlight - 1
    BY <1>1, <2>1, ArrivingDoes
  <2>3. \A c \in Chains : chain'[c].bridge = chain[c].bridge \/ chain'[c].bridge = chain[c].bridge - 1
    BY <1>1, <2>1, ArrivingDoes
  <2>4. ASSUME NEW from \in Beginnings
        PROVE  /\ InFlight <= Drift(from) => InFlight' <= Drift(from)'
               /\ Drift(from) \in Int /\ Drift(from)' \in Int /\ Drift(from) <= Drift(from)'
               /\ Drift(from) - InFlight <= Drift(from)' - InFlight'
    BY <1>1, <1>3, <2>2
  <2>5. ASSUME NEW c \in Chains, NEW n \in Nat, NEW from \in Beginnings, LockFits(c, n, from)
        PROVE  LockFits(c, n, from)'
    <3>1. chain[c].bridge - n <= Drift(from) /\ n - chain[c].bridge <= Drift(from) - InFlight
      BY <2>5 DEF LockFits
    <3>2. Drift(from) \in Int /\ Drift(from)' = Drift(from)
      BY <1>1, <1>3, <2>2
    <3>3. chain[c].bridge \in Nat
          /\ (chain'[c].bridge = chain[c].bridge \/ chain'[c].bridge = chain[c].bridge - 1)
      BY <1>2, <2>3
    <3>4. chain'[c].bridge - n <= Drift(from)' /\ n - chain'[c].bridge <= Drift(from)' - InFlight'
      BY <1>1, <2>2, <3>1, <3>2, <3>3
    <3> QED
      BY <3>4 DEF LockFits
  <2> QED
    BY <1>1, <1>4, <1>5, <2>2, <2>4, <2>5
<1>8. CASE Grow
  <2>1. moves' = moves /\ InFlight' = InFlight
    BY <1>1, <1>8, GrowingDoes
  <2>2. \A c \in Chains : chain'[c].bridge = chain[c].bridge
    BY <1>1, <1>8, GrowingDoes
  <2>3. \A from : Drift(from)' = Drift(from)
    BY <2>1 DEF Drift
  <2>5. \A from \in Beginnings : Drift(from) \in Int
    BY <1>1, <1>3
  <2>6. \A from \in Beginnings :
            /\ InFlight <= Drift(from) => InFlight' <= Drift(from)'
            /\ Drift(from) \in Int /\ Drift(from)' \in Int /\ Drift(from) <= Drift(from)'
            /\ Drift(from) - InFlight <= Drift(from)' - InFlight'
    BY <1>1, <2>1, <2>3, <2>5
  <2>4. \A c \in Chains : \A n \in Nat : \A from \in Beginnings :
                  LockFits(c, n, from) => LockFits(c, n, from)'
    BY <2>1, <2>2, <2>3 DEF LockFits
  <2> QED
    BY <1>1, <1>4, <1>5, <2>1, <2>4, <2>6
<1> QED
  BY <1>6, <1>7, <1>8

LEMMA PaceIsKept ==
    ASSUME ProposalTypes, LockInv, PaceInv, plan' = plan, [ProposalNext]_proposal_vars
    PROVE  PaceInv'
<1>1. InFlight \in Nat /\ moves \in Nat /\ nonce \in Nat /\ since \in Beginnings
  BY DEF ProposalTypes, Ledgers, TaskTypes
<1>2. ASSUME task' = None PROVE PaceInv'
  BY <1>2 DEF PaceInv
<1>3. ASSUME UNCHANGED << flight, moves, task, since, nonce >>, call_at' > 1 => HasRead'
      PROVE  PaceInv'
  BY <1>3 DEF PaceInv, InFlight, Drift
<1>4. CASE (\E c, d \in Chains : Leave(c, d)) \/ (\E d \in Chains : Arrive(d)) \/ Grow
  <2>1. /\ UNCHANGED << run_vars, safe_vars >>
        /\ \A from \in Beginnings : InFlight <= Drift(from) => InFlight' <= Drift(from)'
    BY <1>4, LockFitsByPeople
  <2>2. task' = task /\ since' = since /\ nonce' = nonce /\ call_at' = call_at /\ (HasRead' <=> HasRead)
    BY <2>1 DEF run_vars, safe_vars, HasRead
  <2>3. PICK from : from = since
    OBVIOUS
  <2>4. InFlight <= Drift(since) => InFlight' <= Drift(from)'
    BY <1>1, <2>1, <2>3
  <2>5. InFlight <= Drift(since) => InFlight' <= Drift(since)'
    BY <2>2, <2>3, <2>4 DEF Drift
  <2> QED
    BY <2>2, <2>5 DEF PaceInv
<1>5. ASSUME NEW script \in plan.scripts, StartScript(script) PROVE PaceInv'
  <2>1. /\ since' = [moves |-> moves - InFlight, nonce |-> nonce]
        /\ UNCHANGED << flight, moves, nonce >>
    BY <1>5 DEF StartScript, user_vars, safe_vars
  <2>2. Drift(since)' = moves - (moves - InFlight) /\ InFlight' = InFlight
    BY <2>1 DEF Drift, InFlight
  <2>3. InFlight' <= Drift(since)'
    BY <1>1, <2>2
  <2>4. since'.nonce = nonce /\ nonce <= nonce
    BY <1>1, <2>1
  <2>5. call_at' = 1
    BY <1>5 DEF StartScript, ProposalTypes, TaskTypes
  <2> QED
    BY <2>1, <2>3, <2>4, <2>5 DEF PaceInv
<1>6. CASE ReadOne \/ Simulate \/ SendGenericCall \/ UNCHANGED proposal_vars
  <2>1. UNCHANGED << flight, moves, task, since, nonce >>
    BY <1>6 DEF ReadOne, Simulate, SendGenericCall, proposal_vars, user_vars, run_vars, safe_vars
  <2>2. CASE ReadOne
    <3>1. call_at' = call_at /\ ~HasRead /\ task # None
      BY <2>2 DEF ReadOne
    <3> QED
      BY <1>3, <2>1, <3>1 DEF PaceInv
  <2>3. CASE Simulate \/ SendGenericCall
    <3>1. HasRead /\ reading' = reading
      BY <2>3 DEF Simulate, SendGenericCall, Calling
    <3> QED
      BY <1>3, <2>1, <3>1 DEF HasRead
  <2>4. CASE UNCHANGED proposal_vars
    <3>1. reading' = reading /\ call_at' = call_at
      BY <2>4 DEF proposal_vars, run_vars
    <3>2. task # None => (call_at' > 1 => HasRead')
      BY <2>1, <3>1 DEF PaceInv, HasRead
    <3> QED
      BY <1>2, <1>3, <2>1, <3>2
  <2> QED
    BY <1>6, <2>2, <2>3, <2>4
<1>7. CASE executeViaSafe \/ SimulationFailed \/ Executed \/ celoUpgrade \/ ScriptDies
  <2>1. task' = None
    BY <1>7 DEF executeViaSafe, SimulationFailed, Executed, celoUpgrade, ScriptDies, Stop
  <2> QED
    BY <1>2, <2>1
<1>8. ASSUME NEW p \in queue, execTransaction(p) PROVE PaceInv'
  <2>1. UNCHANGED << flight, moves, run_vars >> /\ nonce' = nonce + 1
    BY <1>8 DEF execTransaction
  <2>2. plan.via # "guardian"
    BY <1>8 DEF LockInv
  <2>3. InFlight' = InFlight /\ Drift(since)' = Drift(since) /\ task' = task /\ since' = since
        /\ call_at' = call_at /\ (HasRead' <=> HasRead)
    BY <2>1 DEF InFlight, Drift, run_vars, HasRead
  <2>4. since.nonce \in Nat /\ (since.nonce <= nonce => since.nonce <= nonce')
    BY <1>1, <2>1 DEF Beginnings
  <2> QED
    BY <2>2, <2>3, <2>4 DEF PaceInv
<1> QED
  BY <1>4, <1>5, <1>6, <1>7, <1>8 DEF ProposalNext, Run

\* A bridge that has just been read.
LEMMA LockFitsAsRead ==
    ASSUME ProposalTypes, PaceInv, task # None, NEW c \in Chains
    PROVE  LockFits(c, chain[c].bridge, since)
<1>1. chain[c].bridge \in Nat /\ InFlight \in Nat /\ Drift(since) \in Int
  BY DEF ProposalTypes, Ledgers, Hold, TaskTypes, Beginnings, Drift
<1>2. InFlight <= Drift(since)
  BY DEF PaceInv
<1>3. chain[c].bridge - chain[c].bridge <= Drift(since)
      /\ chain[c].bridge - chain[c].bridge <= Drift(since) - InFlight
  BY <1>1, <1>2
<1> QED
  BY <1>3 DEF LockFits

LEMMA MainByPeople ==
    ASSUME ProposalAssumption, ProposalTypes, Emptying, MainInv, plan' = plan,
           (\E e, d \in Chains : Leave(e, d)) \/ (\E d \in Chains : Arrive(d)) \/ Grow
    PROVE  MainInv'
<1>11. moves \in Nat
  BY DEF ProposalTypes, Ledgers
<1>12. UNCHANGED << run_vars, safe_vars, done >>
  BY DEF Leave, Arrive, Grow
<1>13. moves' \in Nat /\ moves <= moves'
  BY LockFitsByPeople
<1>14. \A c \in Chains : /\ Alike(chain'[c], chain[c])
                         /\ chain[c].mode # "lock" => chain'[c].bridge = chain[c].bridge
  BY LockFitsByPeople
<1>15. \A c \in Chains : \A n \in Nat : \A from \in Beginnings :
             LockFits(c, n, from) => LockFits(c, n, from)'
  BY LockFitsByPeople
<1>1. /\ moves' \in Nat /\ moves <= moves' /\ UNCHANGED << run_vars, safe_vars, done >>
      /\ \A c \in Chains : /\ Alike(chain'[c], chain[c])
                           /\ chain[c].mode # "lock" => chain'[c].bridge = chain[c].bridge
      /\ \A c \in Chains : \A n \in Nat : \A from \in Beginnings :
             LockFits(c, n, from) => LockFits(c, n, from)'
  BY <1>12, <1>13, <1>14, <1>15
<1>2. /\ task' = task /\ since' = since /\ reading' = reading /\ nonce' = nonce /\ queue' = queue
      /\ done' = done
  BY <1>1 DEF run_vars, safe_vars
<1>3. "mainnet" \in Chains
  BY DEF Chains
<1>4. /\ chain'["mainnet"].avatar = chain["mainnet"].avatar /\ chain'["mainnet"].old = chain["mainnet"].old
      /\ chain'["mainnet"].mode = chain["mainnet"].mode
      /\ chain["mainnet"].mode # "lock" => chain'["mainnet"].bridge = chain["mainnet"].bridge
  BY <1>1, <1>3 DEF Alike
<1>5. ASSUME NEW r \in Seq(Nat), NEW from \in Beginnings, MainFits(r, from) PROVE MainFits(r, from)'
  <2>1. CASE Len(r) >= 2
    <3>1. r[2] \in Nat
      <4>1. Len(r) \in Nat /\ \A i \in 1 .. Len(r) : r[i] \in Nat
        BY ReadNumbers
      <4> QED
        BY <2>1, <4>1
    <3>2. LockFits("mainnet", r[2], from)'
      BY <1>1, <1>3, <1>5, <2>1, <3>1 DEF MainFits
    <3> QED
      BY <1>4, <1>5, <3>2 DEF MainFits
  <2>2. CASE ~(Len(r) >= 2)
    BY <1>4, <1>5, <2>2 DEF MainFits
  <2> QED
    BY <2>1, <2>2
<1>6. task' # None /\ since'.nonce = nonce' => MainFits(reading, since)'
  <2>1. SUFFICES ASSUME task # None /\ since.nonce = nonce PROVE MainFits(reading, since)'
    BY <1>2
  <2>2. PICK r, from : r = reading /\ from = since
    OBVIOUS
  <2>3. r \in Seq(Nat) /\ from \in Beginnings
    BY <2>2 DEF ProposalTypes, TaskTypes
  <2>4. MainFits(r, from)
    BY <2>1, <2>2 DEF MainInv
  <2>5. MainFits(r, from)'
    BY <1>5, <2>3, <2>4
  <2> QED
    BY <1>2, <2>2, <2>5 DEF MainFits, LockFits, Drift
<1>7. ASSUME NEW p \in queue
      PROVE  /\ p.nonce <= nonce' /\ (p.overtaken => nonce' > 0)
             /\ Current(p)' => \E r \in Readings("upgradeMainnet") :
                    p.calls = upgradeMainnet(r) /\ MainFits(r, p.since)'
  <2>1. /\ p.nonce <= nonce /\ (p.overtaken => nonce > 0)
        /\ Current(p) => \E r \in Readings("upgradeMainnet") :
               p.calls = upgradeMainnet(r) /\ MainFits(r, p.since)
    BY DEF MainInv
  <2>2. Current(p)' <=> Current(p)
    BY <1>2 DEF Current
  <2>3. p.since \in Beginnings
    BY DEF ProposalTypes, Entry
  <2>4. \A r \in Readings("upgradeMainnet") : r \in Seq(Nat)
    BY DEF Readings
  <2> QED
    BY <1>2, <1>5, <2>1, <2>2, <2>3, <2>4
<1>8. done # << >> /\ (\A i \in DOMAIN done : BurnedWhole(done[i]))
          => Distance(chain'["mainnet"].avatar, Own) <= moves'
  <2>1. SUFFICES ASSUME Distance(chain["mainnet"].avatar, Own) <= moves
                 PROVE  Distance(chain["mainnet"].avatar, Own) <= moves'
    BY <1>4 DEF MainInv
  <2>2. Own \in Nat /\ chain["mainnet"].avatar \in Nat
    BY <1>3 DEF ProposalAssumption, ProposalTypes, Ledgers, Hold
  <2>3. Distance(chain["mainnet"].avatar, Own) \in Int
    BY <2>2 DEF Distance
  <2> QED
    BY <1>1, <1>11, <2>1, <2>3
<1>9. IF done' = << >>
      THEN nonce' = 0 /\ chain'["mainnet"].mode = "lock" /\ chain'["mainnet"].avatar = Own
      ELSE /\ nonce' > 0 /\ chain'["mainnet"].mode # "lock"
           /\ chain'["mainnet"].bridge = 0 /\ chain'["mainnet"].old = 0
  BY <1>2, <1>4 DEF MainInv
<1>10. \A i \in DOMAIN done' : Excused(done'[i])
  BY <1>2 DEF MainInv
<1> QED
  BY <1>2, <1>6, <1>7, <1>8, <1>9, <1>10 DEF MainInv

\* A step of the script.
LEMMA MainByScript ==
    ASSUME ProposalTypes, MainInv, UNCHANGED << user_vars, nonce, done >>,
           task' # None /\ since'.nonce = nonce => MainFits(reading', since'),
           \A p \in queue' : \/ p \in queue
                             \/ /\ p.nonce <= nonce /\ (p.overtaken => nonce > 0)
                                /\ Current(p) => \E r \in Readings("upgradeMainnet") :
                                       p.calls = upgradeMainnet(r) /\ MainFits(r, p.since)
    PROVE  MainInv'
<1>1. chain' = chain /\ flight' = flight /\ moves' = moves
  BY DEF user_vars
<1>2. InFlight' = InFlight
  BY <1>1 DEF InFlight
<1>3. \A r, from : MainFits(r, from)' <=> MainFits(r, from)
  BY <1>1, <1>2 DEF MainFits, LockFits, Drift
<1>4. task' # None /\ since'.nonce = nonce' => MainFits(reading, since)'
  BY <1>1, <1>2 DEF MainFits, LockFits, Drift
<1>5. \A p \in queue' : /\ p.nonce <= nonce' /\ (p.overtaken => nonce' > 0)
                        /\ Current(p)' => \E r \in Readings("upgradeMainnet") :
                               p.calls = upgradeMainnet(r) /\ MainFits(r, p.since)'
  <2>1. \A p \in queue' : /\ p.nonce <= nonce /\ (p.overtaken => nonce > 0)
                          /\ Current(p) => \E r \in Readings("upgradeMainnet") :
                                 p.calls = upgradeMainnet(r) /\ MainFits(r, p.since)
    BY DEF MainInv
  <2>2. \A p : Current(p)' <=> Current(p)
    BY DEF Current
  <2> QED
    BY <1>3, <2>1, <2>2
<1>6. /\ IF done' = << >>
         THEN nonce' = 0 /\ chain'["mainnet"].mode = "lock" /\ chain'["mainnet"].avatar = Own
         ELSE /\ nonce' > 0 /\ chain'["mainnet"].mode # "lock"
              /\ chain'["mainnet"].bridge = 0 /\ chain'["mainnet"].old = 0
      /\ \A i \in DOMAIN done' : Excused(done'[i])
      /\ done' # << >> /\ (\A i \in DOMAIN done' : BurnedWhole(done'[i]))
            => Distance(chain'["mainnet"].avatar, Own) <= moves'
  BY <1>1 DEF MainInv
<1> QED
  BY <1>4, <1>5, <1>6 DEF MainInv

\* It read of mainnet what is locked in the old bridge and in the new one.
LEMMA MainByReading ==
    ASSUME ProposalAssumption, ProposalTypes, PaceInv, MainInv, task = "upgradeMainnet", ReadOne,
           since.nonce = nonce
    PROVE  MainFits(reading', since)
<1>1. /\ Len(reading) # 2 /\ task # None
      /\ reading' = Append(reading, ReadingOf(Reads("upgradeMainnet")[Len(reading) + 1], On(task)))
  BY WhatIsRead DEF ReadOne, HasRead
<1>2. reading \in Seq(Nat) /\ MainFits(reading, since) /\ Len(reading) <= Len(Reads("upgradeMainnet"))
  BY <1>1 DEF ProposalTypes, TaskTypes, MainInv
<1>3. Len(Reads("upgradeMainnet")) = 2 /\ Reads("upgradeMainnet")[1] = "ForeignBridge"
      /\ Reads("upgradeMainnet")[2] = "MpbBridge" /\ On(task) = "mainnet"
  BY WhatIsRead DEF On
<1>4. /\ ReadingOf("ForeignBridge", "mainnet") = chain["mainnet"].old
      /\ ReadingOf("MpbBridge", "mainnet") = chain["mainnet"].bridge
  BY DEF ReadingOf
<1>5. Len(reading) \in Nat
  BY <1>2
<1>6. Len(reading) <= 2
  BY <1>2, <1>3, <1>5
<1>7. Len(reading) = 0 \/ Len(reading) = 1
  <2>1. \A n \in Nat : n <= 2 /\ n # 2 => n = 0 \/ n = 1
    OBVIOUS
  <2> QED
    BY <1>1, <1>5, <1>6, <2>1
<1>8. PICK r : r = reading'
  OBVIOUS
<1>9. "mainnet" \in Chains
  BY DEF Chains
<1>10. CASE Len(reading) = 0
  <2>1. r = Append(reading, chain["mainnet"].old)
    BY <1>1, <1>3, <1>4, <1>8, <1>10
  <2>2. Len(r) = 1 /\ r[1] = chain["mainnet"].old
    BY <1>2, <1>10, <2>1
  <2> QED
    BY <1>8, <2>2 DEF MainFits
<1>11. CASE Len(reading) = 1
  <2>1. r = Append(reading, chain["mainnet"].bridge)
    BY <1>1, <1>3, <1>4, <1>8, <1>11
  <2>2. Len(r) = 2 /\ r[1] = reading[1] /\ r[2] = chain["mainnet"].bridge
    <3>1. PICK v : v = chain["mainnet"].bridge
      OBVIOUS
    <3>2. reading \in Seq(Nat) /\ r = Append(reading, v)
      BY <1>2, <2>1, <3>1
    <3>3. Len(r) = Len(reading) + 1 /\ r[Len(reading) + 1] = v
          /\ \A i \in 1 .. Len(reading) : r[i] = reading[i]
      BY <3>2
    <3> QED
      BY <1>11, <3>1, <3>3
  <2>3. r[1] = chain["mainnet"].old
    BY <1>2, <1>11, <2>2 DEF MainFits
  <2>4. LockFits("mainnet", chain["mainnet"].bridge, since)
    BY <1>1, <1>9, LockFitsAsRead
  <2>5. chain["mainnet"].mode # "lock" => chain["mainnet"].bridge = 0
    BY DEF MainInv
  <2> QED
    BY <1>8, <2>2, <2>3, <2>4, <2>5 DEF MainFits
<1> QED
  BY <1>7, <1>10, <1>11

LEMMA EndingKeeps ==
    ASSUME NEW s \in Seq(Outcome), NEW e \in Outcome, NEW t, t = Append(s, e)
    PROVE  /\ Len(s) \in Nat /\ DOMAIN s = 1 .. Len(s) /\ DOMAIN t = 1 .. Len(s) + 1
           /\ t[Len(s) + 1] = e /\ \A i \in 1 .. Len(s) : t[i] = s[i]
<1>1. Len(s) \in Nat /\ Len(t) = Len(s) + 1 /\ DOMAIN s = 1 .. Len(s) /\ DOMAIN t = 1 .. Len(t)
  OBVIOUS
<1>2. t[Len(s) + 1] = e /\ \A i \in 1 .. Len(s) : t[i] = s[i]
  OBVIOUS
<1> QED
  BY <1>1, <1>2

\* The owners of the Safe execute a proposal on mainnet.
LEMMA MainByExecuting ==
    ASSUME ProposalAssumption, ProposalTypes, PaceInv, Emptying, MainInv, plan' = plan,
           NEW p \in queue, execTransaction(p)
    PROVE  MainInv'
<1>1. /\ UNCHANGED << flight, moves, task, reading, since, queue >>
      /\ nonce' = nonce + 1 /\ p.nonce = nonce
  BY DEF execTransaction, run_vars
<1>2. PICK e : e = Record(p.script, p.since, Called(p)[Len(p.calls)].failed, p.overtaken)
  OBVIOUS
<1>3. /\ e \in Outcome /\ done' = Append(done, e) /\ e.drift = Drift(p.since)
      /\ (e.failed <=> Called(p)[Len(p.calls)].failed) /\ e.overtaken = p.overtaken
  BY <1>2, ExecutingDoes DEF Record
<1>4. Entry(p) /\ done \in Seq(Outcome) /\ nonce \in Nat /\ moves \in Nat /\ InFlight \in Nat
  BY DEF ProposalTypes, Ledgers
<1>5. p.script = "upgradeMainnet"
  BY <1>4 DEF Entry, Emptying
<1>6. PICK r \in Readings("upgradeMainnet") :
          p.calls = upgradeMainnet(r) /\ (Current(p) => MainFits(r, p.since))
  <2>1. CASE Current(p)
    BY <2>1 DEF MainInv
  <2>2. CASE ~Current(p)
    <3>1. PICK r \in Readings("upgradeMainnet") : p.calls = proposalActions("upgradeMainnet", r)
      BY <1>4, <1>5 DEF Entry
    <3>2. p.calls = upgradeMainnet(r)
      BY <3>1 DEF proposalActions
    <3> QED
      BY <2>2, <3>2
  <2> QED
    BY <2>1, <2>2
<1>7. r[1] \in Nat /\ r[2] \in Nat /\ Len(r) = 2
  <2>1. r \in Seq(Nat) /\ Len(r) = 2
    BY WhatIsRead DEF Readings
  <2>2. \A i \in 1 .. 2 : r[i] \in Nat
    BY <2>1, ReadNumbers
  <2> QED
    BY <2>1, <2>2
<1>8. PICK a, o, b : /\ a = chain["mainnet"].avatar /\ o = chain["mainnet"].old
                     /\ b = chain["mainnet"].bridge
  OBVIOUS
<1>9. a \in Nat /\ o \in Nat /\ b \in Nat
  <2>1. "mainnet" \in Chains
    BY DEF Chains
  <2> QED
    BY <1>8, <2>1 DEF ProposalTypes, Ledgers, Hold
<1>10. /\ chain'["mainnet"].mode = "scheme" /\ chain'["mainnet"].bridge = 0
       /\ chain'["mainnet"].old = 0
       /\ a + o + b >= r[1] + r[2] => chain'["mainnet"].avatar = a + o + b - (r[1] + r[2])
       /\ e.failed <=> a + o + b < r[1] + r[2]
  <2>1. PICK all : all = a + o + b
    OBVIOUS
  <2>2. all = chain["mainnet"].avatar + chain["mainnet"].old + chain["mainnet"].bridge
    BY <1>8, <2>1
  <2>3. /\ chain'["mainnet"].mode = "scheme" /\ chain'["mainnet"].bridge = 0
        /\ chain'["mainnet"].old = 0
        /\ chain'["mainnet"].avatar = IF all >= r[1] + r[2] THEN all - (r[1] + r[2]) ELSE all
        /\ Called(p)[Len(p.calls)].failed <=> all < r[1] + r[2]
    BY <1>5, <1>6, <2>2, MainnetProposalDoes
  <2>4. a + o + b >= r[1] + r[2] => chain'["mainnet"].avatar = a + o + b - (r[1] + r[2])
    <3>1. all >= r[1] + r[2] => chain'["mainnet"].avatar = all - (r[1] + r[2])
      BY <2>3
    <3> QED
      BY <1>7, <1>9, <2>1, <3>1
  <2>5. e.failed <=> a + o + b < r[1] + r[2]
    BY <1>3, <2>1, <2>3
  <2> QED
    BY <2>3, <2>4, <2>5
<1>11. /\ done' # << >>
       /\ \A i \in DOMAIN done' : done'[i] = e \/ (i \in DOMAIN done /\ done'[i] = done[i])
       /\ Len(done) + 1 \in DOMAIN done' /\ done'[Len(done) + 1] = e
       /\ \A i \in DOMAIN done : i \in DOMAIN done' /\ done'[i] = done[i]
  <2>1. /\ done' # << >>
        /\ \A i \in DOMAIN done' : done'[i] = e \/ (i \in DOMAIN done /\ done'[i] = done[i])
    BY <1>3, <1>4, Ending
  <2>2. /\ Len(done) \in Nat /\ DOMAIN done = 1 .. Len(done) /\ DOMAIN done' = 1 .. Len(done) + 1
        /\ done'[Len(done) + 1] = e /\ \A i \in 1 .. Len(done) : done'[i] = done[i]
    BY <1>3, <1>4, EndingKeeps
  <2> QED
    BY <2>1, <2>2
<1>12. ~(task' # None /\ since'.nonce = nonce')
  BY <1>1, <1>4 DEF PaceInv, ProposalTypes, TaskTypes, Beginnings
<1>13. \A q \in queue' : q.nonce <= nonce' /\ nonce' > 0 /\ ~Current(q)'
  <2>1. \A q \in queue : q.nonce <= nonce /\ q.nonce \in Nat
    BY DEF MainInv, ProposalTypes, Entry
  <2> QED
    BY <1>1, <1>4, <2>1 DEF Current
<1>14. ASSUME ~p.overtaken
       PROVE  /\ r[1] = o /\ b - r[2] <= Drift(p.since) /\ r[2] - b <= Drift(p.since) - InFlight
              /\ chain["mainnet"].mode # "lock" => r[2] = 0
  <2>1. MainFits(r, p.since)
    BY <1>1, <1>6, <1>14 DEF Current
  <2>2. Len(r) >= 1 /\ Len(r) >= 2
    BY <1>7
  <2> QED
    BY <1>8, <2>1, <2>2 DEF MainFits, LockFits
<1>15. Drift(p.since) \in Int /\ Drift(p.since) <= moves
  BY <1>4 DEF Entry, Beginnings, Drift
<1>16. Excused(e)
  <2>1. SUFFICES ASSUME e.failed, ~p.overtaken PROVE Drift(p.since) > 0
    BY <1>3 DEF Excused
  <2>2. a + o + b < r[1] + r[2] /\ r[1] = o /\ r[2] - b <= Drift(p.since) - InFlight
    BY <1>10, <1>14, <2>1
  <2> QED
    BY <1>4, <1>7, <1>9, <1>15, <2>2
<1>17. ASSUME \A i \in DOMAIN done' : BurnedWhole(done'[i])
       PROVE  Distance(chain'["mainnet"].avatar, Own) <= moves'
  <2>1. ~e.failed /\ ~p.overtaken
    BY <1>3, <1>11, <1>17 DEF BurnedWhole
  <2>2. /\ r[1] = o /\ b - r[2] <= Drift(p.since) /\ r[2] - b <= Drift(p.since) - InFlight
        /\ chain["mainnet"].mode # "lock" => r[2] = 0
    BY <1>14, <2>1
  <2>3. a + o + b >= r[1] + r[2] /\ chain'["mainnet"].avatar = a + o + b - (r[1] + r[2])
    BY <1>7, <1>9, <1>10, <2>1
  <2>4. chain'["mainnet"].avatar = a + b - r[2]
    BY <1>7, <1>9, <2>2, <2>3
  <2>5. CASE done = << >>
    <3>1. a = Own
      BY <1>8, <2>5 DEF MainInv
    <3>2. chain'["mainnet"].avatar = Own + (b - r[2]) /\ Own \in Nat
      BY <1>7, <1>9, <2>4, <3>1
    <3>3. b - r[2] <= moves /\ r[2] - b <= moves
      BY <1>4, <1>7, <1>9, <1>15, <2>2
    <3>4. Distance(chain'["mainnet"].avatar, Own) <= moves
      BY <1>4, <1>7, <1>9, <3>2, <3>3 DEF Distance
    <3> QED
      BY <1>1, <3>4
  <2>6. CASE done # << >>
    <3>1. /\ b = 0 /\ chain["mainnet"].mode # "lock"
          /\ (\A i \in DOMAIN done : BurnedWhole(done[i])) => Distance(a, Own) <= moves
      BY <1>8, <2>6 DEF MainInv
    <3>2. Distance(a, Own) <= moves
      BY <1>11, <1>17, <3>1
    <3>3. chain'["mainnet"].avatar = a
      BY <1>9, <2>2, <2>4, <3>1
    <3> QED
      BY <1>1, <3>2, <3>3
  <2> QED
    BY <2>5, <2>6
<1>18. \A i \in DOMAIN done' : Excused(done'[i])
  BY <1>11, <1>16 DEF MainInv
<1>19. nonce' > 0 /\ chain'["mainnet"].mode # "lock"
  BY <1>1, <1>4, <1>10
<1> QED
  BY <1>10, <1>11, <1>12, <1>13, <1>17, <1>18, <1>19 DEF MainInv

LEMMA MainBegins ==
    ASSUME ProposalInit(Plans), Emptying
    PROVE  MainInv
<1>1. /\ done = << >> /\ nonce = 0 /\ task = None /\ queue = {} /\ plan \in Plans
      /\ \A c \in Chains : chain[c] = Before(plan.era, c)
  BY DEF ProposalInit
<1>2. plan.era = "v4"
  BY <1>1, EmptyingIsOfV4
<1>3. "mainnet" \in Chains
  BY DEF Chains
<1>4. chain["mainnet"] = Holding(People["mainnet"], Own, People["celo"], People["fuse"], "lock", {})
  BY <1>1, <1>2, <1>3 DEF Before
<1>5. chain["mainnet"].mode = "lock" /\ chain["mainnet"].avatar = Own
  BY <1>4 DEF Holding
<1>6. DOMAIN done = {}
  BY <1>1
<1> QED
  BY <1>1, <1>5, <1>6 DEF MainInv

LEMMA MainIsKept ==
    ASSUME ProposalAssumption, ProposalTypes, PaceInv, Emptying, MainInv, plan' = plan,
           [ProposalNext]_proposal_vars
    PROVE  MainInv'
<1>1. plan.via = "safe" /\ task \in {"upgradeMainnet", None}
  BY EmptyingIsOfV4 DEF ProposalTypes, TaskTypes, Emptying
<1>2. ~Calling /\ ~celoUpgrade
  BY <1>1 DEF Calling, celoUpgrade, HasRead, None
<1>3. ASSUME NEW script \in plan.scripts, StartScript(script) PROVE MainInv'
  <2>1. UNCHANGED << user_vars, nonce, done, queue, reading >> /\ task = None
    BY <1>3 DEF StartScript, safe_vars
  <2>2. Len(reading') = 0
    BY <2>1 DEF ProposalTypes, TaskTypes
  <2>3. MainFits(reading', since')
    BY <2>2 DEF MainFits
  <2> QED
    BY <2>1, <2>3, MainByScript
<1>4. CASE ReadOne
  <2>1. UNCHANGED << user_vars, nonce, done, queue, task, since >> /\ task # None
    BY <1>4 DEF ReadOne, safe_vars
  <2>2. task' # None /\ since'.nonce = nonce => MainFits(reading', since')
    BY <1>1, <1>4, <2>1, MainByReading
  <2> QED
    BY <2>1, <2>2, MainByScript
<1>5. CASE executeViaSafe
  <2>1. UNCHANGED << user_vars, nonce, done >> /\ task' = None /\ HasRead /\ task # None
        /\ task # "celoUpgrade"
    BY <1>5 DEF executeViaSafe, Stop, HasRead
  <2>2. PICK q : q = [script |-> task, nonce |-> NonceOf(task), since |-> since,
                      overtaken |-> nonce # since.nonce,
                      calls |-> proposalActions(task, reading)]
    OBVIOUS
  <2>3. queue' = queue \cup {q}
    BY <1>5, <2>2 DEF executeViaSafe
  <2>4. task = "upgradeMainnet" /\ q.nonce = nonce /\ q.since = since
        /\ (q.overtaken <=> nonce # since.nonce) /\ q.calls = upgradeMainnet(reading)
    BY <1>1, <2>1, <2>2 DEF NonceOf, Fixes, proposalActions
  <2>5. since.nonce <= nonce /\ since.nonce \in Nat /\ nonce \in Nat
    BY <2>1 DEF PaceInv, ProposalTypes, TaskTypes, Beginnings
  <2>6. q.nonce <= nonce /\ (q.overtaken => nonce > 0)
    BY <2>4, <2>5
  <2>7. Current(q) => MainFits(reading, since)
    BY <2>1, <2>4 DEF Current, MainInv
  <2>8. reading \in Readings("upgradeMainnet")
    BY <2>1, <2>4, CallsAreMade
  <2>9. task' # None /\ since'.nonce = nonce => MainFits(reading', since')
    BY <2>1
  <2>10. \A p \in queue' : \/ p \in queue
                           \/ /\ p.nonce <= nonce /\ (p.overtaken => nonce > 0)
                              /\ Current(p) => \E r \in Readings("upgradeMainnet") :
                                     p.calls = upgradeMainnet(r) /\ MainFits(r, p.since)
    BY <2>3, <2>4, <2>6, <2>7, <2>8
  <2> QED
    BY <2>1, <2>9, <2>10, MainByScript
<1>6. CASE ScriptDies
  <2>1. UNCHANGED << user_vars, nonce, done, queue >> /\ task' = None
    BY <1>6 DEF ScriptDies, Stop, safe_vars
  <2> QED
    BY <2>1, MainByScript
<1>7. ~(SimulationFailed \/ Simulate \/ SendGenericCall \/ Executed)
  BY <1>2 DEF SimulationFailed, Simulate, SendGenericCall, Executed
<1>8. CASE UNCHANGED proposal_vars
  <2>1. UNCHANGED << user_vars, nonce, done, queue, task, since, reading >>
    BY <1>8 DEF proposal_vars, run_vars, safe_vars
  <2>2. task' # None /\ since'.nonce = nonce => MainFits(reading', since')
    BY <2>1 DEF MainInv
  <2> QED
    BY <2>1, <2>2, MainByScript
<1> QED
  BY <1>2, <1>3, <1>4, <1>5, <1>6, <1>7, <1>8, MainByPeople, MainByExecuting DEF ProposalNext, Run

\* Nothing has begun.
LEMMA PaceBegins ==
    ASSUME ProposalInit(Plans)
    PROVE  PaceInv
BY DEF ProposalInit, PaceInv

LEMMA CeloBegins ==
    ASSUME ProposalInit(Plans)
    PROVE  CeloInv
<1>1. done = << >> /\ task = None /\ queue = {}
  BY DEF ProposalInit
<1>2. DOMAIN done = {}
  BY <1>1
<1>3. Executions("upgradeCeloStep1") = {}
  BY <1>2 DEF Executions
<1>4. task # "upgradeCeloStep1"
  BY <1>1 DEF None
<1> QED
  BY <1>1, <1>3, <1>4 DEF CeloInv

\* What the first step reads is a pair of numbers.
LEMMA StepIsRead ==
    \A r \in Readings("upgradeCeloStep1") :
        r \in Seq(Nat) /\ Len(r) = 2 /\ r[1] \in Nat /\ r[2] \in Nat
<1> SUFFICES ASSUME NEW r \in Readings("upgradeCeloStep1")
             PROVE  r \in Seq(Nat) /\ Len(r) = 2 /\ r[1] \in Nat /\ r[2] \in Nat
  OBVIOUS
<1>1. r \in Seq(Nat) /\ Len(r) = 2
  BY WhatIsRead DEF Readings
<1>2. \A i \in 1 .. 2 : r[i] \in Nat
  BY <1>1, ReadNumbers
<1> QED
  BY <1>1, <1>2

\* What people do, to the treasury of Celo.
LEMMA CeloByPeople ==
    ASSUME ProposalTypes, PaceInv, CeloInv, plan' = plan, ProposalTypes',
           (\E e, d \in Chains : Leave(e, d)) \/ (\E d \in Chains : Arrive(d)) \/ Grow
    PROVE  CeloInv'
<1>1. UNCHANGED << run_vars, safe_vars, done >>
  BY DEF Leave, Arrive, Grow
<1>2. \A c \in Chains : Alike(chain'[c], chain[c])
  BY LockFitsByPeople
<1>3. \A from \in Beginnings :
          /\ Drift(from) \in Int /\ Drift(from)' \in Int /\ Drift(from) <= Drift(from)'
          /\ Drift(from) - InFlight <= Drift(from)' - InFlight'
  BY LockFitsByPeople
<1>4. \A c \in Chains : \A n \in Nat : \A from \in Beginnings :
          LockFits(c, n, from) => LockFits(c, n, from)'
  BY LockFitsByPeople
<1>5. /\ task' = task /\ since' = since /\ reading' = reading /\ nonce' = nonce /\ queue' = queue
      /\ done' = done /\ call_at' = call_at /\ failed' = failed
  BY <1>1 DEF run_vars, safe_vars
<1>6. "celo" \in Chains
  BY DEF Chains
<1>7. /\ chain'["celo"].avatar = chain["celo"].avatar
      /\ chain'["celo"].rights = chain["celo"].rights
  BY <1>2, <1>6 DEF Alike
<1>8. ASSUME NEW r \in Seq(Nat), NEW from \in Beginnings, StepFits(r, from) PROVE StepFits(r, from)'
  <2>1. CASE Len(r) >= 2
    <3>1. r[2] \in Nat
      <4>1. Len(r) \in Nat /\ \A i \in 1 .. Len(r) : r[i] \in Nat
        BY ReadNumbers
      <4> QED
        BY <2>1, <4>1
    <3>2. LockFits("celo", r[2], from)'
      BY <1>4, <1>6, <1>8, <2>1, <3>1 DEF StepFits
    <3> QED
      BY <1>7, <1>8, <3>2 DEF StepFits
  <2>2. CASE ~(Len(r) >= 2)
    BY <1>7, <1>8, <2>2 DEF StepFits
  <2> QED
    BY <2>1, <2>2
<1>9. task = "upgradeCeloStep1" => StepAt(call_at)'
  <2>1. SUFFICES ASSUME task = "upgradeCeloStep1" PROVE StepAt(call_at)'
    OBVIOUS
  <2>2. PICK r, from, n : r = reading /\ from = since /\ n = call_at
    OBVIOUS
  <2>3. r \in Seq(Nat) /\ from \in Beginnings /\ n \in Nat
    BY <2>2 DEF ProposalTypes, TaskTypes
  <2>4. StepAt(n)
    BY <2>1, <2>2 DEF CeloInv
  <2>5. PICK d, f, dd, ff : /\ d = Drift(from) /\ f = InFlight
                            /\ dd = Drift(from)' /\ ff = InFlight'
    OBVIOUS
  <2>6. d \in Int /\ dd \in Int /\ d <= dd /\ d - f <= dd - ff
    BY <1>3, <2>3, <2>5
  <2>7. d = Drift(since) /\ dd = Drift(since)' /\ from.nonce = since.nonce
    BY <1>5, <2>2, <2>5 DEF Drift
  <2>8. from.nonce = nonce /\ n <= 5 => StepFits(r, from)'
    <3>1. from.nonce = nonce /\ n <= 5 => StepFits(r, from)
      BY <2>2, <2>4 DEF StepAt
    <3> QED
      BY <1>8, <2>3, <3>1
  <2>9. ASSUME n = 6
        PROVE  /\ chain["celo"].avatar - (r[1] + r[2]) <= dd
               /\ r[1] + r[2] - chain["celo"].avatar <= dd - ff
    <3>1. /\ chain["celo"].avatar - (r[1] + r[2]) <= d
          /\ r[1] + r[2] - chain["celo"].avatar <= d - f
      BY <2>2, <2>4, <2>5, <2>7, <2>9 DEF StepAt
    <3>2. chain["celo"].avatar \in Nat /\ f \in Nat /\ ff \in Int
      <4>1. InFlight' \in Int
        BY DEF ProposalTypes, Ledgers
      <4> QED
        BY <1>6, <2>5, <4>1 DEF ProposalTypes, Ledgers, Hold
    <3>3. r[1] \in Nat /\ r[2] \in Nat
      <4>1. HasRead
        BY <2>1, <2>2, <2>9 DEF PaceInv, None
      <4>2. r \in Readings("upgradeCeloStep1")
        BY <2>1, <2>2, <2>3, <4>1 DEF HasRead, Readings
      <4> QED
        BY <4>2, StepIsRead
    <3>4. PICK s : s = r[1] + r[2]
      OBVIOUS
    <3>5. s \in Nat
      BY <3>3, <3>4
    <3>6. chain["celo"].avatar - s <= d /\ s - chain["celo"].avatar <= d - f
      BY <2>6, <3>1, <3>2, <3>3, <3>4, <3>5
    <3>7. chain["celo"].avatar - s <= dd /\ s - chain["celo"].avatar <= dd - ff
      BY <2>6, <3>2, <3>5, <3>6
    <3> QED
      BY <2>6, <3>2, <3>3, <3>4, <3>5, <3>7
  <2>10. n >= 7 /\ ~failed => chain["celo"].avatar <= dd
    <3>1. SUFFICES ASSUME n >= 7, ~failed PROVE chain["celo"].avatar <= dd
      OBVIOUS
    <3>2. chain["celo"].avatar <= d /\ chain["celo"].avatar \in Nat
      BY <1>6, <2>4, <2>7, <3>1 DEF StepAt, ProposalTypes, Ledgers, Hold
    <3> QED
      BY <2>6, <3>2
  <2>11. failed => dd > 0
    <3>1. failed => d > 0
      BY <2>4, <2>7 DEF StepAt
    <3> QED
      BY <2>6, <3>1
  <2>12. n >= 8 => "scheme" \in chain["celo"].rights
    BY <2>4 DEF StepAt
  <2>13. since'.nonce = nonce' /\ call_at' <= 5 => StepFits(reading, since)'
    BY <1>5, <2>2, <2>8 DEF StepFits, LockFits, Drift
  <2>14. /\ call_at' = n /\ reading' = r /\ failed' = failed
         /\ Drift(since)' = dd /\ InFlight' = ff
    BY <1>5, <2>2, <2>5, <2>7
  <2>15. call_at' = 6 => /\ chain'["celo"].avatar - (reading'[1] + reading'[2]) <= Drift(since)'
                         /\ reading'[1] + reading'[2] - chain'["celo"].avatar <= Drift(since)' - InFlight'
    BY <1>7, <2>9, <2>14
  <2> QED
    BY <1>7, <2>10, <2>11, <2>12, <2>13, <2>14, <2>15 DEF StepAt
<1>10. ASSUME NEW p \in queue, p.script = "upgradeCeloStep1"
       PROVE  /\ p.nonce <= nonce'
              /\ Current(p)' => \E r \in Readings("upgradeCeloStep1") :
                     p.calls = upgradeCeloStep1(r) /\ StepFits(r, p.since)'
  <2>1. /\ p.nonce <= nonce
        /\ Current(p) => \E r \in Readings("upgradeCeloStep1") :
               p.calls = upgradeCeloStep1(r) /\ StepFits(r, p.since)
    BY <1>10 DEF CeloInv
  <2>2. Current(p)' <=> Current(p)
    BY <1>5 DEF Current
  <2>3. p.since \in Beginnings
    BY DEF ProposalTypes, Entry
  <2>4. \A r \in Readings("upgradeCeloStep1") : r \in Seq(Nat)
    BY DEF Readings
  <2> QED
    BY <1>5, <1>8, <2>1, <2>2, <2>3, <2>4
<1>11. Executions("upgradeCeloStep1")' = Executions("upgradeCeloStep1")
       /\ \A i : Newest(i)' <=> Newest(i)
  BY <1>5 DEF Executions, Newest
<1> QED
  BY <1>5, <1>7, <1>9, <1>10, <1>11 DEF CeloInv

\* A step of the script that sends nothing.
LEMMA CeloByScript ==
    ASSUME CeloInv, UNCHANGED << user_vars, nonce, done >>,
           task' = "upgradeCeloStep1" => StepAt(call_at)',
           \A p \in queue' : \/ p \in queue
                             \/ p.script = "upgradeCeloStep1" =>
                                    /\ p.nonce <= nonce
                                    /\ Current(p) => \E r \in Readings("upgradeCeloStep1") :
                                           p.calls = upgradeCeloStep1(r) /\ StepFits(r, p.since)
    PROVE  CeloInv'
<1>1. chain' = chain /\ flight' = flight /\ moves' = moves /\ nonce' = nonce /\ done' = done
  BY DEF user_vars
<1>2. \A r, from : StepFits(r, from)' <=> StepFits(r, from)
  BY <1>1 DEF StepFits, LockFits, Drift, InFlight
<1>3. \A p \in queue' : p.script = "upgradeCeloStep1" =>
           /\ p.nonce <= nonce'
           /\ Current(p)' => \E r \in Readings("upgradeCeloStep1") :
                  p.calls = upgradeCeloStep1(r) /\ StepFits(r, p.since)'
  <2>1. \A p \in queue' : p.script = "upgradeCeloStep1" =>
           /\ p.nonce <= nonce
           /\ Current(p) => \E r \in Readings("upgradeCeloStep1") :
                  p.calls = upgradeCeloStep1(r) /\ StepFits(r, p.since)
    BY DEF CeloInv
  <2>2. \A p : Current(p)' <=> Current(p)
    BY <1>1 DEF Current
  <2> QED
    BY <1>1, <1>2, <2>1, <2>2
<1>4. Executions("upgradeCeloStep1")' = Executions("upgradeCeloStep1")
      /\ \A i : Newest(i)' <=> Newest(i)
  BY <1>1 DEF Executions, Newest
<1>5. /\ Executions("upgradeCeloStep1") # {} => "scheme" \in chain["celo"].rights
      /\ \A i \in Executions("upgradeCeloStep1") :
           /\ Excused(done[i])
           /\ Newest(i) /\ BurnedWhole(done[i]) => chain["celo"].avatar <= done[i].drift
  BY DEF CeloInv
<1> QED
  BY <1>1, <1>3, <1>4, <1>5 DEF CeloInv

LEMMA StepStays ==
    ASSUME StepAt(call_at), UNCHANGED << user_vars, nonce, since, reading, call_at, failed >>
    PROVE  StepAt(call_at)'
BY DEF StepAt, StepFits, LockFits, Drift, InFlight, user_vars

\* It read of Celo what the Avatar has and what is locked.
LEMMA StepByReading ==
    ASSUME ProposalTypes, PaceInv, CeloInv, task = "upgradeCeloStep1", ReadOne
    PROVE  StepAt(call_at)'
<1>1. /\ Len(reading) # 2 /\ task # None /\ ~HasRead
      /\ reading' = Append(reading, ReadingOf(Reads("upgradeCeloStep1")[Len(reading) + 1], On(task)))
      /\ UNCHANGED << user_vars, nonce, since, call_at, failed >>
  BY WhatIsRead DEF ReadOne, HasRead, safe_vars
<1>2. reading \in Seq(Nat) /\ Len(reading) <= Len(Reads("upgradeCeloStep1")) /\ StepAt(call_at)
  BY <1>1 DEF ProposalTypes, TaskTypes, CeloInv
<1>3. Len(Reads("upgradeCeloStep1")) = 2 /\ Reads("upgradeCeloStep1")[1] = "Avatar"
      /\ Reads("upgradeCeloStep1")[2] = "MpbBridge" /\ On(task) = "celo"
  BY WhatIsRead DEF On
<1>4. /\ ReadingOf("Avatar", "celo") = chain["celo"].avatar
      /\ ReadingOf("MpbBridge", "celo") = chain["celo"].bridge
  BY DEF ReadingOf
<1>5. Len(reading) \in Nat
  BY <1>2
<1>6. Len(reading) <= 2
  BY <1>2, <1>3, <1>5
<1>7. Len(reading) = 0 \/ Len(reading) = 1
  <2>1. \A n \in Nat : n <= 2 /\ n # 2 => n = 0 \/ n = 1
    OBVIOUS
  <2> QED
    BY <1>1, <1>5, <1>6, <2>1
<1>8. call_at = 1
  <2>1. call_at \in Nat \ {0} /\ ~(call_at > 1)
    BY <1>1 DEF ProposalTypes, TaskTypes, PaceInv
  <2> QED
    BY <2>1
<1>9. PICK r : r = reading'
  OBVIOUS
<1>10. "celo" \in Chains
  BY DEF Chains
<1>11. ASSUME since.nonce = nonce PROVE StepFits(r, since)
  <2>1. StepFits(reading, since)
    BY <1>2, <1>8, <1>11 DEF StepAt
  <2>2. CASE Len(reading) = 0
    <3>1. r = Append(reading, chain["celo"].avatar)
      BY <1>1, <1>3, <1>4, <1>9, <2>2
    <3>2. Len(r) = 1 /\ r[1] = chain["celo"].avatar
      BY <1>2, <2>2, <3>1
    <3> QED
      BY <3>2 DEF StepFits
  <2>3. CASE Len(reading) = 1
    <3>1. r = Append(reading, chain["celo"].bridge)
      BY <1>1, <1>3, <1>4, <1>9, <2>3
    <3>2. Len(r) = 2 /\ r[1] = reading[1] /\ r[2] = chain["celo"].bridge
      <4>1. PICK v : v = chain["celo"].bridge
        OBVIOUS
      <4>2. reading \in Seq(Nat) /\ r = Append(reading, v)
        BY <1>2, <3>1, <4>1
      <4>3. Len(r) = Len(reading) + 1 /\ r[Len(reading) + 1] = v
            /\ \A i \in 1 .. Len(reading) : r[i] = reading[i]
        BY <4>2
      <4> QED
        BY <2>3, <4>1, <4>3
    <3>3. r[1] = chain["celo"].avatar
      BY <2>1, <2>3, <3>2 DEF StepFits
    <3>4. LockFits("celo", chain["celo"].bridge, since)
      BY <1>1, <1>10, LockFitsAsRead
    <3> QED
      BY <3>2, <3>3, <3>4 DEF StepFits
  <2> QED
    BY <1>7, <2>2, <2>3
<1>12. since'.nonce = nonce' => StepFits(reading, since)'
  BY <1>1, <1>9, <1>11 DEF StepFits, LockFits, Drift, InFlight, user_vars
<1>13. failed' => Drift(since)' > 0
  BY <1>1, <1>2 DEF StepAt, Drift, user_vars
<1>14. call_at' = 1
  BY <1>1, <1>8
<1> QED
  BY <1>12, <1>13, <1>14 DEF StepAt

\* A proposal has been executed to its end.
LEMMA CeloEnds ==
    ASSUME CeloInv, done \in Seq(Outcome), NEW e \in Outcome, done' = Append(done, e),
           chain["celo"].avatar \in Nat, chain'["celo"].avatar \in Nat,
           Executions("upgradeCeloStep1") # {} =>
               ("scheme" \in chain["celo"].rights => "scheme" \in chain'["celo"].rights),
           e.script = "upgradeCeloStep1" =>
               /\ "scheme" \in chain'["celo"].rights /\ Excused(e)
               /\ BurnedWhole(e) => chain'["celo"].avatar <= e.drift,
           e.script # "upgradeCeloStep1" /\ Executions("upgradeCeloStep1") # {} =>
               chain'["celo"].avatar <= chain["celo"].avatar
    PROVE  /\ Executions("upgradeCeloStep1")' # {} => "scheme" \in chain'["celo"].rights
           /\ \A i \in Executions("upgradeCeloStep1")' :
                  /\ Excused(done'[i])
                  /\ Newest(i)' /\ BurnedWhole(done'[i]) => chain'["celo"].avatar <= done'[i].drift
<1> DEFINE S == Executions("upgradeCeloStep1")
           T == Executions("upgradeCeloStep1")'
           n == Len(done) + 1
<1>1. /\ Len(done) \in Nat /\ DOMAIN done = 1 .. Len(done) /\ DOMAIN done' = 1 .. n
      /\ done'[n] = e /\ \A i \in 1 .. Len(done) : done'[i] = done[i]
  BY EndingKeeps
<1>2. /\ S = {i \in DOMAIN done : done[i].script = "upgradeCeloStep1"}
      /\ T = {i \in DOMAIN done' : done'[i].script = "upgradeCeloStep1"}
  BY DEF Executions
<1>3. /\ \A i : Newest(i) <=> \A j \in S : j <= i
      /\ \A i : Newest(i)' <=> \A j \in T : j <= i
  BY DEF Newest
<1>4. /\ S # {} => "scheme" \in chain["celo"].rights
      /\ \A i \in S : /\ Excused(done[i])
                      /\ Newest(i) /\ BurnedWhole(done[i]) => chain["celo"].avatar <= done[i].drift
  BY DEF CeloInv
<1> HIDE DEF S, T
<1>5. \A i \in S : i \in T /\ i \in 1 .. Len(done)
  BY <1>1, <1>2
<1>6. \A i \in T : \/ i = n /\ e.script = "upgradeCeloStep1"
                   \/ i \in S /\ done'[i] = done[i]
  BY <1>1, <1>2
<1>7. e.script = "upgradeCeloStep1" => n \in T
  BY <1>1, <1>2
<1>8. T # {} => "scheme" \in chain'["celo"].rights
  <2>1. CASE e.script = "upgradeCeloStep1"
    BY <2>1
  <2>2. CASE S # {}
    BY <1>4, <2>2 DEF S
  <2> QED
    BY <1>6, <2>1, <2>2
<1>9. ASSUME NEW i \in T
      PROVE  /\ Excused(done'[i])
             /\ Newest(i)' /\ BurnedWhole(done'[i]) => chain'["celo"].avatar <= done'[i].drift
  <2>1. CASE i = n /\ e.script = "upgradeCeloStep1"
    BY <1>1, <2>1
  <2>2. CASE i \in S /\ done'[i] = done[i]
    <3>1. Excused(done'[i])
      BY <1>4, <2>2
    <3>2. ASSUME Newest(i)', BurnedWhole(done'[i]) PROVE chain'["celo"].avatar <= done'[i].drift
      <4>1. e.script # "upgradeCeloStep1"
        <5>1. i \in 1 .. Len(done)
          BY <1>5, <2>2
        <5>2. ~(n <= i)
          BY <1>1, <5>1
        <5> QED
          BY <1>3, <1>7, <3>2, <5>2
      <4>2. Newest(i)
        BY <1>3, <1>5, <3>2
      <4>3. chain["celo"].avatar <= done[i].drift
        BY <1>4, <2>2, <3>2, <4>2
      <4>4. chain'["celo"].avatar <= chain["celo"].avatar
        BY <2>2, <4>1 DEF S
      <4>5. done[i].drift \in Int
        <5>1. done[i] \in Outcome
          BY <1>1, <1>5, <2>2
        <5> QED
          BY <5>1 DEF Outcome
      <4>6. chain'["celo"].avatar <= done[i].drift
        BY <4>3, <4>4, <4>5
      <4> QED
        BY <2>2, <4>6
    <3> QED
      BY <3>1, <3>2
  <2> QED
    BY <1>6, <2>1, <2>2
<1> QED
  BY <1>8, <1>9 DEF T

\* The owners of the Safe execute a proposal on Celo.
LEMMA CeloByExecuting ==
    ASSUME ProposalTypes, LockInv, PaceInv, Stepping, CeloInv, plan' = plan,
           NEW p \in queue, execTransaction(p)
    PROVE  CeloInv'
<1>1. /\ UNCHANGED << flight, moves, task, reading, since, queue, call_at, failed >>
      /\ nonce' = nonce + 1 /\ p.nonce = nonce
  BY DEF execTransaction, run_vars
<1>2. PICK e : e = Record(p.script, p.since, Called(p)[Len(p.calls)].failed, p.overtaken)
  OBVIOUS
<1>3. /\ e \in Outcome /\ done' = Append(done, e) /\ e.drift = Drift(p.since)
      /\ (e.failed <=> Called(p)[Len(p.calls)].failed) /\ e.overtaken = p.overtaken
      /\ e.script = p.script
  BY <1>2, ExecutingDoes DEF Record
<1>4. Entry(p) /\ done \in Seq(Outcome) /\ nonce \in Nat /\ moves \in Nat /\ InFlight \in Nat
  BY DEF ProposalTypes, Ledgers
<1>5. p.script \in {"upgradeCeloStep1", "upgradeCeloFix"}
  BY <1>4 DEF Entry, Stepping
<1>6. call_at = 1 /\ failed = FALSE
  <2>1. plan.via = "safe"
    BY ThePlans DEF LockInv, ProposalTypes
  <2> QED
    BY <2>1 DEF ProposalTypes, TaskTypes
<1>7. PICK a, b, g : /\ a = chain["celo"].avatar /\ b = chain["celo"].bridge
                     /\ g = chain'["celo"].avatar
  OBVIOUS
<1>8. a \in Nat /\ b \in Nat /\ g \in Nat
  <2>1. "celo" \in Chains
    BY DEF Chains
  <2>2. chain' \in [Chains -> Hold]
    BY ExecutingDoes
  <2> QED
    BY <1>7, <2>1, <2>2 DEF ProposalTypes, Ledgers, Hold
<1>9. Drift(p.since) \in Int
  BY <1>4 DEF Entry, Beginnings, Drift
<1>10. ASSUME p.script = "upgradeCeloStep1"
       PROVE  /\ "scheme" \in chain'["celo"].rights /\ Excused(e)
              /\ BurnedWhole(e) => g <= e.drift
  <2>1. PICK r \in Readings("upgradeCeloStep1") :
            p.calls = upgradeCeloStep1(r) /\ (Current(p) => StepFits(r, p.since))
    <3>1. CASE Current(p)
      BY <1>10, <3>1 DEF CeloInv
    <3>2. CASE ~Current(p)
      <4>1. PICK r \in Readings("upgradeCeloStep1") : p.calls = proposalActions("upgradeCeloStep1", r)
        BY <1>4, <1>10 DEF Entry
      <4>2. p.calls = upgradeCeloStep1(r)
        BY <4>1 DEF proposalActions
      <4> QED
        BY <3>2, <4>2
    <3> QED
      BY <3>1, <3>2
  <2>2. r[1] \in Nat /\ r[2] \in Nat /\ Len(r) = 2
    BY StepIsRead
  <2>3. PICK all : all = a + b
    OBVIOUS
  <2>4. all = chain["celo"].avatar + chain["celo"].bridge
    BY <1>7, <2>3
  <2>5. /\ "scheme" \in chain'["celo"].rights
        /\ chain'["celo"].avatar = IF all >= r[1] + r[2] THEN all - (r[1] + r[2]) ELSE all
        /\ Called(p)[Len(p.calls)].failed <=> all < r[1] + r[2]
    BY <1>10, <2>1, <2>4, StepOneProposalDoes
  <2>6. a + b >= r[1] + r[2] => g = a + b - (r[1] + r[2])
    <3>1. all >= r[1] + r[2] => g = all - (r[1] + r[2])
      BY <1>7, <2>5
    <3> QED
      BY <1>8, <2>2, <2>3, <3>1
  <2>7. e.failed <=> a + b < r[1] + r[2]
    BY <1>3, <2>3, <2>5
  <2>8. ASSUME ~p.overtaken
        PROVE  r[1] = a /\ b - r[2] <= Drift(p.since) /\ r[2] - b <= Drift(p.since) - InFlight
    <3>1. StepFits(r, p.since)
      BY <1>1, <2>1, <2>8 DEF Current
    <3>2. Len(r) >= 1 /\ Len(r) >= 2
      BY <2>2
    <3> QED
      BY <1>7, <3>1, <3>2 DEF StepFits, LockFits
  <2>9. Excused(e)
    <3>1. SUFFICES ASSUME e.failed, ~p.overtaken PROVE Drift(p.since) > 0
      BY <1>3 DEF Excused
    <3>2. a + b < r[1] + r[2] /\ r[1] = a /\ r[2] - b <= Drift(p.since) - InFlight
      BY <2>7, <2>8, <3>1
    <3> QED
      BY <1>4, <1>8, <1>9, <2>2, <3>2
  <2>10. ASSUME BurnedWhole(e) PROVE g <= Drift(p.since)
    <3>1. ~e.failed /\ ~p.overtaken
      BY <1>3, <2>10 DEF BurnedWhole
    <3>2. a + b >= r[1] + r[2] /\ r[1] = a /\ b - r[2] <= Drift(p.since)
      BY <1>8, <2>2, <2>7, <2>8, <3>1
    <3>3. g = a + b - (r[1] + r[2])
      BY <2>6, <3>2
    <3> QED
      BY <1>8, <1>9, <2>2, <3>2, <3>3
  <2> QED
    BY <1>3, <2>5, <2>9, <2>10
<1>11. ASSUME p.script = "upgradeCeloFix"
       PROVE  chain'["celo"].rights = chain["celo"].rights /\ g <= a
  <2>1. PICK r \in Readings("upgradeCeloFix") : p.calls = proposalActions("upgradeCeloFix", r)
    BY <1>4, <1>11 DEF Entry
  <2>2. p.calls = upgradeCeloFix(r)
    BY <2>1 DEF proposalActions
  <2> QED
    BY <1>7, <1>11, <2>2, FixProposalDoes
<1>12. /\ Executions("upgradeCeloStep1")' # {} => "scheme" \in chain'["celo"].rights
       /\ \A i \in Executions("upgradeCeloStep1")' :
              /\ Excused(done'[i])
              /\ Newest(i)' /\ BurnedWhole(done'[i]) => chain'["celo"].avatar <= done'[i].drift
  <2>1. /\ Executions("upgradeCeloStep1") # {} =>
              ("scheme" \in chain["celo"].rights => "scheme" \in chain'["celo"].rights)
        /\ e.script = "upgradeCeloStep1" =>
              /\ "scheme" \in chain'["celo"].rights /\ Excused(e)
              /\ BurnedWhole(e) => chain'["celo"].avatar <= e.drift
        /\ e.script # "upgradeCeloStep1" /\ Executions("upgradeCeloStep1") # {} =>
              chain'["celo"].avatar <= chain["celo"].avatar
    BY <1>3, <1>5, <1>7, <1>10, <1>11
  <2>2. chain["celo"].avatar \in Nat /\ chain'["celo"].avatar \in Nat
    BY <1>7, <1>8
  <2> QED
    BY <1>3, <1>4, <2>1, <2>2, CeloEnds
<1>13. \A q \in queue' : q.script = "upgradeCeloStep1" => q.nonce <= nonce' /\ ~Current(q)'
  <2>1. \A q \in queue : q.script = "upgradeCeloStep1" => q.nonce <= nonce /\ q.nonce \in Nat
    BY DEF CeloInv, ProposalTypes, Entry
  <2> QED
    BY <1>1, <1>4, <2>1 DEF Current
<1>14. task' = "upgradeCeloStep1" => StepAt(call_at)'
  <2>1. SUFFICES ASSUME task = "upgradeCeloStep1" PROVE StepAt(call_at)'
    BY <1>1
  <2>2. since'.nonce # nonce'
    BY <1>1, <1>4, <2>1 DEF PaceInv, ProposalTypes, TaskTypes, Beginnings, None
  <2>3. call_at' = 1 /\ failed' = FALSE
    BY <1>1, <1>6
  <2> QED
    BY <2>2, <2>3 DEF StepAt
<1> QED
  BY <1>12, <1>13, <1>14 DEF CeloInv

\* What the calls of the two proposals on Celo are.
LEMMA StepCalls ==
    ASSUME NEW s \in {"upgradeCeloStep1", "upgradeCeloFix"}, NEW r \in Readings(s),
           NEW i \in 1 .. Len(proposalActions(s, r))
    PROVE  /\ proposalActions(s, r)[i].amount \in Nat
           /\ proposalActions(s, r)[i].do \notin {"claimTokens", "revokeRole", "mentoUpgrade"}
<1>1. /\ \A name : set(name).do = "set" /\ set(name).amount = 0
      /\ \A m : upgradeTo(m).do = "upgradeTo" /\ upgradeTo(m).amount = 0
      /\ upgradeToAndCall.do = "upgradeToAndCall" /\ upgradeToAndCall.amount = 0
      /\ withdraw.do = "withdraw" /\ withdraw.amount = 0
      /\ registerScheme.do = "registerScheme" /\ registerScheme.amount = 0
      /\ \A n : burnLocked(n).do = "burn" /\ burnLocked(n).amount = n
  BY DEF set, upgradeTo, upgradeToAndCall, withdraw, registerScheme, burnLocked, call, amount
<1>2. CASE s = "upgradeCeloStep1"
  <2>1. r[1] \in Nat /\ r[2] \in Nat
    BY <1>2, StepIsRead
  <2>2. proposalActions(s, r) = upgradeCeloStep1(r)
    BY <1>2 DEF proposalActions
  <2>3. PICK n : n = r[1] + r[2]
    OBVIOUS
  <2>4. n \in Nat
    BY <2>1, <2>3
  <2>5. PICK calls : calls = proposalActions(s, r)
    OBVIOUS
  <2>6. /\ Len(calls) = 7
        /\ calls[1] = set("UBIScheme") /\ calls[2] = set("Identity")
        /\ calls[3] = upgradeToAndCall /\ calls[4] = set("setConfig")
        /\ calls[5] = withdraw /\ calls[6] = burnLocked(n) /\ calls[7] = registerScheme
    BY <2>2, <2>3, <2>5 DEF upgradeCeloStep1
  <2>7. i \in {1, 2, 3, 4, 5, 6, 7}
    BY <2>5, <2>6
  <2>8. /\ \A k \in {1, 2, 4} : calls[k].do = "set" /\ calls[k].amount = 0
        /\ calls[3].do = "upgradeToAndCall" /\ calls[3].amount = 0
        /\ calls[5].do = "withdraw" /\ calls[5].amount = 0
        /\ calls[6].do = "burn" /\ calls[6].amount = n
        /\ calls[7].do = "registerScheme" /\ calls[7].amount = 0
    BY <1>1, <2>6
  <2> QED
    BY <2>4, <2>5, <2>7, <2>8
<1>3. CASE s = "upgradeCeloFix"
  <2>1. proposalActions(s, r) = upgradeCeloFix(r)
    BY <1>3 DEF proposalActions
  <2>2. r[1] \in Nat
    <3>1. r \in Seq(Nat) /\ Len(r) = 1
      BY <1>3, WhatIsRead DEF Readings
    <3>2. \A k \in 1 .. 1 : r[k] \in Nat
      BY <3>1, ReadNumbers
    <3> QED
      BY <3>2
  <2>3. PICK calls : calls = proposalActions(s, r)
    OBVIOUS
  <2>4. Len(calls) = 2 /\ calls[1] = upgradeTo("scheme") /\ calls[2] = burnLocked(r[1])
    BY <2>1, <2>3 DEF upgradeCeloFix
  <2>5. i \in {1, 2}
    BY <2>3, <2>4
  <2> QED
    BY <1>1, <2>2, <2>3, <2>4, <2>5
<1> QED
  BY <1>2, <1>3

\* The script sends a call itself.
LEMMA CeloBySending ==
    ASSUME ProposalTypes, LockInv, PaceInv, Stepping, CeloInv, plan' = plan, SendGenericCall
    PROVE  CeloInv'
<1> DEFINE a == Calls[call_at]
           h == chain["celo"]
           g == chain'["celo"]
<1>1. /\ plan.via = "guardian" /\ call_at \in 1 .. Len(Calls)
      /\ reading \in Readings(task) /\ Sound(a)
      /\ chain' \in [Chains -> Hold] /\ chain'[On(task)] = After(Here, a)
      /\ failed' = (failed \/ Fails(Here, a)) /\ call_at' = call_at + 1
  BY SendingDoes
<1>2. /\ UNCHANGED << flight, moves, task, reading, since, queue, nonce, done >>
      /\ task \in plan.scripts /\ task # None
  BY DEF SendGenericCall, Calling, HasRead, safe_vars, ProposalTypes, TaskTypes
<1>3. task \in {"upgradeCeloStep1", "upgradeCeloFix"} /\ On(task) = "celo"
  BY <1>2 DEF Stepping, On
<1>4. "celo" \in Chains /\ h \in Hold /\ g \in Hold /\ Here = h
  BY <1>1, <1>3 DEF ProposalTypes, Ledgers, Here, Chains
<1>5. Does(h, a, g)
  BY <1>1, <1>3, <1>4, CallsDo
<1>6. /\ a.amount \in Nat /\ a.do \notin {"claimTokens", "revokeRole", "mentoUpgrade"}
  BY <1>1, <1>3, StepCalls DEF Calls
<1>7. failed' = (failed \/ Fails(h, a)) /\ (Fails(h, a) => a.do = "burn")
  BY <1>1, <1>4, <1>5, <1>6 DEF Does
<1>8. since.nonce = nonce /\ queue = {} /\ done \in Seq(Outcome) /\ failed \in BOOLEAN
  BY <1>1, <1>2 DEF PaceInv, LockInv, ProposalTypes, TaskTypes
<1>9. h.avatar \in Nat /\ h.bridge \in Nat /\ g.avatar \in Nat
  BY <1>4 DEF Hold
<1>10. Drift(since)' = Drift(since) /\ InFlight' = InFlight
  BY <1>2 DEF Drift, InFlight
<1>11. "scheme" \in h.rights => "scheme" \in g.rights
  BY <1>5, <1>6 DEF Does
<1>12. ASSUME "scheme" \in h.rights PROVE g.avatar <= h.avatar
  <2>1. h.bridge = 0
    BY <1>4, <1>12 DEF LockInv, Minting, Locking
  <2>2. \/ a.do = "withdraw" /\ g.avatar = h.avatar + h.bridge
        \/ a.do = "burn" /\ g.avatar = h.avatar - a.amount
        \/ g.avatar = h.avatar
    BY <1>5, <1>6 DEF Does
  <2> QED
    BY <1>6, <1>9, <2>1, <2>2
<1> HIDE DEF a
<1>13. /\ Executions("upgradeCeloStep1")' = Executions("upgradeCeloStep1")
       /\ \A i : Newest(i)' <=> Newest(i)
  BY <1>2 DEF Executions, Newest
<1>14. /\ Executions("upgradeCeloStep1") # {} => "scheme" \in h.rights
       /\ \A i \in Executions("upgradeCeloStep1") :
              /\ Excused(done[i])
              /\ Newest(i) /\ BurnedWhole(done[i]) => h.avatar <= done[i].drift
  BY DEF CeloInv
<1>15. \A i \in Executions("upgradeCeloStep1") :
           Newest(i) /\ BurnedWhole(done[i]) => g.avatar <= done[i].drift
  <2>1. SUFFICES ASSUME NEW i \in Executions("upgradeCeloStep1"), Newest(i), BurnedWhole(done[i])
                 PROVE  g.avatar <= done[i].drift
    OBVIOUS
  <2>2. h.avatar <= done[i].drift /\ g.avatar <= h.avatar
    BY <1>12, <1>14, <2>1
  <2>3. done[i].drift \in Int
    <3>1. done[i] \in Outcome
      BY <1>8, <2>1 DEF Executions
    <3> QED
      BY <3>1 DEF Outcome
  <2> QED
    BY <1>9, <2>2, <2>3
<1>16. task = "upgradeCeloStep1" => StepAt(call_at)'
  <2>1. SUFFICES ASSUME task = "upgradeCeloStep1" PROVE StepAt(call_at)'
    OBVIOUS
  <2>2. StepAt(call_at)
    BY <2>1 DEF CeloInv
  <2>3. PICK r, n, d, f : r = reading /\ n = call_at /\ d = Drift(since) /\ f = InFlight
    OBVIOUS
  <2>4. r[1] \in Nat /\ r[2] \in Nat /\ Len(r) = 2
    BY <1>1, <2>1, <2>3, StepIsRead
  <2>5. d \in Int /\ f \in Nat
    BY <2>3 DEF Drift, ProposalTypes, Ledgers, TaskTypes, Beginnings
  <2>6. Calls = upgradeCeloStep1(r)
    BY <2>1, <2>3 DEF Calls, proposalActions
  <2>7. n \in {1, 2, 3, 4, 5, 6, 7}
    <3>1. Len(Calls) = 7
      BY <2>6 DEF upgradeCeloStep1
    <3> QED
      BY <1>1, <2>3, <3>1
  <2>8. /\ n <= 5 => r[1] = h.avatar /\ h.bridge - r[2] <= d /\ r[2] - h.bridge <= d - f
        /\ n = 6 => h.avatar - (r[1] + r[2]) <= d /\ r[1] + r[2] - h.avatar <= d - f
        /\ n >= 7 /\ ~failed => h.avatar <= d
        /\ failed => d > 0
    <3>1. n <= 5 => StepFits(reading, since)
      BY <1>8, <2>2, <2>3 DEF StepAt
    <3>2. Len(r) >= 1 /\ Len(r) >= 2
      BY <2>4
    <3>3. n <= 5 => r[1] = h.avatar /\ h.bridge - r[2] <= d /\ r[2] - h.bridge <= d - f
      BY <2>3, <3>1, <3>2 DEF StepFits, LockFits
    <3> QED
      BY <2>2, <2>3, <3>3 DEF StepAt
  <2>9. SUFFICES /\ n + 1 <= 5 => g.avatar = h.avatar /\ g.bridge = h.bridge
                 /\ n + 1 = 6 => /\ g.avatar - (r[1] + r[2]) <= d
                                 /\ r[1] + r[2] - g.avatar <= d - f
                 /\ n + 1 >= 7 /\ ~failed' => g.avatar <= d
                 /\ failed' => d > 0
                 /\ n + 1 >= 8 => "scheme" \in g.rights
    <3>1. n + 1 <= 5 => StepFits(reading, since)
      BY <1>8, <2>2, <2>3, <2>7 DEF StepAt
    <3>2. n + 1 <= 5 => StepFits(reading, since)'
      BY <1>2, <1>10, <2>9, <3>1 DEF StepFits, LockFits
    <3>3. call_at' = n + 1 /\ reading' = r /\ Drift(since)' = d /\ InFlight' = f
      BY <1>1, <1>2, <1>10, <2>3
    <3> QED
      BY <2>9, <3>2, <3>3 DEF StepAt
  <2>10. CASE n \in {1, 2, 4}
    <3>1. a.do = "set"
      BY <2>3, <2>6, <2>10, SettingIs DEF a, upgradeCeloStep1
    <3>2. g = h /\ failed' = failed
      BY <1>5, <1>7, <1>8, <3>1 DEF Does
    <3> QED
      BY <2>8, <2>10, <3>2
  <2>11. CASE n = 3
    <3>1. a = upgradeToAndCall
      BY <2>3, <2>6, <2>11 DEF a, upgradeCeloStep1
    <3>2. a.do = "upgradeToAndCall"
      BY <3>1 DEF upgradeToAndCall, call
    <3>3. g.avatar = h.avatar /\ g.bridge = h.bridge /\ failed' = failed
      BY <1>5, <1>7, <1>8, <3>2 DEF Does
    <3> QED
      BY <2>8, <2>11, <3>3
  <2>12. CASE n = 5
    <3>1. a = withdraw
      BY <2>3, <2>6, <2>12 DEF a, upgradeCeloStep1
    <3>2. a.do = "withdraw"
      BY <3>1 DEF withdraw, call
    <3>3. g.avatar = h.avatar + h.bridge /\ failed' = failed
      BY <1>5, <1>7, <1>8, <3>2 DEF Does
    <3>4. r[1] = h.avatar /\ h.bridge - r[2] <= d /\ r[2] - h.bridge <= d - f
      BY <2>8, <2>12
    <3>5. g.avatar - (r[1] + r[2]) <= d /\ r[1] + r[2] - g.avatar <= d - f
      BY <1>9, <2>4, <2>5, <3>3, <3>4
    <3> QED
      BY <2>8, <2>12, <3>3, <3>5
  <2>13. CASE n = 6
    <3>1. a = burnLocked(r[1] + r[2])
      BY <2>3, <2>6, <2>13 DEF a, upgradeCeloStep1
    <3>2. a.do = "burn" /\ a.amount = r[1] + r[2]
      BY <3>1 DEF burnLocked, amount
    <3>3. Fails(h, a) <=> h.avatar < r[1] + r[2]
      BY <3>2 DEF Fails
    <3>4. h.avatar >= r[1] + r[2] => g.avatar = h.avatar - (r[1] + r[2])
      BY <1>5, <3>2 DEF Does
    <3>5. h.avatar - (r[1] + r[2]) <= d /\ r[1] + r[2] - h.avatar <= d - f
      BY <2>8, <2>13
    <3>6. ~failed' => g.avatar <= d
      <4>1. SUFFICES ASSUME ~Fails(h, a) PROVE g.avatar <= d
        BY <1>7
      <4>2. ~(h.avatar < r[1] + r[2])
        BY <3>3, <4>1
      <4>3. h.avatar >= r[1] + r[2]
        BY <1>9, <2>4, <4>2
      <4> QED
        BY <3>4, <3>5, <4>3
    <3>7. Fails(h, a) => d > 0
      BY <1>9, <2>4, <2>5, <3>3, <3>5
    <3>8. failed' => d > 0
      BY <1>7, <2>8, <3>7
    <3> QED
      BY <2>13, <3>6, <3>8
  <2>14. CASE n = 7
    <3>1. a = registerScheme
      BY <2>3, <2>6, <2>14 DEF a, upgradeCeloStep1
    <3>2. a.do = "registerScheme" /\ a.arg = "scheme"
      BY <3>1 DEF registerScheme, call
    <3>3. g.avatar = h.avatar /\ failed' = failed /\ "scheme" \in g.rights
      BY <1>5, <1>7, <1>8, <3>2 DEF Does
    <3> QED
      BY <2>8, <2>14, <3>3
  <2> QED
    BY <2>7, <2>10, <2>11, <2>12, <2>13, <2>14
<1> QED
  BY <1>2, <1>8, <1>11, <1>13, <1>14, <1>15, <1>16 DEF CeloInv

\* The script has sent its last call.
LEMMA CeloByFinishing ==
    ASSUME ProposalTypes, LockInv, PaceInv, Stepping, CeloInv, plan' = plan, Executed
    PROVE  CeloInv'
<1>1. /\ HasRead /\ task # "celoUpgrade" /\ plan.via = "guardian" /\ call_at > Len(Calls)
      /\ chain' = chain /\ queue' = queue /\ task' = None
      /\ done' = Append(done, Record(task, since, failed, FALSE))
  BY DEF Executed, Calling, Stop, user_vars, safe_vars
<1>2. PICK e : e = Record(task, since, failed, FALSE)
  OBVIOUS
<1>3. /\ e.script = task /\ e.drift = Drift(since) /\ e.failed = failed /\ e.overtaken = FALSE
      /\ e = [script |-> task, drift |-> Drift(since), failed |-> failed, overtaken |-> FALSE]
  BY <1>2 DEF Record
<1>4. e \in Outcome
  <2>1. task \in Proposed
    BY <1>1, CallsAreMade
  <2>2. Drift(since) \in Int /\ failed \in BOOLEAN
    BY DEF Drift, ProposalTypes, Ledgers, TaskTypes, Beginnings
  <2> QED
    BY <1>3, <2>1, <2>2 DEF Outcome
<1>5. "celo" \in Chains
  BY DEF Chains
<1>6. chain["celo"].avatar \in Nat /\ done \in Seq(Outcome) /\ queue = {}
  BY <1>1, <1>5 DEF LockInv, ProposalTypes, Ledgers, Hold
<1>7. ASSUME task = "upgradeCeloStep1"
      PROVE  /\ "scheme" \in chain["celo"].rights /\ Excused(e)
             /\ BurnedWhole(e) => chain["celo"].avatar <= e.drift
  <2>1. StepAt(call_at)
    BY <1>7 DEF CeloInv
  <2>2. call_at >= 7 /\ call_at >= 8
    <3>1. Len(Calls) = 7
      BY <1>7 DEF Calls, proposalActions, upgradeCeloStep1
    <3>2. call_at \in Nat
      BY DEF ProposalTypes, TaskTypes
    <3> QED
      BY <1>1, <3>1, <3>2
  <2> QED
    BY <1>3, <2>1, <2>2 DEF StepAt, Excused, BurnedWhole
<1>8. chain["celo"].avatar <= chain["celo"].avatar
  BY <1>6
<1>9. /\ Executions("upgradeCeloStep1")' # {} => "scheme" \in chain'["celo"].rights
      /\ \A i \in Executions("upgradeCeloStep1")' :
             /\ Excused(done'[i])
             /\ Newest(i)' /\ BurnedWhole(done'[i]) => chain'["celo"].avatar <= done'[i].drift
  BY <1>1, <1>2, <1>3, <1>4, <1>6, <1>7, <1>8, CeloEnds
<1>10. task' # "upgradeCeloStep1"
  BY <1>1 DEF None
<1> QED
  BY <1>1, <1>6, <1>9, <1>10 DEF CeloInv

LEMMA CeloIsKept ==
    ASSUME ProposalTypes, ProposalTypes', LockInv, PaceInv, Stepping, CeloInv, plan' = plan,
           [ProposalNext]_proposal_vars
    PROVE  CeloInv'
<1>1. task \in {"upgradeCeloStep1", "upgradeCeloFix", None} /\ nonce \in Nat
  BY DEF ProposalTypes, TaskTypes, Stepping
<1>2. None # "upgradeCeloStep1"
  BY DEF None
<1>3. ASSUME NEW script \in plan.scripts, StartScript(script) PROVE CeloInv'
  <2>1. UNCHANGED << user_vars, nonce, done, queue, reading, call_at, failed >> /\ task = None
    BY <1>3 DEF StartScript, safe_vars
  <2>2. Len(reading') = 0 /\ call_at' = 1 /\ failed' = FALSE
    BY <2>1 DEF ProposalTypes, TaskTypes
  <2>3. StepFits(reading, since)'
    BY <2>2 DEF StepFits
  <2>4. StepAt(call_at)'
    BY <2>2, <2>3 DEF StepAt
  <2> QED
    BY <2>1, <2>4, CeloByScript
<1>4. CASE ReadOne
  <2>1. UNCHANGED << user_vars, nonce, done, queue, task, since, call_at, failed >>
    BY <1>4 DEF ReadOne, safe_vars
  <2>2. task' = "upgradeCeloStep1" => StepAt(call_at)'
    BY <1>4, <2>1, StepByReading
  <2> QED
    BY <2>1, <2>2, CeloByScript
<1>5. CASE executeViaSafe
  <2>1. UNCHANGED << user_vars, nonce, done >> /\ task' = None /\ HasRead /\ task # None
        /\ task # "celoUpgrade" /\ plan.via = "safe"
    BY <1>5 DEF executeViaSafe, Stop, HasRead
  <2>2. PICK q : q = [script |-> task, nonce |-> NonceOf(task), since |-> since,
                      overtaken |-> nonce # since.nonce,
                      calls |-> proposalActions(task, reading)]
    OBVIOUS
  <2>3. queue' = queue \cup {q}
    BY <1>5, <2>2 DEF executeViaSafe
  <2>4. ASSUME q.script = "upgradeCeloStep1"
        PROVE  /\ q.nonce <= nonce
               /\ Current(q) => \E r \in Readings("upgradeCeloStep1") :
                      q.calls = upgradeCeloStep1(r) /\ StepFits(r, q.since)
    <3>1. task = "upgradeCeloStep1"
      BY <2>2, <2>4
    <3>2. q.nonce = nonce /\ q.since = since /\ q.calls = upgradeCeloStep1(reading)
          /\ (q.overtaken <=> nonce # since.nonce)
      BY <2>2, <3>1 DEF NonceOf, Fixes, proposalActions
    <3>3. StepAt(call_at) /\ call_at = 1
      BY <2>1, <3>1 DEF CeloInv, ProposalTypes, TaskTypes
    <3>4. Current(q) => StepFits(reading, since)
      BY <3>2, <3>3 DEF Current, StepAt
    <3>5. reading \in Readings("upgradeCeloStep1")
      BY <2>1, <3>1, CallsAreMade
    <3>6. q.nonce <= nonce
      BY <1>1, <3>2
    <3> QED
      BY <3>2, <3>4, <3>5, <3>6
  <2>5. task' # "upgradeCeloStep1"
    BY <1>2, <2>1
  <2> QED
    BY <2>1, <2>3, <2>4, <2>5, CeloByScript
<1>6. CASE SimulationFailed \/ ScriptDies \/ celoUpgrade
  <2>1. UNCHANGED << user_vars, nonce, done, queue >> /\ task' = None
    BY <1>6 DEF SimulationFailed, ScriptDies, celoUpgrade, Stop, safe_vars
  <2> QED
    BY <1>2, <2>1, CeloByScript
<1>7. CASE Simulate \/ UNCHANGED proposal_vars
  <2>1. UNCHANGED << user_vars, nonce, done, queue, task, since, reading, call_at, failed >>
    BY <1>7 DEF Simulate, proposal_vars, run_vars, safe_vars
  <2>2. task' = "upgradeCeloStep1" => StepAt(call_at)'
    BY <2>1, StepStays DEF CeloInv
  <2> QED
    BY <2>1, <2>2, CeloByScript
<1> QED
  BY <1>3, <1>4, <1>5, <1>6, <1>7, CeloByPeople, CeloByExecuting, CeloBySending, CeloByFinishing
     DEF ProposalNext, Run

\* That is what is said of the burning.
LEMMA BurnIsEnough ==
    ASSUME ProposalAssumption, ProposalTypes, BackedInv, BurnedInv
    PROVE  BurnIsCurrent
<1> DEFINE M == Executions("upgradeMainnet")
           C == Executions("upgradeCeloStep1")
<1>1. \A i \in DOMAIN done : done[i].script \in plan.scripts
  BY DEF BackedInv
<1>2. /\ M = {i \in DOMAIN done : done[i].script = "upgradeMainnet"}
      /\ C = {i \in DOMAIN done : done[i].script = "upgradeCeloStep1"}
  BY DEF Executions
<1>3. "upgradeMainnet" \in plan.scripts => Emptying
  BY ThePlans DEF Emptying, ProposalTypes
<1>4. "upgradeCeloStep1" \in plan.scripts => Stepping
  BY ThePlans DEF Stepping, ProposalTypes
<1> HIDE DEF M, C
<1>5. M # {} => Emptying /\ MainInv
  BY <1>1, <1>2, <1>3 DEF BurnedInv
<1>6. C # {} => Stepping /\ CeloInv
  BY <1>1, <1>2, <1>4 DEF BurnedInv
<1>7. Emptying => M = DOMAIN done
  BY <1>1, <1>2 DEF Emptying
<1>8. \A i \in M \cup C : Excused(done[i])
  <2>1. \A i \in M : Excused(done[i])
    BY <1>2, <1>5 DEF MainInv
  <2>2. \A i \in C : Excused(done[i])
    BY <1>6 DEF CeloInv, C
  <2> QED
    BY <2>1, <2>2
<1>9. M # {} /\ (\A i \in M : BurnedWhole(done[i]))
          => Distance(chain["mainnet"].avatar, Own) <= moves
  <2>1. M # {} => done # << >>
    BY <1>2
  <2> QED
    BY <1>5, <1>7, <2>1 DEF MainInv
<1>10. \A i \in C : (\A j \in C : j <= i) /\ BurnedWhole(done[i])
           => chain["celo"].avatar <= done[i].drift
  BY <1>6 DEF CeloInv, Newest, C
<1> QED
  BY <1>8, <1>9, <1>10 DEF BurnIsCurrent, Excused, M, C

\* The supply that a proposal burns is that which its bridge had locked, whatever the plan and
\* whatever people do while a script reads, a Safe waits or calls are sent one by one: nothing
\* of the treasury is burned, and nothing that was locked is left, but for what was bridged
\* meanwhile (upgradeMainnet, upgradeCeloStep1).
THEOREM LockedSupplyIsBurned == ASSUME ProposalAssumption PROVE ProposalSpec => []BurnIsCurrent
<1> DEFINE All == ProposalTypes /\ LockInv /\ BackedInv /\ BurnedInv
<1>1. ProposalInit(Plans) => All
  BY TypesBegin, LockBegins, BackedBegins, PaceBegins, MainBegins, CeloBegins DEF BurnedInv
<1>2. All /\ [ProposalNext]_proposal_vars => All'
  <2>1. SUFFICES ASSUME All, [ProposalNext]_proposal_vars PROVE All'
    OBVIOUS
  <2>2. ProposalTypes' /\ LockInv' /\ BackedInv' /\ plan' = plan
    BY <2>1, TypesAreKept, LockIsKept, BackedIsKept
  <2>3. PaceInv'
    BY <2>1, <2>2, PaceIsKept DEF BurnedInv
  <2>4. Emptying' => MainInv'
    <3>1. Emptying' <=> Emptying
      BY <2>2 DEF Emptying
    <3> QED
      BY <2>1, <2>2, <3>1, MainIsKept DEF BurnedInv
  <2>5. Stepping' => CeloInv'
    <3>1. Stepping' <=> Stepping
      BY <2>2 DEF Stepping
    <3> QED
      BY <2>1, <2>2, <3>1, CeloIsKept DEF BurnedInv
  <2> QED
    BY <2>2, <2>3, <2>4, <2>5 DEF BurnedInv
<1>3. All => BurnIsCurrent
  BY BurnIsEnough
<1> QED
  BY <1>1, <1>2, <1>3, PTL DEF ProposalSpec
=============================================================================
