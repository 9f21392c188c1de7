--------------------------- MODULE MintBurnWrapper ---------------------------
(***************************************************************************)
(* GoodDollarMintBurnWrapper (contracts/utils/GoodDollarMintBurnWrapper.sol): *)
(* the contract that mints and burns G$ on a side chain for bridges        *)
(* (MINTER_ROLE) and rewarders (REWARDS_ROLE), each within its own limits. *)
(*                                                                         *)
(* Of the token only the sums count: what the wrapper holds, and what all  *)
(* others hold.  Roles are those addMinter gives.                          *)
(***************************************************************************)
EXTENDS Integers, FiniteSets, FiniteSetsExt, Functions

CONSTANTS
    Minter,         \* the bridges and rewarders
    Settings,       \* the arguments of addMinter
    NewCaps,        \* the arguments of setMinterCaps
    Frequencies,    \* the arguments of setUpdateFrequency
    PausedRoles,    \* the pause roles in use
    Amounts,
    InitSupply,     \* what circulates at first
    InitFrequency,
    DayLength,
    MaxTime,            \* bound: how long the wrapper is watched
    MaxPerDay,          \* bound: what a minter mints or burns in a day
    MaxRewards          \* bound: what rewarders hand out in all

Caps == [minter : Minter, capIn : Nat, maxIn : Nat, bpsIn : Nat,
         capOut : Nat, maxOut : Nat, bpsOut : Nat]
PauseRole == {"ALL", "MINT", "BURN", "ROUTER", "REWARDS"}

\* Addresses and caps are words of a fixed width: there are finitely many.
ASSUME WrapperAssumption ==
    /\ IsFiniteSet(Minter) /\ IsFiniteSet(Settings) /\ IsFiniteSet(NewCaps)
    /\ NewCaps \subseteq Caps
    /\ \A s \in Settings : s.caps \in Caps /\ s.rewards \in BOOLEAN
    /\ Frequencies \subseteq Nat /\ InitFrequency \in Nat
    /\ PausedRoles \subseteq PauseRole
    /\ Amounts \subseteq Nat /\ InitSupply \in Nat
    /\ DayLength \in Nat \ {0} /\ MaxTime \in Nat
    /\ MaxPerDay \in Nat /\ MaxRewards \in Nat

VARIABLES
    now,
    balance,            \* G$ the wrapper holds,
    circulating,        \* G$ the others hold
    role,               \* "none", "minter" or "rewards"
    limits,             \* minterSupply and minterOutLimits
    paused,
    updateFrequency,
    totalMinted, totalMintDebt, totalRewards

totals == <<totalMinted, totalMintDebt, totalRewards>>
token == <<balance, circulating>>
vars == <<now, balance, circulating, role, limits, paused, updateFrequency,
          totalMinted, totalMintDebt, totalRewards>>

Limits == [maxIn : Nat, capIn : Nat, totalIn : Nat, dailyCapIn : Nat,
           mintedToday : Nat, lastUpdate : Nat, totalRewards : Nat,
           bpsIn : Nat, lastDayReset : Nat, maxOut : Nat, capOut : Nat,
           totalOut : Nat, dailyCapOut : Nat, burnedToday : Nat, bpsOut : Nat]
NoLimits == [f \in {"maxIn", "capIn", "totalIn", "dailyCapIn", "mintedToday",
                    "lastUpdate", "totalRewards", "bpsIn", "lastDayReset",
                    "maxOut", "capOut", "totalOut", "dailyCapOut",
                    "burnedToday", "bpsOut"} |-> 0]

supply == balance + circulating
today == now \div DayLength

\* Types.  Every total, cap and count of the day is a natural number: nothing
\* that is subtracted (burns, debt, the reverse limits) exceeds what it is taken
\* from, or the operation clips it or reverts.
TypeOK ==
    /\ now \in Nat /\ balance \in Nat /\ circulating \in Nat
    /\ role \in [Minter -> {"none", "minter", "rewards"}]
    /\ limits \in [Minter -> Limits]
    /\ paused \subseteq PauseRole
    /\ updateFrequency \in Nat
    /\ totalMinted \in Nat /\ totalMintDebt \in Nat /\ totalRewards \in Nat

Init ==
    /\ now = DayLength
    /\ balance = 0 /\ circulating = InitSupply
    /\ role = [m \in Minter |-> "none"]
    /\ limits = [m \in Minter |-> NoLimits]
    /\ paused = {}
    /\ updateFrequency = InitFrequency
    /\ totalMinted = 0 /\ totalMintDebt = 0 /\ totalRewards = 0

Running(r) == {r, "ALL"} \cap paused = {}
Least(a, b) == IF a <= b THEN a ELSE b
\* Counters that end at 0 when more is taken.
Unclipped(a, b) == a - b                                     \* faulty variant
Less(a, b) == IF a >= b THEN a - b ELSE 0

-----------------------------------------------------------------------------
(* Limits *)

\* The share of the supply that may be minted or burned in a day.
DailyCap(bps) == (supply * bps) \div 10000

\* The limits of m once brought up to date: the daily caps every
\* updateFrequency, the counts of the day every day.
UpToDate(m) ==
    LET l == limits[m]
        due == now - l.lastUpdate >= updateFrequency
        newDay == today # l.lastDayReset
    IN [l EXCEPT
            !.dailyCapIn = IF due THEN DailyCap(l.bpsIn) ELSE @,
            !.dailyCapOut = IF due THEN DailyCap(l.bpsOut) ELSE @,
            !.lastUpdate = IF due THEN now ELSE @,
            !.mintedToday = IF newDay THEN 0 ELSE @,
            !.burnedToday = IF newDay THEN 0 ELSE @,
            !.lastDayReset = today]

\* A limit of 0 is none.
Within(n, limit) == limit = 0 \/ n <= limit
CapUnchecked(l, amount) == Within(l.totalIn, l.capIn)        \* faulty variant
CapAllows(l, amount) == Within(l.totalIn + amount, l.capIn)

MayMint(l, to, amount) ==
    /\ Running("MINT")
    /\ to # "wrapper"
    /\ Within(amount, l.maxIn)
    /\ Within(l.mintedToday + amount, l.dailyCapIn)
    /\ CapAllows(l, amount)

Minted(l, amount) ==
    [l EXCEPT !.mintedToday = @ + amount, !.totalIn = @ + amount,
              !.totalOut = Less(@, amount)]

MayBurn(l, amount) ==
    /\ Running("BURN")
    /\ Within(amount, l.maxOut)
    /\ Within(l.burnedToday + amount, l.dailyCapOut)
    /\ Within(l.totalOut + amount, l.capOut)

Burned(l, amount) ==
    [l EXCEPT !.burnedToday = @ + amount, !.totalOut = @ + amount,
              !.totalIn = Less(@, amount)]

-----------------------------------------------------------------------------
(* Bridges *)

mintUncounted(m, to, amount) ==                              \* faulty variant
    /\ role[m] = "minter"
    /\ MayMint(UpToDate(m), to, amount)
    /\ limits' = [limits EXCEPT ![m] = Minted(UpToDate(m), amount)]
    /\ circulating' = circulating + amount
    /\ UNCHANGED <<now, balance, role, paused, updateFrequency, totals>>
mint(m, to, amount) ==
    /\ role[m] = "minter"
    /\ MayMint(UpToDate(m), to, amount)
    /\ limits' = [limits EXCEPT ![m] = Minted(UpToDate(m), amount)]
    /\ totalMinted' = totalMinted + amount
    /\ circulating' = circulating + amount
    /\ UNCHANGED <<now, balance, role, paused, updateFrequency, totalMintDebt,
                   totalRewards>>

\* What _burn does, but for the tokens.
_burn(m, amount) ==
    /\ role[m] = "minter"
    /\ Running("ROUTER")
    /\ MayBurn(UpToDate(m), amount)
    /\ limits' = [limits EXCEPT ![m] = Burned(UpToDate(m), amount)]
    /\ totalMinted' = Less(totalMinted, amount)
    /\ UNCHANGED <<now, role, paused, updateFrequency, totalMintDebt,
                   totalRewards>>

burn(m, from, amount) ==
    /\ _burn(m, amount)
    /\ IF from = "wrapper"
       THEN balance >= amount /\ balance' = balance - amount /\ UNCHANGED circulating
       ELSE /\ circulating >= amount /\ circulating' = circulating - amount
            /\ UNCHANGED balance

\* A holder calls transferAndCall: the amount is moved to the wrapper, whose
\* router burns it there in the same transaction.
onTokenTransfer(m, amount) ==
    /\ circulating >= amount
    /\ _burn(m, amount)
    /\ circulating' = circulating - amount
    /\ UNCHANGED balance

-----------------------------------------------------------------------------
(* Rewarders *)

\* What a rewarder may still mint today, when it asks for amount.
MaxMintToday(l, amount) ==
    IF l.dailyCapIn = 0 THEN amount ELSE l.dailyCapIn - l.mintedToday

toSend(amount) == Least(balance, amount)
toMint(l, amount) == Least(amount - toSend(amount), MaxMintToday(l, amount))

\* What the wrapper holds after it sent its part (to itself, perhaps), and
\* what _balanceDebt burns of that.
Left(to, amount) == IF to = "wrapper" THEN balance ELSE balance - toSend(amount)
toBurn(to, amount) == Least(totalMintDebt, Left(to, amount))

sendOrMint(m, to, amount) ==
    LET l == UpToDate(m)
        sent == IF to = "wrapper" THEN 0 ELSE toSend(amount)
        n == toMint(l, amount)
        burnt == IF n = 0 THEN toBurn(to, amount) ELSE 0
    IN /\ role[m] = "rewards"
       /\ Running("REWARDS")
       /\ MaxMintToday(l, amount) >= 0          \* else it reverts
       /\ n > 0 => MayMint(l, to, n)
       /\ burnt <= totalMinted + n              \* else it reverts
       /\ limits' = [limits EXCEPT ![m] =
              [(IF n > 0 THEN Minted(l, n) ELSE l) EXCEPT
                  !.totalRewards = @ + toSend(amount) + n]]
       /\ totalRewards' = totalRewards + toSend(amount) + n
       /\ totalMintDebt' = totalMintDebt + n - burnt
       /\ totalMinted' = totalMinted + n - burnt
       /\ balance' = balance - sent - burnt
       /\ circulating' = circulating + sent + n
       /\ UNCHANGED <<now, role, paused, updateFrequency>>

-----------------------------------------------------------------------------
(* Administration *)

\* The daily caps are computed at once; the counts of the day stay.
Capped(l, c) ==
    [l EXCEPT !.capIn = c.capIn, !.maxIn = c.maxIn, !.bpsIn = c.bpsIn,
              !.lastUpdate = now,
              !.dailyCapIn = DailyCap(c.bpsIn),
              !.dailyCapOut = DailyCap(c.bpsOut),
              !.capOut = c.capOut, !.maxOut = c.maxOut, !.bpsOut = c.bpsOut]

_setMinterCaps(c) ==
    /\ limits' = [limits EXCEPT ![c.minter] = Capped(@, c)]
    /\ UNCHANGED <<now, token, paused, updateFrequency, totals>>

addMinter(c, withRewardsRole) ==
    /\ role' = [role EXCEPT ![c.minter] =
                   IF withRewardsRole THEN "rewards" ELSE "minter"]
    /\ _setMinterCaps(c)

setMinterCaps(c) == _setMinterCaps(c) /\ UNCHANGED role

setUpdateFrequency(f) ==
    /\ updateFrequency' = f
    /\ UNCHANGED <<now, token, role, limits, paused, totals>>

pause(r) ==
    /\ Running(r) /\ paused' = paused \union {r}
    /\ UNCHANGED <<now, token, role, limits, updateFrequency, totals>>
unpause(r) ==
    /\ ~Running(r) /\ paused' = paused \ {r}
    /\ UNCHANGED <<now, token, role, limits, updateFrequency, totals>>

\* Anyone may send G$ to the wrapper.
Fund(amount) ==
    /\ circulating >= amount
    /\ balance' = balance + amount /\ circulating' = circulating - amount
    /\ UNCHANGED <<now, role, limits, paused, updateFrequency, totals>>

Tick ==
    /\ now < MaxTime
    /\ now' = now + 1
    /\ UNCHANGED <<token, role, limits, paused, updateFrequency, totals>>

-----------------------------------------------------------------------------
Watched(m) ==
    /\ limits'[m].mintedToday <= MaxPerDay /\ limits'[m].burnedToday <= MaxPerDay
    /\ totalRewards' <= MaxRewards

Bridge == \E m \in Minter, n \in Amounts :
    /\ \/ \E a \in {"wrapper", "user"} : mint(m, a, n) \/ burn(m, a, n)
       \/ onTokenTransfer(m, n)
    /\ Watched(m)

Reward == \E m \in Minter, a \in {"wrapper", "user"}, n \in Amounts :
    sendOrMint(m, a, n) /\ Watched(m)

Administer ==
    \/ \E s \in Settings : addMinter(s.caps, s.rewards)
    \/ \E c \in NewCaps : setMinterCaps(c)
    \/ \E f \in Frequencies : setUpdateFrequency(f)
    \/ \E r \in PausedRoles : pause(r) \/ unpause(r)

Next ==
    \/ Tick
    \/ \E n \in Amounts : Fund(n)
    \/ Bridge
    \/ Reward
    \/ Administer

Spec == Init /\ [][Next]_vars
-----------------------------------------------------------------------------
\* The wrapper's own count of what it minted covers what it added to the
\* supply, though burns (of bridged tokens, of rewards debt) cut it at 0.
MintedCoversSupply == supply - InitSupply <= totalMinted

\* A minter is a bridge or a rewarder and remains one, and every minter has a
\* cap on what it brings in, every bridge one on what it takes out.  (A limit
\* of 0 is none; a bridge that turns rewarder gives its room back by minting.)
Bridges == {s.caps.minter : s \in {t \in Settings : ~t.rewards}}
CapsAreSet ==
    /\ \A s \in Settings :
          /\ s.rewards => s.caps.minter \notin Bridges
          /\ s.caps.capIn > 0
          /\ s.caps.minter \in Bridges => s.caps.capOut > 0
    /\ \A c \in NewCaps : c.capIn > 0 /\ (c.minter \in Bridges => c.capOut > 0)

\* Nor can bridges and rewarders together, by any order of mints, burns and
\* payments of debt, bring the supply above the sum of their caps, or burn
\* it below what the bridges may take out (where CapsAreSet).
CapsInOf(m) == {s.caps.capIn : s \in {t \in Settings : t.caps.minter = m}}
                   \union {c.capIn : c \in {d \in NewCaps : d.minter = m}}
CapsOutOf(m) == {s.caps.capOut : s \in {t \in Settings : t.caps.minter = m}}
                    \union {c.capOut : c \in {d \in NewCaps : d.minter = m}}
LargestCap(m) == Max({0} \union CapsInOf(m))
LargestOut(m) == Max({0} \union CapsOutOf(m))
SupplyWithinCaps ==
    /\ supply <= InitSupply
                    + SumFunctionOnSet([m \in Minter |-> LargestCap(m)], Minter)
    /\ supply >= InitSupply
                    - SumFunctionOnSet([m \in Minter |-> LargestOut(m)], Minter)

\* "should not mint but not revert when rewarder passes daily limit": while
\* nothing is paused and no cap of its own is in the way, what a rewarder asks
\* for is sent, minted or cut, never refused.
RewardsAreServed == \A m \in Minter, n \in Amounts :
    role[m] = "rewards" /\ paused = {} =>
        LET l == UpToDate(m) IN
        /\ MaxMintToday(l, n) >= 0
        /\ toMint(l, n) = 0 => toBurn("user", n) <= totalMinted
=============================================================================
