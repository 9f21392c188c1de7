--------------------------- MODULE GuardianProposals ---------------------------
(***************************************************************************)
(* The proposals of the guardians that moved G$ from a bridge that locks it *)
(* to one that burns and mints (scripts/proposals): v4Upgrade and           *)
(* gip-25-xdc-upgrade-ubi, and the new ratio of gip-25-xdc-deploy-reserve.  *)
(* A script reads balances or supplies, one after the other, writes what it *)
(* read into its calls, and either sends them one transaction each          *)
(* (executeViaGuardian) or proposes them to a Safe (executeViaSafe), whose  *)
(* owners execute them together, later or never.  Meanwhile people bridge.  *)
(***************************************************************************)
EXTENDS Integers, Sequences, FiniteSets, Functions

CONSTANTS People,       \* G$ the people of a chain hold: [Chains -> Nat]
          Own,          \* G$ of the Avatar's own
          Stolen,       \* G$ on LOCKED_ACCOUNTS of mainnet
          XdcShare,     \* one XdcShare-th of the reserve is that of XDC
          MaxMoves, MaxTries, MaxDeaths

Chains == {"mainnet", "fuse", "celo", "xdc"}
ASSUME ProposalAssumption ==
    /\ People \in [Chains -> Nat] /\ {Own, Stolen} \subseteq Nat /\ XdcShare \in Nat \ {0}
    /\ {MaxMoves, MaxTries, MaxDeaths} \subseteq Nat

VARIABLES chain,        \* what each chain holds
          flight,       \* G$ on its way to a chain
          moves,        \* how often people bridged
          grown,        \* whether the reserve minted meanwhile
          plan,         \* the scripts and how their calls are made
          task,         \* the script that runs
          reading,      \* what it read so far
          since,        \* when it began: the moves till then, less those in flight, and the
                        \* nonce of the Safe
          call_at, simulated, failed,
          queue, nonce, \* of the Safe
          done,         \* the proposals executed to their end
          exchange,     \* what the reserve was set to
          tries, deaths

user_vars == << chain, flight, moves, grown >>
run_vars == << task, reading, since, call_at, simulated, failed, tries, deaths >>
safe_vars == << queue, nonce >>
proposal_vars == << user_vars, plan, run_vars, safe_vars, done, exchange >>

TotalOf(f) == f["mainnet"] + f["fuse"] + f["celo"] + f["xdc"]
InFlight == TotalOf(flight)
Supply(c) == LET h == chain[c]
             IN  h.people + h.avatar + h.bridge + h.old + (IF c = "mainnet" THEN Stolen ELSE 0)
\* What people and the Avatar hold, everywhere.
Circulating == TotalOf([c \in Chains |-> chain[c].people + chain[c].avatar]) + InFlight

---------------------------------------------------------------------------
(* MpbBridge, as the proposals use it: an implementation locks G$, or burns *)
(* and mints it through the wrapper or as a scheme of the DAO.              *)
Bridged == IF plan.era = "v4" THEN Chains \ {"xdc"} ELSE Chains
Leave(c, d) ==
    /\ {c, d} \subseteq Bridged /\ c # d
    /\ moves < MaxMoves /\ chain[c].people > 0
    /\ chain' = [chain EXCEPT ![c].people = @ - 1,
                              ![c].bridge = IF chain[c].mode = "lock" THEN @ + 1 ELSE @]
    /\ flight' = [flight EXCEPT ![d] = @ + 1]
    /\ moves' = moves + 1
    /\ UNCHANGED << grown, plan, run_vars, safe_vars, done, exchange >>

Serves(h) == IF h.mode = "lock" THEN h.bridge > 0 ELSE h.mode \in h.rights
Arrive(d) ==
    /\ flight[d] > 0 /\ Serves(chain[d])
    /\ flight' = [flight EXCEPT ![d] = @ - 1]
    /\ chain' = [chain EXCEPT ![d].people = @ + 1,
                              ![d].bridge = IF chain[d].mode = "lock" THEN @ - 1 ELSE @]
    /\ UNCHANGED << moves, grown, plan, run_vars, safe_vars, done, exchange >>

\* The reserve of Celo mints.
Grow ==
    /\ ~grown /\ "celoUpgrade" \in plan.scripts
    /\ grown' = TRUE
    /\ chain' = [chain EXCEPT !["celo"].people = @ + 1]
    /\ UNCHANGED << flight, moves, plan, run_vars, safe_vars, done, exchange >>

---------------------------------------------------------------------------
(* Calls, and what one does to a chain.                                     *)
call(do, arg) == [do |-> do, arg |-> arg, amount |-> 0]
amount(do, n) == [do |-> do, arg |-> "", amount |-> n]
set(name) == call("set", name)

upgradeTo(mode) == call("upgradeTo", mode)
upgradeToAndCall == call("upgradeToAndCall", "scheme")
withdraw == call("withdraw", "")
claimTokens == call("claimTokens", "")
burnLocked(n) == amount("burn", n)
registerScheme == call("registerScheme", "scheme")
revokeRole == call("revokeRole", "wrapper")

\* ProtocolUpgradeV4Mento.upgrade mints to the bridge what the other chains hold, once.
mentoUpgrade(global) == amount("mentoUpgrade", global)
MintedOn(h) == h.people + h.avatar + h.bridge + h.old

Fails(h, a) ==
    \/ a.do = "burn" /\ h.avatar < a.amount
    \/ a.do = "mentoUpgrade" /\ (h.upgraded \/ a.amount < MintedOn(h))
After(h, a) ==
    IF Fails(h, a) THEN h
    ELSE CASE a.do \in {"upgradeTo", "upgradeToAndCall"} -> [h EXCEPT !.mode = a.arg]
           [] a.do = "withdraw" -> [h EXCEPT !.avatar = @ + h.bridge, !.bridge = 0]
           [] a.do = "claimTokens" -> [h EXCEPT !.avatar = @ + h.old, !.old = 0]
           [] a.do = "burn" -> [h EXCEPT !.avatar = @ - a.amount]
           [] a.do = "registerScheme" -> [h EXCEPT !.rights = @ \cup {a.arg}]
           [] a.do = "revokeRole" -> [h EXCEPT !.rights = @ \ {a.arg}]
           [] a.do = "mentoUpgrade" -> [h EXCEPT !.bridge = @ + a.amount - MintedOn(h),
                                                 !.upgraded = TRUE]
           [] OTHER -> h

\* The initializer an upgrade calls may refuse to run a second time.
MayRefuse(h, a) == a.do = "upgradeToAndCall" /\ h.mode = a.arg

---------------------------------------------------------------------------
(* The scripts: the chain of each, what it reads and what it calls.         *)
On(script) ==
    CASE script \in {"upgradeMainnet", "upgradeEthStep1", "upgradeEthFix"} -> "mainnet"
      [] script \in {"upgradeFuse", "upgradeFuseStep1", "upgradeFuseFix"} -> "fuse"
      [] script = "upgradeXdcFix" -> "xdc"
      [] OTHER -> "celo"

Reads(script) ==
    CASE script = "upgradeMainnet" -> << "ForeignBridge", "MpbBridge" >>
      [] script = "upgradeCelo" -> << "locked", "mainnet", "fuse", "celo" >>
      [] script = "upgradeCeloStep1" -> << "Avatar", "MpbBridge" >>
      [] script = "upgradeCeloFix" -> << "Avatar" >>
      [] script = "celoUpgrade" -> << "celo", "celo", "xdc", "fuse", "mainnet", "LOCKED_ACCOUNTS" >>
      [] OTHER -> << >>
ReadingOf(what, c) ==
    CASE what = "ForeignBridge" -> chain[c].old
      [] what = "MpbBridge" -> chain[c].bridge
      [] what = "Avatar" -> chain[c].avatar
      [] what = "locked" -> Stolen + chain["mainnet"].bridge + chain["mainnet"].old
      [] what = "LOCKED_ACCOUNTS" -> Stolen
      [] OTHER -> Supply(what)

\* v4Upgrade.
upgradeMainnet(r) ==
    << set("StakersDistribution"), set("GoodReserveCDai"), set("upgrades"),
       set("StakingContractsV3"), set("ForeignBridge"), claimTokens, set("addBlacklisted"),
       upgradeTo("scheme"), withdraw, burnLocked(r[1] + r[2]), registerScheme,
       set("DistributionHelper"), set("grantRole") >>
upgradeFuse(r) ==
    << set("HomeBridge"), set("CompoundVotingMachine"), upgradeTo("scheme"), registerScheme,
       revokeRole >>
\* Variant: what the bridges lock is counted on both chains.
totalSupplies(r) == r[2] + r[3] + r[4]
TOTAL_GLOBAL_SUPPLY(r) == r[2] + r[3] - r[1] + r[4]
upgradeCelo(r) ==
    << set("CeloDistributionHelper"), upgradeTo("lock"), revokeRole, set("addMinter"),
       set("Controller"), mentoUpgrade(TOTAL_GLOBAL_SUPPLY(r)) >>

\* gip-25-xdc-upgrade-ubi.  Variant: the bridge is emptied while it still locks.
withdrawFirst(r) == << withdraw, burnLocked(r[1] + r[2]), upgradeToAndCall, registerScheme >>
upgradeCeloStep1(r) ==
    << set("UBIScheme"), set("Identity"), upgradeToAndCall, set("setConfig"), withdraw,
       burnLocked(r[1] + r[2]), registerScheme >>
upgradeFuseStep1(r) == << set("UBIScheme"), set("Identity"), upgradeToAndCall, set("setConfig") >>
upgradeEthStep1(r) == << upgradeToAndCall >>
\* Its author wrote the balance of the Avatar down as a number.
upgradeCeloFix(r) == << upgradeTo("scheme"), burnLocked(r[1]) >>
upgradeXdcFix(r) == << upgradeTo("scheme") >>
upgradeFuseFix(r) == << upgradeTo("scheme") >>
upgradeEthFix(r) == << upgradeToAndCall >>

proposalActions(script, r) ==
    CASE script = "upgradeMainnet" -> upgradeMainnet(r)
      [] script = "upgradeFuse" -> upgradeFuse(r)
      [] script = "upgradeCelo" -> upgradeCelo(r)
      [] script = "upgradeCeloStep1" -> upgradeCeloStep1(r)
      [] script = "upgradeFuseStep1" -> upgradeFuseStep1(r)
      [] script = "upgradeEthStep1" -> upgradeEthStep1(r)
      [] script = "upgradeCeloFix" -> upgradeCeloFix(r)
      [] script = "upgradeXdcFix" -> upgradeXdcFix(r)
      [] script = "upgradeFuseFix" -> upgradeFuseFix(r)
      [] script = "upgradeEthFix" -> upgradeEthFix(r)

---------------------------------------------------------------------------
(* A script runs.                                                           *)
None == "none"
Beginning == [moves |-> 0, nonce |-> 0]
Stop == /\ task' = None /\ reading' = << >> /\ since' = Beginning
        /\ call_at' = 1 /\ simulated' = FALSE /\ failed' = FALSE

Fixes == {"upgradeCeloFix", "upgradeEthFix"}
Repairs(script) == CASE script = "upgradeCeloFix" -> "upgradeCeloStep1"
                     [] script = "upgradeEthFix" -> "upgradeEthStep1"
StartScript(script) ==
    /\ task = None /\ tries < MaxTries /\ script \in plan.scripts
    /\ script \in Fixes => \E p \in Range(done) : p.script = Repairs(script)
    /\ task' = script /\ tries' = tries + 1
    /\ since' = [moves |-> moves - InFlight, nonce |-> nonce]
    /\ UNCHANGED << user_vars, plan, reading, call_at, simulated, failed, safe_vars, done, exchange,
                    deaths >>

HasRead == task # None /\ Len(reading) = Len(Reads(task))
ReadOne ==
    /\ task # None /\ ~HasRead
    /\ reading' = Append(reading, ReadingOf(Reads(task)[Len(reading) + 1], On(task)))
    /\ UNCHANGED << user_vars, plan, task, since, call_at, simulated, failed, tries, deaths, safe_vars,
                    done, exchange >>

Drift(from) == moves - from.moves
Record(script, from, fails, late) ==
    [script |-> script, drift |-> Drift(from), failed |-> fails, overtaken |-> late]

\* executeViaSafe: every call is simulated alone and what that says is only printed.
\* Variant: every proposal gets a nonce of its own.
QueuedNonce(script) == Cardinality(queue)
NonceOf(script) == IF script \in Fixes THEN 1 ELSE nonce
executeViaSafe ==
    /\ HasRead /\ task # "celoUpgrade" /\ plan.via = "safe"
    /\ queue' = queue \cup {[script |-> task, nonce |-> NonceOf(task), since |-> since,
                             overtaken |-> nonce # since.nonce,
                             calls |-> proposalActions(task, reading)]}
    /\ Stop
    /\ UNCHANGED << user_vars, plan, nonce, done, exchange, tries, deaths >>

\* What the calls of a proposal do to its chain, one after the other.
Called(p) ==
    LET after[i \in 0 .. Len(p.calls)] ==
            IF i = 0 THEN [h |-> chain[On(p.script)], failed |-> FALSE]
            ELSE [h |-> After(after[i - 1].h, p.calls[i]),
                  failed |-> after[i - 1].failed \/ Fails(after[i - 1].h, p.calls[i])]
    IN  after

\* The owners of the Safe execute one of the proposals that have its nonce.
execTransaction(p) ==
    LET end == Called(p)[Len(p.calls)]
    IN  /\ p.nonce = nonce
        /\ nonce' = nonce + 1
        /\ chain' = [chain EXCEPT ![On(p.script)] = end.h]
        /\ done' = Append(done, Record(p.script, p.since, end.failed, p.overtaken))
        /\ UNCHANGED << flight, moves, grown, plan, run_vars, queue, exchange >>

\* executeViaGuardian: a call of the controller itself is sent, another first simulated.
Calling == HasRead /\ task # "celoUpgrade" /\ plan.via = "guardian"
Calls == proposalActions(task, reading)
Here == chain[On(task)]
IsDirect(a) == a.do = "registerScheme" \/ a = set("Controller")
Simulate ==
    /\ Calling /\ call_at <= Len(Calls) /\ ~simulated
    /\ IsDirect(Calls[call_at]) \/ ~Fails(Here, Calls[call_at])
    /\ simulated' = TRUE
    /\ UNCHANGED << user_vars, plan, task, reading, since, call_at, failed, tries, deaths, safe_vars,
                    done, exchange >>
SimulationFailed ==
    /\ Calling /\ call_at <= Len(Calls) /\ ~simulated
    /\ Fails(Here, Calls[call_at]) \/ MayRefuse(Here, Calls[call_at])
    /\ Stop
    /\ UNCHANGED << user_vars, plan, tries, deaths, safe_vars, done, exchange >>
\* genericCall returns false when the call fails, and is mined.
SendGenericCall ==
    /\ Calling /\ call_at <= Len(Calls) /\ simulated
    /\ chain' = [chain EXCEPT ![On(task)] = After(Here, Calls[call_at])]
    /\ failed' = (failed \/ Fails(Here, Calls[call_at]))
    /\ call_at' = call_at + 1 /\ simulated' = FALSE
    /\ UNCHANGED << flight, moves, grown, plan, task, reading, since, tries, deaths, safe_vars,
                    done, exchange >>
Executed ==
    /\ Calling /\ call_at > Len(Calls)
    /\ done' = Append(done, Record(task, since, failed, FALSE))
    /\ Stop
    /\ UNCHANGED << user_vars, plan, safe_vars, exchange, tries, deaths >>

ScriptDies ==
    /\ task # None /\ deaths < MaxDeaths
    /\ deaths' = deaths + 1
    /\ Stop
    /\ UNCHANGED << user_vars, plan, safe_vars, done, exchange, tries >>

---------------------------------------------------------------------------
(* calculateReserveParams and UpdateReserveRatio.upgrade.                   *)
Unset == [real |-> -1, celo |-> 0, circulating |-> 0, drift |-> 0]
realSupply(r) == r[2] + r[3] + r[4] + r[5] - r[6]
calculateReserveParams(r) ==
    LET xdcGdSupplyEquivalent == realSupply(r) \div XdcShare
    IN  [real |-> realSupply(r), celo |-> realSupply(r) - xdcGdSupplyEquivalent]
\* Variant: the supply is not verified.
AnySupply(supply) == supply >= 0
IsCurrent(supply) == Supply("celo") = supply
celoUpgrade ==
    /\ HasRead /\ task = "celoUpgrade"
    /\ IF exchange = Unset /\ IsCurrent(reading[1])
       THEN LET p == calculateReserveParams(reading)
            IN  exchange' = [real |-> p.real, celo |-> p.celo,
                             circulating |-> Circulating, drift |-> Drift(since)]
       ELSE UNCHANGED exchange
    /\ Stop
    /\ UNCHANGED << user_vars, plan, safe_vars, done, tries, deaths >>

---------------------------------------------------------------------------
Holding(people, avatar, bridge, old, mode, rights) ==
    [people |-> people, avatar |-> avatar, bridge |-> bridge, old |-> old, mode |-> mode,
     rights |-> rights, upgraded |-> FALSE]
Before(era, c) ==
    CASE era = "v4" /\ c = "mainnet" -> Holding(People[c], Own, People["celo"], People["fuse"], "lock", {})
      [] era = "v4" /\ c \in {"fuse", "celo"} -> Holding(People[c], 0, 0, 0, "wrapper", {"wrapper"})
      [] era = "gip25" /\ c = "celo" ->
            Holding(People[c], Own, People["mainnet"] + People["fuse"] + People["xdc"], 0, "lock", {})
      [] era = "v4" /\ c = "xdc" -> Holding(0, 0, 0, 0, "scheme", {"scheme"})
      [] OTHER -> Holding(People[c], 0, 0, 0, "scheme", {"scheme"})

Plan(era, scripts, via) == [era |-> era, scripts |-> scripts, via |-> via]
Plans ==
    {Plan("v4", {s}, "safe") : s \in {"upgradeMainnet", "upgradeFuse", "upgradeCelo"}}
    \cup {Plan("v4", {s}, "guardian") : s \in {"upgradeFuse", "upgradeCelo"}}
    \cup {Plan("gip25", s, via) : via \in {"safe", "guardian"},
            s \in {{"upgradeCeloStep1", "upgradeCeloFix"}, {"upgradeFuseStep1", "upgradeFuseFix"},
                   {"upgradeEthStep1", "upgradeEthFix"}, {"upgradeXdcFix"}}}
    \cup {Plan("minting", {"celoUpgrade"}, "guardian")}

ProposalInit(plans) ==
    /\ plan \in plans
    /\ chain = [c \in Chains |-> Before(plan.era, c)]
    /\ flight = [c \in Chains |-> 0] /\ moves = 0 /\ grown = FALSE
    /\ task = None /\ reading = << >> /\ since = Beginning /\ call_at = 1
    /\ simulated = FALSE /\ failed = FALSE
    /\ queue = {} /\ nonce = 0 /\ done = << >> /\ exchange = Unset
    /\ tries = 0 /\ deaths = 0

Run == ReadOne \/ executeViaSafe \/ Simulate \/ SimulationFailed \/ SendGenericCall \/ Executed
       \/ celoUpgrade
ProposalNext ==
    \/ \E c, d \in Chains : Leave(c, d)
    \/ \E d \in Chains : Arrive(d)
    \/ Grow
    \/ \E script \in plan.scripts : StartScript(script)
    \/ Run \/ ScriptDies
    \/ \E p \in queue : execTransaction(p)
ProposalSpec == ProposalInit(Plans) /\ [][ProposalNext]_proposal_vars

---------------------------------------------------------------------------
Distance(m, n) == IF m > n THEN m - n ELSE n - m

(* A proposal that moved a bridge to minting burned what was locked in it ("burn locked supply
   on celo bridge") and nothing of the treasury of mainnet, but for what people bridged after
   the script read it.  It burned nothing only if somebody bridged, or if the Safe executed
   another proposal while the script ran. *)
BurnedWhole(p) == ~p.failed /\ ~p.overtaken
Executions(script) == {i \in DOMAIN done : done[i].script = script}
BurnIsCurrent ==
    LET mainnet == Executions("upgradeMainnet")
        celo == Executions("upgradeCeloStep1")
    IN  /\ \A i \in mainnet \cup celo : done[i].failed => done[i].drift > 0 \/ done[i].overtaken
        /\ mainnet # {} /\ (\A i \in mainnet : BurnedWhole(done[i]))
           => Distance(chain["mainnet"].avatar, Own) <= moves
        /\ \A i \in celo : (\A j \in celo : j <= i) /\ BurnedWhole(done[i])
               => chain["celo"].avatar <= done[i].drift

(* Once a bridge mints nothing is locked in it: G$ that arrive are not there twice ("now each
   chain has its own supply and all bridges are mint/burn"). *)
NothingStaysLocked ==
    \A c \in Chains : chain[c].mode = "scheme" /\ "scheme" \in chain[c].rights => chain[c].bridge = 0

(* The bridge of Celo holds what the other chains hold ("Brigde balance should equal other
   chains total supply"): it lacks at most what was bridged since the script began, and has
   in excess at most what was ever bridged (what a run that died left locked is counted). *)
BridgeIsBacked ==
    LET elsewhere == Circulating - chain["celo"].people - chain["celo"].avatar
        bridge == chain["celo"].bridge
    IN  done # << >> /\ done[1].script = "upgradeCelo" /\ ~done[1].failed =>
            elsewhere - bridge <= done[1].drift /\ bridge - elsewhere <= moves

(* The ratio of the reserve is computed from the G$ there are when it is set ("verify that the
   total supply the new reserve ratio was based on still applies"), but for those that were
   bridged since the script began and those minted that the bridged ones hide. *)
RatioFitsSupply ==
    exchange # Unset =>
        Distance(exchange.real, exchange.circulating) <= 2 * exchange.drift
=============================================================================
