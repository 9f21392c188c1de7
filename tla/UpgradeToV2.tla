----------------------------- MODULE UpgradeToV2 -----------------------------
(***************************************************************************)
(* scripts/upgradeToV2: the deployment of the contracts of the second       *)
(* version and the upgrade of the DAO to them (upgradeToV2.ts), and the     *)
(* recovery of the DAO with what was deployed (upgradeToV2Recover.ts), with *)
(* the contracts of the upgrade, utils/ProtocolUpgrade*.sol.                *)
(*                                                                          *)
(* A run is for a network and an environment; in production what deployment *)
(* .json records is kept, in development everything is deployed anew.       *)
(***************************************************************************)
EXTENDS ScriptSteps, SequencesExt

Contract(network, name, kind, refs) ==
    [network |-> network, name |-> name, kind |-> kind, refs |-> refs, skip |-> FALSE]
ToDeploy(upgrade, upgradeFuse) ==
    << Contract("mainnet", "NameService", "proxy", {}),
       Contract("fuse", "NameService", "proxy", {}),
       Contract("both", "GReputation", "proxy", {"NameService"}),
       Contract("both", "CompoundVotingMachine", "proxy", {"NameService", "GReputation"}),
       Contract("mainnet", "GoodMarketMaker", "proxy", {"NameService"}),
       Contract("mainnet", "GoodReserveCDai", "proxy", {"NameService"}),
       Contract("mainnet", "ExchangeHelper", "proxy", {"NameService"}),
       Contract("mainnet", "GoodFundManager", "proxy", {"NameService"}),
       Contract("mainnet", "StakersDistribution", "proxy", {"NameService"}),
       Contract("fuse", "ClaimersDistribution", "proxy", {"NameService"}),
       Contract("fuse", "GovernanceStaking", "code", {"NameService"}),
       Contract("fuse", "UBIScheme", "proxy", {"NameService"}),
       Contract("mainnet", upgrade, "code", {}),
       Contract("fuse", upgradeFuse, "code", {}),
       Contract("mainnet", "UniswapV2SwapHelper", "code", {}),
       Contract("mainnet", "CompoundStakingFactory", "code", {"UniswapV2SwapHelper"}),
       Contract("mainnet", "AaveStakingFactory", "code", {"UniswapV2SwapHelper"}) >>
toDeployUpgradable == ToDeploy("ProtocolUpgrade", "ProtocolUpgradeFuse")
\* Nothing is deployed by the recovery.
toDeployRecover ==
    LET list == ToDeploy("ProtocolUpgradeRecover", "ProtocolUpgradeFuseRecover")
    IN  [i \in DOMAIN list |-> [list[i] EXCEPT !.skip = TRUE]]

\* What initialize enters into the name service.
FirstNames(network) ==
    Registered([CONTROLLER |-> "Controller", AVATAR |-> "Avatar",
                IDENTITY |-> "Identity", GOODDOLLAR |-> "GoodDollar"])
    \cup {named("BRIDGE_CONTRACT", IF network = "mainnet" THEN "ForeignBridge" ELSE "HomeBridge")}

KeptInProduction(production, step) == IF production THEN UnlessRecorded(step) ELSE step

getProxyFactory(production) ==
    << KeptInProduction(production, Deploy("ProxyFactory", {})), Save >>

deployDeterministic(c, network) ==
    Setting(Create(c.name, c.kind, c.refs),
            IF c.name = "NameService" THEN FirstNames(network) ELSE {})

\* A staking contract of each factory, then the donations that stake in one.
Clone(name) == Deploy(name, {"NameService"})
deployStakingContracts ==
    << Clone("CompoundStaking"), Clone("AaveStaking"),
       DeployProxy("DonationsStaking", {"NameService", "CompoundStaking"}) >>

\* Kept all together, in production.
alwaysKept(production, staking) ==
    [i \in DOMAIN staking |-> [staking[i] EXCEPT !.unless = "CompoundStaking"]]
KeptStaking(production, staking) ==
    [i \in DOMAIN staking |->
        IF production THEN [staking[i] EXCEPT !.unless = "CompoundStaking"] ELSE staking[i]]

deployContracts(list, network, production, staking) ==
    LET mine == SelectSeq(list, LAMBDA c : c.network \in {"both", network} /\ ~c.skip)
    IN  FlattenSeq([i \in DOMAIN mine |->
            << KeptInProduction(production, deployDeterministic(mine[i], network)), Save >>])
        \o KeptStaking(production, staking) \o << Save >>

---------------------------------------------------------------------------
(* ProtocolUpgrade and ProtocolUpgradeFuse.  Each entry point is called by  *)
(* the owner and makes the controller act as the scheme that it is.         *)
MainnetNames ==
    [RESERVE |-> "GoodReserveCDai", MARKET_MAKER |-> "GoodMarketMaker",
     FUND_MANAGER |-> "GoodFundManager", REPUTATION |-> "GReputation",
     GDAO_STAKERS |-> "StakersDistribution", BRIDGE_CONTRACT |-> "ForeignBridge",
     UBI_RECIPIENT |-> "FuseUBIScheme", EXCHANGE_HELPER |-> "ExchangeHelper"]
FuseNames ==
    [REPUTATION |-> "GReputation", BRIDGE_CONTRACT |-> "HomeBridge", UBISCHEME |-> "UBIScheme",
     GDAO_STAKING |-> "GovernanceStaking", GDAO_CLAIMERS |-> "ClaimersDistribution"]

upgradeBasic ==
    ByScheme("ProtocolUpgrade",
        Registered(MainnetNames)
        \cup {<<"GoodFundManager", "reward", c, "yes">> : c \in {"CompoundStaking", "AaveStaking"}}
        \cup {scheme("Identity", "registered"), scheme("FeeFormula", "unset")})

\* addMinter and renounceMinter fail when there is nothing to do.
SoleMinter == {minter("GoodReserveCDai", "yes"), minter("Avatar", "unset"),
               <<"Controller", "constraint", "GoodReserveCDai", "yes">>}
NotSoleMinter == {minter("GoodReserveCDai", "unset"), minter("Avatar", "yes")}
NewReserve == {<<"oldReserve", "ended", "", "yes">>, scheme("oldReserve", "unset"),
               <<"GoodMarketMaker", "token", "cDAI", "yes">>, scheme("oldFundManager", "unset")}
upgradeReserve(sets) ==
    Transact(AsScheme("ProtocolUpgrade", NotSoleMinter), SoleMinter \cup sets)

upgradeDonationStaking ==
    Transact(AsScheme("ProtocolUpgrade", {<<"oldDonations", "ended", "", "unset">>}),
             {<<"oldDonations", "ended", "", "yes">>, <<"DonationsStaking", "funded", "", "yes">>,
              scheme("oldDAIStaking", "unset")})

\* The new schemes in, the old ones and the upgrade itself out.
upgradeGovernance(upgrade, old, failsafe) ==
    ByScheme(upgrade,
        {scheme(s, "unset") : s \in old \cup {upgrade}}
        \cup {scheme(s, "all") : s \in {"CompoundVotingMachine"} \cup failsafe})
OldSchemes == {"SchemeRegistrar", "UpgradeScheme"}

upgradeUBI(sets) ==
    ByScheme("ProtocolUpgradeFuse",
        {<<"FirstClaimPool", "ubi", "", "UBIScheme">>} \cup sets
        \cup Registered(FuseNames) \cup {scheme("Identity", "registered")})

---------------------------------------------------------------------------
performUpgrade(production) ==
    << upgradeBasic, upgradeReserve(NewReserve), upgradeDonationStaking >>
    \o (IF production THEN << >> ELSE << upgradeGovernance("ProtocolUpgrade", OldSchemes, {"root"}) >>)

performUpgradeFuse(production) ==
    << upgradeUBI({<<"oldUBI", "ended", "", "yes">>, scheme("oldUBI", "unset"),
                   scheme("FeeFormula", "unset")}) >>
    \o (IF production THEN << >> ELSE << upgradeGovernance("ProtocolUpgradeFuse", OldSchemes, {"root"}) >>)

\* The proposal, and the votes of the founders, of which some may fail.
voteProtocolUpgrade(upgrade) ==
    << Transact({scheme("SchemeRegistrar", "all")}, {<<"SchemeRegistrar", "proposed", upgrade, "yes">>}),
       Caught(Transact({<<"SchemeRegistrar", "proposed", upgrade, "yes">>}, {scheme(upgrade, "all")})) >>

upgradeToV2(network, production, isPerformUpgrade) ==
    getProxyFactory(production)
    \o deployContracts(toDeployUpgradable, network, production,
                       IF network = "mainnet" THEN deployStakingContracts ELSE << >>)
    \o (IF ~isPerformUpgrade THEN << >>
        ELSE IF network = "mainnet"
             THEN voteProtocolUpgrade("ProtocolUpgrade") \o performUpgrade(production)
             ELSE voteProtocolUpgrade("ProtocolUpgradeFuse") \o performUpgradeFuse(production))
    \o << Save >>

---------------------------------------------------------------------------
(* The recovery: the deployer is still a scheme and registers the upgrade.  *)
registerRecover(upgrade) == << ByScheme("root", {scheme(upgrade, "all")}) >>

performRecover(production) ==
    << ByScheme("ProtocolUpgradeRecover",
           Registered([k \in {"RESERVE", "MARKET_MAKER", "BRIDGE_CONTRACT", "EXCHANGE_HELPER"}
                          |-> MainnetNames[k]])),
       Transact(AsScheme("ProtocolUpgradeRecover", NotSoleMinter),
                SoleMinter \cup {<<"GoodMarketMaker", "token", "cDAI", "yes">>}) >>
    \o (IF production THEN << >> ELSE << upgradeGovernance("ProtocolUpgradeRecover", {}, {}) >>)

performRecoverFuse(production) ==
    << ByScheme("ProtocolUpgradeFuseRecover",
           {<<"FirstClaimPool", "ubi", "", "UBIScheme">>} \cup Registered(FuseNames)) >>
    \o (IF production THEN << >> ELSE << upgradeGovernance("ProtocolUpgradeFuseRecover", {}, {}) >>)

upgradeToV2Recover(network, production) ==
    deployContracts(toDeployRecover, network, production, << >>)
    \o (IF network = "mainnet"
        THEN registerRecover("ProtocolUpgradeRecover") \o performRecover(production)
        ELSE registerRecover("ProtocolUpgradeFuseRecover") \o performRecoverFuse(production))
    \o << Save >>
=============================================================================
