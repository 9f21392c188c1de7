--------------------------- MODULE MultichainDeploy ---------------------------
(***************************************************************************)
(* scripts/multichain-deploy: the scripts, run one after the other, that    *)
(* bring the DAO to a new chain, and the ones that hand it over to the      *)
(* guardians' safe.  A contract that exists at the address the proxy        *)
(* factory would give it is used; a proxy that cannot be deployed is        *)
(* "assumed" to exist.  What a script knows of the scripts before it is the *)
(* deployment.json it imported when it was started.                         *)
(***************************************************************************)
EXTENDS ScriptSteps

\* deployDeterministic of helpers.ts; arguments are what was imported.
Upgradeable(name, imports) == Importing(Caught(Attached(DeployProxy(name, {}))), imports)
deployedAnew(name, imports) == Importing(DeployCode(name, {}), imports)
NotUpgradeable(name, imports) == Importing(Attached(DeployCode(name, {})), imports)
From(step, refs) == [step EXCEPT !.refs = refs]
InProduction(production, steps) == IF production THEN steps ELSE << >>
InDevelopment(production, steps) == IF production THEN << >> ELSE steps

(***************************************************************************)
(* 0_proxyFactory: the account that is to create the factory is given what  *)
(* it lacks, and a transaction signed beforehand is sent, which the chain   *)
(* takes once.                                                              *)
(***************************************************************************)
deployProxyFactory ==
    << RefuseIfRecorded("ProxyFactory"),
       Transact({}, {<<"factoryDeployer", "ether", "", "yes">>}),
       Setting(PreSigned("ProxyFactory"), {<<"factoryDeployer", "ether", "", "unset">>}),
       Save >>

(***************************************************************************)
(* 1_basicdao.  The token is a proxy whose logic is set by a transaction of *)
(* its own and initialized by another; that either fails because it was     *)
(* done before is printed.                                                  *)
(***************************************************************************)
deploySuperGoodDollar(nfts) ==
    << Attached(DeployCode("SuperGoodDollarLogic", {})), Attached(DeployCode("GoodDollar", {})),
       Caught(Transact({<<"GoodDollar", "logic", "", "unset">>},
                       {<<"GoodDollar", "logic", "", "SuperGoodDollarLogic">>})) >>
    \o (IF nfts
        THEN << Attached(DeployCode("OutflowNFT", {})), Attached(DeployCode("InflowNFT", {})),
                Transact({<<"OutflowNFT", "logic", "", "unset">>}, {<<"OutflowNFT", "logic", "", "yes">>}),
                Transact({<<"InflowNFT", "logic", "", "unset">>}, {<<"InflowNFT", "logic", "", "yes">>}) >>
        ELSE << >>)
    \o << Caught(Transact({<<"GoodDollar", "owner", "", "unset">>},
              {<<"GoodDollar", "owner", "", "DAOCreator">>, minter("DAOCreator", "yes"),
               minter("root", "yes")})) >>
    \o (IF nfts
        THEN << Transact({<<"OutflowNFT", "init", "", "unset">>}, {<<"OutflowNFT", "init", "", "yes">>}),
                Transact({<<"InflowNFT", "init", "", "unset">>}, {<<"InflowNFT", "init", "", "yes">>}) >>
        ELSE << >>)

forgeOrgWithSafe ==
    << SkipIfSet("DAOCreator", "avatar", 2),
       Making(Transact({<<"GoodDollar", "owner", "", "DAOCreator">>},
                       {<<"DAOCreator", "avatar", "", "Avatar">>,
                        <<"DAOCreator", "controller", "", "Controller">>,
                        <<"GoodDollar", "owner", "", "Avatar">>, minter("Avatar", "yes"),
                        minter("DAOCreator", "unset"), scheme("DAOCreator", "all")}),
              {"Avatar", "Controller"}),
       Importing(Transact(AsScheme("DAOCreator", {}),
                          {scheme("DAOCreator", "unset"), scheme("root", "all"),
                           scheme("GuardiansSafe", "all")}),
                 {"GuardiansSafe"}),
       Read("Avatar", "DAOCreator", "avatar"), Read("Controller", "DAOCreator", "controller") >>

\* initDAO of the identity contract, unless it was called.
NameServiceSet(n) ==
    << SkipIfSet("Identity", "nameService", n),
       Transact({}, {<<"Identity", "nameService", "", "NameService">>}) >>
skipsTheNext == NameServiceSet(2)
initIdentity == NameServiceSet(1)

createDAOWithSafe(production, nfts) ==
    << UnlessRecorded(Caught(Attached(DeployProxy("Identity", {})))),
       UnlessRecorded(Attached(DeployCode("DAOCreator", {}))),
       UnlessRecorded(Attached(DeployCode("FeeFormula", {}))) >>
    \o deploySuperGoodDollar(nfts)
    \o forgeOrgWithSafe
    \o << Setting(From(Upgradeable("NameService", {}), {"Avatar", "Identity", "GoodDollar"}),
                  Registered([CONTROLLER |-> "Controller", AVATAR |-> "Avatar",
                              IDENTITY |-> "Identity", GOODDOLLAR |-> "GoodDollar"])) >>
    \o initIdentity
    \o InProduction(production,
          << Transact({minter("root", "yes")}, {minter("root", "unset")}),
             ByScheme("root", {<<"Identity", "period", "", "yes">>}) >>)
    \o << Save >>

---------------------------------------------------------------------------
(* The scripts for the contracts around the DAO.                            *)
deployHelpers(production) ==
    << Upgradeable("AdminWallet", {"NameService"}),
       Transact({}, {<<"AdminWallet", "defaults", "", "yes">>}),
       From(Upgradeable("Faucet", {"NameService"}), {"AdminWallet"}),
       Transact({}, {<<"Faucet", "topping", "", "yes">>}),
       Upgradeable("Invites", {"NameService"}),
       Save,
       Importing(Transact({}, {role("Identity", "AdminWallet", "identity_admin")}), {"Identity"}),
       Transact({}, {<<"AdminWallet", "ether", "", "yes">>}),
       Transact({}, {<<"Faucet", "ether", "", "yes">>}) >>
    \o InDevelopment(production,
          << Transact({minter("root", "yes")}, {<<"GoodDollar", "minted", "Invites", "yes">>}) >>)

deployOTP == << NotUpgradeable("OneTimePaymentsV2", {"NameService"}), Save >>

deployWrapper(admin) ==
    << Upgradeable("GoodDollarMintBurnWrapper", {admin, "NameService"}), Save >>

executeSavingsProposal ==
    ViaGuardian(<< {<<"GoodDollarMintBurnWrapper", "minter", "GoodDollarStaking", "rewards">>},
                   {scheme("GoodDollarMintBurnWrapper", "registered")},
                   {scheme("GoodDollarStaking", "all")},
                   {named("MINTBURN_WRAPPER", "GoodDollarMintBurnWrapper")} >>)
KeptWrapper == << UnlessRecorded(deployWrapper("Avatar")[1]), Save >>
deploySavings(production) ==
    KeptWrapper
    \o << UnlessRecorded(NotUpgradeable("GoodDollarStaking", {"NameService"})), Save >>
    \o InDevelopment(production, executeSavingsProposal)

deployUBI(production) ==
    << Upgradeable("UBIScheme", {"NameService"}), Save >>
    \o InDevelopment(production,
          << Transact({minter("root", "yes")}, {<<"GoodDollar", "minted", "UBIScheme", "yes">>}) >>)
    \o CaughtTogether(ViaGuardian(<< {named("UBISCHEME", "UBIScheme")} >>))

\* The voting machine is told of the reputation that was imported.
deployGov ==
    << Upgradeable("GReputation", {"NameService"}),
       Upgradeable("CompoundVotingMachine", {"NameService", "GReputation"}),
       Upgradeable("ClaimersDistribution", {"NameService"}),
       Save >>
    \o CaughtTogether(ViaGuardian(<< {named("REPUTATION", "GReputation"),
                                 named("GDAO_CLAIMERS", "ClaimersDistribution")},
                                {scheme("CompoundVotingMachine", "all")} >>))

deployTestnetFaucet ==
    << UnlessRecorded(NotUpgradeable("GDFaucet", {"NameService"})), Save,
       ByScheme("root", {scheme("GDFaucet", "registered")}) >>

deploySuperfluidFaucet ==
    << UnlessRecorded(Upgradeable("AdminWallet", {})),
       UnlessRecorded(From(Deploy("SuperfluidFaucet", {}), {"AdminWallet"})),
       Save >>
upgradeSuperfluidFaucet ==
    << Deploy("SuperfluidFaucetLogic", {}),
       Importing(Transact({}, {<<"SuperfluidFaucet", "logic", "", "SuperfluidFaucetLogic">>}),
                 {"SuperfluidFaucet"}) >>

Recipient(who) == {<<"DistributionHelper", "recipient", who, "yes">>}
deployDistHelper(communitySafe) ==
    << Upgradeable("DistributionHelper", {"NameService"}), Save >>
    \o CaughtTogether(ViaGuardian(<< {named("DISTRIBUTION_HELPER", "DistributionHelper")},
                                Recipient("UBIScheme") >>
                             \o (IF communitySafe THEN << Recipient("CommunitySafe") >> ELSE << >>)))

---------------------------------------------------------------------------
(* scripts/upgrades/transferDaoToGuardians.                                 *)
SafeIn == ByScheme("root", {scheme("GuardiansSafe", "all")})
SelfOut == ByScheme("root", {scheme("root", "unset")})
unregisterFirst(production) == InProduction(production, << SelfOut, SafeIn >>)
transferDaoToGuardians(production) == InProduction(production, << SafeIn, SelfOut >>)
=============================================================================
