------------------------------- MODULE FullDAO -------------------------------
(***************************************************************************)
(* scripts/deployFullDAO: a whole DAO for development, on the main network  *)
(* or on the side chain.  The deployer is a scheme with all permissions and *)
(* stays one.  Nothing recorded is used.  The deployer's calls go through   *)
(* the controller's genericCall.                                            *)
(***************************************************************************)
EXTENDS UpgradeToV2

setSchemes(names) == [i \in DOMAIN names |-> ByScheme("root", {scheme(names[i], "all")})]
genericCall(sets) == << ByScheme("root", sets) >>
Minted(who) == {<<"GoodDollar", "minted", who, "yes">>}

\* forgeOrg: the DAO, whose only scheme is its creator; then the creator gives way.
forgeOrg ==
    Making(Transact({<<"daoCreator", "avatar", "", "unset">>},
                    {<<"daoCreator", "avatar", "", "Avatar">>,
                     scheme("daoCreator", "all"), minter("Avatar", "yes")}),
           {"Avatar", "Controller", "GoodDollar"})
creatorSetSchemes ==
    Transact(AsScheme("daoCreator", {}),
             {scheme("daoCreator", "unset"), scheme("root", "all"), scheme("Identity", "registered")})

deployBridge(network, mock) ==
    LET bridge == IF network = "mainnet" THEN "ForeignBridge" ELSE "HomeBridge"
    IN  << Deploy("BridgeScheme", {"Avatar"}) >>
        \o setSchemes(<< "BridgeScheme" >>)
        \o << IF mock THEN Deploy(bridge, {})
              ELSE Making(Transact({scheme("BridgeScheme", "all")}, {minter(bridge, "yes")}), {bridge}) >>

\* Mock tokens and oracles.
deployMainnet ==
    << Deploy("DAIUsdOracle", {}), Deploy("USDCUsdOracle", {}), Deploy("COMPUsdOracle", {}),
       Deploy("AAVEUsdOracle", {}), Deploy("GasPriceOracle", {}), Deploy("DAI", {}),
       Deploy("COMP", {}), Deploy("cDAI", {"DAI"}), Deploy("Contribution", {"Avatar"}),
       Deploy("DAIEthOracle", {}), Deploy("ETHUsdOracle", {}) >>

deploySidechain ==
    << Deploy("FirstClaimPool", {"Avatar", "Identity"}) >>
    \o genericCall(Minted("FirstClaimPool"))
    \o << Deploy("OneTimePayments", {"Avatar", "Identity"}),
          Deploy("Invites", {"Avatar", "Identity"}), Deploy("FuseFaucet", {"Identity"}),
          Transact({}, {<<"FuseFaucet", "ether", "", "yes">>}) >>
    \o genericCall(Minted("FirstClaimPool")) \o genericCall(Minted("Invites"))
    \o setSchemes(<< "FirstClaimPool", "OneTimePayments" >>)
    \o << Transact({scheme("FirstClaimPool", "all")}, {<<"FirstClaimPool", "started", "", "yes">>}) >>

deployAdminWallet ==
    << Deploy("AdminWallet", {"NameService"}),
       Transact({}, {role("Identity", "AdminWallet", "identity_admin")}),
       Transact({}, {<<"AdminWallet", "ether", "", "yes">>}),
       Transact({<<"AdminWallet", "ether", "", "yes">>}, {<<"AdminWallet", "topped", "", "yes">>}) >>

\* The upgrade without anything old.
performUpgradeDAO ==
    << upgradeBasic, upgradeReserve({}), upgradeGovernance("ProtocolUpgrade", {}, {"root"}) >>
performUpgradeFuseDAO ==
    << upgradeUBI({}), upgradeGovernance("ProtocolUpgradeFuse", {}, {"root"}) >>

createDAO ==
    << Deploy("BancorFormula", {}),
       Transact({<<"BancorFormula", "init", "", "unset">>}, {<<"BancorFormula", "init", "", "yes">>}),
       Deploy("AddFounders", {}), Deploy("Identity", {}), Deploy("daoCreator", {"AddFounders"}),
       Deploy("FeeFormula", {}), forgeOrg, creatorSetSchemes >>

deployDAO(network, mock) ==
    createDAO
    \o (IF network = "mainnet" THEN deployMainnet ELSE deploySidechain)
    \o << Save >> \o deployBridge(network, mock) \o << Save >>
    \o upgradeToV2(network, FALSE, FALSE)
    \o (IF network = "mainnet"
        THEN << Deploy("distHelper", {"NameService"}) >>
             \o genericCall({<<"GoodReserveCDai", "helper", "", "distHelper">>})
        ELSE << >>)
    \o deployAdminWallet
    \o << Transact({<<"Identity", "nameService", "", "unset">>},
                   {<<"Identity", "nameService", "", "NameService">>}), Save >>
    \o (IF network = "mainnet"
        THEN setSchemes(<< "ProtocolUpgrade" >>) \o performUpgradeDAO
             \o genericCall({<<"GoodMarketMaker", "token", "cDAI", "yes">>})
        ELSE genericCall(Minted("UBIScheme"))
             \o setSchemes(<< "ProtocolUpgradeFuse" >>) \o performUpgradeFuseDAO)
    \o << Save >>
=============================================================================
