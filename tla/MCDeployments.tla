----------------------------- MODULE MCDeployments -----------------------------
EXTENDS ScriptRun

---------------------------------------------------------------------------
(* Worlds.                                                                  *)
At(n) == << n, 1 >>
Recorded(names) == [n \in names |-> At(n)]
Slots(entries) == [k \in {<< << e[1] >>, e[2], << e[3] >> >> : e \in entries} |->
                     << (CHOOSE e \in entries : k = << << e[1] >>, e[2], << e[3] >> >>)[4] >>]
World(scripts, names, entries) ==
    [scripts |-> scripts, file |-> Recorded(names) @@ [n \in {"GuardiansSafe"} |-> << n >>],
     contracts |-> [a \in {At(n) : n \in names} |-> << >>], slots |-> entries]

OldSchemesIn == {scheme(s, "all") : s \in {"SchemeRegistrar", "UpgradeScheme"}}
OldDAO == OldSchemesIn \cup {minter("Avatar", "yes"), scheme("FeeFormula", "registered")}
OldMainnet == OldDAO \cup {scheme(s, "all") : s \in {"oldReserve", "oldFundManager", "oldDAIStaking"}}
OldFuse == OldDAO \cup {scheme("oldUBI", "all")}
Deployed(list, network) ==
    {list[i].name : i \in {j \in DOMAIN list : list[j].network \in {"both", network}}}

Worlds ==
    {World(<< s >>, {}, Slots(IF s.network = "mainnet" THEN OldMainnet ELSE OldFuse)) : s \in V2}
    \cup {World(<< s >>, Deployed(toDeployRecover, s.network),
                Slots({scheme("root", "all"), minter("Avatar", "yes")})) : s \in Recover}
    \cup {World(<< s >>, {}, << >>) : s \in DAO}
    \cup {World(scripts, {}, << >>) : scripts \in {FullDeploy(TRUE), FullDeploy(FALSE), WithNFTs}}
    \cup {World(Later(p), {"ProxyFactory", "NameService", "Avatar", "GReputation", "UBIScheme"},
                Slots({scheme("root", "all")})) : p \in BOOLEAN}

---------------------------------------------------------------------------
Has(slot, who, value) ==
    \E k \in DOMAIN slots : k[2] = slot /\ k[3][1] = who /\ slots[k] = << value >>

\* The process died between forgeOrg and setSchemes: run again, the script finds the DAO.
HalfForged == Has("scheme", "DAOCreator", "all")

(* While a DAO has schemes, one that stays may do everything: neither a     *)
(* crash in the middle of a hand-over (transferDaoToGuardians, upgrade-     *)
(* Governance) nor a run after it leaves the DAO to nobody, or to an        *)
(* upgrade contract, which is a scheme that does one thing.                 *)
Upgrades == {"ProtocolUpgrade", "ProtocolUpgradeFuse", "ProtocolUpgradeRecover",
             "ProtocolUpgradeFuseRecover"}
DaoIsGoverned ==
    \A k \in DOMAIN slots : k[2] = "scheme" =>
        \E j \in DOMAIN slots : /\ j[1] = k[1] /\ j[2] = "scheme" /\ slots[j] = << "all" >>
                              /\ j[3][1] \notin Upgrades

(* What a script is for, it did: when a run ends, after however many that   *)
(* died, every slot the script writes last has its value, unless its own    *)
(* transaction failed and that was printed.  Excused are the schemes of a   *)
(* DAO forged by a run that died before setSchemes, and nothing else of it: *)
(* 1_basicdao finds that DAO and goes on.                                   *)
RunEndsWhole == FinishedIsWhole(LAMBDA e : HalfForged /\ e[2] = "scheme")

\* Why a script that was run again and again did not end.
\* The transaction that creates the factory was mined and the factory not recorded.
FactoryLost == At("ProxyFactory") \in DOMAIN contracts /\ "ProxyFactory" \notin DOMAIN file
Unrecorded == \E a \in DOMAIN contracts : a[1] \notin DOMAIN file \cup {"ProxyFactory"}
Renounced == Has("minter", "root", "unset")
HalfUpgraded == Has("minter", "Avatar", "unset") \/ Has("scheme", "ProtocolUpgradeFuse", "unset")
AfterACrash(script) ==
    CASE script.name = "upgradeToV2" -> (script.production /\ Unrecorded) \/ HalfUpgraded
      [] script.name = "upgradeToV2Recover" -> HalfUpgraded
      [] script.name = "0" -> FactoryLost
      [] script.name \in {"1", "1_nfts"} -> Renounced \/ Has("logic", "", "yes")
      [] script.name = "3" -> HalfForged
      [] OTHER -> FALSE
Explained(script) ==
    IF script.name = "5" THEN "GReputation" \notin DOMAIN file
    ELSE crashes + failures > 0 /\ AfterACrash(script)
(* Run again after it died, a script ends: what is there is found and       *)
(* reused.  The exceptions are the points at which the scripts are known to *)
(* stop for good, each named above.                                         *)
EveryScriptEnds ==
    <>(left = << >> \/ (pc = 0 /\ runs = MaxRuns /\ Explained(left[1])))
=============================================================================
