-------------------------------- MODULE Scripts --------------------------------
(***************************************************************************)
(* The scripts an operator runs, each for a network and an environment.     *)
(***************************************************************************)
EXTENDS FullDAO, MultichainDeploy, FiniteSets, Functions, TLC

Script(name, network, production) == [name |-> name, network |-> network, production |-> production]
Both(name) == {Script(name, n, p) : n \in {"mainnet", "fuse"}, p \in BOOLEAN}
V2 == Both("upgradeToV2")
Recover == Both("upgradeToV2Recover")
DAO == {Script("deployFullDAO", n, FALSE) : n \in {"mainnet", "fuse"}}
OnXdc(names, p) == [i \in DOMAIN names |-> Script(names[i], "xdc", p)]
\* fulldeploy.sh, and what is run by hand on a chain that has a DAO.
FullDeploy(p) == OnXdc(<< "0", "1", "2", "3", "4", "5" >>, p)
Later(p) == OnXdc(<< "wrapper", "2b", "5", "6", "7", "7_upgrade", "8", "transfer" >>, p)
WithNFTs == OnXdc(<< "0", "1_nfts" >>, FALSE)
Multichain == UNION {Range(FullDeploy(p)) \cup Range(Later(p)) : p \in BOOLEAN} \cup Range(WithNFTs)

MultichainProgram(n, p) ==
    CASE n = "0" -> deployProxyFactory
      [] n = "1" -> createDAOWithSafe(p, FALSE)
      [] n = "1_nfts" -> createDAOWithSafe(p, TRUE)
      [] n = "2" -> deployHelpers(p)
      [] n = "2b" -> deployOTP
      [] n = "wrapper" -> deployWrapper("GuardiansSafe")
      [] n = "3" -> deploySavings(p)
      [] n = "4" -> deployUBI(p)
      [] n = "5" -> deployGov
      [] n = "6" -> deployTestnetFaucet
      [] n = "7" -> deploySuperfluidFaucet
      [] n = "7_upgrade" -> upgradeSuperfluidFaucet
      [] n = "8" -> deployDistHelper(p)
      [] n = "transfer" -> transferDaoToGuardians(p)
Programs ==
    [s \in V2 |-> upgradeToV2(s.network, s.production, TRUE)]
    @@ [s \in Recover |-> upgradeToV2Recover(s.network, s.production)]
    @@ [s \in DAO |-> deployDAO(s.network, s.network = "fuse")]
    @@ [s \in Multichain |-> MultichainProgram(s.name, s.production)]
=============================================================================
