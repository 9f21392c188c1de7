--------------------------- MODULE AirdropRecovery ---------------------------
(***************************************************************************)
(* The scripts that rebuild who owns GOOD and GDX from the logs of old      *)
(* contracts: scripts/governance/airdropCalculationSorted and ...Recover,   *)
(* and airdrop and airdropRecover of scripts/gdx/gdxAirdropCalculation.     *)
(*                                                                          *)
(* A scan asks for the logs of ranges of `span` blocks, a group of ranges   *)
(* at a time; of each range it asks for two kinds of logs, one after the    *)
(* other.  Answers come in any order; a failed query is asked once more and *)
(* then the process dies (Died), as it may at any time.  The chain goes on  *)
(* while the scan runs.                                                     *)
(***************************************************************************)
EXTENDS Spelling, Integers, Sequences, FiniteSetsExt, TLC

CONSTANTS
    Users, swaphelper,
    Transactions,  \* set of [id, type, who, amount, block, on]: what happened
    MaxBlock, span, group,
    START_BLOCK, ETH_SNAPSHOT_BLOCK, reimburseBlock,
    airdropPrev    \* airdrop/airdropPrev.json: numbers, under keys as spelled

TransactionType == {"buy", "buyThroughHelper", "mint", "prove", "mintGdx", "burnGdx"}
\* The scans start where the contracts were created.
ASSUME RecoveryAssumption ==
    /\ {span, group, ETH_SNAPSHOT_BLOCK} \subseteq Nat \ {0} /\ START_BLOCK \in Nat
    /\ swaphelper \notin Users
    /\ DOMAIN airdropPrev \subseteq Users \X {"lower", "mixed"}
    /\ \A k \in DOMAIN airdropPrev : airdropPrev[k] \in Nat
    /\ IsFiniteSet(Transactions)
    /\ \A t \in Transactions :
          /\ t.type \in TransactionType /\ t.who \in Users
          /\ t.amount \in Nat /\ t.block \in Nat /\ START_BLOCK <= t.block
          /\ \A s \in Transactions : s.id = t.id => s = t

VARIABLES
    block,
    job,       \* the scan that runs, or "none"
    LAST_BLOCK, next, asked, found,   \* of that scan
    recovered  \* the json files

scan_vars == <<job, LAST_BLOCK, next, asked, found>>
recovery_vars == <<block, scan_vars, recovered>>

---------------------------------------------------------------------------
(* What the contracts log.                                                  *)
log(t, kind, who) == [kind |-> kind, who |-> who, amount |-> t.amount, block |-> t.block,
                      on |-> t.on, id |-> t.id]
Emitted(t) ==
    CASE t.type = "buy" -> {log(t, "TokenPurchased", t.who)}
      [] t.type = "buyThroughHelper" ->
            {log(t, "TokenPurchased", swaphelper), log(t, "GDTraded", t.who)}
      [] t.type = "mint" -> {log(t, "Mint", t.who)}
      [] t.type = "prove" -> {log(t, "Mint", t.who), log(t, "StateHashProof", t.who)}
      [] t.type = "mintGdx" -> {log(t, "TransferFromZero", t.who)}
      [] t.type = "burnGdx" -> {log(t, "TransferToZero", t.who)}
Logs == {l \in UNION {Emitted(t) : t \in Transactions} : l.block <= block}

Total(logs) == SumFunction([l \in logs |-> l.amount])
Of(who, kind) == {l \in found : l.who = who /\ l.kind = kind}

---------------------------------------------------------------------------
(* One scan: its chain, the kinds of logs it asks for and where it ends.    *)
Job == {"buyBalances", "repRecoverFuse", "repRecoverMainnet", "newReserve", "recoveredReserve"}
Kinds(j) == CASE j = "buyBalances" -> <<"TokenPurchased", "GDTraded">>
              [] j \in {"repRecoverFuse", "repRecoverMainnet"} -> <<"Mint", "StateHashProof">>
              [] OTHER -> <<"TransferFromZero", "TransferToZero">>

blocks == {b \in START_BLOCK..(LAST_BLOCK - 1) : (b - START_BLOCK) % span = 0}
Group(i) == {b \in blocks : (b - START_BLOCK) \div span \in (i * group)..(i * group + group - 1)}
Within(bc, l) == bc <= l.block /\ l.block <= bc + span - 1 /\ l.block <= LAST_BLOCK

NotScanning == job = "none"
Scan(j, last) ==
    /\ job' = j /\ LAST_BLOCK' = last /\ next' = 0
    /\ asked' = {} /\ found' = {}
Stopped ==
    /\ job' = "none" /\ LAST_BLOCK' = 0 /\ next' = 0
    /\ asked' = {} /\ found' = {}

\* The next ten ranges, once all of the last ten have been read.
NextGroup ==
    /\ job # "none" /\ asked = {} /\ Group(next) # {}
    /\ asked' = {<<b, 1>> : b \in Group(next)}
    /\ next' = next + 1
    /\ UNCHANGED <<block, job, LAST_BLOCK, found, recovered>>

Answer ==
    \E r \in asked :
        /\ found' = found \cup {l \in Logs : /\ l.kind = Kinds(job)[r[2]] /\ l.on = job
                                             /\ Within(r[1], l)}
        /\ asked' = (asked \ {r}) \cup (IF r[2] = 1 THEN {<<r[1], 2>>} ELSE {})
        /\ UNCHANGED <<block, job, LAST_BLOCK, next, recovered>>

RecoveredFile == {"buyBalances", "gdxairdrop", "buyBalancesCombined", "gdxAirdropRecovery",
                  "repRecoverFuse", "repRecoverMainnet",
                  "airdropSorted", "airdropRecover", "ethAirdropRecover"}
Scanned(j) == job = j /\ asked = {} /\ Group(next) = {}
Save(f, data) == recovered' = [recovered EXCEPT ![f] = [at |-> LAST_BLOCK, data |-> data]]

RecoveryInit ==
    /\ block = ETH_SNAPSHOT_BLOCK
    /\ job = "none" /\ LAST_BLOCK = 0 /\ next = 0 /\ asked = {} /\ found = {}
    /\ recovered = [f \in RecoveredFile |-> [at |-> 0, data |-> <<>>]]
Exists(f) == recovered[f].at > 0
Data(f) == recovered[f].data
Credit(data, k) == IF k \in DOMAIN data THEN data[k] ELSE 0

Mined ==
    /\ block < MaxBlock
    /\ block' = block + 1
    /\ UNCHANGED <<scan_vars, recovered>>
Died == job # "none" /\ Stopped /\ UNCHANGED <<block, recovered>>

---------------------------------------------------------------------------
(* GDX bought before the snapshot, directly or through the swap helper.     *)
Amount(u, kind) == Total(Of(u, kind))
BoughtDirectly(u) == Amount(u, "TokenPurchased")
Bought(u) == Amount(u, "TokenPurchased") + Amount(u, "GDTraded")
getBuyingAddresses ==
    \/ /\ NotScanning
       /\ Scan("buyBalances", ETH_SNAPSHOT_BLOCK)
       /\ UNCHANGED <<block, recovered>>
    \/ /\ Scanned("buyBalances")
       /\ Save("buyBalances", [u \in {l.who : l \in found} \ {swaphelper} |-> Bought(u)])
       /\ Stopped /\ UNCHANGED block

gdxTree ==
    /\ NotScanning /\ Exists("buyBalances")
    /\ recovered' = [recovered EXCEPT !["gdxairdrop"] = recovered["buyBalances"]]
    /\ UNCHANGED <<block, scan_vars>>

(***************************************************************************)
(* GDX since: what the new reserve and then the recovered one minted less   *)
(* what they burned; the reimbursement of one block does not count twice.   *)
(***************************************************************************)
Minted(u) == LET mints == Of(u, "TransferFromZero")
             IN  Total({l \in mints : l.block # reimburseBlock})
                 - Total({l \in mints : l.block = reimburseBlock})
Net(u) == Minted(u) - Amount(u, "TransferToZero")
getHoldersInformation ==
    \/ /\ NotScanning /\ Exists("gdxairdrop")
       /\ Scan("newReserve", block)
       /\ UNCHANGED <<block, recovered>>
    \/ /\ Scanned("newReserve")
       /\ job' = "recoveredReserve" /\ next' = 0
       /\ UNCHANGED <<block, LAST_BLOCK, asked, found, recovered>>

GdxOf(u) == Credit(Data("gdxairdrop"), u)
addCalculationsToPreviousData ==
    /\ Scanned("recoveredReserve")
    /\ LET more == {u \in {l.who : l \in found} : Net(u) > 0}
       IN  Save("buyBalancesCombined",
                [u \in DOMAIN Data("gdxairdrop") \cup more |->
                    GdxOf(u) + (IF u \in more THEN Net(u) ELSE 0)])
    /\ Stopped /\ UNCHANGED block

gdxRecoveryTree ==
    /\ NotScanning /\ Exists("buyBalancesCombined")
    /\ recovered' = [recovered EXCEPT !["gdxAirdropRecovery"] = recovered["buyBalancesCombined"]]
    /\ UNCHANGED <<block, scan_vars>>

---------------------------------------------------------------------------
(* GOOD: on Fuse what was minted other than by proving a leaf of the old    *)
(* airdrop, on Ethereum what was minted and proved.                         *)
AllMinted(u) == Amount(u, "Mint")
NotProved(u) == Amount(u, "Mint") - Amount(u, "StateHashProof")
calcGoodMints ==
    \/ /\ NotScanning
       /\ \E j \in {"repRecoverFuse", "repRecoverMainnet"} : Scan(j, block)
       /\ UNCHANGED <<block, recovered>>
    \/ /\ Scanned("repRecoverFuse")
       /\ Save("repRecoverFuse",
               [u \in {u \in {l.who : l \in found} : NotProved(u) > 0} |-> NotProved(u)])
       /\ Stopped /\ UNCHANGED block
    \/ /\ Scanned("repRecoverMainnet")
       /\ Save("repRecoverMainnet", [u \in {l.who : l \in found} |-> Amount(u, "Mint")])
       /\ Stopped /\ UNCHANGED block

collectSorted == calcGoodMints
collectRecover == calcGoodMints

\* The tree: a leaf is what its key is owed, and the hash of that.  What was
\* minted is looked up and put under the lower case key; a leaf that is saved
\* under the other spelling is not found and stays as it is.
leaf(style, n) == [rep |-> n, hash |-> <<style, n>>]
Owed(tree, k) == IF k \in DOMAIN tree THEN tree[k].rep ELSE 0
Fuse(k) == IF k = lower(k[1]) THEN Credit(Data("repRecoverFuse"), k[1]) ELSE 0
Renewed(style) ==
    [k \in {lower(u) : u \in DOMAIN Data("repRecoverFuse")} \cup DOMAIN airdropPrev |->
        leaf(style, Credit(airdropPrev, k) + Fuse(k))]
Restored(tree) == [u \in DOMAIN Data("repRecoverMainnet") |->
                    [state |-> Owed(tree, lower(u)),
                     mint |-> Data("repRecoverMainnet")[u]]]
SaveTree(f, tree) ==
    /\ NotScanning /\ Exists("repRecoverFuse") /\ Exists("repRecoverMainnet")
    /\ recovered' = [recovered EXCEPT
           ![f] = [at |-> recovered["repRecoverFuse"].at, data |-> tree],
           !["ethAirdropRecover"] = [at |-> recovered["repRecoverMainnet"].at,
                                     data |-> Restored(tree)]]
    /\ UNCHANGED <<block, scan_vars>>

\* Sorted pairs and double hashes; every leaf is hashed anew.
buildMerkleTreeSorted == SaveTree("airdropSorted", Renewed("double"))
\* Positions and simple hashes; the leaves that did not change keep theirs.
buildMerkleTreeRecover == SaveTree("airdropRecover", Renewed("simple"))

RecoveryNext ==
    \/ Mined \/ Died \/ NextGroup \/ Answer
    \/ getBuyingAddresses \/ gdxTree
    \/ getHoldersInformation \/ addCalculationsToPreviousData \/ gdxRecoveryTree
    \/ collectSorted \/ collectRecover
    \/ buildMerkleTreeSorted \/ buildMerkleTreeRecover
RecoverySpec == RecoveryInit /\ [][RecoveryNext]_recovery_vars

---------------------------------------------------------------------------
(* What u got by transactions of these types before block n.                *)
Got(u, on, types, n) ==
    Total({t \in Transactions : t.who = u /\ t.on = on /\ t.type \in types /\ t.block < n})
Sandwiched(x, f, g(_)) == g(recovered[f].at) <= x /\ x <= g(recovered[f].at + 1)

(* A purchase through the swap helper is logged twice, by the reserve for   *)
(* the helper and by the helper for the buyer: everybody is credited with   *)
(* what he bought before the snapshot, once.                                *)
PurchasesAreCredited ==
    Exists("buyBalances") =>
        /\ swaphelper \notin DOMAIN Data("buyBalances")
        /\ \A u \in Users : Sandwiched(
              Credit(Data("buyBalances"), u), "buyBalances",
              LAMBDA n : Got(u, "buyBalances", {"buy", "buyThroughHelper"}, n))

(* Nobody's GOOD is lost or doubled by the recovery.  The lower case leaf   *)
(* of an account in the new tree is its old one and what was minted besides *)
(* it, whether the old leaf was proved or not; the leaf under the other     *)
(* spelling is the old one, and there is none that was not there before: so *)
(* the leaves of an account add up to what it had and got, in one leaf      *)
(* unless the old one was spelled otherwise.  The hash of a leaf is that of *)
(* what it says.                                                            *)
RecoveredIsOwed ==
    \A f \in {"airdropSorted", "airdropRecover"} : Exists(f) =>
        LET tree == Data(f)
        IN  /\ \A u \in Users :
                  /\ Sandwiched(Owed(tree, lower(u)) - Credit(airdropPrev, lower(u)), f,
                                LAMBDA n : Got(u, "repRecoverFuse", {"mint"}, n))
                  /\ Owed(tree, mixed(u)) = Credit(airdropPrev, mixed(u))
                  /\ mixed(u) \in DOMAIN tree => mixed(u) \in DOMAIN airdropPrev
            /\ \A k \in DOMAIN tree :
                  tree[k] = leaf(IF f = "airdropSorted" THEN "double" ELSE "simple", Owed(tree, k))
=============================================================================
