-------------------------- MODULE AirdropCollection --------------------------
(***************************************************************************)
(* collectAirdropData of scripts/governance/airdropCalculation: six parts   *)
(* read the chains as of a snapshot block, each into an object of its own   *)
(* and then into a file of its own; buildMerkleTree turns the files into    *)
(* the airdrop.                                                             *)
(*                                                                          *)
(* A step is a turn of the event loop: what runs between two awaits.  An    *)
(* answer to a request may come in any order, a retried request comes late. *)
(* The process may die at any time, also because a request without a catch  *)
(* failed; what it held in memory is lost and the files stay.  The parts    *)
(* run concurrently but share no variable and no file, so interleaving two  *)
(* of them has the same effects as running one after the other: the model   *)
(* runs them one at a time, in every order.                                 *)
(***************************************************************************)
EXTENDS AirdropTree

CONSTANTS
    Blocks,          \* the blocks, of either chain, the process runs at
    Snapshots,       \* the snapshot blocks a process is started for
    MaxRuns,         \* bound on the processes started
    step,            \* blocks per query of the logs
    FirstBlock, OldUBIEnd, NewUBIStart,
    ClaimLogs,       \* sequence of [ubi, from, block]
    TransferLogs,    \* set of [to, block]
    FuseBalance, EthBalance,   \* [Blocks -> [Accounts -> Nat]]
    EthHolders,      \* the accounts ethplorer lists, system contracts removed
    UniswapShare,    \* [Blocks -> [Accounts -> Nat]]: G$ of each position
    Pairs,           \* of Fuseswap
    FuseswapShare,   \* [Blocks -> [Pairs \X Accounts -> Nat]]
    usdcgdYieldFarming, \* an account: the contract that farms with G$
    StakedLogs,      \* sequence of accounts: Staked events of that contract
    FarmStake,       \* [Blocks -> [Accounts -> Nat]]
    StakeLogs,       \* set of [from, dai, block, kind]
    SystemContracts  \* accounts

\* The constants of the script are right: the first UBI contract was claimed
\* from and G$ moved on Fuse from FirstBlock on, and so on.
ASSUME CollectionAssumption ==
    /\ Blocks \subseteq Nat /\ Snapshots \subseteq Blocks \ {0}
    /\ step \in Nat \ {0} /\ {FirstBlock, OldUBIEnd, NewUBIStart} \subseteq Nat
    /\ ClaimLogs \in Seq([ubi : {"ubi", "ubinew"}, from : Accounts, block : Nat])
    /\ \A i \in DOMAIN ClaimLogs :
          IF ClaimLogs[i].ubi = "ubi" THEN ClaimLogs[i].block \in FirstBlock..(OldUBIEnd - 1)
          ELSE NewUBIStart <= ClaimLogs[i].block
    /\ TransferLogs \subseteq [to : Accounts, block : Nat]
    /\ \A l \in TransferLogs : FirstBlock <= l.block
    /\ FuseBalance \in [Blocks -> [Accounts -> Nat]]
    /\ FuseswapShare \in [Blocks -> [Pairs \X Accounts -> Nat]] /\ "event" \notin Pairs
    /\ usdcgdYieldFarming \in Accounts /\ StakedLogs \in Seq(Accounts)
    /\ EthHolders \subseteq Accounts
    /\ {EthBalance, UniswapShare, FarmStake} \subseteq [Blocks -> [Accounts -> Nat]]
    /\ \A s \in Snapshots : Sum(FarmStake[s]) > 0
    /\ IsFiniteSet(StakeLogs)
    /\ StakeLogs \subseteq [from : Accounts, dai : Nat, block : Nat,
                           kind : {"staked", "donated", "withdrawn"}]

VARIABLES
    clock,      \* the latest block
    snapshot,   \* FUSE_SNAPSHOT_BLOCK and ETH_SNAPSHOT_BLOCK, 0: no process
    runs,       \* processes started
    finished,   \* parts that have written their file in this process
    part,       \* the part whose requests are being answered, or "none"
    stage, requests, addresses, failed,   \* of that part
    files,      \* part -> what was written last and at which snapshot
    failedTmp,  \* airdrop/failed.tmp: who is in it, and whether it was written
                \* after fuseBalances.json was (newer)
    airdrop     \* airdrop/airdrop.json

files_vars == <<files, failedTmp, airdrop>>
part_vars == <<part, stage, requests, addresses, failed>>
collection_vars == <<clock, snapshot, runs, finished, part_vars, files_vars>>

Part == {"fuseswap", "uniswap", "claims", "eth", "fuse", "stakers"}
Empty == [k \in {} |-> 0]
NoFile == [at |-> 0, data |-> Empty]
NoAirdrop == [tree |-> <<>>, data |-> <<>>]

\* range(first, last, step), and the blocks the query that starts at b covers.
Chunks(first, last) == {b \in first..(last - 1) : (b - first) % step = 0}
CoversOneMore(b, n) == b <= n /\ n <= b + step /\ n <= snapshot
Covers(b, n) == b <= n /\ n <= b + step - 1 /\ n <= snapshot

\* updateBalance of the value under key k.
plus(k, n) == [x \in DOMAIN addresses \cup {k} |-> At(addresses, x) + (IF x = k THEN n ELSE 0)]

Idle == /\ part' = "none" /\ stage' = "none" /\ requests' = {}
        /\ addresses' = Empty /\ failed' = <<>>
Written(p, data) ==
    /\ files' = [files EXCEPT ![p] = [at |-> snapshot, data |-> data]]
    /\ finished' = finished \cup {p}
    /\ Idle

Init ==
    /\ clock \in Blocks /\ \A b \in Blocks : clock <= b
    /\ snapshot = 0 /\ runs = 0 /\ finished = {}
    /\ part = "none" /\ stage = "none" /\ requests = {}
    /\ addresses = Empty /\ failed = <<>>
    /\ files = [p \in Part |-> NoFile]
    /\ failedTmp = [list |-> {}, newer |-> FALSE] /\ airdrop = NoAirdrop

NextBlock ==
    /\ clock + 1 \in Blocks
    /\ clock' = clock + 1
    /\ UNCHANGED <<snapshot, runs, finished, part_vars, files_vars>>

collectAirdropData(s) ==
    /\ snapshot = 0 /\ s <= clock /\ runs < MaxRuns
    /\ snapshot' = s /\ runs' = runs + 1 /\ finished' = {}
    /\ UNCHANGED <<clock, part_vars, files_vars>>

\* Another part's answers arrive: its first requests.
Begin(p, first, asked) ==
    /\ snapshot # 0 /\ part = "none" /\ p \notin finished
    /\ part' = p /\ stage' = first /\ requests' = asked
    /\ UNCHANGED <<clock, snapshot, runs, finished, addresses, failed, files_vars>>

\* A request is answered, and n is added under key k.
Answered(r, k, n) ==
    /\ r \in requests
    /\ requests' = requests \ {r}
    /\ addresses' = plus(k, n)
    /\ UNCHANGED <<clock, snapshot, runs, finished, part, stage, failed, files_vars>>

---------------------------------------------------------------------------
(* Uniswap: the positions are awaited together.                             *)
getUniswapBalances ==
    \/ Begin("uniswap", "positions", {a \in Accounts : UniswapShare[snapshot][a] > 0})
    \/ /\ part = "uniswap"
       /\ \E a \in requests : Answered(a, lower(a), UniswapShare[snapshot][a])
    \/ /\ part = "uniswap" /\ requests = {}
       /\ Written("uniswap", addresses)
       /\ UNCHANGED <<clock, snapshot, runs, failedTmp, airdrop>>

(***************************************************************************)
(* Fuseswap: nobody waits for the positions.  A pair that cannot be read is *)
(* left out.  What the farming contract holds when its events have been     *)
(* read is shared among the stakers, once for each event of theirs.         *)
(***************************************************************************)
Events == {"event"} \X DOMAIN StakedLogs
totalStaked == Sum(FarmStake[snapshot])
farmerShare(a) == (FarmStake[snapshot][a] * stage.yieldFarmingRep) \div totalStaked
DroppedAsSpelled == [k \in DOMAIN addresses \ {mixed(usdcgdYieldFarming)} |-> addresses[k]]
Dropped == [k \in DOMAIN addresses \ {lower(usdcgdYieldFarming)} |-> addresses[k]]

getFuseSwapBalances ==
    \/ \E read \in SUBSET Pairs :
           Begin("fuseswap", [yieldFarmingRep |-> 0],
                 {r \in read \X Accounts : FuseswapShare[snapshot][r] > 0})
    \/ /\ part = "fuseswap"
       /\ \E r \in requests \cap (Pairs \X Accounts) :
             Answered(r, lower(r[2]), FuseswapShare[snapshot][r])
    \/ /\ part = "fuseswap" /\ stage.yieldFarmingRep = 0
       /\ LET rep == At(addresses, lower(usdcgdYieldFarming))
          IN  \/ /\ rep > 0
                 /\ stage' = [yieldFarmingRep |-> rep]
                 /\ requests' = requests \cup Events
                 /\ UNCHANGED <<clock, snapshot, runs, finished, part, addresses, failed, files_vars>>
              \/ /\ rep = 0
                 /\ Written("fuseswap", addresses)
                 /\ UNCHANGED <<clock, snapshot, runs, failedTmp, airdrop>>
    \/ /\ part = "fuseswap"
       /\ \E r \in requests \cap Events :
             Answered(r, mixed(StakedLogs[r[2]]), farmerShare(StakedLogs[r[2]]))
    \/ /\ part = "fuseswap" /\ stage.yieldFarmingRep > 0
       /\ requests \cap Events = {}
       /\ Written("fuseswap", Dropped)
       /\ UNCHANGED <<clock, snapshot, runs, failedTmp, airdrop>>

---------------------------------------------------------------------------
(* Claims: a pool of queries, of the first UBI contract and then the other. *)
ClaimChunks(ubi) == {ubi} \X (IF ubi = "ubi" THEN Chunks(FirstBlock, OldUBIEnd)
                              ELSE Chunks(NewUBIStart, snapshot))
ClaimsIn(r, a) == Cardinality({i \in DOMAIN ClaimLogs :
                     /\ ClaimLogs[i].ubi = r[1] /\ ClaimLogs[i].from = a
                     /\ Covers(r[2], ClaimLogs[i].block)})
Claimers(r) == {a \in Accounts : ClaimsIn(r, a) > 0}

getClaimsPerAddress ==
    \/ Begin("claims", "ubi", ClaimChunks("ubi"))
    \/ /\ part = "claims"
       /\ \E r \in requests :
             /\ requests' = requests \ {r}
             /\ addresses' = [k \in DOMAIN addresses \cup {lower(a) : a \in Claimers(r)} |->
                                At(addresses, k) + ClaimsIn(r, k[1])]
       /\ UNCHANGED <<clock, snapshot, runs, finished, part, stage, failed, files_vars>>
    \/ /\ part = "claims" /\ stage = "ubi" /\ requests = {}
       /\ stage' = "ubinew" /\ requests' = ClaimChunks("ubinew")
       /\ UNCHANGED <<clock, snapshot, runs, finished, part, addresses, failed, files_vars>>
    \/ /\ part = "claims" /\ stage = "ubinew" /\ requests = {}
       /\ Written("claims", addresses)
       /\ UNCHANGED <<clock, snapshot, runs, failedTmp, airdrop>>

---------------------------------------------------------------------------
(* Holders on Ethereum.  The second lookup failing too, `push` answers: the *)
(* length of the list is taken for the balance.  The failed are looked up   *)
(* once more.                                                               *)
getEthPlorerHolders ==
    \/ Begin("eth", "first", EthHolders)
    \/ /\ part = "eth"
       /\ \E a \in requests :
             \/ Answered(a, lower(a), EthBalance[snapshot][a])
             \/ /\ requests' = requests \ {a}
                /\ failed' = Append(failed, a)
                /\ addresses' = plus(lower(a), Len(failed'))
                /\ UNCHANGED <<clock, snapshot, runs, finished, part, stage, files_vars>>
    \/ /\ part = "eth" /\ stage = "first" /\ requests = {}
       /\ stage' = "again" /\ requests' = Range(failed)
       /\ UNCHANGED <<clock, snapshot, runs, finished, part, addresses, failed, files_vars>>
    \/ /\ part = "eth" /\ stage = "again" /\ requests = {}
       /\ Written("eth", addresses)
       /\ UNCHANGED <<clock, snapshot, runs, failedTmp, airdrop>>

(***************************************************************************)
(* Holders on Fuse: a pool of log queries finds the receivers of transfers, *)
(* then their balances are read (now: the block is passed to `then`, not to *)
(* `balanceOf`).  One that cannot be read counts 0 and is listed.  The list *)
(* is written when the last balance has come, the balances in a later turn: *)
(* a process that dies between the two leaves its list beside the balances  *)
(* of an earlier one.                                                       *)
(***************************************************************************)
Receivers(bc) == {l.to : l \in {l \in TransferLogs : Covers(bc, l.block)}}
Unread(a) == Append(failed, a)

getFuseHolders ==
    \/ Begin("fuse", [addrs |-> {}, listed |-> FALSE], {"logs"} \X Chunks(FirstBlock, snapshot))
    \/ /\ part = "fuse"
       /\ \E r \in requests \cap ({"logs"} \X Int) :
             /\ requests' = requests \ {r}
             /\ stage' = [stage EXCEPT !.addrs = @ \cup Receivers(r[2])]
       /\ UNCHANGED <<clock, snapshot, runs, finished, part, addresses, failed, files_vars>>
    \/ /\ part = "fuse" /\ requests = {} /\ addresses = Empty /\ stage.addrs # {}
       /\ requests' = {"balance"} \X stage.addrs
       /\ UNCHANGED <<clock, snapshot, runs, finished, part, stage, addresses, failed, files_vars>>
    \/ /\ part = "fuse"
       /\ \E r \in requests \cap ({"balance"} \X Accounts) :
             \/ Answered(r, lower(r[2]), FuseBalance[clock][r[2]])
             \/ /\ requests' = requests \ {r}
                /\ failed' = Unread(r[2])
                /\ addresses' = plus(lower(r[2]), 0)
                /\ UNCHANGED <<clock, snapshot, runs, finished, part, stage, files_vars>>
    \/ /\ part = "fuse" /\ requests = {} /\ DOMAIN addresses = {lower(a) : a \in stage.addrs}
       /\ ~stage.listed
       /\ failedTmp' = [list |-> Range(failed), newer |-> TRUE]
       /\ stage' = [stage EXCEPT !.listed = TRUE]
       /\ UNCHANGED <<clock, snapshot, runs, finished, part, requests, addresses, failed,
                      files, airdrop>>
    \/ /\ part = "fuse" /\ stage.listed
       /\ failedTmp' = [failedTmp EXCEPT !.newer = FALSE]
       /\ Written("fuse", addresses)
       /\ UNCHANGED <<clock, snapshot, runs, airdrop>>

---------------------------------------------------------------------------
(* Stakers and donors: dai times the blocks it has been there.              *)
StakeTime(a, kinds, at) ==
    Sum([l \in {l \in StakeLogs : l.from = a /\ l.kind \in kinds /\ l.block <= at} |->
            l.dai * (at - l.block)])
\* What is withdrawn was staked before.
ASSUME WithdrawalAssumption ==
    \A a \in Accounts, s \in Snapshots :
        StakeTime(a, {"withdrawn"}, s) <= StakeTime(a, {"staked", "donated"}, s)

StakersNow == {l.from : l \in {l \in StakeLogs : l.kind # "withdrawn" /\ l.block <= snapshot}}

getStakersBalance ==
    /\ snapshot # 0 /\ part = "none" /\ "stakers" \notin finished
    /\ Written("stakers", [k \in {lower(a) : a \in StakersNow \ SystemContracts} |->
                            StakeTime(k[1], {"staked", "donated"}, snapshot)
                            - StakeTime(k[1], {"withdrawn"}, snapshot)])
    /\ UNCHANGED <<clock, snapshot, runs, failedTmp, airdrop>>

---------------------------------------------------------------------------
(* The process ends: done, or killed, or a request without a catch failed.  *)
Exit ==
    /\ snapshot # 0
    /\ snapshot' = 0 /\ finished' = {} /\ Idle
    /\ UNCHANGED <<clock, runs, files_vars>>

\* While a process collects, a build would read what it reads had that
\* process died: it is enough to build between processes.
buildMerkleTree ==
    LET collected == [p \in Part |-> files[p].data]
    IN  /\ snapshot = 0 /\ \A p \in Part : files[p] # NoFile
        /\ Buildable(collected)
        /\ LET tree == toTree(collected)
           IN  airdrop' = [tree |-> tree, data |-> treeData(tree)]
        /\ UNCHANGED <<clock, snapshot, runs, finished, part_vars, files, failedTmp>>

Next ==
    \/ NextBlock
    \/ \E s \in Snapshots : collectAirdropData(s)
    \/ getUniswapBalances
    \/ getFuseSwapBalances
    \/ getClaimsPerAddress
    \/ getEthPlorerHolders
    \/ getFuseHolders
    \/ getStakersBalance
    \/ Exit
    \/ buildMerkleTree
Spec == Init /\ [][Next]_collection_vars

---------------------------------------------------------------------------
(* Whatever order the answers of the pool came in, with two contracts and   *)
(* queries that overlap the end of the first, every claim made before the   *)
(* snapshot block is counted once, and none made after it.                  *)
ClaimsOf(a, blocks) ==
    Cardinality({i \in DOMAIN ClaimLogs : ClaimLogs[i].from = a /\ ClaimLogs[i].block \in blocks})
ClaimsAreWhole ==
    LET f == files["claims"]
    IN  f # NoFile => \A a \in Accounts :
            /\ At(f.data, lower(a)) >= ClaimsOf(a, 0..(f.at - 1))
            /\ At(f.data, lower(a)) <= ClaimsOf(a, 0..f.at)

(* Every receiver of G$ before the snapshot has a record, of what was held  *)
(* or of 0, whichever process died where; and a balance that could not be   *)
(* read is not lost silently: while fuseBalances.json is the newer of the   *)
(* two files, a holder whose record is not what was held is in failed.tmp.  *)
(* When failed.tmp is the newer one it need not name him: it is then of a   *)
(* process that has not written its balances, and may have died.            *)
UnreadIsListed ==
    LET f == files["fuse"]
        everHeld(a) == {FuseBalance[b][a] : b \in {b \in Blocks : b <= clock}}
    IN  f # NoFile => \A l \in TransferLogs : l.block < f.at =>
            /\ lower(l.to) \in DOMAIN f.data
            /\ \/ f.data[lower(l.to)] \in everHeld(l.to)
               \/ f.data[lower(l.to)] = 0 /\ (failedTmp.newer \/ l.to \in failedTmp.list)

(* A file that is written is whole: no claim is lost or counted twice by    *)
(* the pool, no holder dropped by a failed read.                            *)
FilesAreWhole == ClaimsAreWhole /\ UnreadIsListed

(* "dont send rep to the yield farming contract": although nobody waits for *)
(* the positions, no file that is written has a record of that contract.    *)
FarmGetsNothing ==
    files["fuseswap"] # NoFile
        => lower(usdcgdYieldFarming) \notin DOMAIN files["fuseswap"].data

(* Moving eToro's reputation to the foundation and the team neither creates *)
(* nor loses any: the leaves add up to the three allocations, whatever mix  *)
(* of collected files the tree is built from, as long as eToro had what it  *)
(* and the foundation are given.                                            *)
Shared == moved(merged([p \in Part |-> files[p].data]))
Allocated ==
    LET t == Totals(Shared)
    IN  (IF t.claims > 0 THEN CLAIMER_REP_ALLOCATION ELSE 0)
        + (IF t.balance > 0 THEN HOLDER_REP_ALLOCATION ELSE 0)
        + (IF t.stake > 0 THEN STAKER_REP_ALLOCATION ELSE 0)
EtoroHasEnough ==
    eToroRep(calcRelativeRep(Shared)) >= 2 * foundationEtoroRepShare * Unit(Shared)
EveryRepIsHanded ==
    [][airdrop' # airdrop /\ EtoroHasEnough
         => Sum([i \in DOMAIN airdrop'.tree |-> airdrop'.tree[i].rep]) = Unit(Shared) * Allocated
      ]_collection_vars

(* A proof is computed from the saved object, not from the list the root    *)
(* was: both have the same leaves in the same order, and the place of the   *)
(* proof is the place of the leaf.                                          *)
ProofsMatchRoot ==
    airdrop # NoAirdrop =>
        \A i \in DOMAIN airdrop.tree :
            LET p == getProof(airdrop.data, airdrop.tree[i].key)
            IN  p.elements = airdrop.tree /\ p.index = i
=============================================================================
