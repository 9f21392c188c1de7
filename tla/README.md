# GoodProtocol in TLA+

A verification development of the GoodDollar protocol's contracts
(`src/contracts`) and of the scripts that deploy, upgrade and hand it out
(`src/scripts`): TLA+ modules of the stateful components, TLC runs on small
instances, and TLAPS proofs for all values of the constants.

A transaction either completes or reverts, so **an operation of a contract is
one action**: its `require`s, early returns and checked arithmetic are the
guard, a revert is a step not taken. Concurrency is the order in which accounts
transact, and time (block number and timestamp) moves only between transactions.
**A step of a script is one action** too: what happens between two awaits. A
script may die between any two steps and be run again, its requests are answered
in any order, and the chain moves on meanwhile.

Contents: [1 Inventory](#1-inventory) · [2 Modules](#2-modules-and-the-code-they-model) ·
[3 Runs](#3-runs) · [4 Findings](#4-findings) · [5 Bounds](#5-bounds) ·
[6 Fairness](#6-fairness) · [7 Proofs](#7-proofs) · [8 Not modelled](#8-what-is-abstracted-or-not-modelled) ·
[9 Plan](#9-plan)

## 1 Inventory

```
            GReputation <---- ClaimersDistribution <---- UBISchemeV2 ----> IdentityV4
             ^     ^               StakersDistribution        ^                ^
   votes at  |     | mints                 ^                  | UBI            | root account
   a block   |     +-- GovernanceStaking   | stakes           |                |
   CompoundVotingMachine            staking contracts --> GoodFundManager   Faucet, Invites
             |                              ^ interest        | buys, mints UBI
             v executes as the avatar       +-----------------v
          every DAO-owned setting            GoodReserveCDai <-> GoodMarketMaker
   MintBurnWrapper <-> G$ token (side chains): bridges, rewarders, GoodDollarStaking

   scripts:  multichain-deploy, upgradeToV2, deployFullDAO --> chain + deployment.json
             governance, gdx: logs of the chain --> files --> Merkle tree --> GReputation (root state)
             proposals --> guardian or Safe --> Controller --> bridges, reserve, upgrades
```

| Component | State | Operations | Hard behaviour | What makes it correct |
|---|---|---|---|---|
| **CompoundVotingMachine** | proposals with tallies, receipts, `eta`; nine parameters; guardian; reputation contract in use | propose, castVote(BySig), execute, cancel, emitSucceeded, approveProposal, setVotingParameters, guardian and reputation changes | a ballot may start, shorten or extend the lock, in any order; parameters and reputation contract change under live proposals; block/time boundaries | tallies are the ballots; nothing passes without majority, quorum and lock; a closed vote stays closed; one live proposal per proposer; voting ends |
| **GReputation / Reputation** | checkpoint arrays of balances, votes, supply; delegates, nonces, recipients; state hashes of other chains and proved leaves | mint, burn, delegate(BySig), undelegate, setReputationRecipient, setBlockchainStateHash, proveBalanceOfAtBlockchain, updateDAO | past blocks are read long after they ended; several changes within a block; leaves proved late | votes are delegated balances; votes ≤ supply at every block; the past never changes; binary search correct |
| **ClaimersDistribution** | months with claims and reputation, last month paid and last hour counted per account | updateClaim, claimReputation, setMonthlyReputationDistribution | counts claims that the scheme's `currentDay` may date late | a claim counts once; a month pays no more than it was given |
| **UBISchemeV2** | pool, cycle, claims per day, smoothed number of claimers | claim, setDay, DAO settings, withdrawal | who opens a day fixes its income; pool and cycle change under it | the income is always computable; claimers of a day are paid alike; the pool lasts for the cycle |
| **IdentityV4** | identities, ids, connected accounts, counts, re-verification schedule, old identity | authenticate, add/remove whitelisted, contracts, blacklisted, connect, setDID, setReverifyDaysOptions, pause | two maps and three counters kept in step; schedule replaced under accounts | an id belongs to one account; a whitelisting expires; authentication counts; counts never block removal |
| **GoodDollarMintBurnWrapper** | limits per minter, total minted, debt, rewards | mint, burn, onTokenTransfer, sendOrMint, addMinter, setMinterCaps, setUpdateFrequency, pause | caps as shares of a moving supply, counters clipped at 0, debt paid back from the balance | the count of minted G$ covers the growth of the supply; supply within the caps |
| **GoodReserveCDai, GoodMarketMaker** | reserve supply, G$ on the curve, ratio, last expansion; cDAI held; GDX; flags | buy, sell, mintUBI, mintRewardFromRR, expansion, DAO settings, end | rounding of the curve, a ratio cut to 32 bits, several days between expansions, cDAI and G$ that move past the curve | the curve is backed by cDAI; every G$ is on it; minting for interest and expansion keeps the price; expansion counts whole days |
| **Deployment scripts** (`upgradeToV2`, `deployFullDAO`, `multichain-deploy`, the hand-over to the guardians) | `deployment.json`, the contracts on chain, who is minter, scheme, owner | deploy, record, look up, register, hand over; releaser | a crash between a transaction and its record; what a failed deployment leaves; a run that finds half of an earlier one | recorded contracts are wired to each other; the DAO is always governed; a script run again ends, and ends whole |
| **Airdrop scripts** (`governance`, `gdx`) | balances being collected, the files, the tree | collecting from six sources, recovery, checkpoints, tree and proofs | unawaited requests, pools, failed reads, files of several runs, events logged twice | no claim, purchase or GOOD lost or doubled; what was allocated is handed out; proofs match the root |
| **Guardian proposals** (`proposals`) | G$ held, locked and in flight per chain, bridge modes, the Safe's nonce, the reserve's ratio | v4Upgrade, gip-25, executeViaGuardian, executeViaSafe | amounts read before the proposal is executed, people bridging meanwhile, half-executed batches | what is burned was locked; minting bridges lock nothing; Celo's bridge is backed; the ratio fits the supply |
| GoodFundManager, staking contracts | last collection, reward blocks, blacklist; stakes and reward debts | collectInterest, stake, withdraw, claimRewards | several contracts collected in one call, one failing; reward of a blacklisted contract | rewards paid once; interest collected covers gas limits |
| GoodDollarStaking, GovernanceStaking | shares, savings, rewards per share | stake, withdraw, compound | a reward that cannot be minted is undone; rounding of shares | savers are never paid more than accrued |
| StakersDistribution | monthly GOOD per staking contract | updateRewards, claimReputation | stakes of several contracts | a month pays no more than it was given |
| **InvitesV2**, one-time rewards | users, codes, levels, pending invitees, bounties | join, bountyFor, collectBounties, setLevel, setActive, setCampaignCode, setMinimums, end | the same bounty through several callers; a list shortened while it is gone through; levels that rise amid the loop | a bounty counts and is paid once; no invitee is lost |
| Faucet, AdminWallet | daily and weekly toppings | topWallet, onTokenTransfer | day and week boundaries | limits hold |
| OneTimePayments | escrow by link | deposit, withdraw, cancel | two parties race for one link | a payment leaves once |
| G$ token, SuperGoodDollar | balances | ERC677/Superfluid | mostly vendored code | – |
| Distribution helpers, BuyGD | recipients | swap, bridge | external exchanges | – |
| NameService, DAOContract, upgrades | addresses | setAddress | – | as part of the deployment scripts |

Every hazard found in this code is listed, at its line, in `PROJECT.json`
("hazards") with the property that covers it. The rows in **bold** are
modelled.

## 2 Modules and the code they model

| Module | Code | State and actions |
|---|---|---|
| `CompoundVotingMachine` | `governance/CompoundVotingMachine.sol` | the contract's variables by name; one action per external operation; `NextBlock` is the chain. Reputation is what its snapshots answer (`reputation[b]`), chosen freely from `Snapshots` for each mined block |
| `ProposalLifecycle` | abstract | the stages of a proposal (`enum ProposalState`) and which may follow which; what revives an expired one; who may start the next one. `CompoundVotingMachine!FollowsLifecycle` instantiates it: `stage` ← `state(i)`, `author` ← the proposer, `grace` ← `params.gracePeriod` |
| `Checkpoints` | `Reputation.sol`, `updateValueAtNow`, and what `getValueAt` means | histories as sorted sequences; no state |
| `CheckpointSearch` | `Reputation.sol`, `getValueAt` | the loop itself, one action per turn; `ValueAt` of `Checkpoints` is the reference |
| `GReputation` | `GReputation.sol` over `Reputation.sol` | histories per user, delegates, state hashes; one action per external operation |
| `ClaimersDistribution` | `ClaimersDistribution.sol` | its operations as actions on its own variables, with the time passed in |
| `UBISchemeV2` | `ubi/UBISchemeV2.sol` | EXTENDS `ClaimersDistribution` and composes: `claim` calls `updateClaim` when the name service knows the distribution, `UpdateClaim` and `ClaimReputation` are anyone's calls |
| `IdentityV4` | `identity/IdentityV4.sol` | identities, ids and counts; what the old identity knows is a variable that only shrinks |
| `InvitesV2` | `invite/InvitesV2.sol` | users, codes, levels and the G$ paid; the ledger is a record that `join`, `bountyFor` and each turn of `collectBounties`' loop map to the next. What identity and basic income answer is chosen in each transaction |
| `MintBurnWrapper` | `utils/GoodDollarMintBurnWrapper.sol` | limits per minter and the sums of the token; `UpToDate(m)` is `_updateDailyLimitCap` |
| `MarketMaker` | `reserve/GoodMarketMaker.sol`, what `BancorFormula.sol` computes | the curve as a record; each operation an operator from curve to curve, with the condition under which it does not revert. `buyReturn` and `sellReturn` are relations: n is the largest whole amount the curve allows. `power` is a recursive function, so that its laws can be proved |
| `GoodReserve` | `reserve/GoodReserveCDai.sol` | EXTENDS `MarketMaker`; one action per operation of the reserve, with the market maker's part in it; `Send` and `Burn` are what holders of cDAI and G$ do past it |
| `AirdropCollection` | `governance/airdropCalculation.ts`: collectAirdropData, the six collectors, buildMerkleTree, getProof | the balances being collected, requests not yet answered, files; one action per answered request, `save` per file; `AirdropTree` has the shares and the tree as operators: entries are moved and added up account by account, and the leaves are ranked as the sort ranks them (`Larger`: of equal shares the last is first) |
| `Spelling` | the keys of the scripts' objects | the two spellings of an address, lower case and as it came; a look-up finds the spelling it asks for |
| `AirdropRecovery` | `airdropCalculationSorted.ts`, `airdropCalculationRecover.ts`, `gdx/gdxAirdropCalculation.ts` | the scan of a reserve's or reputation's logs by groups of block ranges (`Answer` per query, `NextGroup` when all of a group are answered), while blocks are mined and the process may die and begin again; the trees built from them, which look an account up under its lower case key only |
| `GoodCheckpoint` | `goodCheckpointSorted.ts` | epochs queried from an indexer, cut into sub-epochs at its limit; the tree of each network |
| `ScriptSteps` | the calls deployment scripts are made of | a script is a sequence of steps (deploy, record, transact, read, decide), each with what it needs and writes |
| `UpgradeToV2`, `FullDAO`, `MultichainDeploy` | `upgradeToV2.ts`, `upgradeToV2Recover.ts`, `deployFullDAO.ts`, `multichain-deploy/0…8`, `transferDaoToGuardians.ts` | the scripts as sequences of steps, line by line; `Scripts` says which follows which, `fulldeploy.sh` included |
| `ScriptRun` | `multichain-deploy/helpers.ts`, `releaser.js` | the process: program counter, what it knows, `deployment.json`, the chain; `GoOn` takes the next step, `Crash` and `Start` are the operator's |
| `GuardianProposals` | `proposals/v4Upgrade.ts`, `gip-25-xdc-upgrade-ubi.ts`, `gip-25-xdc-deploy-reserve.ts`, `executeViaSafe`, `executeViaGuardian`, `UpdateReserveRatio.sol`, `ProtoclUpgradeV4Mento.sol` | G$ per chain in sums, bridges, the proposal under way; people bridge between any two steps |
| `MC*` | – | small instances for TLC. `MCHistories`, `MCDeployments`, `MCOperations` and `MCAirdrop` put parts that share no state into one run: a behaviour is one of them |
| `*_proofs`, `Lemmas` | – | theorems and proofs (section 7). A module of proofs EXTENDS the modules it is about: `Bridges_proofs` the wrapper and the proposals, `People_proofs` identity and invites, `Airdrop_proofs` the three airdrop modules |

Each module composes with the next through what the code passes between the
contracts. The voting machine assumes `SnapshotsAssumption` (no block has more
votes than supply), which is `VotesWithinSupply` of `GReputation`, and reads
blocks before the current one, which `LocalPastIsSettled` says do not change.
Definitions marked "faulty variant" are not used by any specification: each is
a plausible bug of the code and shows that the property it belongs to would
catch it (`PROJECT.json`, "mutants").

## 3 Runs

| Run | Checks | What it shows |
|---|---|---|
| `cvm_votes` | `TallyMatchesBallots`, `PassedAfterTimelock`, `MajorityIsFinal`, `VotersHaveTime`, `VotingEnds` | three voters time their ballots (one of them signed, brought in by anyone) around the quorum, a turned decision and an absolute majority: tallies are ballots, nobody is outrun, and voting ends although ballots restart and extend the lock |
| `cvm_proposals` | `OneLiveProposal`, `OutcomeIsFrozen`, `FollowsLifecycle` | two proposals of changing proposers, while parameters, guardian and reputation contract change: every history is one of the abstract life cycle, and what has expired is executable again only when the grace period grows |
| `reputation` | `ReturnsValueAt`, `VotesAreDelegatedBalances`, `SupplyIsBalances`, `PastIsSettled`, `LocalPastIsSettled` | two users mint, burn, delegate (also by signature), redirect and prove leaves, several of these in one block; or the binary search is called on every history over seven blocks, for every block |
| `reputation_early_votes` | `VotesAlwaysReadable` | violated, see finding 1 |
| `mint_wrapper` | `MintedCoversSupply`, `SupplyWithinCaps` | a bridge and a rewarder against each other's counters, over two days, with caps lowered, roles paused and debts paid back |
| `mint_wrapper_refuses` | `RewardsAreServed` | violated, see finding 2 |
| `ubi` | `PaidAlike`, `CycleIsCovered`, `NeverDividesByZero`, `ClaimsCountOnce` | two claimers over three days and a month's end, with the DAO changing the cycle, factor, pool and registration under them |
| `identity` | `DidsAreUnique`, `AuthenticationCounts` | two accounts and two ids through listing, expiry, blacklisting, contracts, connection and a changing schedule |
| `invites` | `PendingIsExact`, `BountiesCountOnce` | three accounts that invite each other, with every way to ask for a bounty: lists of pending invitees stay exact and each bounty is counted and paid once |
| `reserve` | `ReserveIsBacked`, `MintingKeepsPrice` | G$ bought, sold with contribution and discount, minted for interest, rewards and expansion over a day and a half, burned and donated to past the curve, with one decision of the DAO at any point |
| `airdrop` | `FilesAreWhole`, `FarmGetsNothing`, `ProofsMatchRoot`, `EveryRepIsHanded`, `PurchasesAreCredited`, `RecoveredIsOwed`, `NoHolderMissed` | six sources collected at once, with failing reads, a process that dies and a second snapshot; purchases and proofs that are logged twice; epochs cut at the indexer's limit: what is written is whole, or says what is missing |
| `operations` | `FinishedIsWired`, `DaoIsGoverned`, `RunEndsWhole`, `EveryScriptEnds`, `BurnIsCurrent`, `NothingStaysLocked`, `BridgeIsBacked`, `RatioFitsSupply` | each deployment script dies at any step and is run again, up to three times, with one failed transaction; each proposal runs while people bridge, by the guardian or the Safe: what is recorded fits, the DAO stays governed, and amounts are those of the chain |

Each property is stated in words where it is defined.

## 4 Findings

1. **Votes before a chain's first state cannot be read**
   (`reputation_early_votes`, code bug). The loop of `getVotesAtBlockchain`
   indexes the array at −1 before `if (i < 0) return 0`
   (`GReputation.sol:354`), so after the first state hash of a chain `getVotesAt`
   reverts for every earlier block and ballots on running proposals fail.
   `totalSupplyAtBlockchain` answers 0 for the same block.
2. **A rewarder may be refused** (`mint_wrapper_refuses`, code bug). A daily
   cap computed anew below what was minted today makes
   `dailyCapIn - mintedToday` revert (`GoodDollarMintBurnWrapper.sol:337`),
   though a test says "should not mint but not revert".

Five more properties state what a comment says and do not hold; no run keeps
them. `IdentityV4!StepsStayInSchedule`: after `setReverifyDaysOptions`
(`IdentityV4.sol:119`) with a shorter list, `authCount` points beyond it and
`reverifyDaysOptions[authCount]` (line 246) reverts, so `isWhitelisted` and
`authenticate` fail for these accounts until they are listed anew; the comment
(lines 164-165) says the index stays within bounds.
`GoodReserve!RatioIsWeight`: the contribution of a sale raises the ratio
(`GoodMarketMaker.sol:311`) and nothing keeps it at 100%; the formula takes
weights of "1-1000000" only (`BancorFormula.sol:329`), so every later buy and
sale reverts until days of expansion have lowered the ratio.
`CompoundVotingMachine!CancelOnlyWhenVotesLost`: `cancel` compares with the
threshold at `startBlock`, which grows with the supply after `propose`, so a
proposer who lost no votes may be cancelled by anyone.
`UBISchemeV2!DayHasItsIncome`: the public `setDay` moves `currentDay` without
computing the income, so `checkEntitlement` answers with the income of the day
before. `GReputation!RootSuppliedOnce` states that the airdrop's root is
"supplied once", as the code's comment says. The code only asks that the local
supply be 0, so a root whose reputation was all burned can be supplied again;
`SupplyIsBalances` therefore holds under it as a condition.

Three things the scripts do that no comment speaks of, and that the properties
therefore make room for:

- *failed.tmp may be of another run than the balances.* `getFuseHolders` writes
  `failed.tmp` (`airdropCalculation.ts:622`) and its caller writes
  `fuseBalances.json` in a later turn (line 851). When a second run dies between the
  two, the balances are still those of the first and the list is the second's: a
  holder the first run could not read counts 0 and may be listed nowhere.
  `UnreadIsListed` says what is kept: he has a record, and while the balances are the
  newer file he is listed.
- *An old leaf under a key that is not lower case is missed.*
  `airdropCalculationSorted.ts:262,273` and `airdropCalculationRecover.ts:256,264` look
  `treeData[addr.toLowerCase()]` up, while `airdropPrev.json` has keys as they were
  collected. An account with such a leaf gets a second one with the new amount alone;
  together they are what it is owed (`RecoveredIsOwed`), but an account proves one
  leaf of a state (`GReputation.sol:463`). In the committed data one key of
  `airdrop/airdropPrev.json` is mixed (0xAA0ded62…), and
  `airdrop/repRecoverFuse.json` does not have that account.
- *`0_proxyFactory` cannot be repeated.* Its transaction is signed beforehand with
  nonce 0, so the chain takes it once (`0_proxyFactory-deploy.ts:66`). A process that
  dies between that and `releaser` (line 100) leaves a factory that no later run
  records; the address has to be entered by hand.

## 5 Bounds

Each bound is a constant named in the module that has it, and appears in a
guard; theorems hold for every value of it.

- `cvm_votes`: 3 voters with 5, 3 and 2 of 10 votes: quorum (3) with and without
  each voter, half of the votes and just above. One proposal is enough, since
  tallies and locks of different proposals do not touch. Block and time up to 14
  let each voter extend the lock as late as possible and still see it end.
- `cvm_proposals`: 2 proposals (one may follow or accompany the other), 2 voters,
  two reputation contracts that disagree, one change of periods and one that is
  refused.
- `reputation`, the search: all 128 histories over 7 blocks: lengths 0 to 7, rounding
  both ways at each depth.
- `reputation`: 2 users (self- and cross-delegation), 2 blocks (past and
  present), an airdrop of which one leaf is known and two states of one
  other chain; amounts of 1 with `MaxSupply` 2.
- `mint_wrapper`: initial supply 2, two days, at most 2 minted or burned a day
  and minter; caps that just allow or refuse each amount. Daily caps
  are a half or a quarter of a supply of 2 and more, so one of them rounds to 0,
  which is "no cap".
- `ubi`: hours 8 to 12 with 2-hour days offset by an hour and 2-day months give
  three days, one month's end, days without claims and claims in both halves of a
  day. Cycles of 2 and 3 days both end and are cut short. Two DAO decisions and one
  income meet any two claims. The claimers are interchangeable (symmetry; the run has
  no temporal property).
- `identity`: admins date authentications on days 0 (none given) to 3, past or to come;
  days 1 to 3 against schedules of one or two steps of 1 or 2 days, and
  an upgrade time on day 2, so both the legacy and the new step occur; at most 3
  listings counted, though there are two accounts: `removeBlacklisted` makes the
  count run ahead.
- `invites`: 3 accounts, so that a list holds two invitees or a
  chain of inviters arises; codes 0x0, one that is the address of an account, and
  one the owner may take for a campaign; two levels with bounties 2 and 4, of which
  the first expires after a day; days 0 and 2; 6 G$, so a bounty may be refused; one
  decision of the owner; 3 entries in all pending lists, since whoever joins with 0x0 may
  join without end. Accounts without a code of their own are interchangeable
  (symmetry; the run has no liveness property).

- `reserve`: a ratio of 100% is 4, a "32-bit" ratio is below 16, and a price keeps
  two more digits, so that truncation of ratio, price and expansion all occur; a
  sale of 7 of 8 G$ with a contribution of 3 lifts the ratio to 16, which is cut
  to 0. Amounts 0 and 2, at most 6 cDAI, 12 G$ on the curve and 4 GDX; time for one
  and a half days after the start; one decision. Powers are exact, which keeps
  these amounts small; the properties are about what is rounded and what is
  counted, and the theorems cover the amounts.

- `airdrop`: two blocks to take a snapshot at, so that a second run mixes with the
  first; ranges of 2 blocks with an event on each boundary; a shop paid twice, of
  which a read may fail; a pair with the farm and another pair, so the unawaited
  positions meet the write; two purchases through the helper, one at the snapshot;
  old leaves of which one is under a mixed key; an epoch of 12 with a page of 1 and no more than one skip, which is cut twice.
- `operations`: `MaxRuns` 3 (a run that died, the one that finds its remains, and
  one more), `MaxCrashes` 1, `MaxFailures` 1. Each script starts from the chain and
  file its predecessors leave. For the proposals: `People` hold 1 G$ on each chain but
  xdc, `Own` 2 G$ in the treasury, `Stolen` 1, `XdcShare` 4, and `MaxMoves` 2 G$ bridged
  at any step, with `MaxTries` 2 and `MaxDeaths` 1 of the scripts: two moves are enough
  to pass a proposal on both sides, between the read and the call and between the call
  and its execution.
  Nothing in the proposals depends on how often G$ move, only on what moved since
  the amounts were read, and the tolerances of `BridgeIsBacked` and
  `RatioFitsSupply` are exactly that.

Steps that no other actor can see are taken together: one turn of the event loop
is one step, the write of `deployment.json` is atomic, builds (pure computation
between processes) take no step, and the operator runs one process at a time.
The parts of `reputation`, `airdrop` and `operations` share no state, so a behaviour is one of
them.

`CHECK_DEADLOCK FALSE` appears where a bounded model may really stop: the basic income and the reserve when time, decisions and
amounts are used up, invites when all is paid, scripts when they have ended.

## 6 Fairness

Nobody has to transact, so no operation of a contract is assumed fair.
`VotingEnds` assumes only that the chain mines blocks (`WF_vars(NextBlock)`).
The bound on blocks does not help it: the instance ends well after the last
possible lock.

`EveryScriptEnds` assumes that a process that runs takes its next step, and that
the operator runs a script again that died (`WF` on `Proceed`, `Start`, `Throw` and
`Finish` of `ScriptRun`),
neither of which needs anybody else. The operator gives up after `MaxRuns`; a
script may then stand still only for a reason `Explained` names, a point at which
it is known to stop for good:

- `0_proxyFactory`, died after its transaction was mined and before the factory was
  recorded: the transaction, signed with nonce 0, cannot be sent again;
- `upgradeToV2` on a live network, died between deploying a contract and recording
  it: the address is taken and not recorded;
- `upgradeToV2` and its recovery, died after the old minter or the upgrade's own
  scheme was removed: the upgrade's steps cannot be repeated;
- `1_basicdao`, died after `renounceMinter`, or with the proxy of the NFTs
  initialised;
- `3_gdSavings` on a DAO whose `1_basicdao` died between `forgeOrg` and `setSchemes`:
  it proposes, outside production, through a scheme that is not there;
- `5_gov` on a chain that is not in the `deployment.json` it imported when it
  started: it reads `GReputation` from there and never finds it.

But for the last these count only after a crash or a failed transaction, and without any
of them the run finds `EveryScriptEnds` violated. `RunEndsWhole`
excuses less: of a DAO whose forging died half-way the schemes, which no later run sets,
and everywhere what a failed transaction of the script's own, which it printed, would
have set. `FinishedIsWired` likewise leaves out a contract that was taken to exist
because its deployment failed.

## 7 Proofs

All proofs are checked by TLAPS from nothing, and assume only the named
`ASSUME`s on the constants, which TLC evaluates in the runs. Six theorems have a
hypothesis of their own, listed below the table. `Lemmas` holds what several
components need: least and greatest numbers, induction, sums over finite sets
(`SumFunctionOnSet`), and sorted histories.

| Theorem | Says | Argument |
|---|---|---|
| `ProposersHaveOneLiveProposal`, `NothingPassesWithoutLock`, `ClosedVotesStayClosed` (`CompoundVotingMachine_proofs`) | `Spec => []OneLiveProposal`, `[]PassedAfterTimelock`, `OutcomeIsFrozen` | `state(i)` is computed from the clock, so it is not inductive. `Closed(i)` says the same in terms that only grow; `Inv` adds that all but a proposer's latest proposal are closed (`propose` looks at that one only), that a ballot which makes a majority with quorum starts the lock (otherwise the end of the period could pass it without one), and that what is executed has passed |
| `MachineFollowsLifecycle` | `Spec => FollowsLifecycle`: the machine implements `ProposalLifecycle` | one lemma per kind of step says which states follow which; voting takes at least one block and no ballot comes before it starts (`PendingHasNoLock`), so no proposal skips `Active`. An expired proposal is past `eta + gracePeriod`, and `eta` is fixed by then: only a longer period puts it before that again |
| `TalliesMatchBallots` | `Spec => []TallyMatchesBallots` | `TallyInv` adds `NoEarlyBallots`: `propose` resets the tallies of an id but not its receipts, so an id not proposed yet must have none. A ballot adds its voter to one sum and leaves the other |
| `BallotsLeaveTime` | `Spec => VotersHaveTime` | `LockMeansQuorum` (a lock has a quorum behind it): only then do the cases of `_updateETA` cover every ballot |
| `MajoritiesAreFinal` | `Spec /\ [][RulesStay]_vars => []MajorityIsFinal` | `FinalInv`: tallies are ballots, a ballot weighs what its voter had at the start (`BallotsAreVotes`), and a majority has the fast lock. Two absolute majorities would need more votes than the snapshot's supply |
| `SearchIsCorrect`, `SearchNarrows` (`GReputation_proofs`) | `SearchSpec => [](ReturnsValueAt /\ AnswerInRange)`, and each turn shrinks the range | `SearchInv`: the answer lies between `min` and `max`; rounding up makes `mid > min`, so taking `mid` shrinks the range too. Rests on facts about sorted histories |
| `HistoriesAreSorted` | `Spec => []TypeOK` | `RepInv` adds that no checkpoint is in the future: without it, `updateValueAtNow` could append an earlier block |
| `PastIsNeverRewritten` | `Spec => LocalPastIsSettled` | each operation leaves each history `Kept`: sorted, up to now, and with the same value at every earlier block (lemma `UpdatedHistory` of `Lemmas`) |
| `VotesCountBalances` | `Spec => []VotesAreDelegatedBalances` | `DelegationInv` adds `NoneIsLost` (a balance no delegate counts is 0, so a first delegation takes from nobody) and that all votes are all balances. What one operation moves is a `Move` of one user's balance between two delegates; a double move within a block is two of them |
| `AirdropIsMintedOnce` | `RootTreeIsItsOwn => (Spec => []SupplyIsBalances)` | `SupplyInv` and `ExactInv`: what is proved is at most the leaf (`LeavesBound`) and a leaf of a published state, and the supply covers the balances with what can still be proved |
| `QuorumsAreOfTheWhole` | `Spec => []VotesWithinSupply` | `PastInv`: at every block the local votes were within the local supply; of another chain only leaves of the state in force count, and they are within its total |
| `FinishedBlocksStay` | `Spec => PastIsSettled` | a state published now is in force from now on, and a proof adds a leaf to whatever states of earlier blocks have the same tree, never takes one away |
| `TotalsCoverSupply` (`Bridges_proofs`) | `Spec => [](TypeOK /\ MintedCoversSupply)` | inductive as it stands: whatever is taken from `totalMinted` is taken from the supply in the same step, and clipping at 0 only raises the count |
| `SupplyStaysWithinCaps` | `CapsAreSet => (Spec => []SupplyWithinCaps)` | `CapInv`: each minter's `totalIn` and `totalOut` are within the largest cap it may have had, and their sums cover how far the supply is from where it began; the debt of rewarders is taken out by nobody else |
| `IncomeIsComputable` (`UBISchemeV2_proofs`) | `Spec => []NeverDividesByZero` | `Inv`: `minActiveUsers` may decay to 0 by rounding, but then the last distributed day has claimers (`SomeoneExpected`), and a factor of at least 100% keeps them (`ReservedForSome`). `ClaimersKnown`: a day someone claimed on counts at least one claimer |
| `TypesHold`, `ClaimersArePaidAlike`, `CycleStaysCovered`, `ClaimsCountAtMostOnce`, `MonthsAreNotOverpaid` | `Spec => []TypeOK`, `[]PaidAlike`, `[]CycleIsCovered`, `[]ClaimsCountOnce`, `[]MonthWithinDistribution` | one `Invariant`. `DaysInv`: no day after the one last distributed has claims, so the income of a day is fixed before its first claim. `CountInv`: what is counted towards GOOD, and the claim `updateClaim` would still count (`Due`), are at most the claims made. `MonthsInv`: the shares of a month, summed over its claimers, are at most the whole, since each is rounded down |
| `IdsAreUnique` (`People_proofs`) | `Spec => [](TypeOK /\ DidsAreUnique)` | inductive as it stands: an id is given only while unregistered, and an account that loses it is wiped in the same step |
| `AuthenticationsCount`, `WhitelistingsExpire` | `Spec => AuthenticationCounts`, `[]WhitelistExpires` | `Scheduled`: the days of the schedule ascend. An authentication leaves `authCount` within the schedule of that moment, whatever shorter list came before |
| `WhitelistIsCounted` | `Spec => []CountCoversWhitelist` | inductive with the types; by cardinalities of the set of listed accounts |
| `ReserveIsSound` (`GoodReserve_proofs`) | `Spec => [](TypeOK /\ ReserveIsBacked /\ EveryGDIsOnCurve /\ ExpansionKeepsTime)` | `Inv` is their conjunction; each operation of the curve has a lemma on what it adds and takes, whatever the formula returns |
| `ExpansionLowersRatio` | a ratio above 0 never grows by expansion, so `calculateMintExpansion` cannot underflow on it | the days' loop is the recursive function `expanded`; by induction over the days its values exist, are natural numbers and do not grow |
| `MintingIsAtPrice` | `Spec => MintingKeepsPrice`: neither `mintUBI` nor a purchase lowers the price | for interest and expansion (`MintingUBIKeepsPrice`): what is minted is rounded down, and the ratio expansion leaves is the one it divides by. For a buyer: (S + n)^W · R^r ≤ S^W · (R + a)^r with r ≤ W (`CurvePrice`), by the laws of powers, each by induction over the exponent |
| `LedgerKeepsItsType`, `InviteesArePendingOnce`, `BountiesAreCountedOnce` (`People_proofs`) | `InvitesAssumption => (InvitesSpec => []InvitesTypeOK)`, and `[]PendingIsExact`, `[]BountiesCountOnce` | `Sound`, of the ledger in between as well: exact lists, exact totals, and that who has no code has no inviter (`NoCodeNoInviter`, or `join` could enter somebody a second time). Paying is a relation between two ledgers (`Payment`). The loop of `collectBounties` is a recursive function of the turns; by induction (`LoopIsExact`) the ledger stays sound after each turn, the indices still to come are in the list, and what the sender is owed is what was added up |
| `HoldersAreNotMissed` (`Airdrop_proofs`) | `CheckpointSpec => []NoHolderMissed` | `CheckpointInv`: every member is collected, or awaited by a query whose range has it and which has not skipped it, or an error was printed. The chunks a query that met the indexer's limit is cut into cover its range; a chunk of a second is never cut again |
| `PurchasesAreCreditedOnce`, `RecoveredGoodIsOwed` | `RecoverySpec => []PurchasesAreCredited`, `[]RecoveredIsOwed` | `RecoveryInv`: every range below the group under way has been read, others in part (`ScanInv`), and a file holds what a whole scan up to its block adds (`SavedInv`). The ranges cover the blocks and a log found in two of them is the same log; sums over logs, in whatever order they were found, are sums over transactions. A saved tree has the old leaves and, under lower case keys, those of `repRecoverFuse`; a mixed key is only an old one |
| `CollectedFilesAreWhole`, `FarmIsLeftOut` | `Spec => []FilesAreWhole`, `[]FarmGetsNothing` | `CollectionInv`: for the source under way, what its answered requests stand for is in its balances (each claim once, a receiver whose read failed in the list of the failed, which `failed.tmp` is once it is written), and what is still asked is the rest; a file that was written is one of a source that ended, in this run or an earlier one |
| `ProofsAreOfTheRoot`, `WholeAllocationIsHanded` | `Spec => []ProofsMatchRoot`, `Spec => EveryRepIsHanded` | `RecordsInv`: what is collected are natural numbers under keys, and the saved tree is the one built from it, a leaf per key. Moving and dividing among the team is done account by account; that it neither loses nor doubles a share is shown by the smallest set of accounts for which it would. Shares are counted in a unit that every total and the size of the team divide, so no division rounds. `InOrder` lists each member once, by induction over the ranks |
| `NothingIsLeftLocked` (`Bridges_proofs`) | `ProposalSpec => []NothingStaysLocked` | `LockInv`: a chain that locks has no right to mint, and one that mints has nothing locked; the first step of gip-25 empties the bridge before it gives the right, whichever runs died or were proposed before |
| `RatioIsOfTheSupply` | `ProposalSpec => []RatioFitsSupply` | `RatioInv`: a script's readings, chain after chain, differ from what is there by at most what was bridged or was in flight since it began; what was read of Celo first is compared with its supply again |
| `CeloHoldsTheOthers` | `ProposalSpec => []BridgeIsBacked` | `BackedInv`: until a proposal is executed, mainnet locks what the others hold, up to what is in flight; what a run of `upgradeCelo` read of the others is off by the drift since it began, and the first execution adds what was read, less what the bridge minted |
| `LockedSupplyIsBurned` | `ProposalSpec => []BurnIsCurrent` | `BurnedInv`: nonces and reruns in order (`PaceInv`), the treasury of mainnet (`MainInv`) and of Celo (`CeloInv`) followed call by call. The first proposal that is executed finds the bridge locking, and every other one finds it empty; so a call to burn fails only if somebody bridged in between or another proposal was executed |

The hypotheses, and why the theorems need them:

- `RulesStay` (of steps): the reputation contract stays and `fastQueuePeriod` does
  not shrink. A proposal reads its supply and votes from whatever contract is in use,
  so with another one yesterday's majority may be none.
- `RootTreeIsItsOwn`: the avatar publishes the airdrop's tree for no other
  blockchain. Proofs are recorded per tree, so a leaf proved for the other blockchain
  could not be proved for the airdrop.
- `CapsAreSet`: every minter has a cap in, every bridge one out, and no rewarder was a
  bridge. A cap of 0 is none (`GoodDollarMintBurnWrapper.sol:516`).
- `InvitesAssumption`: the types of the constants, and that the owner makes no
  campaign of the code 0x0 and no account's address reads as it.

The last three are `ASSUME`d by the MC modules, so TLC evaluates them in the runs:
`mint_wrapper`, `reputation` and `invites` are instances that satisfy them. In
`cvm_votes` rules stay, since nobody sets parameters there.

Of the assumptions on constants these say more than a type:

- `CheckpointAssumption`: no second has more new members than the indexer serves in all
  pages (`MAXSKIP`). `quarter(1)` is 0, so a query of one second that is cut cannot be
  cut smaller; the gas limit of a block keeps such seconds from happening.
- `RecoveryAssumption`: transactions are finite and have names of their own, none comes
  before the first block that is scanned, the swap helper is no user, and the old
  leaves are under keys of users, in either spelling.
- `AirdropAssumption`: accounts are finite, there is a team, and neither the foundation
  nor the old shop is an eToro account, as in the script's tables.
- `CollectionAssumption`, `WithdrawalAssumption`: balances are natural numbers, claims of
  the old and the new scheme lie in the ranges scanned for them, the farm has stakers
  at each snapshot (its position is divided among them), and what was withdrawn from
  staking was staked before.
- `ProposalAssumption`: holdings are natural numbers and XDC has a share
  (`XdcShare` divides).
- `CurveAssumption`, `ReserveAssumption`: 100% fits the width of a ratio, the first
  daily factor is below 100%, the curve begins within the cap of G$, and a contribution
  is at most the whole.

Accounts, voters, chains, ids and arguments of the owner are finite sets in the
assumptions: addresses and words are of fixed width. Sums and cardinalities are over
these. Months are `Month`, finite since the time watched is (`MonthsAreKnown`).

The library's induction theorems take an operator, which the provers cannot
instantiate. `Lemmas` proves induction for sets of numbers instead
(`LeastNumber`, `Induction`), from the well-foundedness of the order of numbers, and
uses it for sums, for the days of expansion and for the loop of `collectBounties`.

`GReputation_proofs` also shows where checked arithmetic matters: burning and
moving votes must not go below 0, which the code's reverts (the guards of `burn`
and `_delegateTo`) ensure; that the votes moved are there is `VotesCountBalances`.

Only model-checked:

- liveness (`VotingEnds`, `EveryScriptEnds`), out of the prover's reach with
  `ENABLED`;
- the deployment scripts (`FinishedIsWired`, `DaoIsGoverned`, `RunEndsWhole`): these are
  programs of fixed length with hundreds of steps, run over a chain of fixed
  contracts. They have no constants to generalise over but the number of runs,
  crashes and failed transactions, and an inductive invariant would name each step.

Some modules state more than the runs keep (type invariants, `VotesWithinSupply`,
`MonthWithinDistribution`, `WhitelistExpires`, `CountCoversWhitelist`,
`AnswerInRange`, `EveryGDIsOnCurve`, `ExpansionKeepsTime`); all of these are proved.

## 8 What is abstracted or not modelled

Abstracted in the modelled components:

- The calls of an executed proposal are the avatar's actions of the model, taken
  next; a failing call reverts the execution.
- Signatures are members of a set of signed messages, anyone may bring them in;
  nonces and expiry are kept.
- A Merkle tree is the function it commits to; a valid proof is membership.
- Of the G$ token the wrapper's model keeps two sums: what the wrapper holds and
  what all others hold.
- Role administration of `IdentityV4` and of the wrapper (beyond `addMinter`),
  `orgChain` and `dateAdded` of an identity, per-day statistics of the basic income
  (`lastClaimed`, older `dailyUBIHistory`), gas and events are left out. No guard
  or property reads them.
- `InvitesV2`: the code 0x0 reads as "has not joined", so its holder may join again
  and is then in the lists of two inviters; what the old one collects for is earned
  by the new one (`InvitesV2.sol:135`, `:279`, `:326`). `PendingIsExact` excepts that holder,
  and the second half of `BountiesCountOnce` asks that nobody took 0x0. `totalInvited`,
  `invitees` and `levelExpirationEnabled`, which no operation reads, are left out; codes
  that cast to the same address are one. The contract's G$ are there from the start.
- The power function of `BancorFormula` is its exact value rounded down; its
  fixed-point error is not modelled. Where it were off by a unit, only
  `MintingKeepsPrice` for a purchase would notice (and so would its theorem). G$ and GDX are sums, since
  any holder may trade; transfer fees are 0.
- The contribution calculator is not in the repository: `Contributions` are the
  shares it may answer with.
- G$ of the reserve's chain are minted by the reserve only (`pre` refuses
  `mintTokens` elsewhere), and the curve starts with the G$ that circulate, as
  `ReserveRestore` sets it.
- In `IdentityV4`, what asks about an account whose authentication is dated in the
  future, or whose step is beyond the schedule, reverts: these are steps not taken.
- Time is in hours (basic income, whose cycle start is rounded to hours), days
  (identity), or units of the instance.

In the scripts:

- Addresses are what they are computed from (a salt and a deployer, or a nonce); a
  slot of a contract is a name and a value. A new chain's G$ is a
  `SuperGoodDollar`: the branch of `1_basicdao-deploy.ts:116-133` for a chain without
  Superfluid is left out. Arguments that no other contract
  depends on, verification on explorers and gas are left out. `deployGnosisSafe`
  and `upgradeDeterministicToNewImplViaGuardian` are not modelled.
- G$ of people are one sum per chain; the Safe runs no transactions but those
  proposed here and one other that may be executed meanwhile (`overtaken`); the
  Fix scripts of gip-25 run after the step they repair; one `set` call stands for
  consecutive settings no property is about. The balances of the accounts that hold
  locked G$ are read in parallel (`v4Upgrade.ts:631-637`) and are one reading here:
  what moves between them is within what `BridgeIsBacked` tolerates.
- Guardians' batches: a `genericCall` that fails inside is mined as a success, as
  `Controller` does it, so `BurnIsCurrent` allows a failed burn when somebody
  bridged meanwhile, or when another proposal was executed. A later proposal with
  the same Safe may burn the treasury if the first was executed after the amounts
  were read (`v4Upgrade.ts:152`, nonce taken at `helpers.ts:534`).
- `upgradeCelo` when `MpbBridge` is not released yet, the second steps of
  `gip-25-xdc-deploy-reserve` (its `circuitBreaker` is empty, and nothing calls
  them), `getBlockScoutHolders` (nothing calls it) are left out.
- The hashes of Merkle trees are the leaves they commit to.

Not modelled, with the reason: see `PROJECT.json` ("components"). In short: older
proposals and upgrades (`reserveRestore`, `gip-14_1`, `gip-15`, `hack-ubi-recovery`,
`identityAuthPeriod`, `updateDistHelper`, `upgradeToV3`), bulk whitelisting, keepers
and analytics are one proposal or one loop each, made of calls that are modelled;
the reserve's `recover` and direct calls of the avatar to the market maker are left
out; fund manager, staking and the smaller services are planned (section 9);
`Math64x64`, the Bancor power function and Superfluid are vendored arithmetic or
agreements; `BuyGDClone` and the distribution helpers are calls of external
exchanges with little state of their own; `NameService` and `DAOContract` are
lookups that appear as guards; upgrades are scripts run once.

## 9 Plan

The order is by what the protocol depends on most.

1. *Done*: voting machine with its abstract life cycle and the proof that it
   implements it; reputation, its snapshots and search; mint/burn wrapper; basic
   income with `ClaimersDistribution`; identity and invites; reserve and market maker; the
   scripts that deploy, upgrade, propose and hand out.
2. `GoodFundManager` with the staking contracts: `FundManager` composes
   `SimpleStaking` and `GoodReserve`; one contract of several failing to collect,
   blacklisted contracts and their reward blocks. Theorem: rewards minted are at
   most what accrued.
3. `GoodDollarStaking` and `GovernanceStaking`: shares and rewards that cannot be
   minted; theorem: savings are covered.
4. `OneTimePayments`, `Faucet`: escrow and limits, each a short module
   with one theorem; `StakersDistribution` beside `ClaimersDistribution`.
5. Compositions: `GoodDAO` (voting machine over `GReputation`, instead of free
   snapshots), basic income over `IdentityV4` (the root of a claimer changes
   between claims). These replace runs of their parts where they ask the same
   question.
6. Proofs: *done* for every safety property of the runs but those of the deployment
   scripts (section 7). Left: `DaoIsGoverned` for any script that hands over in the
   order of `transferDaoToGuardians`.
