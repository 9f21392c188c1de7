---------------------------- MODULE GReputation -----------------------------
(***************************************************************************)
(* The GOOD reputation token (contracts/governance/GReputation.sol over    *)
(* Reputation.sol): balances, delegated votes and supply as histories that *)
(* can be read at any past block, and the reputation of other blockchains, *)
(* published as Merkle roots and counted once a leaf is proved.            *)
(*                                                                         *)
(* A Merkle root is a member of Hash, a valid proof is membership in       *)
(* Leaves; a signature is a member of SignedDelegations.                   *)
(***************************************************************************)
EXTENDS Checkpoints, FiniteSets, Functions

CONSTANTS
    User, NoAddress,
    Root,               \* the id "rootState"
    Chain,              \* the ids of other blockchains
    Hash,
    Leaves,             \* Leaves[h][u]: what the tree of h gives u (0: no leaf)
    Total,              \* Total[h]: the supply published with h
    Published,          \* the [id, hash] the avatar publishes
    InitPublished,      \* those initialize may be given, or NoState
    NoState,
    SignedDelegations,
    Amounts,
    Targets,            \* the [user, target] of setReputationRecipient
    MaxRep,             \* type(uint128).max
    MaxSupply,          \* bounds: the supply minting goes up to,
    MaxStates, MaxBlock \* states per blockchain, blocks

Id == Chain \union {Root}

\* A tree is published with at least the sum of its leaves.
ASSUME TreesAssumption ==
    /\ Leaves \in [Hash -> [User -> Nat]] /\ Total \in [Hash -> Nat]
    /\ \A h \in Hash : SumFunctionOnSet(Leaves[h], User) <= Total[h]
    /\ Published \subseteq [id : Id, hash : Hash]
    /\ InitPublished \subseteq [id : Id, hash : Hash] \union {NoState}
    /\ \A h \in Hash : Total[h] <= MaxRep

\* Addresses and ids are words of a fixed width: there are finitely many.
ASSUME ReputationAssumption ==
    /\ IsFiniteSet(User) /\ IsFiniteSet(Chain)
    /\ NoAddress \notin User /\ Root \notin Chain
    /\ Amounts \subseteq Nat /\ MaxRep \in Nat
    /\ MaxSupply \in Nat /\ MaxStates \in [Id -> Nat] /\ MaxBlock \in Nat
    /\ Targets \subseteq [user : User, target : User \union {NoAddress}]
    /\ SignedDelegations \subseteq
          [user : User, delegate : User, nonce : Nat, expiry : Nat]

VARIABLES
    block,
    daoSet,             \* nameService # 0: the avatar has its roles
    balances, totalSupplyHistory, activeVotes,
    delegates, nonces, reputationRecipients,
    blockchainStates, stateHashBalances

local == <<balances, totalSupplyHistory, activeVotes, delegates>>
remote == <<blockchainStates, stateHashBalances>>
vars == <<block, daoSet, balances, totalSupplyHistory, activeVotes, delegates,
          nonces, reputationRecipients, blockchainStates, stateHashBalances>>

BlockchainState == [stateHash : Hash, blockNumber : Nat]

-----------------------------------------------------------------------------
(* Reading *)

balanceOfLocalAt(u, b) == ValueAt(balances[u], b)
totalSupplyLocalAt(b) == ValueAt(totalSupplyHistory, b)
localVotesAt(u, b) == ValueAt(activeVotes[u], b)

activeBlockchains == {c \in Chain : blockchainStates[c] # <<>>}

\* The state of blockchain c that is in force at block b.
StatesUpTo(c, b) ==
    {i \in DOMAIN blockchainStates[c] : blockchainStates[c][i].blockNumber <= b}
StateAt(c, b) ==
    blockchainStates[c][CHOOSE i \in StatesUpTo(c, b) :
                            \A j \in StatesUpTo(c, b) : j <= i]

\* For a block before the first state the loop indexes the array at -1: the
\* call reverts.
VotesReadable(b) == \A c \in activeBlockchains : StatesUpTo(c, b) # {}

getVotesAtBlockchain(c, u, b) == stateHashBalances[StateAt(c, b).stateHash][u]
getVotesAt(u, b) ==     \* where VotesReadable(b)
    localVotesAt(u, b)
        + SumFunctionOnSet([c \in Chain |-> getVotesAtBlockchain(c, u, b)],
                           activeBlockchains)

totalSupplyAtBlockchain(c, b) ==
    IF StatesUpTo(c, b) = {} THEN 0 ELSE Total[StateAt(c, b).stateHash]
totalSupplyAt(b) ==
    totalSupplyLocalAt(b)
        + SumFunctionOnSet([c \in Chain |-> totalSupplyAtBlockchain(c, b)],
                           activeBlockchains)

-----------------------------------------------------------------------------
\* Types.  Every history is one that updateValueAtNow can leave: its blocks
\* strictly ascend and are not in the future, so that getValueAt can search it.
TypeOK ==
    /\ block \in Nat /\ daoSet \in BOOLEAN
    /\ balances \in [User -> History]
    /\ totalSupplyHistory \in History
    /\ activeVotes \in [User -> History]
    /\ delegates \in [User -> User \union {NoAddress}]
    /\ nonces \in [User -> Nat]
    /\ reputationRecipients \in [User -> User \union {NoAddress}]
    /\ blockchainStates \in [Id -> Seq(BlockchainState)]
    /\ stateHashBalances \in [Hash -> [User -> Nat]]

\* Storage as initialize leaves it: one state, of the blockchain or of the
\* root, may be there already.
Init ==
    /\ block = 1
    /\ daoSet \in BOOLEAN
    /\ balances = [u \in User |-> <<>>]
    /\ activeVotes = [u \in User |-> <<>>]
    /\ delegates = [u \in User |-> NoAddress]
    /\ nonces = [u \in User |-> 0]
    /\ reputationRecipients = [u \in User |-> NoAddress]
    /\ stateHashBalances = [h \in Hash |-> [u \in User |-> 0]]
    /\ \E s \in InitPublished :
          /\ blockchainStates = [id \in Id |->
                IF s # NoState /\ s.id = id
                THEN <<[stateHash |-> s.hash, blockNumber |-> 1]>> ELSE <<>>]
          /\ totalSupplyHistory =
                IF s # NoState /\ s.id = Root
                THEN Updated(<<>>, 1, Total[s.hash]) ELSE <<>>

NextBlock ==
    /\ block < MaxBlock
    /\ block' = block + 1
    /\ UNCHANGED <<daoSet, local, nonces, reputationRecipients, remote>>

-----------------------------------------------------------------------------
(* Minting and burning *)

\* updateValueAtNow on an array that had value v, changed by d.
Overflows(v) == v > MaxRep
Set(cps, v) == Updated(cps, block, v)
Changed(cps, d) == Set(cps, ValueAt(cps, block) + d)

\* Who counts t's reputation once t is minted to: t itself at first.
SelfDelegateOverwrites(t) == t                               \* faulty variant
delegatorOf(t) == IF delegates[t] = NoAddress THEN t ELSE delegates[t]

\* _mint(t, amount) but for the supply.
Credit(t, amount) ==
    /\ ~Overflows(totalSupplyLocalAt(block) + amount)
    /\ ~Overflows(balanceOfLocalAt(t, block) + amount)
    /\ ~Overflows(localVotesAt(delegatorOf(t), block) + amount)
    /\ balances' = [balances EXCEPT ![t] = Changed(@, amount)]
    /\ delegates' = [delegates EXCEPT ![t] = delegatorOf(t)]
    /\ activeVotes' = [activeVotes EXCEPT ![delegatorOf(t)] = Changed(@, amount)]

repTarget(u) ==
    IF reputationRecipients[u] = NoAddress THEN u ELSE reputationRecipients[u]

mint(u, amount) ==
    /\ daoSet /\ totalSupplyLocalAt(block) + amount <= MaxSupply
    /\ Credit(repTarget(u), amount)
    /\ totalSupplyHistory' = Changed(totalSupplyHistory, amount)
    /\ UNCHANGED <<block, daoSet, nonces, reputationRecipients, remote>>

\* Burning more than the balance burns the balance.  Everyone may burn their
\* own reputation.
Burned(u, amount) ==
    IF balanceOfLocalAt(u, block) < amount THEN balanceOfLocalAt(u, block)
    ELSE amount

burn(u, amount) ==
    LET burned == Burned(u, amount)
        d == delegatorOf(u)
    IN /\ totalSupplyLocalAt(block) >= burned       \* else it reverts
       /\ localVotesAt(d, block) >= burned
       /\ totalSupplyHistory' = Changed(totalSupplyHistory, -burned)
       /\ balances' = [balances EXCEPT ![u] = Changed(@, -burned)]
       /\ delegates' = [delegates EXCEPT ![u] = d]
       /\ activeVotes' = [activeVotes EXCEPT ![d] = Changed(@, -burned)]
       /\ UNCHANGED <<block, daoSet, nonces, reputationRecipients, remote>>

setReputationRecipient(u, target) ==
    /\ reputationRecipients' = [reputationRecipients EXCEPT ![u] = target]
    /\ UNCHANGED <<block, daoSet, local, nonces, remote>>

-----------------------------------------------------------------------------
(* Delegation *)

\* The delegate of u is d from now on; u's own reputation moves with it.
MovedNotRemoved(u, d) ==                                     \* faulty variant
    [activeVotes EXCEPT ![d] = Changed(@, balanceOfLocalAt(u, block))]
Moved(u, d) ==
    LET core == balanceOfLocalAt(u, block)
        cur == delegates[u]
    IN [v \in User |->
            IF v = cur THEN Changed(activeVotes[v], -core)
            ELSE IF v = d THEN Changed(activeVotes[v], core)
            ELSE activeVotes[v]]

_delegateTo(u, d) ==
    /\ d # delegates[u]
    /\ delegates[u] # NoAddress =>
          localVotesAt(delegates[u], block) >= balanceOfLocalAt(u, block)
    /\ ~Overflows(localVotesAt(d, block) + balanceOfLocalAt(u, block))
    /\ delegates' = [delegates EXCEPT ![u] = d]
    /\ activeVotes' = Moved(u, d)
    /\ UNCHANGED <<block, daoSet, balances, totalSupplyHistory,
                   reputationRecipients, remote>>

delegateTo(u, d) == _delegateTo(u, d) /\ UNCHANGED nonces
undelegate(u) == delegateTo(u, u)

\* Time is counted in blocks.
delegateBySig(s) ==
    /\ s.nonce = nonces[s.user]
    /\ block <= s.expiry
    /\ _delegateTo(s.user, s.delegate)
    /\ nonces' = [nonces EXCEPT ![s.user] = @ + 1]

-----------------------------------------------------------------------------
(* Other blockchains *)

setBlockchainStateHash(id, hash) ==
    /\ daoSet /\ Len(blockchainStates[id]) < MaxStates[id]
    /\ id = Root => totalSupplyLocalAt(block) = 0
    /\ totalSupplyHistory' = IF id = Root THEN Set(totalSupplyHistory, Total[hash])
                             ELSE totalSupplyHistory
    /\ blockchainStates' = [blockchainStates EXCEPT ![id] =
           Append(@, [stateHash |-> hash, blockNumber |-> block])]
    /\ UNCHANGED <<block, daoSet, balances, activeVotes, delegates, nonces,
                   reputationRecipients, stateHashBalances>>

LastHash(id) == blockchainStates[id][Len(blockchainStates[id])].stateHash

\* Proofs are for the latest state, and each leaf is taken once.
ProvedAgain(h, u) == TRUE                                    \* faulty variant
NotProved(h, u) == stateHashBalances[h][u] = 0

\* A leaf of the root state is minted to its owner; the supply had it before.
proveBalanceOfAtBlockchain(id, u) ==
    /\ blockchainStates[id] # <<>>
    /\ LET h == LastHash(id)
           leaf == Leaves[h][u]
       IN /\ NotProved(h, u)
          /\ leaf > 0
          /\ IF id = Root
             THEN /\ Credit(u, leaf)
                  /\ totalSupplyHistory' = Changed(totalSupplyHistory, 0)
             ELSE UNCHANGED local
          /\ stateHashBalances' = [stateHashBalances EXCEPT ![h][u] = leaf]
    /\ UNCHANGED <<block, daoSet, nonces, reputationRecipients, blockchainStates>>

updateDAO ==
    /\ ~daoSet /\ daoSet' = TRUE
    /\ UNCHANGED <<block, local, nonces, reputationRecipients, remote>>

-----------------------------------------------------------------------------
Next ==
    \/ NextBlock
    \/ \E u \in User, n \in Amounts : mint(u, n) \/ burn(u, n)
    \/ \E u, d \in User : delegateTo(u, d)
    \/ \E u \in User : undelegate(u)
    \/ \E s \in SignedDelegations : delegateBySig(s)
    \/ \E t \in Targets : setReputationRecipient(t.user, t.target)
    \/ \E p \in Published : setBlockchainStateHash(p.id, p.hash)
    \/ \E id \in Id, u \in User : proveBalanceOfAtBlockchain(id, u)
    \/ updateDAO

Spec == Init /\ [][Next]_vars

-----------------------------------------------------------------------------
(* Safety *)

\* A delegate's votes are the reputation of those who delegate to it: no
\* order of mints, burns, proofs and (re-)delegations, several of them in one
\* block, counts a balance twice or loses it.
DelegatorsOf(d) == {u \in User : delegates[u] = d}
VotesAreDelegatedBalances == \A d \in User :
    localVotesAt(d, block)
        = SumFunctionOnSet([u \in User |-> balanceOfLocalAt(u, block)],
                           DelegatorsOf(d))

\* "rootState is a special state that can be supplied once": the airdrop has
\* one tree.
RootSuppliedOnce == Len(blockchainStates[Root]) <= 1

\* The leaves of the root state nobody has proved yet.
UnprovedRoot ==
    IF blockchainStates[Root] = <<>> THEN 0
    ELSE LET h == LastHash(Root)
         IN Total[h] - SumFunctionOnSet(stateHashBalances[h], User)
States == Published \union (InitPublished \ {NoState})

\* The tree of the airdrop is published for the airdrop only.  A proof is
\* recorded for the hash of its tree: the leaves of a tree that is published for
\* another blockchain too could be proved there, and then not for the airdrop.
RootTreeIsItsOwn == \A p, q \in States : p.id = Root /\ p.hash = q.hash => q.id = Root

\* As long as there is one root state (and RootTreeIsItsOwn), the local supply is
\* all the balances and the leaves of it nobody has proved yet: each is minted once.
SupplyIsBalances == RootSuppliedOnce =>
    totalSupplyLocalAt(block)
        = SumFunctionOnSet([u \in User |-> balanceOfLocalAt(u, block)], User)
            + UnprovedRoot

\* What a proposal relies on: at any block whose votes can be read, all votes
\* together are no more than the total supply at that block, whatever is
\* proved or delegated later.
VotesWithinSupply == \A b \in 1..block :
    VotesReadable(b) =>
        SumFunctionOnSet([u \in User |-> getVotesAt(u, b)], User) <= totalSupplyAt(b)

\* "get votes state at specific block": the votes of a user can be read at
\* every block up to now.
VotesAlwaysReadable == \A b \in 1..block : VotesReadable(b)

(* What a step may do *)

\* A finished block is settled: no mint, burn, delegation or publication
\* changes the balances, the votes and the supply that are answered for it.
LocalPastIsSettled == [][\A b \in 1..(block - 1) :
    /\ totalSupplyLocalAt(b)' = totalSupplyLocalAt(b)
    /\ \A u \in User : /\ balanceOfLocalAt(u, b)' = balanceOfLocalAt(u, b)
                       /\ localVotesAt(u, b)' = localVotesAt(u, b)]_vars

\* With the other blockchains the supply of a finished block is settled too,
\* though the states published later are for the same chains; the votes can
\* only grow, by the proof of a state that was in force then.
PastIsSettled == [][\A b \in 1..(block - 1) :
    /\ totalSupplyAt(b)' = totalSupplyAt(b)
    /\ VotesReadable(b) /\ VotesReadable(b)' =>
          \A u \in User : getVotesAt(u, b)' >= getVotesAt(u, b)]_vars
=============================================================================
