------------------------- MODULE GReputation_proofs -------------------------
(***************************************************************************)
(* For any users, trees, signatures and bounds: the histories of           *)
(* GReputation are well formed, their past is settled, and votes, balances *)
(* and supply agree.  And the search of getValueAt is correct for every    *)
(* history and every block.                                                *)
(***************************************************************************)
EXTENDS GReputation, CheckpointSearch, Lemmas

\* Inductive invariant: no checkpoint lies in the future, so that
\* updateValueAtNow appends to a history or replaces its current value.
AllUpToNow ==
    /\ UpToNow(totalSupplyHistory, block)
    /\ \A u \in User : UpToNow(balances[u], block) /\ UpToNow(activeVotes[u], block)
RepInv == TypeOK /\ AllUpToNow

\* A history was kept, or changed in the current block only.
Kept(old, new) ==
    /\ new \in History
    /\ UpToNow(new, block)
    /\ \A b \in Nat : b < block => ValueAt(new, b) = ValueAt(old, b)

LocalKept ==
    /\ Kept(totalSupplyHistory, totalSupplyHistory')
    /\ balances' \in [User -> History]
    /\ activeVotes' \in [User -> History]
    /\ \A u \in User : /\ Kept(balances[u], balances'[u])
                       /\ Kept(activeVotes[u], activeVotes'[u])

Settled == \A b \in 1..(block - 1) :
    /\ totalSupplyLocalAt(b)' = totalSupplyLocalAt(b)
    /\ \A u \in User : /\ balanceOfLocalAt(u, b)' = balanceOfLocalAt(u, b)
                       /\ localVotesAt(u, b)' = localVotesAt(u, b)

LEMMA UnchangedIsKept ==
    ASSUME NEW cps \in History, UpToNow(cps, block)
    PROVE  Kept(cps, cps)
  BY DEF Kept

LEMMA SetIsKept ==
    ASSUME block \in Nat, NEW cps \in History, NEW v \in Nat, UpToNow(cps, block)
    PROVE  Kept(cps, Set(cps, v))
  BY UpdatedHistory DEF Kept, Set

LEMMA ChangedIsKept ==
    ASSUME block \in Nat, NEW cps \in History, UpToNow(cps, block), NEW d \in Int,
           ValueAt(cps, block) + d >= 0
    PROVE  Kept(cps, Changed(cps, d))
<1>1. ValueAt(cps, block) + d \in Nat
  BY ValueAtType
<1>2. QED
  BY <1>1, SetIsKept DEF Changed

LEMMA RepInitial == Init => RepInv
<1> SUFFICES ASSUME Init PROVE RepInv
  OBVIOUS
<1> USE DEF Init
<1>1. <<>> \in History /\ UpToNow(<<>>, 1) /\ UpToNow(<<>>, block)
  BY DEF History, Sorted, UpToNow
<1>2. PICK s \in InitPublished :
          /\ blockchainStates = [id \in Id |->
                IF s # NoState /\ s.id = id
                THEN <<[stateHash |-> s.hash, blockNumber |-> 1]>> ELSE <<>>]
          /\ totalSupplyHistory =
                IF s # NoState /\ s.id = Root
                THEN Updated(<<>>, 1, Total[s.hash]) ELSE <<>>
  OBVIOUS
<1>3. s # NoState => s.hash \in Hash /\ s.id \in Id
  BY TreesAssumption
<1>4. totalSupplyHistory \in History /\ UpToNow(totalSupplyHistory, block)
  <2>1. CASE s # NoState /\ s.id = Root
    <3>1. Total[s.hash] \in Nat
      BY <2>1, <1>3, TreesAssumption
    <3>2. QED
      BY <2>1, <3>1, <1>1, <1>2, UpdatedHistory
  <2>2. CASE ~(s # NoState /\ s.id = Root)
    BY <2>2, <1>1, <1>2
  <2>3. QED
    BY <2>1, <2>2
<1>5. blockchainStates \in [Id -> Seq(BlockchainState)]
  <2>1. SUFFICES ASSUME NEW id \in Id
                 PROVE  (IF s # NoState /\ s.id = id
                         THEN <<[stateHash |-> s.hash, blockNumber |-> 1]>>
                         ELSE <<>>) \in Seq(BlockchainState)
    BY <1>2
  <2>2. s # NoState => [stateHash |-> s.hash, blockNumber |-> 1] \in BlockchainState
    BY <1>3 DEF BlockchainState
  <2>3. QED
    BY <2>2
<1>6. TypeOK
  BY <1>1, <1>4, <1>5 DEF TypeOK
<1>7. AllUpToNow
  BY <1>1, <1>4 DEF AllUpToNow
<1>8. QED
  BY <1>6, <1>7 DEF RepInv

-----------------------------------------------------------------------------
LEMMA CreditKeeps ==
    ASSUME RepInv, NEW t \in User, NEW amount \in Nat, Credit(t, amount)
    PROVE  /\ balances' \in [User -> History] /\ activeVotes' \in [User -> History]
           /\ delegates' \in [User -> User \union {NoAddress}]
           /\ \A u \in User : /\ Kept(balances[u], balances'[u])
                              /\ Kept(activeVotes[u], activeVotes'[u])
<1> USE DEF RepInv, TypeOK, AllUpToNow
<1>1. delegatorOf(t) \in User
  BY DEF delegatorOf
<1>2. \A u \in User :
        /\ balances[u] \in History /\ activeVotes[u] \in History
        /\ Kept(balances[u], balances[u]) /\ Kept(activeVotes[u], activeVotes[u])
        /\ Kept(balances[u], Changed(balances[u], amount))
        /\ Kept(activeVotes[u], Changed(activeVotes[u], amount))
  <2> SUFFICES ASSUME NEW u \in User
               PROVE  /\ balances[u] \in History /\ activeVotes[u] \in History
                      /\ Kept(balances[u], balances[u])
                      /\ Kept(activeVotes[u], activeVotes[u])
                      /\ Kept(balances[u], Changed(balances[u], amount))
                      /\ Kept(activeVotes[u], Changed(activeVotes[u], amount))
    OBVIOUS
  <2>1. /\ balances[u] \in History /\ activeVotes[u] \in History
        /\ UpToNow(balances[u], block) /\ UpToNow(activeVotes[u], block)
        /\ block \in Nat
    OBVIOUS
  <2>2. ValueAt(balances[u], block) \in Nat /\ ValueAt(activeVotes[u], block) \in Nat
    BY <2>1, ValueAtType
  <2>3. Kept(balances[u], Changed(balances[u], amount))
    BY <2>1, <2>2, ChangedIsKept
  <2>4. Kept(activeVotes[u], Changed(activeVotes[u], amount))
    BY <2>1, <2>2, ChangedIsKept
  <2>5. QED
    BY <2>1, <2>3, <2>4, UnchangedIsKept
<1>3. /\ balances' = [balances EXCEPT ![t] = Changed(@, amount)]
      /\ delegates' = [delegates EXCEPT ![t] = delegatorOf(t)]
      /\ activeVotes' = [activeVotes EXCEPT ![delegatorOf(t)] = Changed(@, amount)]
  BY DEF Credit
<1>4. Changed(balances[t], amount) \in History
      /\ Changed(activeVotes[delegatorOf(t)], amount) \in History
  BY <1>1, <1>2 DEF Kept
<1>5. /\ balances \in [User -> History] /\ activeVotes \in [User -> History]
      /\ delegates \in [User -> User \union {NoAddress}]
  OBVIOUS
<1> HIDE DEF RepInv, TypeOK, AllUpToNow
<1>6. QED
  BY <1>1, <1>2, <1>3, <1>4, <1>5

\* The steps that write a history write it for the current block.
LEMMA MintKeeps ==
    ASSUME RepInv, NEW u \in User, NEW amount \in Amounts, mint(u, amount)
    PROVE  LocalKept /\ delegates' \in [User -> User \union {NoAddress}]
<1>1. repTarget(u) \in User /\ amount \in Nat
  BY ReputationAssumption DEF RepInv, TypeOK, repTarget
<1>2. /\ balances' \in [User -> History] /\ activeVotes' \in [User -> History]
      /\ delegates' \in [User -> User \union {NoAddress}]
      /\ \A v \in User : /\ Kept(balances[v], balances'[v])
                         /\ Kept(activeVotes[v], activeVotes'[v])
  BY <1>1, CreditKeeps DEF mint
<1>3. /\ totalSupplyHistory \in History /\ UpToNow(totalSupplyHistory, block)
      /\ block \in Nat
  BY DEF RepInv, TypeOK, AllUpToNow
<1>4. ValueAt(totalSupplyHistory, block) \in Nat
  BY <1>3, ValueAtType
<1>5. Kept(totalSupplyHistory, Changed(totalSupplyHistory, amount))
  BY <1>1, <1>3, <1>4, ChangedIsKept
<1>6. QED
  BY <1>2, <1>5 DEF LocalKept, mint

LEMMA BurnKeeps ==
    ASSUME RepInv, NEW u \in User, NEW amount \in Amounts, burn(u, amount)
    PROVE  LocalKept /\ delegates' \in [User -> User \union {NoAddress}]
<1> DEFINE burned == Burned(u, amount)
           d == delegatorOf(u)
<1>1. /\ block \in Nat /\ amount \in Nat /\ d \in User
      /\ totalSupplyHistory \in History /\ UpToNow(totalSupplyHistory, block)
      /\ \A v \in User :
            /\ balances[v] \in History /\ UpToNow(balances[v], block)
            /\ activeVotes[v] \in History /\ UpToNow(activeVotes[v], block)
  BY ReputationAssumption DEF RepInv, TypeOK, AllUpToNow, delegatorOf
<1>2. /\ ValueAt(totalSupplyHistory, block) \in Nat
      /\ ValueAt(balances[u], block) \in Nat
      /\ ValueAt(activeVotes[d], block) \in Nat
  BY <1>1, ValueAtType
<1>3. burned \in Nat /\ burned <= ValueAt(balances[u], block)
  BY <1>1, <1>2 DEF Burned, balanceOfLocalAt
<1> HIDE DEF burned, d
<1>4. /\ ValueAt(totalSupplyHistory, block) >= burned
      /\ ValueAt(activeVotes[d], block) >= burned
      /\ totalSupplyHistory' = Changed(totalSupplyHistory, -burned)
      /\ balances' = [balances EXCEPT ![u] = Changed(@, -burned)]
      /\ delegates' = [delegates EXCEPT ![u] = d]
      /\ activeVotes' = [activeVotes EXCEPT ![d] = Changed(@, -burned)]
  BY DEF burn, burned, d, totalSupplyLocalAt, localVotesAt
<1>5. Kept(totalSupplyHistory, Changed(totalSupplyHistory, -burned))
  BY <1>1, <1>2, <1>3, <1>4, ChangedIsKept
<1>6. Kept(balances[u], Changed(balances[u], -burned))
  BY <1>1, <1>2, <1>3, ChangedIsKept
<1>7. Kept(activeVotes[d], Changed(activeVotes[d], -burned))
  BY <1>1, <1>2, <1>3, <1>4, ChangedIsKept
<1>8. \A v \in User : Kept(balances[v], balances[v]) /\ Kept(activeVotes[v], activeVotes[v])
  BY <1>1, UnchangedIsKept
<1>9. Changed(balances[u], -burned) \in History
      /\ Changed(activeVotes[d], -burned) \in History
  BY <1>6, <1>7 DEF Kept
<1>10. /\ balances \in [User -> History] /\ activeVotes \in [User -> History]
       /\ delegates \in [User -> User \union {NoAddress}]
  BY DEF RepInv, TypeOK
<1>11. QED
  BY <1>1, <1>4, <1>5, <1>6, <1>7, <1>8, <1>9, <1>10 DEF LocalKept

LEMMA DelegateKeeps ==
    ASSUME RepInv, NEW u \in User, NEW d \in User, _delegateTo(u, d)
    PROVE  LocalKept /\ delegates' \in [User -> User \union {NoAddress}]
<1> DEFINE core == balanceOfLocalAt(u, block)
           cur == delegates[u]
<1>1. /\ block \in Nat
      /\ totalSupplyHistory \in History /\ UpToNow(totalSupplyHistory, block)
      /\ \A v \in User :
            /\ balances[v] \in History /\ UpToNow(balances[v], block)
            /\ activeVotes[v] \in History /\ UpToNow(activeVotes[v], block)
      /\ balances \in [User -> History]
      /\ delegates \in [User -> User \union {NoAddress}]
  BY DEF RepInv, TypeOK, AllUpToNow
<1>2. core \in Nat
  BY <1>1, ValueAtType DEF balanceOfLocalAt
<1>3. /\ cur # NoAddress => ValueAt(activeVotes[cur], block) >= core
      /\ delegates' = [delegates EXCEPT ![u] = d]
      /\ activeVotes' = [v \in User |->
            IF v = cur THEN Changed(activeVotes[v], -core)
            ELSE IF v = d THEN Changed(activeVotes[v], core)
            ELSE activeVotes[v]]
      /\ UNCHANGED <<balances, totalSupplyHistory>>
  BY DEF _delegateTo, Moved, localVotesAt
<1> HIDE DEF core, cur
<1>4. ASSUME NEW v \in User
      PROVE  Kept(activeVotes[v], activeVotes'[v]) /\ activeVotes'[v] \in History
  <2>1. /\ activeVotes[v] \in History /\ UpToNow(activeVotes[v], block)
        /\ ValueAt(activeVotes[v], block) \in Nat
    BY <1>1, ValueAtType
  <2>2. CASE v = cur
    <3>1. ValueAt(activeVotes[v], block) >= core
      BY <2>2, <1>3, ReputationAssumption
    <3>2. Kept(activeVotes[v], Changed(activeVotes[v], -core))
      BY <2>1, <3>1, <1>1, <1>2, ChangedIsKept
    <3>3. QED
      BY <2>2, <3>2, <1>3 DEF Kept
  <2>3. CASE v # cur /\ v = d
    <3>1. Kept(activeVotes[v], Changed(activeVotes[v], core))
      BY <2>1, <1>1, <1>2, ChangedIsKept
    <3>2. QED
      BY <2>3, <3>1, <1>3 DEF Kept
  <2>4. CASE v # cur /\ v # d
    BY <2>1, <2>4, <1>3, UnchangedIsKept
  <2>5. QED
    BY <2>2, <2>3, <2>4
<1>5. activeVotes' \in [User -> History]
  BY <1>3, <1>4
<1>6. /\ Kept(totalSupplyHistory, totalSupplyHistory)
      /\ \A v \in User : Kept(balances[v], balances[v])
  BY <1>1, UnchangedIsKept
<1>7. QED
  BY <1>1, <1>3, <1>4, <1>5, <1>6 DEF LocalKept

\* A leaf of the root state is minted to its owner; any other proof leaves the
\* local histories alone.
LEMMA ProveKeeps ==
    ASSUME RepInv, NEW id \in Id, NEW u \in User,
           proveBalanceOfAtBlockchain(id, u)
    PROVE  /\ LocalKept /\ delegates' \in [User -> User \union {NoAddress}]
           /\ stateHashBalances' \in [Hash -> [User -> Nat]]
<1>1. /\ block \in Nat
      /\ totalSupplyHistory \in History /\ UpToNow(totalSupplyHistory, block)
      /\ \A v \in User :
            /\ balances[v] \in History /\ UpToNow(balances[v], block)
            /\ activeVotes[v] \in History /\ UpToNow(activeVotes[v], block)
      /\ balances \in [User -> History] /\ activeVotes \in [User -> History]
      /\ delegates \in [User -> User \union {NoAddress}]
      /\ stateHashBalances \in [Hash -> [User -> Nat]]
      /\ blockchainStates[id] \in Seq(BlockchainState)
  BY DEF RepInv, TypeOK, AllUpToNow
<1> DEFINE h == LastHash(id)
<1>2. blockchainStates[id] # <<>>
  BY DEF proveBalanceOfAtBlockchain
<1>3. h \in Hash
  <2>1. Len(blockchainStates[id]) \in 1..Len(blockchainStates[id])
    BY <1>1, <1>2
  <2>2. blockchainStates[id][Len(blockchainStates[id])] \in BlockchainState
    BY <1>1, <2>1
  <2>3. QED
    BY <2>2 DEF LastHash, BlockchainState
<1>4. Leaves[h][u] \in Nat
  BY <1>3, TreesAssumption
<1>5. stateHashBalances' = [stateHashBalances EXCEPT ![h][u] = Leaves[h][u]]
  BY DEF proveBalanceOfAtBlockchain
<1> HIDE DEF h
<1>6. stateHashBalances' \in [Hash -> [User -> Nat]]
  BY <1>1, <1>3, <1>4, <1>5
<1>7. CASE id = Root
  <2>1. /\ Credit(u, Leaves[h][u])
        /\ totalSupplyHistory' = Changed(totalSupplyHistory, 0)
    BY <1>7 DEF proveBalanceOfAtBlockchain, h
  <2>2. ValueAt(totalSupplyHistory, block) + 0 >= 0
    BY <1>1, ValueAtType
  <2>3. Kept(totalSupplyHistory, Changed(totalSupplyHistory, 0))
    BY <2>2, <1>1, ChangedIsKept
  <2>4. QED
    BY <1>4, <1>6, <2>1, <2>3, CreditKeeps DEF LocalKept
<1>8. CASE id # Root
  <2>1. UNCHANGED local
    BY <1>8 DEF proveBalanceOfAtBlockchain
  <2>2. QED
    BY <1>1, <1>6, <2>1, UnchangedIsKept DEF LocalKept, local
<1>9. QED
  BY <1>7, <1>8

LEMMA StateHashKeeps ==
    ASSUME RepInv, NEW p \in Published, setBlockchainStateHash(p.id, p.hash)
    PROVE  LocalKept /\ blockchainStates' \in [Id -> Seq(BlockchainState)]
<1>1. /\ block \in Nat
      /\ totalSupplyHistory \in History /\ UpToNow(totalSupplyHistory, block)
      /\ \A v \in User :
            /\ balances[v] \in History /\ UpToNow(balances[v], block)
            /\ activeVotes[v] \in History /\ UpToNow(activeVotes[v], block)
      /\ balances \in [User -> History] /\ activeVotes \in [User -> History]
      /\ blockchainStates \in [Id -> Seq(BlockchainState)]
  BY DEF RepInv, TypeOK, AllUpToNow
<1>2. /\ p.id \in Id /\ p.hash \in Hash /\ Total[p.hash] \in Nat
  BY TreesAssumption
<1>3. [stateHash |-> p.hash, blockNumber |-> block] \in BlockchainState
  BY <1>1, <1>2 DEF BlockchainState
<1>4. /\ totalSupplyHistory' =
             IF p.id = Root THEN Set(totalSupplyHistory, Total[p.hash])
             ELSE totalSupplyHistory
      /\ blockchainStates' = [blockchainStates EXCEPT ![p.id] =
             Append(@, [stateHash |-> p.hash, blockNumber |-> block])]
      /\ balances' = balances /\ activeVotes' = activeVotes
  BY DEF setBlockchainStateHash
<1>5. Append(blockchainStates[p.id], [stateHash |-> p.hash, blockNumber |-> block])
         \in Seq(BlockchainState)
  BY <1>1, <1>2, <1>3
<1>6. blockchainStates' \in [Id -> Seq(BlockchainState)]
  BY <1>1, <1>2, <1>4, <1>5
<1>7. /\ Kept(totalSupplyHistory, Set(totalSupplyHistory, Total[p.hash]))
      /\ Kept(totalSupplyHistory, totalSupplyHistory)
  BY <1>1, <1>2, SetIsKept, UnchangedIsKept
<1>8. QED
  BY <1>1, <1>4, <1>6, <1>7, UnchangedIsKept DEF LocalKept

-----------------------------------------------------------------------------
\* Steps that leave the local histories alone.
LEMMA UnchangedKeeps ==
    ASSUME RepInv, UNCHANGED <<balances, totalSupplyHistory, activeVotes>>
    PROVE  LocalKept
<1>1. /\ totalSupplyHistory \in History /\ UpToNow(totalSupplyHistory, block)
      /\ \A v \in User :
            /\ balances[v] \in History /\ UpToNow(balances[v], block)
            /\ activeVotes[v] \in History /\ UpToNow(activeVotes[v], block)
      /\ balances \in [User -> History] /\ activeVotes \in [User -> History]
  BY DEF RepInv, TypeOK, AllUpToNow
<1>2. QED
  BY <1>1, UnchangedIsKept DEF LocalKept

\* What is left of TypeOK' once the local histories are kept.
RestTyped ==
    /\ block' \in Nat /\ block' >= block /\ daoSet' \in BOOLEAN
    /\ delegates' \in [User -> User \union {NoAddress}]
    /\ nonces' \in [User -> Nat]
    /\ reputationRecipients' \in [User -> User \union {NoAddress}]
    /\ blockchainStates' \in [Id -> Seq(BlockchainState)]
    /\ stateHashBalances' \in [Hash -> [User -> Nat]]

LEMMA RepStep ==
    ASSUME RepInv, [Next]_vars
    PROVE  LocalKept /\ RestTyped
<1>1. /\ block \in Nat /\ daoSet \in BOOLEAN
      /\ delegates \in [User -> User \union {NoAddress}]
      /\ nonces \in [User -> Nat]
      /\ reputationRecipients \in [User -> User \union {NoAddress}]
      /\ blockchainStates \in [Id -> Seq(BlockchainState)]
      /\ stateHashBalances \in [Hash -> [User -> Nat]]
  BY DEF RepInv, TypeOK
<1>2. CASE NextBlock
  BY <1>1, <1>2, UnchangedKeeps DEF NextBlock, RestTyped, local, remote
<1>3. ASSUME NEW u \in User, NEW n \in Amounts, mint(u, n)
      PROVE  LocalKept /\ RestTyped
  <2>1. UNCHANGED <<block, daoSet, nonces, reputationRecipients,
                    blockchainStates, stateHashBalances>>
    BY <1>3 DEF mint, remote
  <2>2. QED
    BY <1>1, <1>3, <2>1, MintKeeps DEF RestTyped
<1>4. ASSUME NEW u \in User, NEW n \in Amounts, burn(u, n)
      PROVE  LocalKept /\ RestTyped
  <2>1. UNCHANGED <<block, daoSet, nonces, reputationRecipients,
                    blockchainStates, stateHashBalances>>
    BY <1>4 DEF burn, remote
  <2>2. QED
    BY <1>1, <1>4, <2>1, BurnKeeps DEF RestTyped
<1>5. ASSUME NEW u \in User, NEW d \in User, _delegateTo(u, d),
             nonces' \in [User -> Nat]
      PROVE  LocalKept /\ RestTyped
  <2>1. UNCHANGED <<block, daoSet, reputationRecipients,
                    blockchainStates, stateHashBalances>>
    BY <1>5 DEF _delegateTo, remote
  <2>2. QED
    BY <1>1, <1>5, <2>1, DelegateKeeps DEF RestTyped
<1>6. ASSUME NEW u \in User, NEW d \in User, delegateTo(u, d)
      PROVE  LocalKept /\ RestTyped
  BY <1>1, <1>5, <1>6 DEF delegateTo
<1>7. ASSUME NEW s \in SignedDelegations, delegateBySig(s)
      PROVE  LocalKept /\ RestTyped
  <2>1. s.user \in User /\ s.delegate \in User
    BY ReputationAssumption
  <2>2. _delegateTo(s.user, s.delegate) /\ nonces' \in [User -> Nat]
    BY <1>1, <1>7, <2>1 DEF delegateBySig
  <2>3. QED
    BY <2>1, <2>2, <1>5
<1>8. ASSUME NEW t \in Targets, setReputationRecipient(t.user, t.target)
      PROVE  LocalKept /\ RestTyped
  <2>1. t.user \in User /\ t.target \in User \union {NoAddress}
    BY ReputationAssumption
  <2>2. /\ reputationRecipients' = [reputationRecipients EXCEPT ![t.user] = t.target]
        /\ UNCHANGED <<block, daoSet, balances, totalSupplyHistory, activeVotes,
                       delegates, nonces, blockchainStates, stateHashBalances>>
    BY <1>8 DEF setReputationRecipient, local, remote
  <2>3. QED
    BY <1>1, <2>1, <2>2, UnchangedKeeps DEF RestTyped
<1>9. ASSUME NEW p \in Published, setBlockchainStateHash(p.id, p.hash)
      PROVE  LocalKept /\ RestTyped
  <2>1. UNCHANGED <<block, daoSet, delegates, nonces, reputationRecipients,
                    stateHashBalances>>
    BY <1>9 DEF setBlockchainStateHash
  <2>2. QED
    BY <1>1, <1>9, <2>1, StateHashKeeps DEF RestTyped
<1>10. ASSUME NEW id \in Id, NEW u \in User, proveBalanceOfAtBlockchain(id, u)
       PROVE  LocalKept /\ RestTyped
  <2>1. UNCHANGED <<block, daoSet, nonces, reputationRecipients, blockchainStates>>
    BY <1>10 DEF proveBalanceOfAtBlockchain
  <2>2. QED
    BY <1>1, <1>10, <2>1, ProveKeeps DEF RestTyped
<1>11. CASE updateDAO
  BY <1>1, <1>11, UnchangedKeeps DEF updateDAO, RestTyped, local, remote
<1>12. CASE UNCHANGED vars
  BY <1>1, <1>12, UnchangedKeeps DEF vars, RestTyped
<1>13. ASSUME NEW u \in User, undelegate(u) PROVE LocalKept /\ RestTyped
  BY <1>6, <1>13 DEF undelegate
<1>14. QED
  BY <1>2, <1>3, <1>4, <1>6, <1>7, <1>8, <1>9, <1>10, <1>11, <1>12, <1>13 DEF Next

LEMMA KeptIsInvariant ==
    ASSUME RepInv, LocalKept, RestTyped
    PROVE  RepInv' /\ Settled
<1>1. /\ block \in Nat /\ block' \in Nat /\ block' >= block
  BY DEF RepInv, TypeOK, RestTyped
<1>2. TypeOK'
  BY DEF LocalKept, Kept, RestTyped, TypeOK
<1>3. AllUpToNow'
  <2>1. ASSUME NEW old, NEW new, Kept(old, new)
        PROVE  UpToNow(new, block')
    <3>1. new \in History /\ UpToNow(new, block)
      BY <2>1 DEF Kept
    <3>2. \A j \in DOMAIN new : new[j].from \in Nat
      BY <3>1, HistoryFacts
    <3>3. QED
      BY <1>1, <3>1, <3>2 DEF UpToNow
  <2>2. QED
    BY <2>1 DEF AllUpToNow, LocalKept
<1>4. Settled
  <2>1. SUFFICES ASSUME NEW b \in 1..(block - 1)
        PROVE  /\ totalSupplyLocalAt(b)' = totalSupplyLocalAt(b)
               /\ \A u \in User : /\ balanceOfLocalAt(u, b)' = balanceOfLocalAt(u, b)
                                  /\ localVotesAt(u, b)' = localVotesAt(u, b)
    BY DEF Settled
  <2>2. b \in Nat /\ b < block
    BY <1>1
  <2>3. QED
    BY <2>2 DEF LocalKept, Kept, totalSupplyLocalAt, balanceOfLocalAt, localVotesAt
<1>5. QED
  BY <1>2, <1>3, <1>4 DEF RepInv

-----------------------------------------------------------------------------
\* Whatever is minted, burnt, delegated, published and proved, every history
\* of GReputation is a sorted sequence of checkpoints of natural values: the
\* appends and the overwrites of updateValueAtNow, and the subtractions of
\* burns and re-delegations, never spoil one.
THEOREM HistoriesAreSorted == Spec => []TypeOK
<1>1. RepInv /\ [Next]_vars => RepInv'
  BY RepStep, KeptIsInvariant
<1>2. RepInv => TypeOK
  BY DEF RepInv
<1>3. QED
  BY <1>1, <1>2, RepInitial, PTL DEF Spec

\* Votes, balances and supply at a finished block never change: what a proposal
\* reads at its start block is the same however late it is read.
THEOREM PastIsNeverRewritten == Spec => LocalPastIsSettled
<1>1. RepInv /\ [Next]_vars => RepInv'
  BY RepStep, KeptIsInvariant
<1>2. RepInv /\ [Next]_vars => [Settled]_vars
  BY RepStep, KeptIsInvariant
<1>3. QED
  BY <1>1, <1>2, RepInitial, PTL DEF Spec, LocalPastIsSettled, Settled

-----------------------------------------------------------------------------
(* What a step does to the current balances, votes and supply *)

Bal == [u \in User |-> balanceOfLocalAt(u, block)]
Votes == [u \in User |-> localVotesAt(u, block)]
Supply == totalSupplyLocalAt(block)

\* The balance of t becomes y and is counted by e; it was counted by the
\* delegate t had.
Move(t, e, y) ==
    /\ Bal' = [Bal EXCEPT ![t] = y]
    /\ delegates' = [delegates EXCEPT ![t] = e]
    /\ \A w \in User :
          Votes'[w] = Votes[w] - (IF w = delegates[t] THEN Bal[t] ELSE 0)
                               + (IF w = e THEN y ELSE 0)

\* Who has no delegate was never minted to.
NoneIsLost == \A u \in User : delegates[u] = NoAddress => Bal[u] = 0

CurrentTyped ==
    /\ Bal \in [User -> Nat] /\ Votes \in [User -> Nat] /\ Supply \in Nat
    /\ delegates \in [User -> User \union {NoAddress}]

LEMMA TypedAtAll == TypeOK => CurrentTyped
<1> SUFFICES ASSUME TypeOK PROVE CurrentTyped
  OBVIOUS
<1>1. /\ block \in Nat /\ totalSupplyHistory \in History
      /\ \A u \in User : balances[u] \in History /\ activeVotes[u] \in History
  BY DEF TypeOK
<1>2. \A u \in User : ValueAt(balances[u], block) \in Nat /\ ValueAt(activeVotes[u], block) \in Nat
  BY <1>1, ValueAtType
<1>3. ValueAt(totalSupplyHistory, block) \in Nat
  BY <1>1, ValueAtType
<1>4. delegates \in [User -> User \union {NoAddress}]
  BY DEF TypeOK
<1> QED
  BY <1>2, <1>3, <1>4 DEF CurrentTyped, Bal, Votes, Supply, balanceOfLocalAt,
                               localVotesAt, totalSupplyLocalAt

LEMMA CurrentTypes ==
    ASSUME TypeOK
    PROVE  /\ Bal \in [User -> Nat] /\ Votes \in [User -> Nat] /\ Supply \in Nat
           /\ delegates \in [User -> User \union {NoAddress}]
  BY TypedAtAll DEF CurrentTyped

LEMMA ChangedValue ==
    ASSUME block \in Nat, NEW cps \in History, UpToNow(cps, block), NEW d \in Int,
           ValueAt(cps, block) + d >= 0
    PROVE  ValueAt(Changed(cps, d), block) = ValueAt(cps, block) + d
<1>1. ValueAt(cps, block) + d \in Nat
  BY ValueAtType
<1>2. QED
  BY <1>1, UpdatedHistory DEF Changed, Set

\* One history of a family is changed.
LEMMA OneChanged ==
    ASSUME block \in Nat, NEW f \in [User -> History], NEW f1, NEW t \in User,
           \A u \in User : UpToNow(f[u], block), NEW d \in Int,
           ValueAt(f[t], block) + d >= 0,
           f1 = [f EXCEPT ![t] = Changed(@, d)]
    PROVE  \A u \in User : ValueAt(f1[u], block) = ValueAt(f[u], block)
                                                     + (IF u = t THEN d ELSE 0)
<1> SUFFICES ASSUME NEW u \in User
             PROVE  ValueAt(f1[u], block) = ValueAt(f[u], block) + (IF u = t THEN d ELSE 0)
  OBVIOUS
<1>1. CASE u = t
  <2>1. f1[u] = Changed(f[t], d) /\ f[t] \in History /\ UpToNow(f[t], block)
    BY <1>1
  <2> QED
    BY <1>1, <2>1, ChangedValue
<1>2. CASE u # t
  <2>1. f1[u] = f[u] /\ ValueAt(f[u], block) \in Nat
    BY <1>2, ValueAtType
  <2> QED
    BY <1>2, <2>1
<1> QED
  BY <1>1, <1>2

\* A balance and the votes of its delegate change together.
LEMMA BothChangeMoves ==
    ASSUME RepInv, NoneIsLost, block' = block, NEW t \in User, NEW d \in Int,
           Bal[t] + d >= 0, Votes[delegatorOf(t)] + d >= 0,
           balances' = [balances EXCEPT ![t] = Changed(@, d)],
           delegates' = [delegates EXCEPT ![t] = delegatorOf(t)],
           activeVotes' = [activeVotes EXCEPT ![delegatorOf(t)] = Changed(@, d)]
    PROVE  delegatorOf(t) \in User /\ Move(t, delegatorOf(t), Bal[t] + d)
<1> DEFINE e == delegatorOf(t)
<1>1. /\ block \in Nat
      /\ balances \in [User -> History] /\ activeVotes \in [User -> History]
      /\ \A u \in User : UpToNow(balances[u], block) /\ UpToNow(activeVotes[u], block)
  BY DEF RepInv, TypeOK, AllUpToNow
<1>2. /\ Bal \in [User -> Nat] /\ Votes \in [User -> Nat]
      /\ delegates \in [User -> User \union {NoAddress}]
  BY CurrentTypes DEF RepInv
<1>3. /\ e \in User
      /\ delegates[t] = e \/ (delegates[t] = NoAddress /\ Bal[t] = 0)
  BY <1>2 DEF delegatorOf, NoneIsLost
<1>4. /\ Bal[t] = ValueAt(balances[t], block) /\ Votes[e] = ValueAt(activeVotes[e], block)
      /\ Bal' = [u \in User |-> ValueAt(balances'[u], block)]
      /\ Votes' = [u \in User |-> ValueAt(activeVotes'[u], block)]
      /\ Bal = [u \in User |-> ValueAt(balances[u], block)]
      /\ Votes = [u \in User |-> ValueAt(activeVotes[u], block)]
  BY <1>3 DEF Bal, Votes, balanceOfLocalAt, localVotesAt
<1>4a. /\ activeVotes' = [activeVotes EXCEPT ![e] = Changed(@, d)]
       /\ ValueAt(activeVotes[e], block) + d >= 0
       /\ ValueAt(balances[t], block) + d >= 0
  BY <1>4
<1> HIDE DEF e
<1>5. \A u \in User : ValueAt(balances'[u], block) = ValueAt(balances[u], block)
                                                     + (IF u = t THEN d ELSE 0)
  BY <1>1, <1>4a, OneChanged
<1>6. \A u \in User : ValueAt(activeVotes'[u], block) = ValueAt(activeVotes[u], block)
                                                     + (IF u = e THEN d ELSE 0)
  BY <1>1, <1>3, <1>4a, OneChanged
<1>7. Bal' = [Bal EXCEPT ![t] = Bal[t] + d]
  BY <1>2, <1>4, <1>5
<1>8. \A w \in User : Votes'[w] = Votes[w] + (IF w = e THEN d ELSE 0)
  BY <1>4, <1>6
<1>9. \A w \in User :
          Votes'[w] = Votes[w] - (IF w = delegates[t] THEN Bal[t] ELSE 0)
                               + (IF w = e THEN Bal[t] + d ELSE 0)
  <2> SUFFICES ASSUME NEW w \in User
               PROVE  Votes'[w] = Votes[w] - (IF w = delegates[t] THEN Bal[t] ELSE 0)
                                           + (IF w = e THEN Bal[t] + d ELSE 0)
    OBVIOUS
  <2>1. Votes'[w] = Votes[w] + (IF w = e THEN d ELSE 0)
    BY <1>8
  <2>2. Votes[w] \in Nat /\ Bal[t] \in Nat
    BY <1>2
  <2>3. CASE delegates[t] = e
    BY <2>1, <2>2, <2>3
  <2>4. CASE delegates[t] = NoAddress /\ Bal[t] = 0
    BY <2>1, <2>2, <2>4, ReputationAssumption
  <2> QED
    BY <1>3, <2>3, <2>4
<1> QED
  BY <1>3, <1>7, <1>9 DEF Move, e

LEMMA CreditMoves ==
    ASSUME RepInv, NoneIsLost, block' = block, NEW t \in User, NEW amount \in Nat,
           Credit(t, amount)
    PROVE  delegatorOf(t) \in User /\ Move(t, delegatorOf(t), Bal[t] + amount)
<1>1. /\ Bal \in [User -> Nat] /\ Votes \in [User -> Nat]
      /\ delegates \in [User -> User \union {NoAddress}]
  BY CurrentTypes DEF RepInv
<1>2. Bal[t] + amount >= 0 /\ Votes[delegatorOf(t)] + amount >= 0
  BY <1>1 DEF delegatorOf
<1>3. /\ balances' = [balances EXCEPT ![t] = Changed(@, amount)]
      /\ delegates' = [delegates EXCEPT ![t] = delegatorOf(t)]
      /\ activeVotes' = [activeVotes EXCEPT ![delegatorOf(t)] = Changed(@, amount)]
      /\ amount \in Int
  BY DEF Credit
<1> QED
  BY <1>2, <1>3, BothChangeMoves

LEMMA BurnMoves ==
    ASSUME RepInv, NoneIsLost, NEW u \in User, NEW amount \in Amounts, burn(u, amount)
    PROVE  /\ Burned(u, amount) \in Nat /\ Burned(u, amount) <= Bal[u]
           /\ delegatorOf(u) \in User
           /\ Move(u, delegatorOf(u), Bal[u] - Burned(u, amount))
<1> DEFINE n == Burned(u, amount)
<1>1. /\ Bal \in [User -> Nat] /\ Votes \in [User -> Nat]
      /\ delegates \in [User -> User \union {NoAddress}] /\ amount \in Nat
  BY CurrentTypes, ReputationAssumption DEF RepInv
<1>2. n \in Nat /\ n <= Bal[u]
  BY <1>1 DEF Burned, Bal
<1>3. delegatorOf(u) \in User
  BY <1>1 DEF delegatorOf
<1>4. Votes[delegatorOf(u)] >= n
  BY <1>3 DEF burn, Votes
<1>5. /\ block' = block
      /\ balances' = [balances EXCEPT ![u] = Changed(@, -n)]
      /\ delegates' = [delegates EXCEPT ![u] = delegatorOf(u)]
      /\ activeVotes' = [activeVotes EXCEPT ![delegatorOf(u)] = Changed(@, -n)]
  BY DEF burn
<1> HIDE DEF n
<1>6. -n \in Int /\ Bal[u] + (-n) >= 0 /\ Votes[delegatorOf(u)] + (-n) >= 0
      /\ Bal[u] + (-n) = Bal[u] - n
  BY <1>1, <1>2, <1>3, <1>4
<1>7. Move(u, delegatorOf(u), Bal[u] + (-n))
  BY <1>5, <1>6, BothChangeMoves
<1> QED
  BY <1>2, <1>3, <1>6, <1>7 DEF n

LEMMA DelegateMoves ==
    ASSUME RepInv, NoneIsLost, NEW u \in User, NEW d \in User, _delegateTo(u, d)
    PROVE  Move(u, d, Bal[u])
<1> DEFINE cur == delegates[u]
           core == Bal[u]
<1>1. /\ block \in Nat
      /\ \A v \in User : activeVotes[v] \in History /\ UpToNow(activeVotes[v], block)
  BY DEF RepInv, TypeOK, AllUpToNow
<1>2. /\ Bal \in [User -> Nat] /\ Votes \in [User -> Nat]
      /\ delegates \in [User -> User \union {NoAddress}]
  BY CurrentTypes DEF RepInv
<1>3. cur = NoAddress => core = 0
  BY DEF NoneIsLost
<1>4. core = balanceOfLocalAt(u, block) /\ \A w \in User : Votes[w] = ValueAt(activeVotes[w], block)
  BY DEF Bal, Votes, localVotesAt
<1>5. /\ d # cur /\ block' = block /\ balances' = balances
      /\ cur \in User => Votes[cur] >= core
      /\ delegates' = [delegates EXCEPT ![u] = d]
      /\ activeVotes' = [v \in User |->
            IF v = cur THEN Changed(activeVotes[v], -core)
            ELSE IF v = d THEN Changed(activeVotes[v], core)
            ELSE activeVotes[v]]
  BY <1>4, ReputationAssumption DEF _delegateTo, Moved, localVotesAt
<1>6. Bal' = Bal /\ \A w \in User : Votes'[w] = ValueAt(activeVotes'[w], block)
  BY <1>5 DEF Bal, Votes, balanceOfLocalAt, localVotesAt
<1> HIDE DEF cur, core
<1>7. core \in Nat
  BY <1>2 DEF core
<1>8. ASSUME NEW w \in User
      PROVE  Votes'[w] = Votes[w] - (IF w = cur THEN core ELSE 0) + (IF w = d THEN core ELSE 0)
  <2>1. /\ Votes'[w] = ValueAt(activeVotes'[w], block)
        /\ Votes[w] = ValueAt(activeVotes[w], block) /\ Votes[w] \in Nat
        /\ activeVotes[w] \in History /\ UpToNow(activeVotes[w], block)
    BY <1>1, <1>2, <1>4, <1>6
  <2>2. CASE w = cur
    <3>1. activeVotes'[w] = Changed(activeVotes[w], -core) /\ w # d
      BY <1>5, <2>2
    <3>2. ValueAt(activeVotes[w], block) + (-core) >= 0 /\ -core \in Int
      BY <1>5, <1>7, <2>1, <2>2
    <3>3. Votes'[w] = Votes[w] + (-core)
      BY <1>1, <2>1, <3>1, <3>2, ChangedValue
    <3> QED
      BY <1>7, <2>1, <2>2, <3>1, <3>3
  <2>3. CASE w # cur /\ w = d
    <3>1. activeVotes'[w] = Changed(activeVotes[w], core)
      BY <1>5, <2>3
    <3>2. ValueAt(activeVotes[w], block) + core >= 0
      BY <1>7, <2>1
    <3>3. Votes'[w] = Votes[w] + core
      BY <1>1, <1>7, <2>1, <3>1, <3>2, ChangedValue
    <3> QED
      BY <1>7, <2>1, <2>3, <3>3
  <2>4. CASE w # cur /\ w # d
    <3>1. activeVotes'[w] = activeVotes[w]
      BY <1>5, <2>4
    <3> QED
      BY <2>1, <2>4, <3>1
  <2> QED
    BY <2>2, <2>3, <2>4
<1>9. Bal' = [Bal EXCEPT ![u] = core]
  BY <1>2, <1>6 DEF core
<1> QED
  BY <1>5, <1>8, <1>9 DEF Move, cur, core

\* From balances B, votes V and delegates D to B2, V2 and D2: the balance of t
\* becomes y and is counted by e.
IsMove(U, none, B, V, D, t, e, y, B2, V2, D2) ==
    /\ IsFiniteSet(U) /\ none \notin U
    /\ B \in [U -> Nat] /\ V \in [U -> Nat] /\ D \in [U -> U \union {none}]
    /\ t \in U /\ e \in U /\ y \in Nat
    /\ B2[t] = y /\ \A u \in U \ {t} : B2[u] = B[u]
    /\ D2[t] = e /\ \A u \in U \ {t} : D2[u] = D[u]
    /\ \A w \in U : V2[w] = V[w] - (IF w = D[t] THEN B[t] ELSE 0)
                                 + (IF w = e THEN y ELSE 0)
    /\ D[t] = none => B[t] = 0

CountedIn(U, B, V, D) == \A w \in U : V[w] = SumFunctionOnSet(B, {u \in U : D[u] = w})

\* A move leaves every delegate the sum of the balances that count for it ...
LEMMA MovedVotes ==
    ASSUME NEW U, NEW none, NEW B, NEW V, NEW D, NEW t, NEW e, NEW y,
           NEW B2, NEW V2, NEW D2, IsMove(U, none, B, V, D, t, e, y, B2, V2, D2),
           CountedIn(U, B, V, D)
    PROVE  CountedIn(U, B2, V2, D2)
<1> USE DEF IsMove, CountedIn
<1>1. SUFFICES ASSUME NEW w \in U
               PROVE  V2[w] = SumFunctionOnSet(B2, {u \in U : D2[u] = w})
  OBVIOUS
<1> DEFINE Old == {u \in U : D[u] = w}
           New == {u \in U : D2[u] = w}
           Others == {u \in U \ {t} : D[u] = w}
           c == SumFunctionOnSet(B, Others)
<1>2. IsFiniteSet(Others) /\ IsFiniteSet(Old) /\ IsFiniteSet(New)
  BY FS_Subset
<1>3. \A u \in U : B[u] \in Int /\ B2[u] \in Int
  OBVIOUS
<1>4. c \in Int
  BY <1>2, <1>3, SumType
<1>5. SumFunctionOnSet(B2, Others) = c
  <2>1. \A u \in Others : B2[u] = B[u]
    OBVIOUS
  <2> HIDE DEF Others
  <2> QED
    BY <1>2, <2>1, SumOfSame
<1>6. SumFunctionOnSet(B, Old) = c + (IF w = D[t] THEN B[t] ELSE 0)
  <2>1. CASE w = D[t]
    <3>1. t \in Old /\ Old \ {t} = Others
      BY <2>1
    <3>2. \A u \in Old : B[u] \in Int
      OBVIOUS
    <3>3. SumFunctionOnSet(B, Old) = B[t] + c
      <4> HIDE DEF Old, Others
      <4> QED
        BY <1>2, <3>1, <3>2, SumRemove
    <3> QED
      BY <1>3, <1>4, <2>1, <3>3
  <2>2. CASE w # D[t]
    <3>1. Old = Others
      BY <2>2
    <3> HIDE DEF Old, Others
    <3> QED
      BY <1>4, <2>2, <3>1
  <2> QED
    BY <2>1, <2>2
<1>7. SumFunctionOnSet(B2, New) = c + (IF w = e THEN y ELSE 0)
  <2>1. D2[t] = e /\ B2[t] = y
    OBVIOUS
  <2>2. CASE w = e
    <3>1. t \in New /\ New \ {t} = Others
      BY <2>2
    <3>2. \A u \in New : B2[u] \in Int
      OBVIOUS
    <3>3. SumFunctionOnSet(B2, New) = y + c
      <4> HIDE DEF New, Others, c
      <4>1. SumFunctionOnSet(B2, New) = B2[t] + SumFunctionOnSet(B2, New \ {t})
        BY <1>2, <3>1, <3>2, SumRemove
      <4> QED
        BY <1>5, <2>1, <3>1, <4>1
    <3> QED
      BY <1>4, <2>2, <3>3
  <2>3. CASE w # e
    <3>1. New = Others
      BY <2>3
    <3> HIDE DEF New, Others, c
    <3> QED
      BY <1>4, <1>5, <2>3, <3>1
  <2> QED
    BY <2>2, <2>3
<1> HIDE DEF c, New, Old
<1>8. V[w] = c + (IF w = D[t] THEN B[t] ELSE 0)
  BY <1>6 DEF Old
<1>9. B[t] \in Int
  BY <1>3
<1> QED
  BY <1>4, <1>7, <1>8, <1>9 DEF New

\* ... and changes all votes together by what it changes the balances.
LEMMA MovedTotals ==
    ASSUME NEW U, NEW none, NEW B, NEW V, NEW D, NEW t, NEW e, NEW y,
           NEW B2, NEW V2, NEW D2, IsMove(U, none, B, V, D, t, e, y, B2, V2, D2)
    PROVE  /\ SumFunctionOnSet(B2, U) = SumFunctionOnSet(B, U) + y - B[t]
           /\ SumFunctionOnSet(V2, U) = SumFunctionOnSet(V, U) + y - B[t]
<1> USE DEF IsMove
<1> DEFINE c == D[t]
<1>1. SumFunctionOnSet(B2, U) = SumFunctionOnSet(B, U) + y - B[t]
  <2>1. /\ \A x \in U : B[x] \in Int /\ B2[x] \in Int
        /\ \A x \in U \ {t} : B2[x] = B[x]
        /\ B2[t] = y
    OBVIOUS
  <2>2. SumFunctionOnSet(B2, U) = SumFunctionOnSet(B, U) - B[t] + B2[t]
    BY <2>1, SumUpdate
  <2>3. SumFunctionOnSet(B, U) \in Int
    BY <2>1, SumType
  <2> QED
    BY <2>1, <2>2, <2>3
<1> DEFINE V1 == [w \in U |-> V[w] - (IF w = c THEN B[t] ELSE 0)]
<1>2. /\ \A x \in U : V[x] \in Int /\ V1[x] \in Int /\ V2[x] \in Int
      /\ \A x \in U \ {e} : V2[x] = V1[x]
      /\ V2[e] = V1[e] + y
  OBVIOUS
<1>3. SumFunctionOnSet(V1, U) = SumFunctionOnSet(V, U) - B[t]
  <2>1. SumFunctionOnSet(V, U) \in Int /\ B[t] \in Int
    BY <1>2, SumType
  <2>2. CASE c \in U
    <3>1. V1[c] = V[c] - B[t] /\ \A x \in U \ {c} : V1[x] = V[x]
      BY <1>2, <2>2
    <3> HIDE DEF V1
    <3>2. SumFunctionOnSet(V1, U) = SumFunctionOnSet(V, U) - V[c] + V1[c]
      BY <1>2, <2>2, <3>1, SumUpdate
    <3>3. V[c] \in Int
      BY <1>2, <2>2
    <3> QED
      BY <2>1, <3>1, <3>2, <3>3
  <2>3. CASE c = none
    <3>1. \A x \in U : V1[x] = V[x]
      BY <2>3
    <3> HIDE DEF V1
    <3>2. SumFunctionOnSet(V1, U) = SumFunctionOnSet(V, U)
      BY <3>1, SumOfSame
    <3> QED
      BY <2>1, <2>3, <3>2
  <2> QED
    BY <2>2, <2>3
<1> HIDE DEF V1
<1>4. SumFunctionOnSet(V2, U) = SumFunctionOnSet(V1, U) - V1[e] + V2[e]
  BY <1>2, SumUpdate
<1>5. SumFunctionOnSet(V, U) \in Int /\ V1[e] \in Int /\ B[t] \in Int
  BY <1>2, SumType
<1>6. SumFunctionOnSet(V2, U) = SumFunctionOnSet(V, U) + y - B[t]
  BY <1>2, <1>3, <1>4, <1>5
<1> QED
  BY <1>1, <1>6

-----------------------------------------------------------------------------
(* The kinds of step *)

Idle == Bal' = Bal /\ Votes' = Votes /\ Supply' = Supply /\ delegates' = delegates

\* A mint, a burn or a delegation.
Moves ==
    /\ UNCHANGED remote
    /\ \E t, e \in User, y \in Nat : Move(t, e, y) /\ Supply' = Supply + y - Bal[t]

\* The proof of a leaf that was not proved before.
Proves(id, u, h) ==
    /\ h = LastHash(id) /\ blockchainStates[id] # <<>>
    /\ UNCHANGED blockchainStates
    /\ stateHashBalances[h][u] = 0
    /\ stateHashBalances' = [stateHashBalances EXCEPT ![h][u] = Leaves[h][u]]
    /\ id # Root => Idle
    /\ id = Root => /\ Supply' = Supply
                    /\ \E e \in User : Move(u, e, Bal[u] + Leaves[h][u])

\* A new state of a blockchain or of the root.
Publishes(p) ==
    /\ UNCHANGED stateHashBalances
    /\ blockchainStates' = [blockchainStates EXCEPT ![p.id] =
           Append(@, [stateHash |-> p.hash, blockNumber |-> block])]
    /\ Bal' = Bal /\ Votes' = Votes /\ delegates' = delegates
    /\ p.id # Root => Supply' = Supply
    /\ p.id = Root => Supply = 0 /\ Supply' = Total[p.hash]

\* No step is of another kind.
OfAKind ==
    \/ Idle /\ UNCHANGED remote
    \/ Moves
    \/ \E id \in Id, u \in User, h \in Hash : Proves(id, u, h)
    \/ \E p \in Published : Publishes(p)

\* A step that writes nothing is idle, and so is the next block.
LEMMA NothingWritten ==
    ASSUME RepInv, UNCHANGED local, block' \in Nat, block' >= block
    PROVE  Idle
<1>1. /\ block \in Nat /\ totalSupplyHistory \in History
      /\ UpToNow(totalSupplyHistory, block)
      /\ \A u \in User : /\ balances[u] \in History /\ activeVotes[u] \in History
                         /\ UpToNow(balances[u], block) /\ UpToNow(activeVotes[u], block)
  BY DEF RepInv, TypeOK, AllUpToNow
<1>2. /\ balances' = balances /\ activeVotes' = activeVotes
      /\ totalSupplyHistory' = totalSupplyHistory /\ delegates' = delegates
  BY DEF local
<1>3. \A u \in User : /\ ValueAt(balances[u], block') = ValueAt(balances[u], block)
                      /\ ValueAt(activeVotes[u], block') = ValueAt(activeVotes[u], block)
  BY <1>1, ValueStays
<1>4. ValueAt(totalSupplyHistory, block') = ValueAt(totalSupplyHistory, block)
  BY <1>1, ValueStays
<1> QED
  BY <1>2, <1>3, <1>4 DEF Idle, Bal, Votes, Supply, balanceOfLocalAt, localVotesAt,
                          totalSupplyLocalAt

LEMMA ChangedSupply ==
    ASSUME RepInv, NEW d \in Int, Supply + d >= 0, block' = block,
           totalSupplyHistory' = Changed(totalSupplyHistory, d)
    PROVE  Supply' = Supply + d
<1>1. /\ block \in Nat /\ totalSupplyHistory \in History
      /\ UpToNow(totalSupplyHistory, block)
      /\ ValueAt(totalSupplyHistory, block) + d >= 0
  BY DEF RepInv, TypeOK, AllUpToNow, Supply, totalSupplyLocalAt
<1>2. ValueAt(Changed(totalSupplyHistory, d), block) = ValueAt(totalSupplyHistory, block) + d
  BY <1>1, ChangedValue
<1> QED
  BY <1>2 DEF Supply, totalSupplyLocalAt

LEMMA ProveIsOfAKind ==
    ASSUME RepInv, NoneIsLost, NEW id \in Id, NEW u \in User,
           proveBalanceOfAtBlockchain(id, u)
    PROVE  Proves(id, u, LastHash(id)) /\ LastHash(id) \in Hash
<1> DEFINE h == LastHash(id)
<1>1. /\ blockchainStates[id] # <<>> /\ UNCHANGED blockchainStates /\ block' = block
      /\ stateHashBalances[h][u] = 0
      /\ stateHashBalances' = [stateHashBalances EXCEPT ![h][u] = Leaves[h][u]]
  BY DEF proveBalanceOfAtBlockchain, NotProved
<1>2. h \in Hash
  <2>1. blockchainStates[id] \in Seq(BlockchainState)
    BY DEF RepInv, TypeOK
  <2>2. blockchainStates[id][Len(blockchainStates[id])] \in BlockchainState
    BY <1>1, <2>1
  <2>3. QED
    BY <2>2 DEF LastHash, BlockchainState
<1>3. Leaves[h][u] \in Nat
  BY <1>2, TreesAssumption
<1>4. id # Root => Idle
  <2> SUFFICES ASSUME id # Root PROVE Idle
    OBVIOUS
  <2>1. UNCHANGED local
    BY DEF proveBalanceOfAtBlockchain
  <2>2. block \in Nat
    BY DEF RepInv, TypeOK
  <2> QED
    BY <1>1, <2>1, <2>2, NothingWritten
<1>5. id = Root => /\ Supply' = Supply
                   /\ \E e \in User : Move(u, e, Bal[u] + Leaves[h][u])
  <2> SUFFICES ASSUME id = Root
               PROVE  Supply' = Supply /\ \E e \in User : Move(u, e, Bal[u] + Leaves[h][u])
    OBVIOUS
  <2>1. Credit(u, Leaves[h][u]) /\ totalSupplyHistory' = Changed(totalSupplyHistory, 0)
    BY DEF proveBalanceOfAtBlockchain
  <2> HIDE DEF h
  <2>2. Supply \in Nat
    BY CurrentTypes DEF RepInv
  <2>3. Supply' = Supply + 0
    BY <1>1, <2>1, <2>2, ChangedSupply
  <2>4. delegatorOf(u) \in User /\ Move(u, delegatorOf(u), Bal[u] + Leaves[h][u])
    BY <1>1, <1>3, <2>1, CreditMoves
  <2> QED
    BY <2>2, <2>3, <2>4
<1> QED
  BY <1>1, <1>2, <1>4, <1>5 DEF Proves

LEMMA StateHashIsOfAKind ==
    ASSUME RepInv, NEW p \in Published, setBlockchainStateHash(p.id, p.hash)
    PROVE  Publishes(p)
<1>1. /\ UNCHANGED <<block, balances, activeVotes, delegates, stateHashBalances>>
      /\ blockchainStates' = [blockchainStates EXCEPT ![p.id] =
             Append(@, [stateHash |-> p.hash, blockNumber |-> block])]
      /\ p.id = Root => Supply = 0
      /\ totalSupplyHistory' = IF p.id = Root THEN Set(totalSupplyHistory, Total[p.hash])
                               ELSE totalSupplyHistory
  BY DEF setBlockchainStateHash, Supply
<1>2. Bal' = Bal /\ Votes' = Votes
  BY <1>1 DEF Bal, Votes, balanceOfLocalAt, localVotesAt
<1>3. p.id # Root => Supply' = Supply
  BY <1>1 DEF Supply, totalSupplyLocalAt
<1>4. p.id = Root => Supply' = Total[p.hash]
  <2>1. /\ block \in Nat /\ totalSupplyHistory \in History
        /\ UpToNow(totalSupplyHistory, block) /\ Total[p.hash] \in Nat
    BY TreesAssumption DEF RepInv, TypeOK, AllUpToNow
  <2>2. ValueAt(Set(totalSupplyHistory, Total[p.hash]), block) = Total[p.hash]
    BY <2>1, UpdatedHistory DEF Set
  <2> QED
    BY <1>1, <2>2 DEF Supply, totalSupplyLocalAt
<1> QED
  BY <1>1, <1>2, <1>3, <1>4 DEF Publishes

LEMMA StepKinds ==
    ASSUME RepInv, NoneIsLost, [Next]_vars
    PROVE  OfAKind
<1>1. /\ block \in Nat /\ Bal \in [User -> Nat] /\ Votes \in [User -> Nat] /\ Supply \in Nat
      /\ reputationRecipients \in [User -> User \union {NoAddress}]
  BY CurrentTypes DEF RepInv, TypeOK
<1>2. ASSUME UNCHANGED local, UNCHANGED remote, block' \in {block, block + 1}
      PROVE  OfAKind
  <2>1. block' \in Nat /\ block' >= block
    BY <1>1, <1>2
  <2> QED
    BY <1>2, <2>1, NothingWritten DEF OfAKind
<1>3. ASSUME NEW u \in User, NEW n \in Amounts, mint(u, n) PROVE OfAKind
  <2> DEFINE t == repTarget(u)
  <2>1. t \in User /\ n \in Nat
    BY <1>1, ReputationAssumption DEF repTarget
  <2>2. /\ Credit(t, n) /\ block' = block /\ UNCHANGED remote
        /\ totalSupplyHistory' = Changed(totalSupplyHistory, n)
    BY <1>3 DEF mint
  <2> HIDE DEF t
  <2>3. delegatorOf(t) \in User /\ Move(t, delegatorOf(t), Bal[t] + n)
    BY <2>1, <2>2, CreditMoves
  <2>4. Supply' = Supply + n
    BY <1>1, <2>1, <2>2, ChangedSupply
  <2>5. Bal[t] + n \in Nat /\ Supply' = Supply + (Bal[t] + n) - Bal[t]
    BY <1>1, <2>1, <2>4
  <2>6. Moves
    BY <2>1, <2>2, <2>3, <2>5 DEF Moves
  <2> QED
    BY <2>6 DEF OfAKind
<1>4. ASSUME NEW u \in User, NEW n \in Amounts, burn(u, n) PROVE OfAKind
  <2> DEFINE m == Burned(u, n)
  <2>1. /\ m \in Nat /\ m <= Bal[u] /\ delegatorOf(u) \in User
        /\ Move(u, delegatorOf(u), Bal[u] - m)
    BY <1>4, BurnMoves
  <2>2. /\ block' = block /\ UNCHANGED remote /\ Supply >= m
        /\ totalSupplyHistory' = Changed(totalSupplyHistory, -m)
    BY <1>4 DEF burn, Supply
  <2> HIDE DEF m
  <2>3. -m \in Int /\ Supply + (-m) >= 0
    BY <1>1, <2>1, <2>2
  <2>4. Supply' = Supply + (-m)
    BY <2>2, <2>3, ChangedSupply
  <2>5. Bal[u] - m \in Nat /\ Supply' = Supply + (Bal[u] - m) - Bal[u]
    BY <1>1, <2>1, <2>4
  <2>6. Moves
    BY <2>1, <2>2, <2>5 DEF Moves
  <2> QED
    BY <2>6 DEF OfAKind
<1>5. ASSUME NEW u \in User, NEW d \in User, _delegateTo(u, d), UNCHANGED remote
      PROVE  OfAKind
  <2>1. Move(u, d, Bal[u])
    BY <1>5, DelegateMoves
  <2>2. Supply' = Supply
    BY <1>5 DEF _delegateTo, Supply, totalSupplyLocalAt
  <2>3. Bal[u] \in Nat /\ Supply' = Supply + Bal[u] - Bal[u]
    BY <1>1, <2>2
  <2>4. Moves
    BY <1>5, <2>1, <2>3 DEF Moves
  <2> QED
    BY <2>4 DEF OfAKind
<1>6. ASSUME NEW u \in User, NEW d \in User, delegateTo(u, d) PROVE OfAKind
  BY <1>5, <1>6 DEF delegateTo, _delegateTo
<1>7. ASSUME NEW s \in SignedDelegations, delegateBySig(s) PROVE OfAKind
  <2>1. s.user \in User /\ s.delegate \in User
    BY ReputationAssumption
  <2>2. _delegateTo(s.user, s.delegate) /\ UNCHANGED remote
    BY <1>7 DEF delegateBySig, _delegateTo
  <2> QED
    BY <1>5, <2>1, <2>2
<1>8. ASSUME NEW p \in Published, setBlockchainStateHash(p.id, p.hash) PROVE OfAKind
  BY <1>8, StateHashIsOfAKind DEF OfAKind
<1>9. ASSUME NEW id \in Id, NEW u \in User, proveBalanceOfAtBlockchain(id, u) PROVE OfAKind
  BY <1>9, ProveIsOfAKind DEF OfAKind
<1>10. CASE NextBlock
  BY <1>2, <1>10 DEF NextBlock
<1>11. ASSUME NEW t \in Targets, setReputationRecipient(t.user, t.target) PROVE OfAKind
  BY <1>2, <1>11 DEF setReputationRecipient
<1>12. CASE updateDAO
  BY <1>2, <1>12 DEF updateDAO
<1>13. CASE UNCHANGED vars
  BY <1>2, <1>13 DEF vars, local, remote
<1>14. ASSUME NEW u \in User, undelegate(u) PROVE OfAKind
  BY <1>6, <1>14 DEF undelegate
<1> QED
  BY <1>3, <1>4, <1>6, <1>7, <1>8, <1>9, <1>10, <1>11, <1>12, <1>13, <1>14 DEF Next

-----------------------------------------------------------------------------
(* Votes and balances *)

AllBalances == SumFunctionOnSet(Bal, User)
AllVotes == SumFunctionOnSet(Votes, User)

\* Inductive invariant: a balance that no delegate counts is zero, so that the
\* first delegation has nothing to take away from anybody.
DelegationInv ==
    /\ NoneIsLost
    /\ VotesAreDelegatedBalances
    /\ AllVotes = AllBalances

LEMMA VotesAreSums ==
    VotesAreDelegatedBalances
        <=> \A d \in User : Votes[d] = SumFunctionOnSet(Bal, {u \in User : delegates[u] = d})
  BY DEF VotesAreDelegatedBalances, Votes, Bal, DelegatorsOf

LEMMA MoveKeepsDelegation ==
    ASSUME RepInv, DelegationInv, NEW t \in User, NEW e \in User, NEW y \in Nat,
           Move(t, e, y), Bal' \in [User -> Nat], Votes' \in [User -> Nat]
    PROVE  DelegationInv' /\ AllBalances' = AllBalances + y - Bal[t]
<1>1. /\ Bal \in [User -> Nat] /\ Votes \in [User -> Nat]
      /\ delegates \in [User -> User \union {NoAddress}]
      /\ IsFiniteSet(User) /\ NoAddress \notin User
  BY CurrentTypes, ReputationAssumption DEF RepInv
<1>2. /\ Bal' = [Bal EXCEPT ![t] = y]
      /\ delegates' = [delegates EXCEPT ![t] = e]
      /\ \A w \in User :
            Votes'[w] = Votes[w] - (IF w = delegates[t] THEN Bal[t] ELSE 0)
                                 + (IF w = e THEN y ELSE 0)
  BY DEF Move
<1>3. \A w \in User : Votes[w] = SumFunctionOnSet(Bal, {u \in User : delegates[u] = w})
  BY VotesAreSums DEF DelegationInv
<1>4. delegates[t] \in User \union {NoAddress} /\ (delegates[t] = NoAddress => Bal[t] = 0)
  BY <1>1 DEF DelegationInv, NoneIsLost
<1>5. NoneIsLost'
  BY <1>1, <1>2 DEF DelegationInv, NoneIsLost
<1>6. PICK B, V, D, B2, V2, D2 : /\ B = Bal /\ V = Votes /\ D = delegates
                                 /\ B2 = Bal' /\ V2 = Votes' /\ D2 = delegates'
  OBVIOUS
<1>6a. /\ IsMove(User, NoAddress, B, V, D, t, e, y, B2, V2, D2)
       /\ CountedIn(User, B, V, D)
  BY <1>1, <1>2, <1>3, <1>4, <1>6 DEF IsMove, CountedIn
<1>7. CountedIn(User, B2, V2, D2)
  BY <1>6a, MovedVotes
<1>8. VotesAreDelegatedBalances'
  <2>1. \A d \in User : Votes'[d] = SumFunctionOnSet(Bal', {u \in User : delegates'[u] = d})
    BY <1>6, <1>7 DEF CountedIn
  <2> QED
    BY <2>1 DEF VotesAreDelegatedBalances, Votes, Bal, DelegatorsOf
<1>9. /\ SumFunctionOnSet(B2, User) = SumFunctionOnSet(B, User) + y - B[t]
      /\ SumFunctionOnSet(V2, User) = SumFunctionOnSet(V, User) + y - B[t]
  BY <1>6a, MovedTotals
<1>10. AllBalances' = AllBalances + y - Bal[t] /\ AllVotes' = AllVotes + y - Bal[t]
  BY <1>6, <1>9 DEF AllBalances, AllVotes
<1> QED
  BY <1>5, <1>8, <1>10 DEF DelegationInv

LEMMA IdleKeepsDelegation ==
    ASSUME DelegationInv, Bal' = Bal, Votes' = Votes, delegates' = delegates
    PROVE  DelegationInv' /\ AllBalances' = AllBalances
<1>1. VotesAreDelegatedBalances'
  <2>1. \A d \in User : Votes'[d] = SumFunctionOnSet(Bal', {u \in User : delegates'[u] = d})
    BY VotesAreSums DEF DelegationInv
  <2> QED
    BY <2>1 DEF VotesAreDelegatedBalances, Votes, Bal, DelegatorsOf
<1>2. NoneIsLost'
  BY DEF DelegationInv, NoneIsLost
<1> QED
  BY <1>1, <1>2 DEF DelegationInv, AllVotes, AllBalances

LEMMA LeavesAreNat == \A h \in Hash, u \in User : Leaves[h][u] \in Nat
  BY TreesAssumption

\* The sum of the balances follows the step.
BalancesFollow ==
    \/ Idle /\ UNCHANGED remote /\ AllBalances' = AllBalances
    \/ /\ UNCHANGED remote /\ AllBalances' \in Nat
       /\ Supply' - AllBalances' = Supply - AllBalances
    \/ \E id \in Id, u \in User, h \in Hash :
          /\ Proves(id, u, h) /\ Supply' = Supply
          /\ AllBalances' = AllBalances + (IF id = Root THEN Leaves[h][u] ELSE 0)
    \/ \E p \in Published : Publishes(p) /\ AllBalances' = AllBalances

LEMMA DelegationStep ==
    ASSUME RepInv, RepInv', DelegationInv, [Next]_vars
    PROVE  DelegationInv' /\ BalancesFollow
<1>1. OfAKind
  BY StepKinds DEF DelegationInv
<1>2. /\ Bal \in [User -> Nat] /\ Votes \in [User -> Nat] /\ Supply \in Nat
      /\ IsFiniteSet(User)
  BY CurrentTypes, ReputationAssumption DEF RepInv
<1>3. Bal' \in [User -> Nat] /\ Votes' \in [User -> Nat] /\ Supply' \in Nat
  <2>1. TypeOK' => CurrentTyped'
    BY TypedAtAll, PTL
  <2> QED
    BY <2>1 DEF RepInv, CurrentTyped
<1>4. AllBalances \in Nat /\ AllBalances' \in Nat
  BY <1>2, <1>3, SumType DEF AllBalances
<1>5. CASE Idle /\ UNCHANGED remote
  BY <1>5, IdleKeepsDelegation DEF Idle, BalancesFollow
<1>6. CASE Moves
  <2>1. UNCHANGED remote
    BY <1>6 DEF Moves
  <2>2. PICK t \in User, e \in User, y \in Nat :
            Move(t, e, y) /\ Supply' = Supply + y - Bal[t]
    BY <1>6 DEF Moves
  <2>3. DelegationInv' /\ AllBalances' = AllBalances + y - Bal[t]
    BY <1>3, <2>2, MoveKeepsDelegation
  <2>4. Supply' - AllBalances' = Supply - AllBalances
    <3>1. Bal[t] \in Nat
      BY <1>2
    <3> QED
      BY <1>2, <1>4, <2>2, <2>3, <3>1
  <2> QED
    BY <1>4, <2>1, <2>3, <2>4 DEF BalancesFollow
<1>7. ASSUME NEW id \in Id, NEW u \in User, NEW h \in Hash, Proves(id, u, h)
      PROVE  DelegationInv' /\ BalancesFollow
  <2>1. CASE id = Root
    <3>1. PICK e \in User : Move(u, e, Bal[u] + Leaves[h][u])
      BY <1>7, <2>1 DEF Proves
    <3>2. Leaves[h][u] \in Nat /\ Bal[u] \in Nat /\ Bal[u] + Leaves[h][u] \in Nat
      BY <1>2, LeavesAreNat
    <3>3. /\ DelegationInv'
          /\ AllBalances' = AllBalances + (Bal[u] + Leaves[h][u]) - Bal[u]
      BY <1>3, <3>1, <3>2, MoveKeepsDelegation
    <3>4. AllBalances' = AllBalances + Leaves[h][u]
      BY <1>4, <3>2, <3>3
    <3>5. Supply' = Supply
      BY <1>7, <2>1 DEF Proves
    <3> QED
      BY <1>7, <2>1, <3>3, <3>4, <3>5 DEF BalancesFollow
  <2>2. CASE id # Root
    <3>1. Idle
      BY <1>7, <2>2 DEF Proves
    <3>2. DelegationInv' /\ AllBalances' = AllBalances
      BY <3>1, IdleKeepsDelegation DEF Idle
    <3>3. AllBalances' = AllBalances + 0
      BY <1>4, <3>2
    <3> QED
      BY <1>7, <2>2, <3>1, <3>2, <3>3 DEF BalancesFollow, Idle
  <2> QED
    BY <2>1, <2>2
<1>8. ASSUME NEW p \in Published, Publishes(p)
      PROVE  DelegationInv' /\ BalancesFollow
  BY <1>8, IdleKeepsDelegation DEF Publishes, BalancesFollow
<1> QED
  BY <1>1, <1>5, <1>6, <1>7, <1>8 DEF OfAKind

LEMMA DelegationInitial ==
    ASSUME Init PROVE DelegationInv /\ AllBalances = 0
<1>1. /\ \A u \in User : balances[u] = <<>> /\ activeVotes[u] = <<>>
      /\ IsFiniteSet(User)
  BY ReputationAssumption DEF Init
<1>2. ValueAt(<<>>, block) = 0
  BY DEF ValueAt
<1>3. \A u \in User : Bal[u] = 0 /\ Votes[u] = 0
  BY <1>1, <1>2 DEF Bal, Votes, balanceOfLocalAt, localVotesAt
<1>4. AllBalances = 0 /\ AllVotes = 0
  BY <1>1, <1>3, SumOfZeros DEF AllBalances, AllVotes
<1>5. ASSUME NEW d \in User
      PROVE  SumFunctionOnSet(Bal, {u \in User : delegates[u] = d}) = 0
  <2>1. IsFiniteSet({u \in User : delegates[u] = d})
    BY <1>1, FS_Subset
  <2>2. \A u \in {v \in User : delegates[v] = d} : Bal[u] = 0
    BY <1>3
  <2> QED
    BY <2>1, <2>2, SumOfZeros
<1> QED
  BY <1>3, <1>4, <1>5, VotesAreSums DEF DelegationInv, NoneIsLost

\* A delegate has the votes of those who delegate to it, all of them and
\* nothing else, whatever is minted, burnt, proved and re-delegated (by call or
\* by signature), many times in a block.
THEOREM VotesCountBalances == Spec => []VotesAreDelegatedBalances
<1>1. Init => RepInv /\ DelegationInv
  BY RepInitial, DelegationInitial
<1>2. RepInv /\ DelegationInv /\ [Next]_vars => (RepInv /\ DelegationInv)'
  BY RepStep, KeptIsInvariant, DelegationStep
<1>3. DelegationInv => VotesAreDelegatedBalances
  BY DEF DelegationInv
<1>4. QED
  BY <1>1, <1>2, <1>3, PTL DEF Spec

-----------------------------------------------------------------------------
(* Supply and balances *)

ProvedOf(h) == SumFunctionOnSet(stateHashBalances[h], User)

\* What is proved of a tree is in the tree.
LeavesBound == \A h \in Hash, u \in User : stateHashBalances[h][u] <= Leaves[h][u]

LEMMA ProvedTypes ==
    TypeOK /\ LeavesBound => \A h \in Hash : /\ ProvedOf(h) \in Nat /\ ProvedOf(h) <= Total[h]
                                             /\ Total[h] \in Nat
<1> SUFFICES ASSUME TypeOK, LeavesBound, NEW h \in Hash
             PROVE  ProvedOf(h) \in Nat /\ ProvedOf(h) <= Total[h] /\ Total[h] \in Nat
  OBVIOUS
<1>1. PICK f : f = stateHashBalances[h]
  OBVIOUS
<1>2. PICK g : g = Leaves[h]
  OBVIOUS
<1>3. /\ IsFiniteSet(User)
      /\ \A u \in User : f[u] \in Nat /\ g[u] \in Nat /\ f[u] <= g[u]
  BY <1>1, <1>2, TreesAssumption, ReputationAssumption DEF TypeOK, LeavesBound
<1>4. /\ SumFunctionOnSet(f, User) \in Nat /\ SumFunctionOnSet(g, User) \in Nat
      /\ SumFunctionOnSet(f, User) <= SumFunctionOnSet(g, User)
  BY <1>3, SumType, SumMonotonic
<1>5. SumFunctionOnSet(g, User) <= Total[h] /\ Total[h] \in Nat
  BY <1>2, TreesAssumption
<1> QED
  BY <1>1, <1>4, <1>5 DEF ProvedOf

LEMMA LastHashType ==
    ASSUME TypeOK, NEW id \in Id, blockchainStates[id] # <<>>
    PROVE  LastHash(id) \in Hash
<1>1. blockchainStates[id] \in Seq(BlockchainState)
  BY DEF TypeOK
<1>2. blockchainStates[id][Len(blockchainStates[id])] \in BlockchainState
  BY <1>1
<1>3. QED
  BY <1>2 DEF LastHash, BlockchainState

LEMMA UnprovedType == TypeOK /\ LeavesBound => UnprovedRoot \in Nat
<1> SUFFICES ASSUME TypeOK, LeavesBound PROVE UnprovedRoot \in Nat
  OBVIOUS
<1>1. CASE blockchainStates[Root] = <<>>
  BY <1>1 DEF UnprovedRoot
<1>2. CASE blockchainStates[Root] # <<>>
  <2> DEFINE h == LastHash(Root)
  <2>1. h \in Hash
    BY <1>2, LastHashType DEF Id
  <2>2. UnprovedRoot = Total[h] - ProvedOf(h)
    BY <1>2 DEF UnprovedRoot, ProvedOf
  <2> HIDE DEF h
  <2> QED
    BY <2>1, <2>2, ProvedTypes
<1> QED
  BY <1>1, <1>2

\* A proof takes its leaf from what is unproved of its tree, and of no other.
LEMMA ProofUpdates ==
    ASSUME TypeOK, NEW id \in Id, NEW u \in User, NEW h \in Hash, Proves(id, u, h)
    PROVE  /\ stateHashBalances'[h][u] = Leaves[h][u]
           /\ \A g \in Hash, v \in User :
                 g # h \/ v # u => stateHashBalances'[g][v] = stateHashBalances[g][v]
           /\ \A g \in Hash : ProvedOf(g)' = ProvedOf(g) + (IF g = h THEN Leaves[h][u] ELSE 0)
<1>1. /\ stateHashBalances \in [Hash -> [User -> Nat]]
      /\ stateHashBalances[h][u] = 0
      /\ stateHashBalances' = [stateHashBalances EXCEPT ![h][u] = Leaves[h][u]]
      /\ IsFiniteSet(User)
  BY ReputationAssumption DEF TypeOK, Proves
<1>2. /\ stateHashBalances'[h][u] = Leaves[h][u]
      /\ \A g \in Hash, v \in User :
            g # h \/ v # u => stateHashBalances'[g][v] = stateHashBalances[g][v]
  BY <1>1
<1>3. ASSUME NEW g \in Hash
      PROVE  ProvedOf(g)' = ProvedOf(g) + (IF g = h THEN Leaves[h][u] ELSE 0)
  <2>1. PICK f, k : f = stateHashBalances[g] /\ k = stateHashBalances'[g]
    OBVIOUS
  <2>2. ProvedOf(g) = SumFunctionOnSet(f, User) /\ ProvedOf(g)' = SumFunctionOnSet(k, User)
    BY <2>1 DEF ProvedOf
  <2>3. CASE g = h
    <3>1. /\ \A v \in User : f[v] \in Int /\ k[v] \in Int
          /\ \A v \in User \ {u} : k[v] = f[v]
          /\ f[u] = 0 /\ k[u] = Leaves[h][u]
      BY <1>1, <1>2, <2>1, <2>3, LeavesAreNat
    <3>2. SumFunctionOnSet(k, User) = SumFunctionOnSet(f, User) - f[u] + k[u]
      BY <1>1, <3>1, SumUpdate
    <3>3. SumFunctionOnSet(f, User) \in Int /\ Leaves[h][u] \in Int
      BY <1>1, <3>1, SumType, LeavesAreNat
    <3> QED
      BY <2>2, <2>3, <3>1, <3>2, <3>3
  <2>4. CASE g # h
    <3>1. f = k /\ \A v \in User : f[v] \in Int
      BY <1>1, <2>1, <2>4
    <3>2. SumFunctionOnSet(f, User) \in Int
      BY <1>1, <3>1, SumType
    <3> QED
      BY <2>2, <2>4, <3>1, <3>2
  <2> QED
    BY <2>3, <2>4
<1> QED
  BY <1>2, <1>3

LEMMA ProofOfRoot ==
    ASSUME TypeOK, LeavesBound, NEW id \in Id, NEW u \in User, NEW h \in Hash, Proves(id, u, h)
    PROVE  UnprovedRoot' = UnprovedRoot - (IF /\ blockchainStates[Root] # <<>>
                                              /\ LastHash(Root) = h
                                           THEN Leaves[h][u] ELSE 0)
<1>1. blockchainStates' = blockchainStates
  BY DEF Proves
<1>2. CASE blockchainStates[Root] = <<>>
  BY <1>1, <1>2 DEF UnprovedRoot
<1>3. CASE blockchainStates[Root] # <<>>
  <2>0. PICK g : g = LastHash(Root)
    OBVIOUS
  <2>1. g \in Hash
    BY <1>3, <2>0, LastHashType DEF Id
  <2>2. UnprovedRoot = Total[g] - ProvedOf(g) /\ UnprovedRoot' = Total[g] - ProvedOf(g)'
    BY <1>1, <1>3, <2>0 DEF UnprovedRoot, ProvedOf, LastHash
  <2>3. ProvedOf(g)' = ProvedOf(g) + (IF g = h THEN Leaves[h][u] ELSE 0)
    BY <2>1, ProofUpdates
  <2>4. ProvedOf(g) \in Int /\ Total[g] \in Int /\ Leaves[h][u] \in Int
    BY <2>1, ProvedTypes, LeavesAreNat
  <2>5. UnprovedRoot' = UnprovedRoot - (IF g = h THEN Leaves[h][u] ELSE 0)
    BY <2>2, <2>3, <2>4
  <2> QED
    BY <1>3, <2>0, <2>5
<1> QED
  BY <1>2, <1>3

LEMMA PublishedRoot ==
    ASSUME TypeOK, NEW p \in Published, Publishes(p)
    PROVE  /\ p.id # Root => UnprovedRoot' = UnprovedRoot
           /\ p.id = Root => UnprovedRoot' = Total[p.hash] - ProvedOf(p.hash)
<1>1. /\ p.id \in Id /\ p.hash \in Hash /\ Root \in Id
  BY TreesAssumption DEF Id
<1>2. /\ blockchainStates \in [Id -> Seq(BlockchainState)]
      /\ stateHashBalances' = stateHashBalances
      /\ blockchainStates' = [blockchainStates EXCEPT ![p.id] =
             Append(@, [stateHash |-> p.hash, blockNumber |-> block])]
  BY DEF TypeOK, Publishes
<1>3. CASE p.id # Root
  <2>1. blockchainStates'[Root] = blockchainStates[Root]
    BY <1>1, <1>2, <1>3
  <2>2. LastHash(Root)' = LastHash(Root)
    BY <2>1 DEF LastHash
  <2>3. \A g : ProvedOf(g)' = ProvedOf(g)
    BY <1>2 DEF ProvedOf
  <2>4. UnprovedRoot' = UnprovedRoot
    BY <2>1, <2>2, <2>3 DEF UnprovedRoot, ProvedOf
  <2> QED
    BY <1>3, <2>4
<1>4. CASE p.id = Root
  <2> DEFINE c == [stateHash |-> p.hash, blockNumber |-> block]
  <2>1. blockchainStates'[Root] = Append(blockchainStates[Root], c)
    BY <1>1, <1>2, <1>4
  <2>2. c \in BlockchainState /\ c.stateHash = p.hash
    BY <1>1 DEF BlockchainState, TypeOK
  <2> HIDE DEF c
  <2>3. /\ blockchainStates'[Root] # <<>>
        /\ blockchainStates'[Root][Len(blockchainStates'[Root])] = c
    <3>1. PICK q : q = blockchainStates[Root]
      OBVIOUS
    <3>2. q \in Seq(BlockchainState)
      BY <1>1, <1>2, <3>1
    <3>3. Append(q, c) # <<>> /\ Append(q, c)[Len(Append(q, c))] = c
      BY <2>2, <3>2
    <3> QED
      BY <2>1, <3>1, <3>3
  <2>4. LastHash(Root)' = p.hash
    BY <2>2, <2>3 DEF LastHash
  <2> QED
    BY <1>2, <1>4, <2>3, <2>4 DEF UnprovedRoot, ProvedOf
<1> QED
  BY <1>3, <1>4

\* Inductive invariant: the supply covers the balances and what may still be
\* proved of the root state.
SupplyInv ==
    /\ LeavesBound
    /\ AllBalances + UnprovedRoot <= Supply

LEMMA SupplyStep ==
    ASSUME RepInv, RepInv', SupplyInv, BalancesFollow
    PROVE  SupplyInv'
<1>1. /\ Supply \in Nat /\ TypeOK /\ TypeOK' /\ LeavesBound
      /\ AllBalances + UnprovedRoot <= Supply
  BY CurrentTypes DEF RepInv, SupplyInv
<1>2. AllBalances \in Nat
  BY <1>1, CurrentTypes, ReputationAssumption, SumType DEF AllBalances
<1>3. UnprovedRoot \in Nat
  BY <1>1, UnprovedType
<1>4. ASSUME UNCHANGED remote PROVE LeavesBound' /\ UnprovedRoot' = UnprovedRoot
  BY <1>1, <1>4 DEF remote, LeavesBound, UnprovedRoot, LastHash
<1>5. CASE Idle /\ UNCHANGED remote /\ AllBalances' = AllBalances
  <2>1. Supply' = Supply
    BY <1>5 DEF Idle
  <2> QED
    BY <1>1, <1>4, <1>5, <2>1 DEF SupplyInv
<1>6. CASE /\ UNCHANGED remote /\ AllBalances' \in Nat
           /\ Supply' - AllBalances' = Supply - AllBalances
  <2>1. Supply' \in Nat
    <3>1. TypeOK' => CurrentTyped'
      BY TypedAtAll, PTL
    <3> QED
      BY <1>1, <3>1 DEF CurrentTyped
  <2>2. LeavesBound' /\ UnprovedRoot' = UnprovedRoot
    BY <1>4, <1>6
  <2>3. AllBalances' + UnprovedRoot' <= Supply'
    <3>1. PICK a, b, s, r : /\ a = AllBalances /\ b = AllBalances'
                            /\ s = Supply /\ r = UnprovedRoot
      OBVIOUS
    <3>2. PICK z : z = Supply'
      OBVIOUS
    <3>3. /\ a \in Nat /\ b \in Nat /\ s \in Nat /\ r \in Nat /\ z \in Nat
          /\ z - b = s - a /\ a + r <= s
      BY <1>1, <1>2, <1>3, <1>6, <2>1, <3>1, <3>2
    <3>4. b + r <= z
      BY <3>3
    <3> QED
      BY <2>2, <3>1, <3>2, <3>4
  <2> QED
    BY <2>2, <2>3 DEF SupplyInv
<1>7. ASSUME NEW id \in Id, NEW u \in User, NEW h \in Hash,
             Proves(id, u, h), Supply' = Supply,
             AllBalances' = AllBalances + (IF id = Root THEN Leaves[h][u] ELSE 0)
      PROVE  SupplyInv'
  <2>1. LeavesBound'
    <3>1. /\ stateHashBalances'[h][u] = Leaves[h][u]
          /\ \A g \in Hash, v \in User :
                g # h \/ v # u => stateHashBalances'[g][v] = stateHashBalances[g][v]
      BY <1>1, <1>7, ProofUpdates
    <3> QED
      BY <1>1, <3>1, LeavesAreNat DEF LeavesBound
  <2>2. UnprovedRoot' = UnprovedRoot - (IF /\ blockchainStates[Root] # <<>>
                                           /\ LastHash(Root) = h
                                        THEN Leaves[h][u] ELSE 0)
    BY <1>1, <1>7, ProofOfRoot
  <2>3. id = Root => blockchainStates[Root] # <<>> /\ LastHash(Root) = h
    BY <1>7 DEF Proves
  <2>4. Leaves[h][u] \in Nat
    BY LeavesAreNat
  <2>5. AllBalances' + UnprovedRoot' <= Supply'
    BY SMTT(30), <1>1, <1>2, <1>3, <1>7, <2>2, <2>3, <2>4
  <2> QED
    BY <2>1, <2>5 DEF SupplyInv
<1>8. ASSUME NEW p \in Published, Publishes(p), AllBalances' = AllBalances
      PROVE  SupplyInv'
  <2>1. LeavesBound'
    BY <1>1, <1>8 DEF Publishes, LeavesBound
  <2>2. CASE p.id # Root
    <3>1. UnprovedRoot' = UnprovedRoot /\ Supply' = Supply
      BY <1>1, <1>8, <2>2, PublishedRoot DEF Publishes
    <3> QED
      BY <1>1, <1>8, <2>1, <3>1 DEF SupplyInv
  <2>3. CASE p.id = Root
    <3>1. /\ UnprovedRoot' = Total[p.hash] - ProvedOf(p.hash)
          /\ Supply = 0 /\ Supply' = Total[p.hash]
      BY <1>1, <1>8, <2>3, PublishedRoot DEF Publishes
    <3>2. p.hash \in Hash
      BY TreesAssumption
    <3>3. /\ ProvedOf(p.hash) \in Nat /\ Total[p.hash] \in Nat
      BY <1>1, <3>2, ProvedTypes
    <3>4. AllBalances = 0
      BY <1>1, <1>2, <1>3, <3>1
    <3>5. AllBalances' + UnprovedRoot' <= Supply'
      BY <1>8, <3>1, <3>3, <3>4
    <3> QED
      BY <2>1, <3>5 DEF SupplyInv
  <2> QED
    BY <2>2, <2>3
<1> QED
  BY <1>5, <1>6, <1>7, <1>8 DEF BalancesFollow

LEMMA FirstState ==
    ASSUME Init
    PROVE  /\ Supply = UnprovedRoot /\ LeavesBound
           /\ \A h \in Hash, u \in User : stateHashBalances[h][u] = 0
           /\ \A id \in Id : \A i \in DOMAIN blockchainStates[id] :
                 \E s \in InitPublished :
                    /\ s # NoState /\ s.id = id
                    /\ blockchainStates[id][i] = [stateHash |-> s.hash, blockNumber |-> 1]
<1>1. PICK s \in InitPublished :
          /\ blockchainStates = [id \in Id |->
                IF s # NoState /\ s.id = id
                THEN <<[stateHash |-> s.hash, blockNumber |-> 1]>> ELSE <<>>]
          /\ totalSupplyHistory =
                IF s # NoState /\ s.id = Root
                THEN Updated(<<>>, 1, Total[s.hash]) ELSE <<>>
  BY DEF Init
<1>2. /\ s # NoState => s.hash \in Hash /\ s.id \in Id /\ Total[s.hash] \in Nat
      /\ Root \in Id /\ block = 1 /\ IsFiniteSet(User)
  BY TreesAssumption, ReputationAssumption DEF Init, Id
<1>3. \A h \in Hash, u \in User : stateHashBalances[h][u] = 0
  BY DEF Init
<1>4. LeavesBound
  BY <1>3, LeavesAreNat DEF LeavesBound
<1>5. Supply = UnprovedRoot
  <2>1. CASE s # NoState /\ s.id = Root
    <3>1. blockchainStates[Root] = <<[stateHash |-> s.hash, blockNumber |-> 1]>>
      BY <1>1, <1>2, <2>1
    <3>2. blockchainStates[Root] # <<>> /\ LastHash(Root) = s.hash
      BY <3>1 DEF LastHash
    <3>3. ProvedOf(s.hash) = 0
      BY <1>2, <1>3, <2>1, SumOfZeros DEF ProvedOf
    <3>4. UnprovedRoot = Total[s.hash] - ProvedOf(s.hash)
      BY <3>2 DEF UnprovedRoot, ProvedOf
    <3>5. <<>> \in History /\ UpToNow(<<>>, 1)
      BY DEF History, Sorted, UpToNow
    <3>6. ValueAt(Updated(<<>>, 1, Total[s.hash]), 1) = Total[s.hash]
      BY <1>2, <2>1, <3>5, UpdatedHistory
    <3> QED
      BY <1>1, <1>2, <2>1, <3>3, <3>4, <3>6 DEF Supply, totalSupplyLocalAt
  <2>2. CASE ~(s # NoState /\ s.id = Root)
    <3>1. blockchainStates[Root] = <<>> /\ totalSupplyHistory = <<>>
      BY <1>1, <1>2, <2>2
    <3>2. ValueAt(<<>>, block) = 0
      BY DEF ValueAt
    <3> QED
      BY <3>1, <3>2 DEF UnprovedRoot, Supply, totalSupplyLocalAt
  <2> QED
    BY <2>1, <2>2
<1>6. ASSUME NEW id \in Id, NEW i \in DOMAIN blockchainStates[id]
      PROVE  /\ s # NoState /\ s.id = id
             /\ blockchainStates[id][i] = [stateHash |-> s.hash, blockNumber |-> 1]
  <2>1. s # NoState /\ s.id = id
    BY <1>1, <1>6
  <2>2. blockchainStates[id] = <<[stateHash |-> s.hash, blockNumber |-> 1]>>
    BY <1>1, <2>1
  <2> QED
    BY <1>6, <2>1, <2>2
<1> QED
  BY <1>3, <1>4, <1>5, <1>6

-----------------------------------------------------------------------------
(* The local supply, exactly *)

StateIn(id, h) == \E i \in DOMAIN blockchainStates[id] : blockchainStates[id][i].stateHash = h

\* Inductive invariant: states are published ones, and what is proved is a leaf
\* of a state.
ExactInv ==
    /\ \A id \in Id, h \in Hash : StateIn(id, h) => [id |-> id, hash |-> h] \in States
    /\ \A h \in Hash, u \in User :
          stateHashBalances[h][u] # 0 => \E id \in Id : StateIn(id, h)
    /\ RootSuppliedOnce => Supply = AllBalances + UnprovedRoot

LEMMA StatesAreRecords ==
    \A p \in States : p.id \in Id /\ p.hash \in Hash /\ p = [id |-> p.id, hash |-> p.hash]
  BY TreesAssumption DEF States

LEMMA LastIsIn ==
    ASSUME TypeOK, NEW id \in Id, blockchainStates[id] # <<>>
    PROVE  StateIn(id, LastHash(id))
<1>1. blockchainStates[id] \in Seq(BlockchainState)
  BY DEF TypeOK
<1>2. Len(blockchainStates[id]) \in DOMAIN blockchainStates[id]
  BY <1>1
<1> QED
  BY <1>2 DEF StateIn, LastHash

LEMMA AppendedStates ==
    ASSUME TypeOK, NEW p \in Published, Publishes(p), NEW id \in Id, NEW h
    PROVE  /\ StateIn(id, h)' <=> StateIn(id, h) \/ (id = p.id /\ h = p.hash)
           /\ Len(blockchainStates'[id]) = Len(blockchainStates[id]) + (IF id = p.id THEN 1 ELSE 0)
           /\ Len(blockchainStates[id]) \in Nat
           /\ Len(blockchainStates[id]) = 0 <=> blockchainStates[id] = <<>>
<1> DEFINE c == [stateHash |-> p.hash, blockNumber |-> block]
<1>1. PICK q, r : q = blockchainStates[id] /\ r = blockchainStates'[id]
  OBVIOUS
<1>2. q \in Seq(BlockchainState) /\ p.id \in Id
  BY <1>1, TreesAssumption DEF TypeOK
<1>3. r = IF id = p.id THEN Append(q, c) ELSE q
  BY <1>1, <1>2 DEF TypeOK, Publishes
<1>4. c \in BlockchainState /\ c.stateHash = p.hash
  BY TreesAssumption DEF BlockchainState, TypeOK
<1> HIDE DEF c
<1>5. /\ StateIn(id, h) <=> \E i \in DOMAIN q : q[i].stateHash = h
      /\ StateIn(id, h)' <=> \E i \in DOMAIN r : r[i].stateHash = h
  BY <1>1 DEF StateIn
<1>6. CASE id = p.id
  <2>1. /\ DOMAIN q = 1..Len(q) /\ DOMAIN r = 1..(Len(q) + 1) /\ Len(q) \in Nat
        /\ \A i \in 1..Len(q) : r[i] = q[i]
        /\ r[Len(q) + 1] = c /\ Len(r) = Len(q) + 1
        /\ Len(q) = 0 <=> q = <<>>
    BY <1>2, <1>3, <1>4, <1>6
  <2>2. (\E i \in DOMAIN q : q[i].stateHash = h) => \E i \in DOMAIN r : r[i].stateHash = h
    BY <2>1
  <2>3. p.hash = h => \E i \in DOMAIN r : r[i].stateHash = h
    <3>1. Len(q) + 1 \in DOMAIN r /\ r[Len(q) + 1].stateHash = p.hash
      BY <1>4, <2>1
    <3> QED
      BY <3>1
  <2>4. ASSUME NEW i \in DOMAIN r, r[i].stateHash = h
        PROVE  p.hash = h \/ \E j \in DOMAIN q : q[j].stateHash = h
    <3>1. i \in 1..Len(q) \/ i = Len(q) + 1
      BY <2>1
    <3> QED
      BY <1>4, <2>1, <2>4, <3>1
  <2>5. StateIn(id, h)' <=> StateIn(id, h) \/ (id = p.id /\ h = p.hash)
    BY <1>5, <1>6, <2>2, <2>3, <2>4
  <2>6. /\ Len(r) = Len(q) + (IF id = p.id THEN 1 ELSE 0)
        /\ Len(q) \in Nat
        /\ Len(q) = 0 <=> q = <<>>
    BY <1>6, <2>1
  <2> QED
    BY <1>1, <2>5, <2>6
<1>7. CASE id # p.id
  BY <1>1, <1>2, <1>3, <1>5, <1>7
<1> QED
  BY <1>6, <1>7

LEMMA ExactStep ==
    ASSUME RepInv, RepInv', SupplyInv, ExactInv, RootTreeIsItsOwn, BalancesFollow
    PROVE  ExactInv'
<1>1. /\ Supply \in Nat /\ TypeOK /\ LeavesBound /\ Root \in Id
  BY CurrentTypes DEF RepInv, SupplyInv, Id
<1>2. AllBalances \in Nat
  BY <1>1, CurrentTypes, ReputationAssumption, SumType DEF AllBalances
<1>3. UnprovedRoot \in Nat
  BY <1>1, UnprovedType
<1>4. ASSUME UNCHANGED remote,
             \/ Supply' = Supply /\ AllBalances' = AllBalances
             \/ AllBalances' \in Nat /\ Supply' - AllBalances' = Supply - AllBalances
      PROVE  ExactInv'
  <2>1. /\ UnprovedRoot' = UnprovedRoot /\ RootSuppliedOnce' = RootSuppliedOnce
        /\ \A id, h : StateIn(id, h)' <=> StateIn(id, h)
        /\ stateHashBalances' = stateHashBalances
    BY <1>4 DEF remote, UnprovedRoot, LastHash, RootSuppliedOnce, StateIn
  <2>2. Supply' \in Nat
    <3>1. TypeOK' => CurrentTyped'
      BY TypedAtAll, PTL
    <3> QED
      BY <3>1 DEF CurrentTyped, RepInv
  <2>3. RootSuppliedOnce => Supply = AllBalances + UnprovedRoot
    BY DEF ExactInv
  <2>4. RootSuppliedOnce' => Supply' = AllBalances' + UnprovedRoot'
    <3>1. PICK a, b, s, r : /\ a = AllBalances /\ b = AllBalances'
                            /\ s = Supply /\ r = UnprovedRoot
      OBVIOUS
    <3>2. PICK z : z = Supply'
      OBVIOUS
    <3>3. CASE Supply' = Supply /\ AllBalances' = AllBalances
      BY <2>1, <2>3, <3>3
    <3>4. CASE AllBalances' \in Nat /\ Supply' - AllBalances' = Supply - AllBalances
      <4>1. /\ a \in Nat /\ b \in Nat /\ s \in Nat /\ r \in Nat /\ z \in Nat
            /\ z - b = s - a
        BY <1>1, <1>2, <1>3, <2>2, <3>1, <3>2, <3>4
      <4>2. s = a + r => z = b + r
        BY <4>1
      <4> QED
        BY <2>1, <2>3, <3>1, <3>2, <4>2
    <3> QED
      BY <1>4, <3>3, <3>4
  <2> QED
    BY <2>1, <2>4 DEF ExactInv
<1>5. CASE Idle /\ UNCHANGED remote /\ AllBalances' = AllBalances
  BY <1>4, <1>5 DEF Idle
<1>6. CASE /\ UNCHANGED remote /\ AllBalances' \in Nat
           /\ Supply' - AllBalances' = Supply - AllBalances
  BY <1>4, <1>6
<1>7. ASSUME NEW id \in Id, NEW u \in User, NEW h \in Hash,
             Proves(id, u, h), Supply' = Supply,
             AllBalances' = AllBalances + (IF id = Root THEN Leaves[h][u] ELSE 0)
      PROVE  ExactInv'
  <2>1. /\ \A i, g : StateIn(i, g)' <=> StateIn(i, g)
        /\ RootSuppliedOnce' = RootSuppliedOnce
    BY <1>7 DEF Proves, StateIn, RootSuppliedOnce
  <2>2. blockchainStates[id] # <<>> /\ h = LastHash(id)
    BY <1>7 DEF Proves
  <2>3. StateIn(id, h)
    BY <1>1, <2>2, LastIsIn
  <2>4. \A g \in Hash, v \in User :
           stateHashBalances'[g][v] # 0 => \E i \in Id : StateIn(i, g)
    <3>1. \A g \in Hash, v \in User :
             g # h \/ v # u => stateHashBalances'[g][v] = stateHashBalances[g][v]
      BY <1>1, <1>7, ProofUpdates
    <3> QED
      BY <2>3, <3>1 DEF ExactInv
  <2>5. UnprovedRoot' = UnprovedRoot - (IF /\ blockchainStates[Root] # <<>>
                                           /\ LastHash(Root) = h
                                        THEN Leaves[h][u] ELSE 0)
    BY <1>1, <1>7, ProofOfRoot
  <2>6. id = Root <=> blockchainStates[Root] # <<>> /\ LastHash(Root) = h
    <3> SUFFICES ASSUME blockchainStates[Root] # <<>>, LastHash(Root) = h PROVE id = Root
      BY <2>2
    <3>1. StateIn(Root, h)
      BY <1>1, LastIsIn
    <3>2. [id |-> Root, hash |-> h] \in States /\ [id |-> id, hash |-> h] \in States
      BY <1>1, <2>3, <3>1 DEF ExactInv
    <3> QED
      BY <3>2 DEF RootTreeIsItsOwn
  <2>7. Leaves[h][u] \in Nat
    BY LeavesAreNat
  <2>8. RootSuppliedOnce' => Supply' = AllBalances' + UnprovedRoot'
    BY <1>1, <1>2, <1>3, <1>7, <2>1, <2>5, <2>6, <2>7 DEF ExactInv
  <2> QED
    BY <2>1, <2>4, <2>8 DEF ExactInv
<1>8. ASSUME NEW p \in Published, Publishes(p), AllBalances' = AllBalances
      PROVE  ExactInv'
  <2>1. p \in States /\ p.id \in Id /\ p.hash \in Hash /\ p = [id |-> p.id, hash |-> p.hash]
    BY StatesAreRecords DEF States
  <2>2. stateHashBalances' = stateHashBalances
    BY <1>8 DEF Publishes
  <2>3. \A id \in Id, h \in Hash :
           StateIn(id, h)' <=> StateIn(id, h) \/ (id = p.id /\ h = p.hash)
    BY <1>1, <1>8, AppendedStates
  <2>4. \A id \in Id, h \in Hash : StateIn(id, h)' => [id |-> id, hash |-> h] \in States
    BY <2>1, <2>3 DEF ExactInv
  <2>5. \A h \in Hash, u \in User :
           stateHashBalances'[h][u] # 0 => \E id \in Id : StateIn(id, h)'
    BY <2>2, <2>3 DEF ExactInv
  <2>6. RootSuppliedOnce' => Supply' = AllBalances' + UnprovedRoot'
    <3>1. CASE p.id # Root
      <4>1. UnprovedRoot' = UnprovedRoot /\ Supply' = Supply
        BY <1>1, <1>8, <3>1, PublishedRoot DEF Publishes
      <4>2. RootSuppliedOnce' = RootSuppliedOnce
        <5>1. Root # p.id /\ p.id \in Id
          BY <2>1, <3>1
        <5>2. blockchainStates'[Root] = blockchainStates[Root]
          BY <1>1, <1>8, <5>1 DEF TypeOK, Publishes
        <5> QED
          BY <5>2 DEF RootSuppliedOnce
      <4> QED
        BY <1>8, <4>1, <4>2 DEF ExactInv
    <3>2. CASE p.id = Root
      <4> SUFFICES ASSUME RootSuppliedOnce' PROVE Supply' = AllBalances' + UnprovedRoot'
        OBVIOUS
      <4>1. blockchainStates[Root] = <<>>
        <5>1. /\ Len(blockchainStates'[Root]) = Len(blockchainStates[Root]) + 1
              /\ Len(blockchainStates[Root]) \in Nat
              /\ Len(blockchainStates[Root]) = 0 <=> blockchainStates[Root] = <<>>
          BY <1>1, <1>8, <3>2, AppendedStates
        <5> QED
          BY <5>1 DEF RootSuppliedOnce
      <4>2. \A u \in User : stateHashBalances[p.hash][u] = 0
        <5> SUFFICES ASSUME NEW u \in User, stateHashBalances[p.hash][u] # 0 PROVE FALSE
          OBVIOUS
        <5>1. PICK id \in Id : StateIn(id, p.hash)
          BY <2>1 DEF ExactInv
        <5>2. id # Root
          BY <4>1, <5>1 DEF StateIn
        <5>3. [id |-> id, hash |-> p.hash] \in States
          BY <2>1, <5>1 DEF ExactInv
        <5> QED
          BY <2>1, <3>2, <5>2, <5>3 DEF RootTreeIsItsOwn
      <4>3. ProvedOf(p.hash) = 0
        BY <4>2, ReputationAssumption, SumOfZeros DEF ProvedOf
      <4>4. UnprovedRoot' = Total[p.hash] - ProvedOf(p.hash) /\ Supply = 0 /\ Supply' = Total[p.hash]
        BY <1>1, <1>8, <3>2, PublishedRoot DEF Publishes
      <4>5. AllBalances = 0
        BY <1>1, <1>2, <1>3, <4>4 DEF SupplyInv
      <4>6. Total[p.hash] \in Nat
        BY <2>1, TreesAssumption
      <4> QED
        BY <1>8, <4>3, <4>4, <4>5, <4>6
    <3> QED
      BY <3>1, <3>2
  <2> QED
    BY <2>4, <2>5, <2>6 DEF ExactInv
<1> QED
  BY <1>5, <1>6, <1>7, <1>8 DEF BalancesFollow

LEMMA SupplyInitial ==
    ASSUME Init PROVE SupplyInv /\ ExactInv
<1>1. /\ Supply = UnprovedRoot /\ LeavesBound /\ AllBalances = 0
      /\ \A h \in Hash, u \in User : stateHashBalances[h][u] = 0
      /\ \A id \in Id : \A i \in DOMAIN blockchainStates[id] :
            \E s \in InitPublished :
               /\ s # NoState /\ s.id = id
               /\ blockchainStates[id][i] = [stateHash |-> s.hash, blockNumber |-> 1]
  BY FirstState, DelegationInitial
<1>2. UnprovedRoot \in Nat
  BY <1>1, RepInitial, UnprovedType DEF RepInv
<1>3. ASSUME NEW id \in Id, NEW h \in Hash, StateIn(id, h)
      PROVE  [id |-> id, hash |-> h] \in States
  <2>1. PICK i \in DOMAIN blockchainStates[id] : blockchainStates[id][i].stateHash = h
    BY <1>3 DEF StateIn
  <2>2. PICK s \in InitPublished :
           /\ s # NoState /\ s.id = id
           /\ blockchainStates[id][i] = [stateHash |-> s.hash, blockNumber |-> 1]
    BY <1>1
  <2>3. s \in States /\ s.hash = h
    BY <2>1, <2>2 DEF States
  <2> QED
    BY <2>2, <2>3, StatesAreRecords
<1> QED
  BY <1>1, <1>2, <1>3 DEF SupplyInv, ExactInv

\* The supply is all the balances and the leaves of the airdrop nobody has
\* proved yet, in every state, if the avatar publishes the airdrop's tree for
\* nothing else: no leaf is minted twice and none is lost.
THEOREM AirdropIsMintedOnce == RootTreeIsItsOwn => (Spec => []SupplyIsBalances)
<1> SUFFICES ASSUME RootTreeIsItsOwn PROVE Spec => []SupplyIsBalances
  OBVIOUS
<1> DEFINE Inv == RepInv /\ DelegationInv /\ SupplyInv /\ ExactInv
<1>1. Init => Inv
  BY RepInitial, DelegationInitial, SupplyInitial
<1>2. Inv /\ [Next]_vars => Inv'
  BY RepStep, KeptIsInvariant, DelegationStep, SupplyStep, ExactStep
<1>3. Inv => SupplyIsBalances
  BY DEF ExactInv, SupplyIsBalances, Supply, AllBalances, Bal
<1>4. QED
  BY <1>1, <1>2, <1>3, PTL DEF Spec

-----------------------------------------------------------------------------
(* Votes and supply at every block *)

LocalVotes(b) == SumFunctionOnSet([u \in User |-> localVotesAt(u, b)], User)

\* Inductive invariant: at every block the votes were within the supply.
PastInv == \A b \in 1..block : LocalVotes(b) <= totalSupplyLocalAt(b)

LEMMA BlocksPass ==
    ASSUME [Next]_vars
    PROVE  block' = block \/ (block' = block + 1 /\ UNCHANGED local)
<1>1. CASE NextBlock
  BY <1>1 DEF NextBlock
<1>2. ASSUME NEW u \in User, NEW n \in Amounts, mint(u, n) \/ burn(u, n)
      PROVE  block' = block
  BY <1>2 DEF mint, burn
<1>3. ASSUME NEW u \in User, NEW d \in User, delegateTo(u, d) PROVE block' = block
  BY <1>3 DEF delegateTo, _delegateTo
<1>4. ASSUME NEW u \in User, undelegate(u) PROVE block' = block
  BY <1>3, <1>4 DEF undelegate
<1>5. ASSUME NEW s \in SignedDelegations, delegateBySig(s) PROVE block' = block
  BY <1>5 DEF delegateBySig, _delegateTo
<1>6. ASSUME NEW t \in Targets, setReputationRecipient(t.user, t.target)
      PROVE  block' = block
  BY <1>6 DEF setReputationRecipient
<1>7. ASSUME NEW p \in Published, setBlockchainStateHash(p.id, p.hash)
      PROVE  block' = block
  BY <1>7 DEF setBlockchainStateHash
<1>8. ASSUME NEW id \in Id, NEW u \in User, proveBalanceOfAtBlockchain(id, u)
      PROVE  block' = block
  BY <1>8 DEF proveBalanceOfAtBlockchain
<1>9. CASE updateDAO
  BY <1>9 DEF updateDAO
<1>10. CASE UNCHANGED vars
  BY <1>10 DEF vars
<1> QED
  BY <1>1, <1>2, <1>3, <1>4, <1>5, <1>6, <1>7, <1>8, <1>9, <1>10 DEF Next

\* Now the votes are within the supply because the balances are.
CoveredNow == LocalVotes(block) <= totalSupplyLocalAt(block)
LEMMA NowCovered == RepInv /\ DelegationInv /\ SupplyInv => CoveredNow
<1> SUFFICES ASSUME RepInv, DelegationInv, SupplyInv
             PROVE  LocalVotes(block) <= totalSupplyLocalAt(block)
  BY DEF CoveredNow
<1>1. Supply \in Nat /\ UnprovedRoot \in Nat
  BY CurrentTypes, UnprovedType DEF RepInv, SupplyInv
<1>2. AllBalances \in Nat
  BY CurrentTypes, ReputationAssumption, SumType DEF AllBalances, RepInv
<1>3. AllVotes <= Supply
  BY <1>1, <1>2 DEF DelegationInv, SupplyInv
<1> QED
  BY <1>3 DEF AllVotes, Votes, LocalVotes, Supply

LEMMA PastStep ==
    ASSUME RepInv, RepInv', Settled, DelegationInv', SupplyInv', PastInv, [Next]_vars
    PROVE  PastInv'
<1>1. block \in Nat /\ block' \in Nat
  BY DEF RepInv, TypeOK
<1>2. CoveredNow'
  <2>1. RepInv' /\ DelegationInv' /\ SupplyInv' => CoveredNow'
    BY NowCovered, PTL
  <2> QED
    BY <2>1
<1>3. SUFFICES ASSUME NEW b \in 1..block'
               PROVE  LocalVotes(b)' <= totalSupplyLocalAt(b)'
  BY DEF PastInv
<1>4. CASE b = block'
  BY <1>2, <1>4 DEF CoveredNow, LocalVotes, localVotesAt, totalSupplyLocalAt
<1>5. CASE b \in 1..(block - 1)
  <2>1. /\ totalSupplyLocalAt(b)' = totalSupplyLocalAt(b)
        /\ \A u \in User : localVotesAt(u, b)' = localVotesAt(u, b)
    BY <1>5 DEF Settled
  <2>2. LocalVotes(b)' = LocalVotes(b)
    BY <2>1 DEF LocalVotes
  <2> QED
    BY <1>1, <1>5, <2>1, <2>2 DEF PastInv
<1>6. CASE b = block /\ block' = block + 1 /\ UNCHANGED local
  <2>1. /\ LocalVotes(b)' = LocalVotes(b)
        /\ totalSupplyLocalAt(b)' = totalSupplyLocalAt(b)
    BY <1>6 DEF local, LocalVotes, localVotesAt, totalSupplyLocalAt
  <2> QED
    BY <1>1, <1>3, <1>6, <2>1 DEF PastInv
<1> QED
  BY <1>1, <1>3, <1>4, <1>5, <1>6, BlocksPass

\* The state of a blockchain in force at a block.
LEMMA StateAtType ==
    ASSUME TypeOK, NEW c \in Chain, NEW b, StatesUpTo(c, b) # {}
    PROVE  StateAt(c, b).stateHash \in Hash
<1>1. blockchainStates[c] \in Seq(BlockchainState)
  BY DEF TypeOK, Id
<1>2. PICK n \in Nat : DOMAIN blockchainStates[c] = 1..n
  BY <1>1
<1>3. StatesUpTo(c, b) \subseteq 1..n
  BY <1>2 DEF StatesUpTo
<1>4. \E i \in StatesUpTo(c, b) : \A j \in StatesUpTo(c, b) : j <= i
  BY <1>3, GreatestNumber
<1>5. PICK k \in StatesUpTo(c, b) : StateAt(c, b) = blockchainStates[c][k]
  BY <1>4 DEF StateAt
<1>6. blockchainStates[c][k] \in BlockchainState
  BY <1>1, <1>2, <1>3
<1> QED
  BY <1>5, <1>6 DEF BlockchainState

ChainVotes(u, b) == [c \in Chain |-> getVotesAtBlockchain(c, u, b)]
ChainSupply(b) == [c \in Chain |-> totalSupplyAtBlockchain(c, b)]

LEMMA VotesAreWithinSupply ==
    ASSUME TypeOK, LeavesBound, PastInv
    PROVE  VotesWithinSupply
<1>1. SUFFICES ASSUME NEW b \in 1..block, VotesReadable(b)
               PROVE  SumFunctionOnSet([u \in User |-> getVotesAt(u, b)], User)
                         <= totalSupplyAt(b)
  BY DEF VotesWithinSupply
<1> DEFINE A == activeBlockchains
           H(c) == StateAt(c, b).stateHash
           table == [c \in A |-> [u \in User |-> stateHashBalances[H(c)][u]]]
           loc == [u \in User |-> localVotesAt(u, b)]
           rem == [u \in User |-> SumFunctionOnSet([c \in A |-> table[c][u]], A)]
           all == [u \in User |-> getVotesAt(u, b)]
           rows == [c \in A |-> SumFunctionOnSet(table[c], User)]
<1>2. A \subseteq Chain /\ IsFiniteSet(A) /\ IsFiniteSet(User)
  BY ReputationAssumption, FS_Subset DEF activeBlockchains
<1>3. \A c \in A : StatesUpTo(c, b) # {} /\ H(c) \in Hash
  BY <1>1, <1>2, StateAtType DEF VotesReadable
<1>4. b \in Nat /\ \A u \in User : activeVotes[u] \in History
  BY DEF TypeOK
<1>5. \A u \in User : loc[u] \in Int
  BY <1>4, ValueAtType DEF localVotesAt
<1>6. \A c \in A, u \in User : table[c][u] \in Nat
  BY <1>3 DEF TypeOK
<1>7. ASSUME NEW u \in User
      PROVE  rem[u] \in Int /\ all[u] = loc[u] + rem[u]
  <2> DEFINE f == [c \in A |-> table[c][u]]
  <2>1. \A c \in A : f[c] \in Int /\ ChainVotes(u, b)[c] = f[c]
    BY <1>2, <1>6 DEF ChainVotes, getVotesAtBlockchain
  <2>2. SumFunctionOnSet(ChainVotes(u, b), A) = SumFunctionOnSet(f, A)
    <3> HIDE DEF f, A
    <3> QED
      BY <1>2, <2>1, SumOfSame
  <2>3. SumFunctionOnSet(f, A) \in Int
    <3> HIDE DEF f, A
    <3> QED
      BY <1>2, <2>1, SumType
  <2>4. getVotesAt(u, b) = localVotesAt(u, b) + SumFunctionOnSet(ChainVotes(u, b), A)
    BY DEF getVotesAt, ChainVotes
  <2> QED
    BY <2>2, <2>3, <2>4
<1>8. SumFunctionOnSet(all, User) = SumFunctionOnSet(loc, User) + SumFunctionOnSet(rem, User)
  <2>1. \A u \in User : loc[u] \in Int /\ rem[u] \in Int /\ all[u] = loc[u] + rem[u]
    BY <1>5, <1>7
  <2> HIDE DEF all, loc, rem
  <2> QED
    BY <1>2, <2>1, SumPlus
<1>9. SumFunctionOnSet(rem, User) = SumFunctionOnSet(rows, A)
  <2> HIDE DEF A, table
  <2>1. \A c \in A, u \in User : table[c][u] \in Int
    BY <1>6
  <2> QED
    BY <1>2, <2>1, SumSwap
<1>10. \A c \in A : /\ rows[c] \in Int /\ ChainSupply(b)[c] \in Int
                    /\ rows[c] <= ChainSupply(b)[c]
  <2> SUFFICES ASSUME NEW c \in A
               PROVE  /\ rows[c] \in Int /\ ChainSupply(b)[c] \in Int
                      /\ rows[c] <= ChainSupply(b)[c]
    OBVIOUS
  <2>1. PICK h : h = H(c)
    OBVIOUS
  <2>2. h \in Hash
    BY <1>3, <2>1
  <2>3. table[c] = stateHashBalances[h]
    BY <2>1, <2>2 DEF TypeOK
  <2>4. rows[c] = ProvedOf(h)
    BY <2>3 DEF ProvedOf
  <2>5. ChainSupply(b)[c] = Total[h]
    BY <1>2, <1>3, <2>1 DEF ChainSupply, totalSupplyAtBlockchain
  <2> QED
    BY <2>2, <2>4, <2>5, ProvedTypes
<1>11. SumFunctionOnSet(rows, A) <= SumFunctionOnSet(ChainSupply(b), A)
  <2> HIDE DEF A, rows
  <2> QED
    BY <1>2, <1>10, SumMonotonic
<1>12. SumFunctionOnSet(loc, User) <= totalSupplyLocalAt(b)
  BY <1>1 DEF PastInv, LocalVotes
<1>13. totalSupplyAt(b) = totalSupplyLocalAt(b) + SumFunctionOnSet(ChainSupply(b), A)
  BY DEF totalSupplyAt, ChainSupply
<1>14. /\ SumFunctionOnSet(loc, User) \in Int /\ totalSupplyLocalAt(b) \in Int
       /\ SumFunctionOnSet(rows, A) \in Int /\ SumFunctionOnSet(ChainSupply(b), A) \in Int
  <2>1. totalSupplyLocalAt(b) \in Int
    BY <1>4, ValueAtType DEF totalSupplyLocalAt, TypeOK
  <2> HIDE DEF A, rows, loc
  <2> QED
    BY <1>2, <1>5, <1>10, <2>1, SumType
<1> HIDE DEF A, all, loc, rem, rows
<1>15. SumFunctionOnSet(all, User) <= totalSupplyAt(b)
  BY <1>8, <1>9, <1>11, <1>12, <1>13, <1>14
<1> QED
  BY <1>15 DEF all

LEMMA PastInitial == Init => PastInv
<1> SUFFICES ASSUME Init PROVE PastInv
  OBVIOUS
<1>1. RepInv /\ DelegationInv /\ SupplyInv /\ block = 1
  BY RepInitial, DelegationInitial, SupplyInitial DEF Init
<1>2. LocalVotes(1) <= totalSupplyLocalAt(1)
  BY <1>1, NowCovered DEF CoveredNow
<1> QED
  BY <1>1, <1>2 DEF PastInv

\* At every block whose votes can be read, the votes of all users together are
\* at most the supply: what the quorum and the thresholds of the DAO are
\* fractions of.
THEOREM QuorumsAreOfTheWhole == Spec => []VotesWithinSupply
<1> DEFINE Inv == RepInv /\ DelegationInv /\ SupplyInv /\ PastInv
<1>1. Init => Inv
  BY RepInitial, DelegationInitial, SupplyInitial, PastInitial
<1>2. Inv /\ [Next]_vars => Inv'
  <2> SUFFICES ASSUME Inv, [Next]_vars PROVE Inv'
    OBVIOUS
  <2>1. RepInv' /\ Settled
    BY RepStep, KeptIsInvariant
  <2>2. DelegationInv' /\ BalancesFollow
    BY <2>1, DelegationStep
  <2>3. SupplyInv'
    BY <2>1, <2>2, SupplyStep
  <2>4. PastInv'
    BY <2>1, <2>2, <2>3, PastStep
  <2> QED
    BY <2>1, <2>2, <2>3, <2>4
<1>3. Inv => VotesWithinSupply
  BY VotesAreWithinSupply DEF RepInv, SupplyInv
<1>4. QED
  BY <1>1, <1>2, <1>3, PTL DEF Spec

-----------------------------------------------------------------------------
(* The past, with the other blockchains *)

\* States are added for the current block, and proofs only add votes.
RemoteKept ==
    /\ \A c \in Chain :
          \/ blockchainStates'[c] = blockchainStates[c]
          \/ \E h \in Hash : blockchainStates'[c] =
                Append(blockchainStates[c], [stateHash |-> h, blockNumber |-> block])
    /\ \A h \in Hash, u \in User :
          /\ stateHashBalances[h][u] \in Nat /\ stateHashBalances'[h][u] \in Nat
          /\ stateHashBalances[h][u] <= stateHashBalances'[h][u]

LEMMA RemoteStep ==
    ASSUME TypeOK, OfAKind
    PROVE  RemoteKept
<1>1. /\ blockchainStates \in [Id -> Seq(BlockchainState)]
      /\ \A h \in Hash, u \in User : stateHashBalances[h][u] \in Nat
  BY DEF TypeOK
<1>2. ASSUME UNCHANGED remote PROVE RemoteKept
  BY <1>1, <1>2 DEF remote, RemoteKept
<1>3. ASSUME NEW id \in Id, NEW u \in User, NEW h \in Hash, Proves(id, u, h)
      PROVE  RemoteKept
  <2>1. /\ stateHashBalances'[h][u] = Leaves[h][u]
        /\ \A g \in Hash, v \in User :
              g # h \/ v # u => stateHashBalances'[g][v] = stateHashBalances[g][v]
    BY <1>3, ProofUpdates
  <2>1a. stateHashBalances[h][u] = 0
    BY <1>3 DEF Proves
  <2>2. \A g \in Hash, v \in User :
           /\ stateHashBalances'[g][v] \in Nat
           /\ stateHashBalances[g][v] <= stateHashBalances'[g][v]
    BY <1>1, <2>1, <2>1a, LeavesAreNat
  <2> QED
    BY <1>1, <1>3, <2>2 DEF RemoteKept, Proves
<1>4. ASSUME NEW p \in Published, Publishes(p) PROVE RemoteKept
  <2>1. p.hash \in Hash /\ p.id \in Id
    BY TreesAssumption
  <2>2. stateHashBalances' = stateHashBalances
    BY <1>4 DEF Publishes
  <2>3. \A c \in Chain :
           blockchainStates'[c] =
              IF c = p.id
              THEN Append(blockchainStates[c], [stateHash |-> p.hash, blockNumber |-> block])
              ELSE blockchainStates[c]
    BY <1>1, <1>4, <2>1 DEF Publishes, Id
  <2>4. \A c \in Chain :
           \/ blockchainStates'[c] = blockchainStates[c]
           \/ \E h \in Hash : blockchainStates'[c] =
                 Append(blockchainStates[c], [stateHash |-> h, blockNumber |-> block])
    <3> SUFFICES ASSUME NEW c \in Chain, blockchainStates'[c] # blockchainStates[c]
                 PROVE  blockchainStates'[c] =
                           Append(blockchainStates[c],
                                  [stateHash |-> p.hash, blockNumber |-> block])
      BY <2>1
    <3> QED
      BY <2>3
  <2>5. \A h \in Hash, u \in User :
           /\ stateHashBalances[h][u] \in Nat /\ stateHashBalances'[h][u] \in Nat
           /\ stateHashBalances[h][u] <= stateHashBalances'[h][u]
    BY <1>1, <2>2
  <2> QED
    BY Zenon, <2>4, <2>5 DEF RemoteKept
<1> QED
  BY <1>2, <1>3, <1>4 DEF OfAKind, Moves

\* A state added now is not in force at an earlier block.
LEMMA EarlierStates ==
    ASSUME TypeOK, RemoteKept, NEW c \in Chain, NEW b \in Nat, b < block
    PROVE  /\ StatesUpTo(c, b)' = StatesUpTo(c, b)
           /\ StatesUpTo(c, b) # {} => /\ StateAt(c, b)' = StateAt(c, b)
                                       /\ c \in activeBlockchains
           /\ c \in activeBlockchains => c \in activeBlockchains'
<1>1. PICK q, r : q = blockchainStates[c] /\ r = blockchainStates'[c]
  OBVIOUS
<1>2. q \in Seq(BlockchainState) /\ block \in Nat
  BY <1>1 DEF TypeOK, Id
<1>3. r = q \/ \E h \in Hash : r = Append(q, [stateHash |-> h, blockNumber |-> block])
  BY <1>1 DEF RemoteKept
<1>4. /\ {i \in DOMAIN r : r[i].blockNumber <= b} = {i \in DOMAIN q : q[i].blockNumber <= b}
      /\ \A i \in DOMAIN q : r[i] = q[i]
      /\ q # <<>> => r # <<>>
  <2>1. CASE r = q
    BY <2>1
  <2>2. CASE r # q
    <3>1. PICK h \in Hash : r = Append(q, [stateHash |-> h, blockNumber |-> block])
      BY <1>3, <2>2
    <3> DEFINE s == [stateHash |-> h, blockNumber |-> block]
    <3>2. s \in BlockchainState /\ s.blockNumber = block
      BY <1>2 DEF BlockchainState
    <3> HIDE DEF s
    <3>3. r = Append(q, s)
      BY <3>1 DEF s
    <3>4. /\ DOMAIN q = 1..Len(q) /\ DOMAIN r = 1..(Len(q) + 1) /\ Len(q) \in Nat
          /\ \A i \in 1..Len(q) : r[i] = q[i]
          /\ r[Len(q) + 1] = s /\ r # <<>>
      BY <1>2, <3>2, <3>3
    <3>5. ~(r[Len(q) + 1].blockNumber <= b)
      BY <1>2, <3>2, <3>4
    <3> QED
      BY <3>4, <3>5
  <2> QED
    BY <2>1, <2>2
<1>5. StatesUpTo(c, b)' = StatesUpTo(c, b)
  BY <1>1, <1>4 DEF StatesUpTo
<1>6. StatesUpTo(c, b) # {} => StateAt(c, b)' = StateAt(c, b)
  <2> SUFFICES ASSUME StatesUpTo(c, b) # {} PROVE StateAt(c, b)' = StateAt(c, b)
    OBVIOUS
  <2>1. PICK k : k = CHOOSE i \in StatesUpTo(c, b) : \A j \in StatesUpTo(c, b) : j <= i
    OBVIOUS
  <2>2. k \in DOMAIN q
    <3>1. PICK n \in Nat : DOMAIN q = 1..n
      BY <1>2
    <3>2. StatesUpTo(c, b) \subseteq DOMAIN q
      BY <1>1 DEF StatesUpTo
    <3>3. \E i \in StatesUpTo(c, b) : \A j \in StatesUpTo(c, b) : j <= i
      BY <3>1, <3>2, GreatestNumber
    <3> QED
      BY <2>1, <3>2, <3>3
  <2>3. StateAt(c, b) = q[k] /\ StateAt(c, b)' = r[k]
    BY <1>1, <1>5, <2>1 DEF StateAt
  <2> QED
    BY <1>4, <2>2, <2>3
<1>7. StatesUpTo(c, b) # {} => c \in activeBlockchains
  BY <1>1, <1>2 DEF StatesUpTo, activeBlockchains
<1>8. c \in activeBlockchains => c \in activeBlockchains'
  BY <1>1, <1>4 DEF activeBlockchains
<1> QED
  BY <1>5, <1>6, <1>7, <1>8

SupplySettled == \A b \in 1..(block - 1) :
    /\ totalSupplyAt(b)' = totalSupplyAt(b)
    /\ VotesReadable(b) /\ VotesReadable(b)' =>
          \A u \in User : getVotesAt(u, b)' >= getVotesAt(u, b)

LEMMA RemotePast ==
    ASSUME TypeOK, RemoteKept, Settled
    PROVE  SupplySettled
<1>1. SUFFICES ASSUME NEW b \in 1..(block - 1)
               PROVE  /\ totalSupplyAt(b)' = totalSupplyAt(b)
                      /\ VotesReadable(b) /\ VotesReadable(b)' =>
                            \A u \in User : getVotesAt(u, b)' >= getVotesAt(u, b)
  BY DEF SupplySettled
<1>2. b \in Nat /\ b < block
  BY DEF TypeOK
<1>3. /\ totalSupplyLocalAt(b)' = totalSupplyLocalAt(b)
      /\ \A u \in User : localVotesAt(u, b)' = localVotesAt(u, b)
  BY DEF Settled
<1>4. \A c \in Chain :
         /\ StatesUpTo(c, b)' = StatesUpTo(c, b)
         /\ StatesUpTo(c, b) # {} => /\ StateAt(c, b)' = StateAt(c, b)
                                     /\ StateAt(c, b).stateHash \in Hash
                                     /\ c \in activeBlockchains
         /\ c \in activeBlockchains => c \in activeBlockchains'
  BY <1>2, EarlierStates, StateAtType
<1>5. PICK A, B : A = activeBlockchains /\ B = activeBlockchains'
  OBVIOUS
<1>6. /\ A \subseteq B /\ B \subseteq Chain /\ A \subseteq Chain
      /\ IsFiniteSet(A) /\ IsFiniteSet(B) /\ IsFiniteSet(B \ A)
  <2>1. A \subseteq Chain /\ B \subseteq Chain
    BY <1>5 DEF activeBlockchains
  <2>2. A \subseteq B
    BY <1>4, <1>5, <2>1
  <2> QED
    BY <2>1, <2>2, ReputationAssumption, FS_Subset
<1>7. totalSupplyAt(b)' = totalSupplyAt(b)
  <2>1. PICK f, g : f = ChainSupply(b) /\ g = ChainSupply(b)'
    OBVIOUS
  <2>2. \A c \in Chain : g[c] = f[c] /\ f[c] \in Int /\ (c \notin A => f[c] = 0)
    <3> SUFFICES ASSUME NEW c \in Chain
                 PROVE  g[c] = f[c] /\ f[c] \in Int /\ (c \notin A => f[c] = 0)
      OBVIOUS
    <3>1. /\ f[c] = IF StatesUpTo(c, b) = {} THEN 0 ELSE Total[StateAt(c, b).stateHash]
          /\ g[c] = IF StatesUpTo(c, b)' = {} THEN 0 ELSE Total[StateAt(c, b)'.stateHash]
      BY <2>1 DEF ChainSupply, totalSupplyAtBlockchain
    <3> QED
      BY <1>4, <1>5, <3>1, TreesAssumption
  <2>3. SumFunctionOnSet(g, B) = SumFunctionOnSet(f, A)
    <3>1. SumFunctionOnSet(g, B) = SumFunctionOnSet(f, B)
      BY <1>6, <2>2, SumOfSame
    <3>2. SumFunctionOnSet(f, B \ A) = 0
      BY <1>6, <2>2, SumOfZeros
    <3>3. A \union (B \ A) = B /\ A \intersect (B \ A) = {}
      BY <1>6
    <3>4. \A c \in A \union (B \ A) : f[c] \in Int
      BY <1>6, <2>2
    <3>5. SumFunctionOnSet(f, A \union (B \ A))
             = SumFunctionOnSet(f, A) + SumFunctionOnSet(f, B \ A)
      BY <1>6, <3>3, <3>4, SumOfParts
    <3>6. SumFunctionOnSet(f, A) \in Int
      BY <1>6, <2>2, SumType
    <3> QED
      BY <3>1, <3>2, <3>3, <3>5, <3>6
  <2>4. /\ totalSupplyAt(b) = totalSupplyLocalAt(b) + SumFunctionOnSet(f, A)
        /\ totalSupplyAt(b)' = totalSupplyLocalAt(b)' + SumFunctionOnSet(g, B)
    BY <1>5, <2>1 DEF totalSupplyAt, ChainSupply
  <2> QED
    BY <1>3, <2>3, <2>4
<1>8. ASSUME VotesReadable(b), VotesReadable(b)', NEW u \in User
      PROVE  getVotesAt(u, b)' >= getVotesAt(u, b)
  <2>1. A = B
    <3>1. \A c \in B : StatesUpTo(c, b)' # {}
      BY <1>5, <1>8 DEF VotesReadable
    <3> QED
      BY <1>4, <1>5, <1>6, <3>1
  <2>2. \A c \in A : StatesUpTo(c, b) # {}
    BY <1>5, <1>8 DEF VotesReadable
  <2>3. PICK f, g : f = ChainVotes(u, b) /\ g = ChainVotes(u, b)'
    OBVIOUS
  <2>4. \A c \in A : f[c] \in Int /\ g[c] \in Int /\ f[c] <= g[c]
    <3> SUFFICES ASSUME NEW c \in A
                 PROVE  f[c] \in Int /\ g[c] \in Int /\ f[c] <= g[c]
      OBVIOUS
    <3>1. PICK h : h = StateAt(c, b).stateHash
      OBVIOUS
    <3>2. h \in Hash /\ c \in Chain /\ StateAt(c, b)'.stateHash = h
      BY <1>4, <1>6, <2>2, <3>1
    <3>3. f[c] = stateHashBalances[h][u] /\ g[c] = stateHashBalances'[h][u]
      BY <2>3, <3>1, <3>2 DEF ChainVotes, getVotesAtBlockchain
    <3> QED
      BY <3>2, <3>3 DEF RemoteKept
  <2>5. SumFunctionOnSet(f, A) <= SumFunctionOnSet(g, A)
    BY <1>6, <2>4, SumMonotonic
  <2>6. SumFunctionOnSet(f, A) \in Int /\ SumFunctionOnSet(g, A) \in Int
    BY <1>6, <2>4, SumType
  <2>7. localVotesAt(u, b) \in Int
    BY <1>2, ValueAtType DEF TypeOK, localVotesAt
  <2>8. /\ getVotesAt(u, b) = localVotesAt(u, b) + SumFunctionOnSet(f, A)
        /\ getVotesAt(u, b)' = localVotesAt(u, b)' + SumFunctionOnSet(g, B)
    BY <1>5, <2>3 DEF getVotesAt, ChainVotes
  <2>9. localVotesAt(u, b)' = localVotesAt(u, b)
    BY <1>3
  <2> QED
    BY <2>1, <2>5, <2>6, <2>7, <2>8, <2>9
<1> QED
  BY <1>7, <1>8

\* The supply of a finished block, other blockchains included, is the same
\* however late it is read, and nobody's votes for it are ever taken back:
\* states that are published later and leaves that are proved later do not
\* reach into it, but for the leaves of the states that were in force.
THEOREM FinishedBlocksStay == Spec => PastIsSettled
<1> DEFINE Inv == RepInv /\ DelegationInv
<1>1. Init => Inv
  BY RepInitial, DelegationInitial
<1>2. Inv /\ [Next]_vars => Inv' /\ SupplySettled
  <2> SUFFICES ASSUME Inv, [Next]_vars PROVE Inv' /\ SupplySettled
    OBVIOUS
  <2>1. RepInv' /\ Settled
    BY RepStep, KeptIsInvariant
  <2>2. DelegationInv'
    BY <2>1, DelegationStep
  <2>3. RemoteKept
    BY StepKinds, RemoteStep DEF RepInv, DelegationInv
  <2>4. SupplySettled
    BY <2>1, <2>3, RemotePast DEF RepInv
  <2> QED
    BY <2>1, <2>2, <2>4
<1>3. Inv /\ [Next]_vars => [SupplySettled]_vars
  BY <1>2
<1>4. QED
  BY <1>1, <1>2, <1>3, PTL DEF Spec, PastIsSettled, SupplySettled
-----------------------------------------------------------------------------
(* The search of getValueAt *)

\* The inductive invariant: the range holds the answer, the result is right.
SearchInv ==
    /\ SearchTypeOK
    /\ AnswerInRange
    /\ ReturnsValueAt

LEMMA SearchStarts == SearchInit => SearchInv
  BY HistoriesAssumption, BlocksAssumption
  DEF SearchInit, SearchInv, SearchTypeOK, AnswerInRange, ReturnsValueAt

LEMMA SearchStep == SearchInv /\ [SearchNext]_searchVars => SearchInv'
<1> SUFFICES ASSUME SearchInv, [SearchNext]_searchVars
             PROVE  SearchInv'
  OBVIOUS
<1> USE DEF SearchInv
<1>0. /\ DOMAIN checkpoints = 1..Len(checkpoints)
      /\ Len(checkpoints) \in Nat
      /\ \A j \in 1..Len(checkpoints) :
            checkpoints[j].from \in Nat /\ checkpoints[j].value \in Nat
  BY HistoryFacts DEF SearchTypeOK
<1>1. CASE Shortcut
  <2>1. CASE len = 0 /\ return(0)
    BY <2>1, <1>1, <1>0, NothingBeforeFirst
    DEF Shortcut, return, len, SearchTypeOK, AnswerInRange, ReturnsValueAt
  <2>2. CASE len > 0 /\ _block >= at(len - 1).from /\ return(at(len - 1).value)
    <3>1. len \in DOMAIN checkpoints /\ len - 1 + 1 = len
      BY <2>2, <1>0 DEF len
    <3>2. ValueAt(checkpoints, _block) = checkpoints[len].value
      BY <2>2, <3>1, <1>0, LastIsValue DEF len, at, SearchTypeOK
    <3>3. QED
      BY <2>2, <3>1, <3>2, <1>1, <1>0
      DEF Shortcut, return, len, at, SearchTypeOK, AnswerInRange, ReturnsValueAt
  <2>3. CASE len > 0 /\ _block < at(len - 1).from /\ _block < at(0).from /\ return(0)
    BY <2>3, <1>1, <1>0, NothingBeforeFirst
    DEF Shortcut, return, len, at, SearchTypeOK, AnswerInRange, ReturnsValueAt
  <2>4. CASE /\ len > 0 /\ at(0).from <= _block /\ _block < at(len - 1).from
             /\ min' = 0 /\ max' = len - 1
             /\ pc' = "search" /\ UNCHANGED result
    BY <2>4, <1>1, <1>0
    DEF Shortcut, len, at, SearchTypeOK, AnswerInRange, ReturnsValueAt
  <2>5. QED
    BY <2>1, <2>2, <2>3, <2>4, <1>1 DEF Shortcut
<1>2. CASE Halve
  <2>1. /\ mid \in Nat /\ min < mid /\ mid <= max /\ mid < len
    BY <1>2, <1>0 DEF Halve, AnswerInRange, SearchTypeOK, mid, len
  <2>2. CASE AtOrBeforeBlock(mid) /\ min' = mid /\ UNCHANGED max
    BY <2>1, <2>2, <1>2, <1>0
    DEF Halve, AtOrBeforeBlock, SearchTypeOK, AnswerInRange, ReturnsValueAt, len, at
  <2>3. CASE ~AtOrBeforeBlock(mid) /\ max' = mid - 1 /\ UNCHANGED min
    <3>1. _block < at(mid).from /\ at(mid).from \in Nat
      BY <2>1, <2>3, <1>0 DEF AtOrBeforeBlock, at, len, SearchTypeOK
    <3>2. max' \in Nat /\ min <= max' /\ max' < len /\ max' + 1 = mid
      BY <2>1, <2>3, <1>0 DEF SearchTypeOK, len
    <3>3. QED
      BY <3>1, <3>2, <2>3, <1>2, <1>0
      DEF Halve, SearchTypeOK, AnswerInRange, ReturnsValueAt, len, at
  <2>4. QED
    BY <2>2, <2>3, <1>2 DEF Halve
<1>3. CASE Found
  <2>1. /\ min + 1 \in DOMAIN checkpoints /\ min = max
        /\ checkpoints[min + 1].from <= _block
        /\ min + 1 < Len(checkpoints) => _block < checkpoints[min + 1 + 1].from
    BY <1>3, <1>0 DEF Found, AnswerInRange, SearchTypeOK, len, at
  <2>2. ValueAt(checkpoints, _block) = checkpoints[min + 1].value
    BY <2>1, LastIsValue DEF SearchTypeOK
  <2>3. QED
    BY <2>1, <2>2, <1>3, <1>0
    DEF Found, return, at, SearchTypeOK, AnswerInRange, ReturnsValueAt
<1>4. CASE UNCHANGED searchVars
  BY <1>4 DEF searchVars, SearchTypeOK, AnswerInRange, ReturnsValueAt, len, at
<1>5. QED
  BY <1>1, <1>2, <1>3, <1>4 DEF SearchNext

\* getValueAt returns the value of the last checkpoint at the block or before
\* it, for every history in order and every block; and while it searches, all
\* the indices it reads are in the array and the range it searches is not
\* empty.
THEOREM SearchIsCorrect == SearchSpec => [](ReturnsValueAt /\ AnswerInRange)
<1>1. SearchInv => ReturnsValueAt /\ AnswerInRange
  BY DEF SearchInv
<1>2. QED
  BY SearchStarts, SearchStep, <1>1, PTL DEF SearchSpec

\* Every turn of the loop of getValueAt narrows the range, so that the loop
\* ends after at most as many turns as there are checkpoints.
THEOREM SearchNarrows == SearchSpec => RangeShrinks
<1>1. ASSUME SearchInv, [SearchNext]_searchVars
      PROVE  [pc = "search" /\ pc' = "search" => max' - min' < max - min]_searchVars
  <2>1. SUFFICES ASSUME SearchNext, pc = "search", pc' = "search"
                 PROVE  max' - min' < max - min
    BY <1>1
  <2>2. Halve
    BY <2>1 DEF SearchNext, Shortcut, Found, return
  <2>3. min < mid /\ mid <= max /\ min \in Nat /\ max \in Nat /\ mid \in Nat
    BY <2>2, <1>1 DEF SearchInv, SearchTypeOK, Halve, mid
  <2>4. QED
    BY <2>2, <2>3 DEF Halve
<1>2. QED
  BY SearchStarts, SearchStep, <1>1, PTL DEF SearchSpec, RangeShrinks
=============================================================================
