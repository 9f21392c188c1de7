-------------------- MODULE CompoundVotingMachine_proofs --------------------
(***************************************************************************)
(* For every electorate, all snapshots, parameters and bounds: a closed    *)
(* vote stays closed, nothing passes without quorum, majority and lock,    *)
(* a proposer has one live proposal, the tallies are the ballots, a        *)
(* ballot leaves the others time and an absolute majority is final.        *)
(*                                                                         *)
(* state(i) depends on the clock, so no invariant can name it directly:    *)
(* Closed(i) says when voting is over in terms that only grow.             *)
(***************************************************************************)
EXTENDS CompoundVotingMachine, Lemmas

\* Cancelled, or past its start and executed or out of lock and voting period.
Closed(i) ==
    LET p == proposals[i]
    IN  \/ p.canceled
        \/ /\ block > p.startBlock
           /\ \/ p.executed
              \/ /\ p.eta = 0 \/ now >= p.eta
                 /\ p.eta # 0 \/ block > p.endBlock

\* All but the latest proposal of a proposer are closed.
OlderAreClosed == \A i \in Proposed :
    /\ proposals[i].proposer \in Voter
    /\ i = latestProposalIds[proposals[i].proposer] \/ Closed(i)

\* A ballot that makes a majority with a quorum starts the lock.
MajorityStartsLock == \A i \in Proposed :
    LET p == proposals[i]
    IN  p.eta = 0 => p.forVotes <= p.againstVotes \/ p.forVotes < p.quoromRequired

Passed(i) ==
    LET p == proposals[i]
    IN  /\ 0 < p.eta /\ p.eta <= now
        /\ Leads(p) /\ p.forVotes >= p.quoromRequired
        /\ p.startBlock < block
ExecutedHasPassed == \A i \in Proposed : proposals[i].executed => Passed(i)

\* Voting takes time, and no ballot is counted before it starts.
PendingHasNoLock == \A i \in Proposed :
    LET p == proposals[i]
    IN  /\ p.startBlock < p.endBlock
        /\ block <= p.startBlock => p.eta = 0

UnproposedIsNobodys == \A i \in ProposalId \ Proposed : proposals[i].proposer = NoAddress

Inv == /\ TypeOK /\ OlderAreClosed /\ MajorityStartsLock /\ ExecutedHasPassed
       /\ PendingHasNoLock /\ UnproposedIsNobodys

-----------------------------------------------------------------------------
\* What the type invariant says of one proposal.
LEMMA ProposalType ==
    ASSUME TypeOK, NEW i \in ProposalId
    PROVE  LET p == proposals[i]
           IN  /\ p \in Proposal
               /\ p.eta \in Nat /\ p.startBlock \in Nat /\ p.endBlock \in Nat
               /\ p.forVotes \in Nat /\ p.againstVotes \in Nat /\ p.quoromRequired \in Nat
               /\ p.canceled \in BOOLEAN /\ p.executed \in BOOLEAN
               /\ block \in Nat /\ now \in Nat /\ block > 0 /\ now > 0
BY DEF TypeOK, Proposal

LEMMA ProposedIsId ==
    ASSUME ConstantsAssumption, TypeOK
    PROVE  Proposed \subseteq ProposalId /\ proposalCount \in Nat
BY DEF Proposed, TypeOK, ConstantsAssumption

\* A proposal is live exactly while it is not closed.
LEMMA ClosedIsNotLive ==
    ASSUME TypeOK, NEW i \in ProposalId
    PROVE  /\ Live(i) <=> ~Closed(i)
           /\ Open(i) => ~Closed(i)
BY ProposalType DEF Live, Open, state, Closed, InVotingPeriod

LEMMA SnapshotType ==
    ASSUME ConstantsAssumption, TypeOK, NEW b \in Nat
    PROVE  /\ \A v \in Voter : VotesAt(v, b) \in Nat
           /\ SupplyAt(b) \in Nat
<1> DEFINE c == IF b < block THEN b ELSE block
<1>1. c \in 0..block
  BY DEF TypeOK
<1>2. reputation[c] \in Snapshots
  BY <1>1 DEF TypeOK
<1>3. reputation[c][rep] \in [votes : [Voter -> Nat], supply : Nat]
  BY <1>2 DEF TypeOK, ConstantsAssumption, Snapshot
<1>4. SnapshotAt(b) = reputation[c][rep]
  BY DEF SnapshotAt
<1> QED
  BY <1>3, <1>4 DEF VotesAt, SupplyAt

LEMMA PartOfWhole == \A x, y \in Nat : (x * y) \div Whole \in Nat
BY SMT DEF Whole

LEMMA QuorumType ==
    ASSUME ConstantsAssumption, TypeOK
    PROVE  quorumVotes \in Nat
<1>1. block \in Nat /\ params.quoromPercentage \in Nat
  BY DEF TypeOK, Params, ParamName
<1> QED
  BY <1>1, SnapshotType, PartOfWhole DEF quorumVotes

-----------------------------------------------------------------------------
\* Ballots, proposals and flags stay; the clock may move on.
LEMMA QuietStep ==
    ASSUME ConstantsAssumption, Inv, TypeOK', UNCHANGED ballots, block' >= block, now' >= now
    PROVE  /\ Inv'
           /\ \A i \in Proposed : Closed(i) => Closed(i)'
<1> USE DEF ballots
<1>1. \A i \in Proposed : Closed(i) => Closed(i)'
  <2> SUFFICES ASSUME NEW i \in Proposed, Closed(i) PROVE Closed(i)'
    OBVIOUS
  <2> i \in ProposalId
    BY ProposedIsId DEF Inv
  <2> QED
    BY ProposalType DEF Closed, Inv, TypeOK
<1>2. Proposed' = Proposed
  BY DEF Proposed
<1>3. OlderAreClosed'
  BY <1>1, <1>2 DEF Inv, OlderAreClosed
<1>4. MajorityStartsLock'
  BY <1>2 DEF Inv, MajorityStartsLock
<1>5. ExecutedHasPassed'
  <2> SUFFICES ASSUME NEW i \in Proposed, proposals[i].executed PROVE Passed(i)'
    BY <1>2 DEF ExecutedHasPassed
  <2>1. i \in ProposalId /\ Passed(i)
    BY ProposedIsId DEF Inv, ExecutedHasPassed
  <2> QED
    BY <2>1, ProposalType DEF Passed, Inv, TypeOK, Leads
<1>6. PendingHasNoLock' /\ UnproposedIsNobodys'
  <2>1. UnproposedIsNobodys'
    BY <1>2 DEF Inv, UnproposedIsNobodys
  <2>2. PendingHasNoLock'
    BY <1>2, ProposedIsId, ProposalType DEF Inv, PendingHasNoLock, TypeOK
  <2> QED
    BY <2>1, <2>2
<1> QED
  BY <1>1, <1>3, <1>4, <1>5, <1>6 DEF Inv

LEMMA NextBlockTypes ==
    ASSUME ConstantsAssumption, TypeOK, NextBlock
    PROVE  TypeOK' /\ UNCHANGED ballots /\ block' >= block /\ now' >= now
<1>1. PICK dt \in 1..MaxTimeStep : now' = now + dt
  BY DEF NextBlock
<1>2. PICK s \in Snapshots :
          reputation' = [b \in 0..(block + 1) |-> IF b <= block THEN reputation[b] ELSE s]
  BY DEF NextBlock
<1>3. block' = block + 1 /\ block \in Nat \ {0} /\ now \in Nat \ {0}
  BY DEF NextBlock, TypeOK
<1>4. now' \in Nat \ {0} /\ block' \in Nat \ {0} /\ block' >= block /\ now' >= now
  BY <1>1, <1>3 DEF ConstantsAssumption
<1>5. \A b \in 0..(block + 1) : b <= block => b \in 0..block
  BY <1>3
<1>6. reputation' \in [0..block' -> Snapshots]
  BY <1>2, <1>3, <1>5 DEF TypeOK
<1> QED
  BY <1>4, <1>6 DEF NextBlock, TypeOK, roles, ballots

LEMMA AdministerTypes ==
    ASSUME ConstantsAssumption, ParamsAssumption, TypeOK, Administer
    PROVE  TypeOK' /\ UNCHANGED <<ballots, chain>>
<1>1. CASE \E new \in ParamChanges : setVotingParameters(new)
  <2>1. PICK new \in ParamChanges : setVotingParameters(new)
    BY <1>1
  <2>2. new \in [ParamName -> Nat] /\ params \in [ParamName -> Nat]
    BY DEF ParamsAssumption, Params, TypeOK
  <2>3. params' \in Params /\ \A p \in ParamName : params'[p] > 0
    BY <2>1, <2>2 DEF setVotingParameters, ZeroesKept, Params, TypeOK
  <2> QED
    BY <2>1, <2>3 DEF setVotingParameters, TypeOK, chain, roles, ballots
<1>2. CASE renounceGuardian
  BY <1>2 DEF renounceGuardian, TypeOK, chain, ballots
<1>3. CASE \E a \in Account, g \in Guardians \union {NoAddress} : setGuardian(a, g) \/ fixGuardian(g)
  BY <1>3 DEF setGuardian, fixGuardian, TypeOK, chain, ballots
<1>4. CASE updateRep
  BY <1>4 DEF updateRep, TypeOK, chain, roles, ballots
<1> QED
  BY <1>1, <1>2, <1>3, <1>4 DEF Administer

-----------------------------------------------------------------------------
\* What a step that rewrites proposal i only has to show.
LEMMA OneProposalChanges ==
    ASSUME ConstantsAssumption, Inv, NEW i \in Proposed, NEW q \in Proposal,
           proposals' = [proposals EXCEPT ![i] = q],
           UNCHANGED <<chain, rep, params, roles, proposalCount, latestProposalIds>>,
           q.proposer = proposals[i].proposer,
           q.startBlock = proposals[i].startBlock, q.endBlock = proposals[i].endBlock,
           block <= q.startBlock => q.eta = 0,
           Closed(i) => Closed(i)',
           q.eta = 0 => q.forVotes <= q.againstVotes \/ q.forVotes < q.quoromRequired,
           q.executed => Passed(i)'
    PROVE  /\ Inv'
           /\ \A j \in Proposed : Closed(j) => Closed(j)'
<1> USE DEF chain, roles
<1>1. i \in ProposalId /\ Proposed' = Proposed /\ Proposed \subseteq ProposalId
  BY ProposedIsId DEF Inv, Proposed
<1>2. proposals'[i] = q /\ \A j \in ProposalId \ {i} : proposals'[j] = proposals[j]
  BY <1>1 DEF Inv, TypeOK
<1>3. TypeOK'
  BY <1>1 DEF Inv, TypeOK
<1>4. \A j \in Proposed : Closed(j) => Closed(j)'
  BY <1>1, <1>2 DEF Closed
<1>5. OlderAreClosed'
  BY <1>1, <1>2, <1>4 DEF Inv, OlderAreClosed
<1>6. MajorityStartsLock'
  BY <1>1, <1>2 DEF Inv, MajorityStartsLock
<1>7. ExecutedHasPassed'
  BY <1>1, <1>2 DEF Inv, ExecutedHasPassed, Passed
<1>8. PendingHasNoLock' /\ UnproposedIsNobodys'
  BY <1>1, <1>2 DEF Inv, PendingHasNoLock, UnproposedIsNobodys
<1> QED
  BY <1>3, <1>4, <1>5, <1>6, <1>7, <1>8 DEF Inv

\* The lock a ballot leaves is in the future, or as it was.
LEMMA LockType ==
    ASSUME TypeOK, NEW p, p.eta \in Nat, NEW turned \in BOOLEAN
    PROVE  LET eta == updatedETA(p, turned)
           IN  eta \in Nat /\ eta > 0 /\ (eta = p.eta \/ eta > now)
<1>1. /\ now \in Nat /\ now > 0
      /\ params.fastQueuePeriod \in Nat /\ params.queuePeriod \in Nat
      /\ params.gameChangerPeriod \in Nat
  BY DEF TypeOK, Params, ParamName
<1> QED
  BY <1>1 DEF updatedETA, TypeOK, ParamName

\* What a ballot makes of a proposal.
LEMMA CountedProposal ==
    ASSUME TypeOK, NEW p \in Proposal, NEW v \in Voter, NEW s \in BOOLEAN, NEW n \in Nat
    PROVE  LET q == counted(p, v, s, n)
           IN  /\ q \in Proposal
               /\ q.proposer = p.proposer /\ q.executed = p.executed
               /\ q.canceled = p.canceled
               /\ q.startBlock = p.startBlock /\ q.endBlock = p.endBlock
               /\ q.eta = p.eta \/ q.eta > now
               /\ q.eta = 0 => q.forVotes <= q.againstVotes \/ q.forVotes < q.quoromRequired
<1> DEFINE t == [p EXCEPT
            !.forVotes = IF s THEN @ + n ELSE @,
            !.againstVotes = IF s THEN @ ELSE @ + n,
            !.receipts[v] = [hasVoted |-> TRUE, support |-> s, votes |-> n]]
           e == updatedETA(t, Leads(p) # Leads(t))
<1>1. p.forVotes + n \in Nat /\ p.againstVotes + n \in Nat
  BY DEF Proposal
<1>2. [p.receipts EXCEPT ![v] = [hasVoted |-> TRUE, support |-> s, votes |-> n]]
        \in [Voter -> Receipt]
  BY DEF Proposal, Receipt
<1>3. /\ t \in Proposal
      /\ t.proposer = p.proposer /\ t.executed = p.executed /\ t.canceled = p.canceled
      /\ t.startBlock = p.startBlock /\ t.endBlock = p.endBlock /\ t.eta = p.eta
  BY <1>1, <1>2 DEF Proposal
<1> HIDE DEF t
<1>4. /\ t.eta \in Nat /\ t.forVotes \in Nat
      /\ t.againstVotes \in Nat /\ t.quoromRequired \in Nat
  BY <1>3 DEF Proposal
<1>5. (Leads(p) # Leads(t)) \in BOOLEAN
  OBVIOUS
<1>6. e \in Nat /\ e > 0 /\ (e = t.eta \/ e > now)
  BY <1>4, <1>5, LockType
<1> HIDE DEF e
<1>7. counted(p, v, s, n) = [t EXCEPT !.eta = IF QuorumReached(t) THEN e ELSE @]
  BY DEF counted, t, e
<1>8. CASE QuorumReached(t)
  BY <1>3, <1>4, <1>6, <1>7, <1>8 DEF Proposal
<1>9. CASE ~QuorumReached(t)
  BY <1>3, <1>4, <1>7, <1>9 DEF Proposal, QuorumReached
<1> QED
  BY <1>8, <1>9

\* What a ballot may change in proposal i: its lock is as it was or starts.
Voted(i) ==
    LET p == proposals[i]
        q == proposals'[i]
    IN  /\ Open(i)
        /\ q.startBlock = p.startBlock /\ q.endBlock = p.endBlock
        /\ q.executed = p.executed /\ q.canceled = p.canceled
        /\ q.proposer = p.proposer
        /\ q.eta = p.eta \/ q.eta > now

LEMMA BallotStep ==
    ASSUME ConstantsAssumption, Inv, NEW v \in Voter, NEW i \in Proposed, NEW s \in BOOLEAN,
           _castVote(v, i, s)
    PROVE  /\ Inv'
           /\ \A j \in Proposed : Closed(j) => Closed(j)' /\ proposals'[j] = proposals[j]
           /\ \A j \in ProposalId : proposals'[j] = proposals[j] \/ Voted(j)
<1> DEFINE p == proposals[i]
           q == counted(p, v, s, VotesAt(v, p.startBlock))
<1>1. i \in ProposalId /\ p \in Proposal /\ p.startBlock \in Nat
  BY ProposedIsId, ProposalType DEF Inv
<1>2. VotesAt(v, p.startBlock) \in Nat
  BY <1>1, SnapshotType DEF Inv
<1>3. /\ q \in Proposal /\ q.proposer = p.proposer
      /\ q.executed = p.executed /\ q.canceled = p.canceled
      /\ q.startBlock = p.startBlock /\ q.endBlock = p.endBlock
      /\ q.eta = p.eta \/ q.eta > now
      /\ q.eta = 0 => q.forVotes <= q.againstVotes \/ q.forVotes < q.quoromRequired
  BY <1>1, <1>2, CountedProposal DEF Inv
<1> HIDE DEF q
<1>4. proposals' = [proposals EXCEPT ![i] = q]
  BY DEF _castVote, q
<1>5. ~Closed(i) /\ ~p.executed /\ ~(block <= p.startBlock)
  <2>1. Open(i)
    BY DEF _castVote
  <2> QED
    BY <1>1, <2>1, ClosedIsNotLive DEF Inv, Open, state
<1>6. Inv' /\ \A j \in Proposed : Closed(j) => Closed(j)'
  BY <1>3, <1>4, <1>5, OneProposalChanges DEF _castVote
<1>7. \A j \in Proposed : Closed(j) => proposals'[j] = proposals[j]
  BY <1>1, <1>4, <1>5, ProposedIsId DEF Inv, TypeOK
<1>8. Voted(i)
  BY <1>1, <1>3, <1>4 DEF Voted, _castVote, Inv, TypeOK
<1>9. \A j \in ProposalId \ {i} : proposals'[j] = proposals[j]
  BY <1>4 DEF Inv, TypeOK
<1> QED
  BY <1>6, <1>7, <1>8, <1>9

-----------------------------------------------------------------------------
\* A proposal that succeeded has passed.
LEMMA SucceededHasPassed ==
    ASSUME ConstantsAssumption, Inv, NEW i \in Proposed,
           state(i) \in {"Succeeded", "Expired", "Executed"}
    PROVE  Passed(i)
<1>1. i \in ProposalId
  BY ProposedIsId DEF Inv
<1>2. CASE proposals[i].executed
  BY <1>2 DEF Inv, ExecutedHasPassed
<1>3. CASE ~proposals[i].executed
  BY <1>1, <1>3, ProposalType DEF Inv, MajorityStartsLock, state, InVotingPeriod, Passed, Leads
<1> QED
  BY <1>2, <1>3

LEMMA ExecuteStep ==
    ASSUME ConstantsAssumption, Inv, NEW i \in ProposalId, execute(i) \/ emitSucceeded(i)
    PROVE  /\ Inv'
           /\ \A j \in Proposed : Closed(j) => Closed(j)'
<1>1. PICK x \in BOOLEAN :
        /\ proposals' = [proposals EXCEPT ![i] = [proposals[i] EXCEPT !.executed = x]]
        /\ proposals[i].executed => x
  <2> i \in ProposalId /\ proposals[i] \in Proposal
    BY ProposalType DEF Inv
  <2>1. CASE execute(i)
    <3>1. proposals' = [proposals EXCEPT ![i] = [proposals[i] EXCEPT !.executed = TRUE]]
      BY <2>1 DEF execute
    <3> QED
      BY <3>1
  <2>2. CASE emitSucceeded(i)
    <3> DEFINE x == IF proposals[i].forBlockchain # ThisChain THEN TRUE ELSE proposals[i].executed
    <3>1. proposals' = [proposals EXCEPT ![i] = [proposals[i] EXCEPT !.executed = x]]
      BY <2>2 DEF emitSucceeded
    <3>2. x \in BOOLEAN /\ (proposals[i].executed => x)
      BY DEF Proposal
    <3> QED
      BY <3>1, <3>2
  <2> QED
    BY <2>1, <2>2
<1>2. i \in Proposed /\ Passed(i)
  BY SucceededHasPassed DEF execute, emitSucceeded
<1> DEFINE q == [proposals[i] EXCEPT !.executed = x]
<1>3. proposals[i] \in Proposal
  BY ProposalType DEF Inv
<1>4. /\ q \in Proposal /\ q.proposer = proposals[i].proposer /\ q.executed = x
      /\ q.canceled = proposals[i].canceled
      /\ q.startBlock = proposals[i].startBlock /\ q.endBlock = proposals[i].endBlock
      /\ q.eta = proposals[i].eta /\ q.forVotes = proposals[i].forVotes
      /\ q.againstVotes = proposals[i].againstVotes
      /\ q.quoromRequired = proposals[i].quoromRequired
  BY <1>3 DEF Proposal
<1> HIDE DEF q
<1>5. proposals' = [proposals EXCEPT ![i] = q] /\ proposals'[i] = q
  BY <1>1 DEF q, Inv, TypeOK
<1>6. UNCHANGED <<chain, rep, params, roles, proposalCount, latestProposalIds>>
  BY DEF execute, emitSucceeded
<1>7. (Closed(i) => Closed(i)') /\ Passed(i)'
  BY <1>1, <1>2, <1>4, <1>5, <1>6 DEF Closed, Passed, Leads, chain
<1>8. /\ block <= q.startBlock => q.eta = 0
      /\ q.eta = 0 => q.forVotes <= q.againstVotes \/ q.forVotes < q.quoromRequired
  BY <1>2, <1>4 DEF Inv, PendingHasNoLock, MajorityStartsLock
<1> QED
  BY <1>2, <1>4, <1>5, <1>6, <1>7, <1>8, OneProposalChanges

\* cancel and approveProposal set a flag; the second one also of an id not proposed yet.
LEMMA FlagStep ==
    ASSUME ConstantsAssumption, Inv, NEW i \in ProposalId, NEW a \in Account,
           cancel(a, i) \/ approveProposal(a, i)
    PROVE  /\ Inv'
           /\ \A j \in Proposed : Closed(j) => Closed(j)'
<1>1. PICK q \in Proposal :
        /\ proposals' = [proposals EXCEPT ![i] = q] /\ proposals'[i] = q
        /\ q.proposer = proposals[i].proposer /\ q.executed = proposals[i].executed
        /\ proposals[i].canceled => q.canceled
        /\ q.startBlock = proposals[i].startBlock /\ q.endBlock = proposals[i].endBlock
        /\ q.eta = proposals[i].eta /\ q.forVotes = proposals[i].forVotes
        /\ q.againstVotes = proposals[i].againstVotes
        /\ q.quoromRequired = proposals[i].quoromRequired
  <2>1. proposals[i] \in Proposal /\ proposals \in [ProposalId -> Proposal]
    BY ProposalType DEF Inv, TypeOK
  <2>2. CASE cancel(a, i)
    <3>1. [proposals[i] EXCEPT !.canceled = TRUE] \in Proposal
      BY <2>1 DEF Proposal
    <3> WITNESS [proposals[i] EXCEPT !.canceled = TRUE] \in Proposal
    <3> QED
      BY <2>1, <2>2 DEF cancel, Proposal
  <2>3. CASE approveProposal(a, i)
    <3>1. [proposals[i] EXCEPT !.guardianApproved = TRUE] \in Proposal
      BY <2>1 DEF Proposal
    <3> WITNESS [proposals[i] EXCEPT !.guardianApproved = TRUE] \in Proposal
    <3> QED
      BY <2>1, <2>3 DEF approveProposal, Proposal
  <2> QED
    BY <2>2, <2>3
<1>2. UNCHANGED <<chain, rep, params, roles, proposalCount, latestProposalIds>>
  BY DEF cancel, approveProposal
<1>3. CASE i \in Proposed
  <2>1. Closed(i) => Closed(i)'
    BY <1>1, <1>2 DEF Closed, chain
  <2>2. q.executed => Passed(i)'
    BY <1>1, <1>2, <1>3 DEF Inv, ExecutedHasPassed, Passed, Leads, chain
  <2>3. /\ block <= q.startBlock => q.eta = 0
        /\ q.eta = 0 => q.forVotes <= q.againstVotes \/ q.forVotes < q.quoromRequired
    BY <1>1, <1>3 DEF Inv, PendingHasNoLock, MajorityStartsLock
  <2> QED
    BY <1>1, <1>2, <1>3, <2>1, <2>2, <2>3, OneProposalChanges
<1>4. CASE i \notin Proposed
  <2>1. Proposed' = Proposed /\ \A j \in Proposed : proposals'[j] = proposals[j]
    BY <1>1, <1>2, <1>4, ProposedIsId DEF Inv, TypeOK, Proposed
  <2>2. TypeOK'
    BY <1>1, <1>2 DEF Inv, TypeOK, chain, roles
  <2>3. \A j \in Proposed : Closed(j) => Closed(j)'
    BY <1>2, <2>1 DEF Closed, chain
  <2>4. OlderAreClosed' /\ MajorityStartsLock' /\ PendingHasNoLock'
    BY <1>2, <2>1, <2>3 DEF Inv, OlderAreClosed, MajorityStartsLock, PendingHasNoLock, chain
  <2>5. ExecutedHasPassed'
    BY <1>2, <2>1 DEF Inv, ExecutedHasPassed, Passed, chain
  <2>6. UnproposedIsNobodys'
    BY <1>1, <1>2, <2>1 DEF Inv, TypeOK, UnproposedIsNobodys
  <2> QED
    BY <2>2, <2>3, <2>4, <2>5, <2>6 DEF Inv
<1> QED
  BY <1>3, <1>4

LEMMA ProposeStep ==
    ASSUME ConstantsAssumption, Inv, NEW v \in Voter, NEW n, NEW c \in Chains, propose(v, n, c),
           NEW id, id = proposalCount + 1
    PROVE  /\ Inv'
           /\ \A j \in Proposed : Closed(j) => Closed(j)'
           /\ \A j \in Proposed : proposals'[j] = proposals[j]
           /\ proposalCount' = id /\ id \in ProposalId
           /\ proposals'[id].proposer = v
           /\ state(id)' = "Pending"
<1> DEFINE start == block + params.votingDelay
           q == [proposals[id] EXCEPT !.proposer = v, !.eta = 0,
                           !.startBlock = start, !.endBlock = start + params.votingPeriod,
                           !.forVotes = 0, !.againstVotes = 0,
                           !.canceled = FALSE, !.executed = FALSE,
                           !.quoromRequired = quorumVotes, !.forBlockchain = c]
<1>1. /\ proposalCount \in Nat /\ id \in ProposalId /\ id \notin Proposed
      /\ Proposed \subseteq ProposalId
  BY ProposedIsId DEF propose, ProposalId, Proposed, ConstantsAssumption, Inv
<1>2. /\ start \in Nat /\ start + params.votingPeriod \in Nat /\ block <= start
      /\ start < start + params.votingPeriod
  BY DEF Inv, TypeOK, Params, ParamName
<1>3. /\ q \in Proposal
      /\ q.proposer = v /\ q.eta = 0 /\ q.startBlock = start
      /\ q.endBlock = start + params.votingPeriod /\ ~q.canceled /\ ~q.executed
      /\ q.forVotes = 0 /\ q.againstVotes = 0
  BY ZenonT(60), <1>1, <1>2, ProposalType, QuorumType DEF Inv, Proposal
<1>4. proposals' = [proposals EXCEPT ![id] = q]
  BY DEF propose
<1> HIDE DEF q, start
<1>5. /\ proposalCount' = id /\ latestProposalIds' = [latestProposalIds EXCEPT ![v] = id]
      /\ UNCHANGED <<chain, rep, params, roles>>
  BY DEF propose
<1>6. Proposed' = Proposed \union {id}
  BY <1>1, <1>5 DEF Proposed, ProposalId
<1>7. proposals'[id] = q /\ \A j \in ProposalId \ {id} : proposals'[j] = proposals[j]
  BY <1>1, <1>4 DEF Inv, TypeOK
<1>8. TypeOK'
  BY <1>1, <1>3, <1>4, <1>5 DEF Inv, TypeOK, chain, roles, ProposalId, ConstantsAssumption
<1>9. \A j \in Proposed : Closed(j) => Closed(j)'
  BY <1>1, <1>5, <1>7 DEF Closed, chain
<1>10. OlderAreClosed'
  <2>1. \A j \in Proposed : proposals[j].proposer = v => Closed(j)
    <3> SUFFICES ASSUME NEW j \in Proposed, proposals[j].proposer = v, j = latestProposalIds[v]
                 PROVE  Closed(j)
      BY DEF Inv, OlderAreClosed
    <3>1. j \in ProposalId /\ j # 0
      BY <1>1 DEF ProposalId
    <3>2. ~Live(j)
      BY <3>1 DEF propose, MayPropose
    <3> QED
      BY <3>1, <3>2, ClosedIsNotLive DEF Inv
  <2>2. \A j \in Proposed : j # id /\ proposals'[j].proposer = proposals[j].proposer
    BY <1>1, <1>7
  <2>3. \A j \in Proposed : latestProposalIds'[proposals[j].proposer] =
            IF proposals[j].proposer = v THEN id ELSE latestProposalIds[proposals[j].proposer]
    BY <1>5 DEF Inv, TypeOK, OlderAreClosed
  <2>4. \A j \in Proposed :
            /\ proposals'[j].proposer \in Voter
            /\ j = latestProposalIds'[proposals'[j].proposer] \/ Closed(j)'
    BY <1>9, <2>1, <2>2, <2>3 DEF Inv, OlderAreClosed
  <2>5. proposals'[id].proposer \in Voter /\ id = latestProposalIds'[proposals'[id].proposer]
    BY <1>3, <1>5, <1>7 DEF Inv, TypeOK
  <2> QED
    BY <1>6, <2>4, <2>5 DEF OlderAreClosed
<1>11. MajorityStartsLock'
  BY <1>1, <1>3, <1>6, <1>7 DEF Inv, MajorityStartsLock
<1>12. ExecutedHasPassed'
  BY <1>1, <1>3, <1>5, <1>6, <1>7 DEF Inv, ExecutedHasPassed, Passed, chain
<1>13. PendingHasNoLock'
  BY <1>1, <1>2, <1>3, <1>5, <1>6, <1>7 DEF Inv, PendingHasNoLock, chain
<1>14. UnproposedIsNobodys'
  BY <1>1, <1>6, <1>7 DEF Inv, UnproposedIsNobodys
<1>15. state(id)' = "Pending"
  BY <1>2, <1>3, <1>5, <1>7 DEF state, chain
<1> QED
  BY <1>1, <1>3, <1>5, <1>7, <1>8, <1>9, <1>10, <1>11, <1>12, <1>13, <1>14, <1>15 DEF Inv

-----------------------------------------------------------------------------
LEMMA InitInv == ASSUME ConstantsAssumption, ParamsAssumption, Init PROVE Inv
<1>1. BlankProposal \in Proposal
  BY DEF BlankProposal, Proposal, BlankReceipt, Receipt
<1>2. TypeOK
  BY <1>1 DEF Init, TypeOK, ConstantsAssumption, ParamsAssumption
<1>3. Proposed = {}
  BY DEF Proposed, Init, ProposalId, ConstantsAssumption
<1>4. UnproposedIsNobodys
  BY DEF UnproposedIsNobodys, Init, BlankProposal
<1> QED
  BY <1>2, <1>3, <1>4
  DEF Inv, OlderAreClosed, MajorityStartsLock, ExecutedHasPassed, PendingHasNoLock

\* execute, emitSucceeded, cancel and approveProposal set one flag of one proposal.
LEMMA FlagsOnly ==
    ASSUME Inv, Decide
    PROVE  \A j \in ProposalId : Outcome(proposals'[j]) = Outcome(proposals[j])
<1> SUFFICES ASSUME NEW j \in ProposalId
             PROVE  Outcome(proposals'[j]) = Outcome(proposals[j])
  OBVIOUS
<1>1. proposals[j] \in Proposal /\ proposals \in [ProposalId -> Proposal]
  BY DEF Inv, TypeOK
<1>2. PICK i \in ProposalId :
        execute(i) \/ emitSucceeded(i) \/ \E a \in Account : cancel(a, i) \/ approveProposal(a, i)
  BY DEF Decide
<1>3. CASE execute(i)
  BY <1>1, <1>3 DEF execute, Outcome, Proposal
<1>4. CASE emitSucceeded(i)
  BY <1>1, <1>4 DEF emitSucceeded, Outcome, Proposal
<1>5. CASE \E a \in Account : cancel(a, i)
  BY <1>1, <1>5 DEF cancel, Outcome, Proposal
<1>6. CASE \E a \in Account : approveProposal(a, i)
  BY <1>1, <1>6 DEF approveProposal, Outcome, Proposal
<1> QED
  BY <1>2, <1>3, <1>4, <1>5, <1>6

\* Every step keeps the invariant, and what is closed as it is.
LEMMA StepInv ==
    ASSUME ConstantsAssumption, ParamsAssumption, Inv, [Next]_vars
    PROVE  /\ Inv'
           /\ \A j \in Proposed : Closed(j) =>
                  Closed(j)' /\ Outcome(proposals'[j]) = Outcome(proposals[j])
<1>1. CASE NextBlock
  BY <1>1, NextBlockTypes, QuietStep DEF Inv, ballots
<1>2. CASE Administer
  <2>1. TypeOK' /\ UNCHANGED <<ballots, chain>>
    BY <1>2, AdministerTypes DEF Inv
  <2>2. block' >= block /\ now' >= now
    BY <2>1 DEF chain, Inv, TypeOK
  <2> QED
    BY <2>1, <2>2, QuietStep DEF ballots
<1>3. CASE UNCHANGED vars
  <2>1. TypeOK' /\ UNCHANGED ballots /\ block' >= block /\ now' >= now
    BY <1>3 DEF vars, ballots, Inv, TypeOK
  <2> QED
    BY <2>1, QuietStep DEF ballots
<1>4. CASE Vote
  <2>1. \E v \in Voter, i \in Proposed, s \in BOOLEAN : _castVote(v, i, s)
    BY <1>4 DEF Vote, castVote, castVoteBySig, ConstantsAssumption
  <2> QED
    BY <2>1, BallotStep
<1>5. CASE Decide
  <2>1. Inv' /\ \A j \in Proposed : Closed(j) => Closed(j)'
    BY <1>5, ExecuteStep, FlagStep DEF Decide
  <2> QED
    BY <1>5, <2>1, FlagsOnly, ProposedIsId DEF Inv
<1>6. CASE \E v \in Voter, n \in ActionCounts, c \in Chains : propose(v, n, c)
  BY <1>6, ProposeStep
<1> QED
  BY <1>1, <1>2, <1>3, <1>4, <1>5, <1>6 DEF Next

(* The invariant holds in every state: proposals are well typed, all but    *)
(* the latest of a proposer are closed, majorities have locks.              *)
THEOREM InvHolds == Spec => []Inv
<1>1. Init => Inv
  BY InitInv, ConstantsAssumption, ParamsAssumption
<1>2. Inv /\ [Next]_vars => Inv'
  BY StepInv, ConstantsAssumption, ParamsAssumption
<1> QED
  BY <1>1, <1>2, PTL DEF Spec

(* A proposer never has two proposals that wait for votes or can be voted   *)
(* on, although propose looks at his latest one only.                       *)
THEOREM ProposersHaveOneLiveProposal == Spec => []OneLiveProposal
<1>1. Inv => OneLiveProposal
  BY ConstantsAssumption, ProposedIsId, ClosedIsNotLive DEF Inv, OneLiveProposal, OlderAreClosed
<1> QED
  BY <1>1, InvHolds, PTL

(* Whatever is executed, or can be, has a majority and a quorum and has     *)
(* gone through its lock: execute trusts state, which is computed anew.     *)
THEOREM NothingPassesWithoutLock == Spec => []PassedAfterTimelock
<1>1. Inv => PassedAfterTimelock
  BY ConstantsAssumption, SucceededHasPassed DEF PassedAfterTimelock, Passed
<1> QED
  BY <1>1, InvHolds, PTL

LEMMA ClosedIsNotLiveNext ==
    ASSUME TypeOK', NEW i \in ProposalId
    PROVE  Live(i)' <=> ~Closed(i)'
<1>1. LET p == proposals'[i]
      IN  /\ p.eta \in Nat /\ p.startBlock \in Nat /\ p.endBlock \in Nat
          /\ p.canceled \in BOOLEAN /\ p.executed \in BOOLEAN
          /\ block' \in Nat /\ now' \in Nat
  BY DEF TypeOK, Proposal
<1> QED
  BY <1>1 DEF Live, state, Closed, InVotingPeriod

(* A closed vote never opens again and its outcome stays what it was: not   *)
(* by a late ballot, a change of parameters or another reputation contract. *)
THEOREM ClosedVotesStayClosed == Spec => OutcomeIsFrozen
<1> DEFINE Frozen == \A i \in Proposed :
        ~Live(i) => ~Live(i)' /\ Outcome(proposals'[i]) = Outcome(proposals[i])
<1>1. Inv /\ [Next]_vars => Frozen
  <2> SUFFICES ASSUME Inv, [Next]_vars, NEW i \in Proposed, ~Live(i)
               PROVE  ~Live(i)' /\ Outcome(proposals'[i]) = Outcome(proposals[i])
    OBVIOUS
  <2>1. i \in ProposalId
    BY ConstantsAssumption, ProposedIsId DEF Inv
  <2>2. Closed(i) /\ Inv'
    BY <2>1, ClosedIsNotLive, StepInv, ConstantsAssumption, ParamsAssumption DEF Inv
  <2>3. Closed(i)' /\ Outcome(proposals'[i]) = Outcome(proposals[i])
    BY <2>2, StepInv, ConstantsAssumption, ParamsAssumption
  <2> QED
    BY <2>1, <2>2, <2>3, ClosedIsNotLiveNext DEF Inv
<1>2. Inv /\ [Next]_vars => [Frozen]_vars
  BY <1>1
<1> HIDE DEF Frozen
<1>3. Spec => [][Frozen]_vars
  BY <1>2, InvHolds, PTL DEF Spec
<1> QED
  BY <1>3 DEF Frozen, OutcomeIsFrozen

-----------------------------------------------------------------------------
\* The abstract life cycle: first, what one proposal may turn into.
Follows(i) ==
    /\ state(i)' # state(i) => state(i)' \in Lifecycle!Successors[state(i)]
    /\ state(i) = "Expired" /\ state(i)' = "Succeeded"
          => params'.gracePeriod > params.gracePeriod

States == {"Pending", "Active", "ActiveTimelock", "Canceled",
           "Defeated", "Succeeded", "Expired", "Executed"}
LEMMA StateType == \A i \in ProposalId : state(i) \in States /\ state(i)' \in States
BY DEF state, States

\* Time, parameters and reputation move a proposal on whose fields stay: one block at
\* most, so that it cannot leave Pending past Active.
LEMMA TimeFollows ==
    ASSUME ConstantsAssumption, Inv, Inv', NEW i \in Proposed, proposals'[i] = proposals[i],
           block' \in {block, block + 1}, now' >= now
    PROVE  Follows(i)
<1> DEFINE p == proposals[i]
<1>1. /\ i \in ProposalId
      /\ p.eta \in Nat /\ p.startBlock \in Nat /\ p.endBlock \in Nat
      /\ p.forVotes \in Nat /\ p.againstVotes \in Nat /\ p.quoromRequired \in Nat
      /\ p.canceled \in BOOLEAN /\ p.executed \in BOOLEAN
      /\ block \in Nat /\ now \in Nat /\ now' \in Nat
  BY ProposedIsId, ProposalType DEF Inv, TypeOK
<1>2. /\ p.startBlock < p.endBlock
      /\ block <= p.startBlock => p.eta = 0
      /\ p.executed => p.startBlock < block
      /\ p.eta = 0 => p.forVotes <= p.againstVotes \/ p.forVotes < p.quoromRequired
  BY DEF Inv, PendingHasNoLock, ExecutedHasPassed, Passed, MajorityStartsLock
<1>3. CASE p.canceled
  BY <1>3 DEF Follows, state
<1>4. CASE ~p.canceled /\ block <= p.startBlock
  <2>1. state(i) = "Pending"
    BY <1>4 DEF state
  <2>2. state(i)' \in {"Pending", "Active"}
    BY <1>1, <1>2, <1>4 DEF state, InVotingPeriod
  <2> QED
    BY <2>1, <2>2 DEF Follows, Lifecycle!Successors
<1>5. CASE ~p.canceled /\ block > p.startBlock /\ p.executed
  BY <1>1, <1>5 DEF Follows, state
<1>6. CASE ~p.canceled /\ block > p.startBlock /\ ~p.executed /\ p.eta = 0
  <2>1. \/ state(i) = "Active" /\ state(i)' \in {"Active", "Defeated"}
        \/ state(i) = "Defeated" /\ state(i)' = "Defeated"
    BY <1>1, <1>2, <1>6 DEF state, InVotingPeriod
  <2> QED
    BY <2>1 DEF Follows, Lifecycle!Successors
<1>7. CASE ~p.canceled /\ block > p.startBlock /\ ~p.executed /\ p.eta > 0
  <2>1. \/ state(i) = "ActiveTimelock"
           /\ state(i)' \in {"ActiveTimelock", "Defeated", "Succeeded", "Expired"}
        \/ state(i) = "Defeated" /\ state(i)' = "Defeated"
        \/ state(i) \in {"Succeeded", "Expired"} /\ state(i)' \in {"Succeeded", "Expired"}
    BY <1>1, <1>7 DEF state, InVotingPeriod
  <2>2. ASSUME state(i) = "Expired", state(i)' = "Succeeded"
        PROVE  params'.gracePeriod > params.gracePeriod
    <3>1. params.gracePeriod \in Nat /\ params'.gracePeriod \in Nat
      BY DEF Inv, TypeOK, Params, ParamName
    <3>2. now >= p.eta + params.gracePeriod /\ now' < p.eta + params'.gracePeriod
      BY <1>1, <1>7, <2>2, <3>1 DEF state, InVotingPeriod
    <3> QED
      BY <1>1, <3>1, <3>2
  <2> QED
    BY <2>1, <2>2 DEF Follows, Lifecycle!Successors
<1> QED
  BY <1>1, <1>3, <1>4, <1>5, <1>6, <1>7

LEMMA BallotFollows ==
    ASSUME ConstantsAssumption, Inv, Inv', NEW i \in Proposed, Voted(i), UNCHANGED chain
    PROVE  Follows(i)
<1> DEFINE p == proposals[i]
           q == proposals'[i]
<1>1. /\ i \in ProposalId
      /\ p.eta \in Nat /\ p.startBlock \in Nat /\ p.endBlock \in Nat
      /\ p.canceled \in BOOLEAN /\ p.executed \in BOOLEAN
      /\ block \in Nat /\ now \in Nat /\ now > 0 /\ block' = block /\ now' = now
  BY ProposedIsId, ProposalType DEF Inv, chain
<1>2. q.eta \in Nat
  BY <1>1 DEF Inv, TypeOK, Proposal
<1>3. /\ q.startBlock = p.startBlock /\ q.endBlock = p.endBlock
      /\ q.executed = p.executed /\ q.canceled = p.canceled
      /\ q.eta = p.eta \/ q.eta > now
  BY DEF Voted
<1>4. /\ ~p.canceled /\ block > p.startBlock /\ ~p.executed
      /\ (p.eta > 0 /\ now < p.eta) \/ (p.eta = 0 /\ block <= p.endBlock)
  BY <1>1 DEF Voted, Open, state, InVotingPeriod
<1>5. \/ state(i) = "ActiveTimelock" /\ state(i)' = "ActiveTimelock"
      \/ state(i) = "Active" /\ state(i)' \in {"Active", "ActiveTimelock"}
  BY <1>1, <1>2, <1>3, <1>4 DEF state, InVotingPeriod
<1> QED
  BY <1>5 DEF Follows, Lifecycle!Successors

\* A decision: it executes what succeeded, or cancels what is not executed.
LEMMA DecideFollows ==
    ASSUME ConstantsAssumption, Inv, Inv', NEW i \in Proposed, Decide
    PROVE  Follows(i)
<1>1. i \in ProposalId /\ proposals[i] \in Proposal /\ proposals \in [ProposalId -> Proposal]
  BY ProposedIsId DEF Inv, TypeOK
<1>2. PICK j \in ProposalId :
        execute(j) \/ emitSucceeded(j) \/ \E a \in Account : cancel(a, j) \/ approveProposal(a, j)
  BY DEF Decide
<1>3. block' = block /\ now' = now /\ rep' = rep /\ params' = params
  BY <1>2 DEF execute, emitSucceeded, cancel, approveProposal, chain
<1>4. /\ proposals[i].eta \in Nat /\ block \in Nat /\ now \in Nat
      /\ proposals[i].canceled \in BOOLEAN /\ proposals[i].executed \in BOOLEAN
  BY <1>1, ProposalType DEF Inv
<1>5. CASE i # j
  <2>1. proposals'[i] = proposals[i]
    BY <1>1, <1>2, <1>5 DEF execute, emitSucceeded, cancel, approveProposal
  <2> QED
    BY <1>3, <1>4, <2>1, TimeFollows
<1>6. CASE i = j /\ (execute(i) \/ emitSucceeded(i))
  <2>1. state(i) = "Succeeded"
    BY <1>6 DEF execute, emitSucceeded
  <2>2. proposals'[i] = proposals[i]
        \/ proposals'[i] = [proposals[i] EXCEPT !.executed = TRUE]
    <3>1. CASE execute(i)
      BY <1>1, <3>1 DEF execute
    <3>2. CASE emitSucceeded(i)
      BY <1>1, <3>2 DEF emitSucceeded, Proposal
    <3> QED
      BY <1>6, <3>1, <3>2
  <2>3. CASE proposals'[i] = proposals[i]
    BY <1>3, <1>4, <2>3, TimeFollows
  <2>4. CASE proposals'[i] = [proposals[i] EXCEPT !.executed = TRUE]
    <3>1. /\ proposals'[i].executed /\ proposals'[i].canceled = proposals[i].canceled
          /\ proposals'[i].startBlock = proposals[i].startBlock
      BY <1>1, <2>4 DEF Proposal
    <3>2. state(i)' = "Executed"
      BY <1>3, <2>1, <3>1 DEF state
    <3> QED
      BY <2>1, <3>2 DEF Follows, Lifecycle!Successors
  <2> QED
    BY <2>2, <2>3, <2>4
<1>7. CASE i = j /\ \E a \in Account : cancel(a, i)
  <2>1. state(i) # "Executed" /\ proposals'[i] = [proposals[i] EXCEPT !.canceled = TRUE]
    BY <1>1, <1>7 DEF cancel, Cancelable
  <2>2. state(i)' = "Canceled"
    BY <1>1, <2>1 DEF state, Proposal
  <2>3. state(i) \in States
    BY <1>1, StateType
  <2> QED
    BY <2>1, <2>2, <2>3 DEF Follows, Lifecycle!Successors, States
<1>8. CASE i = j /\ \E a \in Account : approveProposal(a, i)
  <2>1. proposals'[i] = [proposals[i] EXCEPT !.guardianApproved = TRUE]
    BY <1>1, <1>8 DEF approveProposal
  <2>2. /\ proposals'[i].canceled = proposals[i].canceled
        /\ proposals'[i].executed = proposals[i].executed
        /\ proposals'[i].eta = proposals[i].eta
        /\ proposals'[i].startBlock = proposals[i].startBlock
        /\ proposals'[i].endBlock = proposals[i].endBlock
        /\ proposals'[i].forVotes = proposals[i].forVotes
        /\ proposals'[i].againstVotes = proposals[i].againstVotes
        /\ proposals'[i].quoromRequired = proposals[i].quoromRequired
    BY <1>1, <2>1 DEF Proposal
  <2>3. state(i)' = state(i)
    BY <1>3, <2>2 DEF state, InVotingPeriod
  <2> QED
    BY <2>3 DEF Follows
<1> QED
  BY <1>2, <1>5, <1>6, <1>7, <1>8

\* The refinement mapping, as FollowsLifecycle has it.
Stages == [i \in ProposalId |-> IF i \in Proposed THEN state(i) ELSE "None"]
Authors == [i \in ProposalId |-> proposals[i].proposer]

LEMMA ProposeStarts ==
    ASSUME ConstantsAssumption, Inv, NEW v \in Voter, NEW n, NEW c \in Chains, propose(v, n, c)
    PROVE  Lifecycle!Start(v)
<1>1. PICK id : id = proposalCount + 1
  OBVIOUS
<1>2. /\ Inv' /\ proposalCount' = id /\ id \in ProposalId
      /\ \A j \in Proposed : proposals'[j] = proposals[j]
      /\ proposals'[id].proposer = v /\ state(id)' = "Pending"
  BY <1>1, ProposeStep
<1>3. /\ Proposed \subseteq ProposalId
      /\ \A j \in ProposalId : j \in Proposed <=> ~(j >= id)
      /\ Proposed' = Proposed \union {id}
  BY <1>1, <1>2, ProposedIsId DEF Inv, Proposed, ProposalId, ConstantsAssumption
<1>4. \A j \in ProposalId : Authors[j] = v => Stages[j] \notin Lifecycle!LiveStages
  <2> SUFFICES ASSUME NEW j \in Proposed, proposals[j].proposer = v
               PROVE  ~Live(j)
    BY <1>3 DEF Inv, UnproposedIsNobodys, Authors, Stages, Live, Lifecycle!LiveStages,
                ConstantsAssumption, Account
  <2>1. CASE j = latestProposalIds[v]
    BY <1>3, <2>1 DEF propose, MayPropose, ProposalId
  <2>2. CASE j # latestProposalIds[v]
    BY <1>3, <2>2, ClosedIsNotLive DEF Inv, OlderAreClosed
  <2> QED
    BY <2>1, <2>2
<1>5. \A j \in ProposalId : Stages[j] = "None" <=> j >= id
  BY <1>3, StateType DEF Stages, States
<1>6. \A j \in Proposed : state(j)' = state(j)
  BY <1>2 DEF propose, chain, state, InVotingPeriod
<1>7. Stages' = [Stages EXCEPT ![id] = "Pending"]
  BY <1>2, <1>3, <1>6 DEF Stages
<1>8. \A j \in ProposalId \ (Proposed \union {id}) : proposals'[j].proposer = proposals[j].proposer
  BY <1>2, <1>3 DEF Inv, UnproposedIsNobodys
<1>9. Authors' = [Authors EXCEPT ![id] = v]
  BY <1>2, <1>8 DEF Authors
<1>10. params' = params
  BY DEF propose
<1> QED
  BY <1>2, <1>4, <1>5, <1>7, <1>9, <1>10 DEF Lifecycle!Start, Stages, Authors

LEMMA OthersMove ==
    ASSUME ConstantsAssumption, Inv, Inv', UNCHANGED <<proposalCount, Authors>>,
           \A i \in Proposed : Follows(i)
    PROVE  Lifecycle!Move
<1>1. Proposed' = Proposed
  BY DEF Proposed
<1>2. Stages' \in [ProposalId -> Lifecycle!Stage]
  BY <1>1, StateType DEF Stages, States, Lifecycle!Stage
<1>3. \A i \in ProposalId :
          Stages'[i] # Stages[i] => Stages'[i] \in Lifecycle!Successors[Stages[i]]
  BY <1>1 DEF Stages, Follows
<1>4. params'.gracePeriod \in Nat
  BY DEF Inv, TypeOK, Params, ParamName
<1>5. (\E i \in ProposalId : Lifecycle!Revived(i)) => params'.gracePeriod > params.gracePeriod
  BY <1>1 DEF Lifecycle!Revived, Stages, Follows
<1> QED
  BY <1>2, <1>3, <1>4, <1>5 DEF Lifecycle!Move, Stages, Authors

LEMMA StepFollows ==
    ASSUME ConstantsAssumption, ParamsAssumption, Inv, [Next]_vars
    PROVE  Lifecycle!Next \/ UNCHANGED <<Stages, Authors, params.gracePeriod>>
<1>1. Inv' /\ Proposed \subseteq ProposalId
  BY StepInv, ProposedIsId DEF Inv
<1>2. CASE NextBlock
  <2>1. block' = block + 1 /\ now' >= now /\ UNCHANGED ballots
    BY <1>2, NextBlockTypes DEF NextBlock, Inv
  <2>2. \A i \in Proposed : Follows(i)
    BY <1>1, <2>1, TimeFollows DEF ballots
  <2> QED
    BY <1>1, <2>1, <2>2, OthersMove DEF ballots, Authors, Lifecycle!Next
<1>3. CASE Administer
  <2>1. UNCHANGED <<ballots, chain>> /\ now' >= now
    BY <1>3, AdministerTypes DEF Inv, TypeOK, chain
  <2>2. \A i \in Proposed : Follows(i)
    BY <1>1, <2>1, TimeFollows DEF ballots, chain
  <2> QED
    BY <1>1, <2>1, <2>2, OthersMove DEF ballots, Authors, Lifecycle!Next
<1>4. CASE UNCHANGED vars
  <2>1. UNCHANGED <<Stages, Authors, params.gracePeriod>>
    BY <1>4 DEF vars, Stages, Authors, Proposed, state, InVotingPeriod
  <2> QED
    BY <2>1
<1>5. CASE Vote
  <2>1. PICK v \in Voter, i \in Proposed, s \in BOOLEAN : _castVote(v, i, s)
    BY <1>5 DEF Vote, castVote, castVoteBySig, ConstantsAssumption
  <2>2. \A j \in ProposalId : proposals'[j] = proposals[j] \/ Voted(j)
    BY <2>1, BallotStep
  <2>3. UNCHANGED <<chain, proposalCount>> /\ block' = block /\ now' >= now
    BY <2>1 DEF _castVote, chain, Inv, TypeOK
  <2>4. \A j \in Proposed : Follows(j)
    BY <1>1, <2>2, <2>3, TimeFollows, BallotFollows
  <2>5. UNCHANGED Authors
    BY <2>2 DEF Authors, Voted
  <2> QED
    BY <1>1, <2>3, <2>4, <2>5, OthersMove DEF Lifecycle!Next
<1>6. CASE Decide
  <2>1. \A i \in Proposed : Follows(i)
    BY <1>1, <1>6, DecideFollows
  <2>2. UNCHANGED Authors
    BY <1>6, FlagsOnly DEF Authors, Outcome
  <2>3. proposalCount' = proposalCount
    BY <1>6 DEF Decide, execute, emitSucceeded, cancel, approveProposal
  <2> QED
    BY <1>1, <2>1, <2>2, <2>3, OthersMove DEF Lifecycle!Next
<1>7. CASE \E v \in Voter, n \in ActionCounts, c \in Chains : propose(v, n, c)
  BY <1>7, ProposeStarts DEF Lifecycle!Next
<1> QED
  BY <1>2, <1>3, <1>4, <1>5, <1>6, <1>7 DEF Next

(* The machine implements the life cycle of module ProposalLifecycle: state *)
(* is computed anew at every call from flags, tallies, clock and parameters,*)
(* yet a proposal only moves along the stages that may follow each other,   *)
(* an expired one can be executed again only by a step that lengthens the   *)
(* grace period, and a proposer starts one when he has no live one.         *)
THEOREM MachineFollowsLifecycle == Spec => FollowsLifecycle
<1>1. Init => Lifecycle!Init
  <2> SUFFICES ASSUME Init PROVE Lifecycle!Init
    OBVIOUS
  <2>1. params.gracePeriod \in Nat
    BY ParamsAssumption DEF Init, Params, ParamName
  <2>2. \A i \in ProposalId : i \notin Proposed /\ proposals[i].proposer = NoAddress
    BY ConstantsAssumption DEF Init, Proposed, ProposalId, BlankProposal
  <2> QED
    BY <2>1, <2>2 DEF Lifecycle!Init
<1>2. Inv /\ [Next]_vars => [Lifecycle!Next]_(Lifecycle!vars)
  BY StepFollows, ConstantsAssumption, ParamsAssumption DEF Stages, Authors, Lifecycle!vars
<1> QED
  BY <1>1, <1>2, InvHolds, PTL DEF Spec, FollowsLifecycle, Lifecycle!Spec

-----------------------------------------------------------------------------
\* What a step makes of proposal i: it keeps its tallies, ballots and lock, ...
Kept(i) ==
    /\ Outcome(proposals'[i]) = Outcome(proposals[i])
    /\ i \in Proposed' <=> i \in Proposed

\* ... or proposes it, the tallies and the lock reset and no ballot touched, ...
Started(i) ==
    LET q == proposals'[i]
    IN  /\ i \notin Proposed /\ i \in Proposed'
        /\ q.forVotes = 0 /\ q.againstVotes = 0 /\ q.eta = 0
        /\ q.receipts = proposals[i].receipts
        /\ block' <= q.startBlock

\* ... or counts one ballot.
BallotCast(i) ==
    /\ i \in Proposed
    /\ \E v \in Voter, s \in BOOLEAN : _castVote(v, i, s)

LEMMA StepOfProposal ==
    ASSUME ConstantsAssumption, ParamsAssumption, Inv, [Next]_vars, NEW i \in ProposalId
    PROVE  Kept(i) \/ Started(i) \/ BallotCast(i)
<1>1. CASE UNCHANGED ballots
  BY <1>1 DEF ballots, Kept, Outcome, Proposed
<1>2. NextBlock \/ Administer \/ UNCHANGED vars => UNCHANGED ballots
  <2>1. Administer => UNCHANGED ballots
    BY AdministerTypes DEF Inv
  <2> QED
    BY <2>1 DEF NextBlock, vars, ballots
<1>3. CASE Vote
  <2>1. PICK v \in Voter, j \in Proposed, s \in BOOLEAN : _castVote(v, j, s)
    BY <1>3 DEF Vote, castVote, castVoteBySig, ConstantsAssumption
  <2>2. CASE i = j
    BY <2>1, <2>2 DEF BallotCast
  <2>3. CASE i # j
    <3>1. proposals'[i] = proposals[i] /\ Proposed' = Proposed
      BY <2>1, <2>3 DEF _castVote, Inv, TypeOK, Proposed
    <3> QED
      BY <3>1 DEF Kept
  <2> QED
    BY <2>2, <2>3
<1>4. CASE Decide
  <2>1. Proposed' = Proposed
    BY <1>4 DEF Decide, execute, emitSucceeded, cancel, approveProposal, Proposed
  <2> QED
    BY <1>4, <2>1, FlagsOnly DEF Kept
<1>5. CASE \E v \in Voter, n \in ActionCounts, c \in Chains : propose(v, n, c)
  <2>1. PICK v \in Voter, n \in ActionCounts, c \in Chains : propose(v, n, c)
    BY <1>5
  <2>2. PICK id : id = proposalCount + 1
    OBVIOUS
  <2>3. /\ proposalCount' = id /\ id \in ProposalId /\ proposalCount \in Nat
        /\ Proposed' = Proposed \union {id} /\ id \notin Proposed
    BY <2>1, <2>2, ProposeStep, ProposedIsId DEF Inv, Proposed, ProposalId, ConstantsAssumption
  <2>4. CASE i # id
    <3>1. proposals'[i] = proposals[i]
      BY <2>1, <2>2, <2>4 DEF propose, Inv, TypeOK
    <3> QED
      BY <2>3, <2>4, <3>1 DEF Kept
  <2>5. CASE i = id
    <3>1. /\ proposals[i] \in Proposal /\ proposals \in [ProposalId -> Proposal]
          /\ params.votingDelay \in Nat /\ block \in Nat
      BY DEF Inv, TypeOK, Params, ParamName
    <3>2. /\ proposals'[i].forVotes = 0 /\ proposals'[i].againstVotes = 0
          /\ proposals'[i].eta = 0 /\ proposals'[i].receipts = proposals[i].receipts
          /\ proposals'[i].startBlock = block + params.votingDelay
      BY <2>1, <2>2, <2>5, <3>1 DEF propose, Proposal
    <3>3. block' <= proposals'[i].startBlock
      BY <2>1, <3>1, <3>2 DEF propose, chain
    <3> QED
      BY <2>3, <2>5, <3>2, <3>3 DEF Started
  <2> QED
    BY <2>4, <2>5
<1> QED
  BY <1>1, <1>2, <1>3, <1>4, <1>5 DEF Next

\* The lock of p once a ballot has made q of it.
NewLock(p, q) ==
    IF QuorumReached(q)
    THEN updatedETA([q EXCEPT !.eta = p.eta], Leads(p) # Leads(q))
    ELSE p.eta

\* Proposal p once v's ballot of n votes has made q of it.
Counts(p, q, v, support, n) ==
    /\ n \in Nat /\ p \in Proposal /\ q \in Proposal
    /\ ~p.receipts[v].hasVoted
    /\ q.receipts = [p.receipts EXCEPT ![v] =
            [hasVoted |-> TRUE, support |-> support, votes |-> n]]
    /\ support => q.forVotes = p.forVotes + n /\ q.againstVotes = p.againstVotes
    /\ ~support => q.forVotes = p.forVotes /\ q.againstVotes = p.againstVotes + n
    /\ q.startBlock = p.startBlock /\ q.quoromRequired = p.quoromRequired
    /\ p.startBlock < block
    /\ q.eta = NewLock(p, q)

LEMMA BallotFields ==
    ASSUME ConstantsAssumption, Inv, NEW i \in Proposed, NEW v \in Voter, NEW s \in BOOLEAN,
           _castVote(v, i, s), NEW p, p = proposals[i], NEW q, q = proposals'[i],
           NEW n, n = VotesAt(v, proposals[i].startBlock)
    PROVE  Counts(p, q, v, s, n)
<1> DEFINE t == [p EXCEPT
            !.forVotes = IF s THEN @ + n ELSE @,
            !.againstVotes = IF s THEN @ ELSE @ + n,
            !.receipts[v] = [hasVoted |-> TRUE, support |-> s, votes |-> n]]
           e == IF QuorumReached(t) THEN updatedETA(t, Leads(p) # Leads(t)) ELSE p.eta
           r == [t EXCEPT !.eta = e]
<1>1. /\ i \in ProposalId /\ p \in Proposal /\ p.startBlock \in Nat /\ block \in Nat
      /\ p.forVotes \in Nat /\ p.againstVotes \in Nat
  BY ProposedIsId, ProposalType DEF Inv
<1>2. n \in Nat
  BY <1>1, SnapshotType DEF Inv
<1>3. Inv' /\ Open(i) /\ ~p.receipts[v].hasVoted
  BY BallotStep DEF _castVote, NotVotedYet
<1>4. /\ t.forVotes = p.forVotes + (IF s THEN n ELSE 0)
      /\ t.againstVotes = p.againstVotes + (IF s THEN 0 ELSE n)
      /\ t.receipts = [p.receipts EXCEPT ![v] =
                        [hasVoted |-> TRUE, support |-> s, votes |-> n]]
      /\ t.startBlock = p.startBlock /\ t.quoromRequired = p.quoromRequired
      /\ t.eta = p.eta
  BY <1>1, <1>2 DEF Proposal
<1>5. counted(p, v, s, n) = r
  BY <1>4 DEF counted
<1>6. q = r
  BY <1>1, <1>5 DEF _castVote, Inv, TypeOK
<1>7. q \in Proposal
  BY <1>1, <1>3 DEF Inv, TypeOK
<1>8. t = [q EXCEPT !.eta = p.eta]
  BY <1>1, <1>4, <1>6 DEF Proposal
<1>9. /\ q.eta = e
      /\ q.forVotes = t.forVotes /\ q.againstVotes = t.againstVotes
      /\ q.receipts = t.receipts /\ q.startBlock = t.startBlock
      /\ q.quoromRequired = t.quoromRequired
  BY <1>1, <1>6 DEF Proposal
<1> HIDE DEF r, t
<1>10. (QuorumReached(t) <=> QuorumReached(q)) /\ (Leads(t) <=> Leads(q))
  BY <1>9 DEF QuorumReached, Leads
<1>11. e = NewLock(p, q)
  <2>1. (Leads(p) # Leads(t)) = (Leads(p) # Leads(q))
    BY <1>9, Zenon DEF Leads
  <2>2. updatedETA([q EXCEPT !.eta = p.eta], Leads(p) # Leads(q))
            = updatedETA(t, Leads(p) # Leads(q))
    BY <1>8, Zenon
  <2>3. CASE QuorumReached(q)
    <3>1. e = updatedETA(t, Leads(p) # Leads(q))
      BY <1>10, <2>1, <2>3, Zenon DEF e
    <3> QED
      BY <2>2, <2>3, <3>1, Zenon DEF NewLock
  <2>4. CASE ~QuorumReached(q)
    BY <1>10, <2>4 DEF NewLock
  <2> QED
    BY <2>3, <2>4
<1> HIDE DEF e
<1>12. p.startBlock < block
  BY <1>1, <1>3 DEF Open, state
<1> QED
  BY <1>1, <1>2, <1>3, <1>4, <1>6, <1>7, <1>9, <1>11, <1>12 DEF Counts

LEMMA BallotMade ==
    ASSUME ConstantsAssumption, Inv, NEW i \in ProposalId, BallotCast(i)
    PROVE  /\ i \in Proposed /\ Proposed' = Proposed
           /\ \E v \in Voter, s \in BOOLEAN, n \in Nat :
                 /\ n = VotesAt(v, proposals[i].startBlock)
                 /\ Counts(proposals[i], proposals'[i], v, s, n)
<1>1. PICK v \in Voter, s \in BOOLEAN : _castVote(v, i, s)
  BY DEF BallotCast
<1>2. i \in Proposed /\ Proposed' = Proposed
  BY <1>1 DEF BallotCast, _castVote, Proposed
<1>3. PICK n : n = VotesAt(v, proposals[i].startBlock)
  OBVIOUS
<1>4. Counts(proposals[i], proposals'[i], v, s, n)
  BY <1>1, <1>2, <1>3, BallotFields
<1>5. n \in Nat
  BY <1>4 DEF Counts
<1> QED
  BY <1>2, <1>3, <1>4, <1>5

-----------------------------------------------------------------------------
\* propose resets the tallies of an id but not its receipts: it has none yet.
NoEarlyBallots == \A i \in ProposalId \ Proposed : \A v \in Voter :
    ~proposals[i].receipts[v].hasVoted
TallyInv == Inv /\ TallyMatchesBallots /\ NoEarlyBallots

\* A ballot adds its voter to one side and leaves the other as it was.
LEMMA BallotCounts ==
    ASSUME SnapshotsAssumption, NEW p, NEW q, NEW v \in Voter, NEW n, NEW s \in BOOLEAN,
           Counts(p, q, v, s, n), NEW other \in BOOLEAN, other # s
    PROVE  /\ CountedVotes(q, s) = CountedVotes(p, s) + n
           /\ CountedVotes(q, other) = CountedVotes(p, other)
<1> DEFINE f == [w \in Voter |-> p.receipts[w].votes]
           g == [w \in Voter |-> q.receipts[w].votes]
<1>1. /\ ~p.receipts[v].hasVoted
      /\ p.receipts \in [Voter -> Receipt] /\ q.receipts \in [Voter -> Receipt]
      /\ \A w \in Voter : f[w] \in Nat /\ g[w] \in Nat
      /\ g[v] = n /\ \A w \in Voter \ {v} : q.receipts[w] = p.receipts[w] /\ g[w] = f[w]
  BY DEF Counts, Proposal, Receipt
<1>2. /\ BallotsFor(q, s) = BallotsFor(p, s) \union {v}
      /\ BallotsFor(q, other) = BallotsFor(p, other)
      /\ v \notin BallotsFor(p, s) /\ v \notin BallotsFor(p, other)
  BY <1>1 DEF BallotsFor, Counts
<1>3. \A side \in BOOLEAN : BallotsFor(p, side) \subseteq Voter /\ IsFiniteSet(BallotsFor(p, side))
  BY FS_Subset DEF SnapshotsAssumption, BallotsFor
<1>4. ASSUME NEW side \in BOOLEAN
      PROVE  SumFunctionOnSet(g, BallotsFor(p, side)) = SumFunctionOnSet(f, BallotsFor(p, side))
  <2>1. v \notin BallotsFor(p, side)
    BY <1>1 DEF BallotsFor
  <2>2. \A w \in BallotsFor(p, side) : f[w] \in Nat /\ g[w] = f[w]
    BY <1>1, <1>3, <2>1
  <2> HIDE DEF f, g
  <2> QED
    BY <1>3, <2>2, SumOfSame
<1>5. \A w \in BallotsFor(p, s) \union {v} : g[w] \in Int
  BY <1>1, <1>3
<1> HIDE DEF f, g
<1>6. SumFunctionOnSet(g, BallotsFor(p, s) \union {v}) = SumFunctionOnSet(g, BallotsFor(p, s)) + g[v]
  BY <1>2, <1>3, <1>5, SumAdd
<1> QED
  BY <1>1, <1>2, <1>4, <1>6 DEF CountedVotes, f, g

LEMMA NoBallotsNoVotes ==
    ASSUME NEW p, \A v \in Voter : ~p.receipts[v].hasVoted, NEW side
    PROVE  CountedVotes(p, side) = 0
<1>1. BallotsFor(p, side) = {}
  BY DEF BallotsFor
<1> QED
  BY <1>1, SumEmpty DEF CountedVotes

LEMMA SameBallotsSameVotes ==
    ASSUME NEW p, NEW q, p.receipts = q.receipts, NEW side
    PROVE  CountedVotes(p, side) = CountedVotes(q, side)
BY DEF CountedVotes, BallotsFor

LEMMA TallyStep ==
    ASSUME ConstantsAssumption, SnapshotsAssumption, ParamsAssumption, TallyInv, [Next]_vars
    PROVE  TallyInv'
<1>1. Inv' /\ Inv /\ proposals \in [ProposalId -> Proposal] /\ proposals' \in [ProposalId -> Proposal]
  BY StepInv DEF TallyInv, Inv, TypeOK
<1> DEFINE Tallied(i) ==
      /\ proposals'[i].forVotes = CountedVotes(proposals'[i], TRUE)
      /\ proposals'[i].againstVotes = CountedVotes(proposals'[i], FALSE)
      /\ i \notin Proposed' => \A v \in Voter : ~proposals'[i].receipts[v].hasVoted
<1>2. SUFFICES ASSUME NEW i \in ProposalId PROVE Tallied(i)
  BY <1>1 DEF TallyInv, TallyMatchesBallots, NoEarlyBallots
<1>3. /\ proposals[i].forVotes = CountedVotes(proposals[i], TRUE)
      /\ proposals[i].againstVotes = CountedVotes(proposals[i], FALSE)
      /\ i \notin Proposed => \A v \in Voter : ~proposals[i].receipts[v].hasVoted
  BY DEF TallyInv, TallyMatchesBallots, NoEarlyBallots
<1>4. CASE Kept(i)
  <2>1. /\ proposals'[i].receipts = proposals[i].receipts
        /\ proposals'[i].forVotes = proposals[i].forVotes
        /\ proposals'[i].againstVotes = proposals[i].againstVotes
        /\ i \in Proposed' <=> i \in Proposed
    BY <1>4 DEF Kept, Outcome
  <2>2. /\ CountedVotes(proposals'[i], TRUE) = CountedVotes(proposals[i], TRUE)
        /\ CountedVotes(proposals'[i], FALSE) = CountedVotes(proposals[i], FALSE)
    BY <2>1, SameBallotsSameVotes
  <2> QED
    BY <1>3, <2>1, <2>2
<1>5. CASE Started(i)
  <2>1. \A v \in Voter : ~proposals'[i].receipts[v].hasVoted
    BY <1>3, <1>5 DEF Started
  <2> QED
    BY <1>5, <2>1, NoBallotsNoVotes DEF Started
<1>6. CASE BallotCast(i)
  <2>1. /\ i \in Proposed /\ Proposed' = Proposed
    BY <1>1, <1>6, BallotMade, ConstantsAssumption
  <2>2. PICK v \in Voter, s \in BOOLEAN, n \in Nat : Counts(proposals[i], proposals'[i], v, s, n)
    BY <1>1, <1>6, BallotMade, ConstantsAssumption
  <2>3. ASSUME NEW other \in BOOLEAN, other # s
        PROVE  /\ CountedVotes(proposals'[i], s) = CountedVotes(proposals[i], s) + n
               /\ CountedVotes(proposals'[i], other) = CountedVotes(proposals[i], other)
    BY <2>2, <2>3, BallotCounts
  <2>4. CASE s = TRUE
    BY <1>3, <2>1, <2>2, <2>3, <2>4 DEF Counts
  <2>5. CASE s = FALSE
    BY <1>3, <2>1, <2>2, <2>3, <2>5 DEF Counts
  <2> QED
    BY <2>4, <2>5
<1> QED
  BY <1>1, <1>4, <1>5, <1>6, StepOfProposal

LEMMA InitTally == Init => TallyInv
<1> SUFFICES ASSUME Init PROVE TallyMatchesBallots /\ NoEarlyBallots
  BY InitInv, ConstantsAssumption, ParamsAssumption DEF TallyInv
<1>1. \A i \in ProposalId : /\ proposals[i].forVotes = 0 /\ proposals[i].againstVotes = 0
                            /\ \A v \in Voter : ~proposals[i].receipts[v].hasVoted
  BY DEF Init, BlankProposal, BlankReceipt
<1> QED
  BY <1>1, NoBallotsNoVotes DEF TallyMatchesBallots, NoEarlyBallots

LEMMA TallyHolds == Spec => []TallyInv
<1>1. Init => TallyInv
  BY InitTally
<1>2. TallyInv /\ [Next]_vars => TallyInv'
  BY TallyStep, ConstantsAssumption, SnapshotsAssumption, ParamsAssumption
<1> QED
  BY <1>1, <1>2, PTL DEF Spec

(* Every vote counted is in exactly one receipt, on the side its voter      *)
(* chose: the running tallies that _castVote keeps are the sums over the    *)
(* ballots, whoever brings them in and in whatever order.                   *)
THEOREM TalliesMatchBallots == Spec => []TallyMatchesBallots
<1>1. TallyInv => TallyMatchesBallots
  BY DEF TallyInv
<1> QED
  BY <1>1, TallyHolds, PTL

-----------------------------------------------------------------------------
\* A lock starts at a quorum, and a quorum is not lost again.
LockMeansQuorum == \A i \in Proposed :
    proposals[i].eta > 0 => QuorumReached(proposals[i])

LEMMA QuorumStep ==
    ASSUME ConstantsAssumption, ParamsAssumption, Inv, LockMeansQuorum, [Next]_vars
    PROVE  LockMeansQuorum'
<1>1. Proposed \subseteq ProposalId /\ Proposed' \subseteq ProposalId
  BY StepInv, ProposedIsId DEF Inv, Proposed
<1>2. SUFFICES ASSUME NEW i \in ProposalId, i \in Proposed', proposals'[i].eta > 0
               PROVE  QuorumReached(proposals'[i])
  BY <1>1 DEF LockMeansQuorum
<1>3. CASE Kept(i)
  <2>1. /\ proposals'[i].eta = proposals[i].eta
        /\ proposals'[i].forVotes = proposals[i].forVotes
        /\ proposals'[i].againstVotes = proposals[i].againstVotes
        /\ proposals'[i].quoromRequired = proposals[i].quoromRequired
        /\ i \in Proposed
    BY <1>2, <1>3 DEF Kept, Outcome
  <2> QED
    BY <1>2, <2>1 DEF LockMeansQuorum, QuorumReached
<1>4. CASE Started(i)
  BY <1>2, <1>4 DEF Started
<1>5. CASE BallotCast(i)
  <2>1. i \in Proposed
    BY <1>5 DEF BallotCast
  <2>2. PICK v \in Voter, s \in BOOLEAN, n \in Nat : Counts(proposals[i], proposals'[i], v, s, n)
    BY <1>5, BallotMade
  <2>3. QuorumReached(proposals[i]) => QuorumReached(proposals'[i])
    BY <2>2 DEF Counts, QuorumReached, Proposal
  <2> QED
    BY <1>2, <2>1, <2>2, <2>3 DEF Counts, LockMeansQuorum, NewLock
<1> QED
  BY <1>3, <1>4, <1>5, StepOfProposal

LEMMA QuorumHolds == Spec => [](Inv /\ LockMeansQuorum)
<1>1. Init => LockMeansQuorum
  BY ConstantsAssumption DEF Init, LockMeansQuorum, Proposed, ProposalId
<1>2. Inv /\ LockMeansQuorum /\ [Next]_vars => LockMeansQuorum'
  BY QuorumStep, ConstantsAssumption, ParamsAssumption
<1> QED
  BY <1>1, <1>2, InvHolds, PTL DEF Spec

LEMMA PeriodTypes ==
    ASSUME TypeOK
    PROVE  /\ now \in Nat /\ now > 0
           /\ params.fastQueuePeriod \in Nat /\ params.queuePeriod \in Nat
           /\ params.gameChangerPeriod \in Nat
BY DEF TypeOK, Params, ParamName

\* The lock after a ballot: never shorter but by an absolute majority.
LEMMA LockAfterBallot ==
    ASSUME TypeOK, NEW p \in Proposal, NEW q \in Proposal,
           p.eta > 0 => QuorumReached(q),
           q.eta = NewLock(p, q)
    PROVE  \/ AbsoluteMajority(q)
           \/ /\ q.eta >= p.eta
              /\ q.eta > 0 /\ Leads(p) # Leads(q) =>
                    q.eta >= now + ShorterOf(params.queuePeriod, params.gameChangerPeriod)
<1> DEFINE t == [q EXCEPT !.eta = p.eta]
<1>1. /\ t.eta = p.eta /\ t.forVotes = q.forVotes /\ t.startBlock = q.startBlock
      /\ p.eta \in Nat /\ q.eta \in Nat
  BY DEF Proposal
<1>2. AbsoluteMajority(t) <=> AbsoluteMajority(q)
  BY <1>1 DEF AbsoluteMajority
<1> HIDE DEF t
<1>3. SUFFICES ASSUME ~AbsoluteMajority(q)
               PROVE  /\ q.eta >= p.eta
                      /\ q.eta > 0 /\ Leads(p) # Leads(q) =>
                            q.eta >= now + ShorterOf(params.queuePeriod, params.gameChangerPeriod)
  OBVIOUS
<1>4. CASE ~QuorumReached(q)
  BY <1>1, <1>4 DEF NewLock
<1>5. CASE QuorumReached(q)
  <2>1. q.eta = IF p.eta = 0 THEN now + params.queuePeriod
                ELSE IF (Leads(p) # Leads(q)) /\ p.eta - now <= params.gameChangerPeriod
                     THEN now + params.gameChangerPeriod
                ELSE p.eta
    BY <1>1, <1>2, <1>3, <1>5 DEF NewLock, updatedETA, t
  <2> QED
    BY <1>1, <2>1, PeriodTypes DEF ShorterOf
<1> QED
  BY <1>4, <1>5

(* No ballot shortens a running lock, and one that turns the decision       *)
(* leaves the others the game changer period to react: but for a ballot     *)
(* that makes an absolute majority, which no one can answer.                *)
THEOREM BallotsLeaveTime == Spec => VotersHaveTime
<1> DEFINE HaveTime == \A i \in Proposed :
        Open(i) /\ proposals'[i] # proposals[i] => FairNotice(i)
<1>1. Inv /\ LockMeansQuorum /\ [Next]_vars => HaveTime
  <2> SUFFICES ASSUME Inv, LockMeansQuorum, [Next]_vars, NEW i \in Proposed
               PROVE  FairNotice(i)
    OBVIOUS
  <2>1. i \in ProposalId /\ proposals[i] \in Proposal
    BY ConstantsAssumption, ProposedIsId, ProposalType DEF Inv
  <2>2. CASE Kept(i)
    <3>1. /\ proposals'[i].eta = proposals[i].eta
          /\ proposals'[i].forVotes = proposals[i].forVotes
          /\ proposals'[i].againstVotes = proposals[i].againstVotes
      BY <2>2 DEF Kept, Outcome
    <3>2. proposals[i].eta \in Nat
      BY <2>1 DEF Proposal
    <3> QED
      BY <3>1, <3>2 DEF FairNotice, Leads
  <2>3. CASE BallotCast(i)
    <3>1. PICK v \in Voter, s \in BOOLEAN, n \in Nat : Counts(proposals[i], proposals'[i], v, s, n)
      BY <2>1, <2>3, BallotMade, ConstantsAssumption
    <3>2. proposals[i].eta > 0 => QuorumReached(proposals'[i])
      BY <3>1 DEF Counts, LockMeansQuorum, QuorumReached, Proposal
    <3>3. /\ proposals'[i] \in Proposal
          /\ proposals'[i].eta = NewLock(proposals[i], proposals'[i])
      BY <3>1 DEF Counts
    <3> QED
      BY <2>1, <3>2, <3>3, LockAfterBallot DEF FairNotice, Inv
  <2>4. ~Started(i)
    BY DEF Started
  <2> QED
    BY <2>1, <2>2, <2>3, <2>4, StepOfProposal, ConstantsAssumption, ParamsAssumption
<1>2. Inv /\ LockMeansQuorum /\ [Next]_vars => [HaveTime]_vars
  BY <1>1
<1> HIDE DEF HaveTime
<1>3. Spec => [][HaveTime]_vars
  BY <1>2, QuorumHolds, PTL DEF Spec
<1> QED
  BY <1>3 DEF HaveTime, VotersHaveTime

-----------------------------------------------------------------------------
\* The reputation contract stays and the fast queue is not shortened: without
\* it the supply a majority is measured by may change, and so may its lock.
RulesStay ==
    rep' = rep /\ params'.fastQueuePeriod >= params.fastQueuePeriod

\* A ballot weighs what its voter had at the start, which is behind the chain.
BallotsAreVotes == \A i \in Proposed, v \in Voter :
    proposals[i].receipts[v].hasVoted =>
        /\ proposals[i].startBlock < block
        /\ proposals[i].receipts[v].votes = VotesAt(v, proposals[i].startBlock)

MajorityLock == \A i \in Proposed :
    proposals[i].startBlock < block /\ AbsoluteMajority(proposals[i]) =>
        proposals[i].eta <= now + params.fastQueuePeriod

FinalInv == TallyInv /\ LockMeansQuorum /\ BallotsAreVotes /\ MajorityLock

\* The blocks behind the chain are settled.
LEMMA SettledBlocks ==
    ASSUME ConstantsAssumption, ParamsAssumption, TypeOK, [Next]_vars
    PROVE  /\ block \in Nat /\ block' \in Nat /\ block' >= block /\ now' >= now
           /\ \A b \in Nat : b < block => reputation'[b] = reputation[b]
<1>1. block \in Nat /\ now \in Nat
  BY DEF TypeOK
<1>2. CASE NextBlock
  <2>1. reputation' \in [0..(block + 1) -> Snapshots] /\ \A b \in 0..(block + 1) :
            b <= block => reputation'[b] = reputation[b]
    BY <1>1, <1>2, NextBlockTypes DEF NextBlock, TypeOK
  <2>2. block' = block + 1
    BY <1>2 DEF NextBlock
  <2> QED
    BY <1>1, <1>2, <2>1, <2>2, NextBlockTypes
<1>3. CASE UNCHANGED chain
  BY <1>1, <1>3 DEF chain
<1>4. ~NextBlock => UNCHANGED chain
  <2>1. Vote => UNCHANGED chain
    BY DEF Vote, castVote, castVoteBySig, _castVote
  <2>2. Decide => UNCHANGED chain
    BY DEF Decide, execute, emitSucceeded, cancel, approveProposal
  <2>3. Administer => UNCHANGED chain
    BY AdministerTypes
  <2>4. (\E v \in Voter, n \in ActionCounts, c \in Chains : propose(v, n, c)) => UNCHANGED chain
    BY DEF propose
  <2>5. UNCHANGED vars => UNCHANGED chain
    BY DEF vars, chain
  <2> QED
    BY <2>1, <2>2, <2>3, <2>4, <2>5 DEF Next
<1> QED
  BY <1>2, <1>3, <1>4

\* What contract rep answers for a settled block stays what it is.
LEMMA VotesAreSettled ==
    ASSUME ConstantsAssumption, ParamsAssumption, TypeOK, [Next]_vars, rep' = rep,
           NEW i \in ProposalId, proposals'[i].startBlock = proposals[i].startBlock,
           proposals[i].startBlock \in Nat, proposals[i].startBlock < block
    PROVE  /\ proposals[i].startBlock < block'
           /\ SupplyAt(proposals[i].startBlock)' = SupplyAt(proposals[i].startBlock)
           /\ \A v \in Voter :
                VotesAt(v, proposals[i].startBlock)' = VotesAt(v, proposals[i].startBlock)
<1>1. /\ block' >= block /\ block \in Nat /\ block' \in Nat
      /\ reputation'[proposals[i].startBlock] = reputation[proposals[i].startBlock]
  BY SettledBlocks
<1>2. proposals[i].startBlock < block'
  BY <1>1
<1>3. SnapshotAt(proposals[i].startBlock)' = SnapshotAt(proposals[i].startBlock)
  BY <1>1, <1>2 DEF SnapshotAt
<1> QED
  BY <1>2, <1>3 DEF SupplyAt, VotesAt

\* No more votes are counted than there is reputation.
LEMMA CountedWithinSupply ==
    ASSUME ConstantsAssumption, SnapshotsAssumption, Inv, TallyMatchesBallots, BallotsAreVotes,
           NEW i \in Proposed, proposals[i].startBlock < block
    PROVE  proposals[i].forVotes + proposals[i].againstVotes <= SupplyAt(proposals[i].startBlock)
<1> DEFINE p == proposals[i]
           b == p.startBlock
           f == [v \in Voter |-> p.receipts[v].votes]
           g == SnapshotAt(b).votes
           For == BallotsFor(p, TRUE)
           Against == BallotsFor(p, FALSE)
<1>1. i \in ProposalId /\ p \in Proposal /\ b \in Nat /\ b < block /\ block \in Nat
  BY ProposedIsId, ProposalType DEF Inv
<1>2. SnapshotAt(b) = reputation[b][rep] /\ reputation[b] \in Snapshots /\ rep \in Reps
  BY <1>1 DEF Inv, TypeOK, SnapshotAt
<1>3. SumFunctionOnSet(g, Voter) <= SupplyAt(b)
  BY <1>2 DEF SnapshotsAssumption, SupplyAt
<1>4. \A v \in Voter : g[v] \in Nat /\ f[v] \in Nat
  BY <1>1, <1>2 DEF ConstantsAssumption, Snapshot, Proposal, Receipt
<1>5. /\ For \subseteq Voter /\ Against \subseteq Voter /\ For \intersect Against = {}
      /\ IsFiniteSet(For) /\ IsFiniteSet(Against) /\ IsFiniteSet(For \union Against)
      /\ IsFiniteSet(Voter)
  BY FS_Subset, FS_Union DEF BallotsFor, SnapshotsAssumption
<1>6. \A v \in For \union Against : f[v] = g[v]
  BY <1>5 DEF BallotsAreVotes, BallotsFor, VotesAt
<1>7. p.forVotes = SumFunctionOnSet(f, For) /\ p.againstVotes = SumFunctionOnSet(f, Against)
  BY <1>1 DEF TallyMatchesBallots, CountedVotes
<1> HIDE DEF f, g, For, Against
<1>8. SumFunctionOnSet(f, For \union Against) = SumFunctionOnSet(f, For) + SumFunctionOnSet(f, Against)
  <2>1. \A v \in For \union Against : f[v] \in Int
    BY <1>4, <1>5
  <2> QED
    BY <1>5, <2>1, SumOfParts
<1>9. SumFunctionOnSet(f, For \union Against) = SumFunctionOnSet(g, For \union Against)
  BY <1>5, <1>6, SumOfSame
<1>10. SumFunctionOnSet(g, For \union Against) <= SumFunctionOnSet(g, Voter)
  <2>1. For \union Against \in SUBSET Voter
    BY <1>5
  <2> QED
    BY <1>4, <1>5, <2>1, SumOfPart
<1>11. /\ SumFunctionOnSet(g, Voter) \in Nat /\ SumFunctionOnSet(g, For \union Against) \in Nat
       /\ SupplyAt(b) \in Nat
  <2>1. \A v \in For \union Against : g[v] \in Nat
    BY <1>4, <1>5
  <2>2. SupplyAt(b) \in Nat
    BY <1>1, SnapshotType DEF Inv
  <2> QED
    BY <1>4, <1>5, <2>1, <2>2, SumType
<1> QED
  BY <1>3, <1>7, <1>8, <1>9, <1>10, <1>11

LEMMA BallotsAreVotesStep ==
    ASSUME ConstantsAssumption, ParamsAssumption, TallyInv, BallotsAreVotes,
           [Next]_vars, RulesStay
    PROVE  BallotsAreVotes'
<1>1. /\ Inv /\ TypeOK /\ Inv'
      /\ Proposed' \subseteq ProposalId
  BY StepInv, ProposedIsId DEF TallyInv, Inv, Proposed
<1>2. SUFFICES ASSUME NEW i \in ProposalId, i \in Proposed', NEW v \in Voter,
                      proposals'[i].receipts[v].hasVoted
               PROVE  /\ proposals'[i].startBlock < block'
                      /\ proposals'[i].receipts[v].votes = VotesAt(v, proposals[i].startBlock)'
  BY <1>1 DEF BallotsAreVotes
<1>3. proposals[i] \in Proposal /\ proposals[i].startBlock \in Nat
  BY <1>1, ProposalType
<1>4. ASSUME i \in Proposed, proposals[i].receipts[v].hasVoted,
             proposals'[i].receipts[v] = proposals[i].receipts[v],
             proposals'[i].startBlock = proposals[i].startBlock
      PROVE  /\ proposals'[i].startBlock < block'
             /\ proposals'[i].receipts[v].votes = VotesAt(v, proposals[i].startBlock)'
  <2>1. /\ proposals[i].startBlock < block
        /\ proposals[i].receipts[v].votes = VotesAt(v, proposals[i].startBlock)
    BY <1>4 DEF BallotsAreVotes
  <2> QED
    BY <1>1, <1>3, <1>4, <2>1, VotesAreSettled DEF RulesStay
<1>5. CASE Kept(i)
  BY <1>2, <1>4, <1>5 DEF Kept, Outcome
<1>6. CASE Started(i)
  BY <1>2, <1>6 DEF Started, TallyInv, NoEarlyBallots
<1>7. CASE BallotCast(i)
  <2>1. i \in Proposed
    BY <1>7 DEF BallotCast
  <2>2. PICK w \in Voter, s \in BOOLEAN, n \in Nat :
          /\ n = VotesAt(w, proposals[i].startBlock)
          /\ Counts(proposals[i], proposals'[i], w, s, n)
    BY <1>1, <1>7, BallotMade
  <2>3. /\ proposals'[i].startBlock = proposals[i].startBlock
        /\ proposals[i].startBlock < block
        /\ proposals'[i].receipts = [proposals[i].receipts EXCEPT ![w] =
                [hasVoted |-> TRUE, support |-> s, votes |-> n]]
    BY <2>2 DEF Counts
  <2>4. proposals[i].receipts \in [Voter -> Receipt]
    BY <1>3 DEF Proposal
  <2>5. CASE v = w
    BY <1>1, <1>3, <2>2, <2>3, <2>4, <2>5, VotesAreSettled DEF RulesStay
  <2>6. CASE v # w
    <3>1. proposals'[i].receipts[v] = proposals[i].receipts[v]
      BY <2>3, <2>4, <2>6
    <3> QED
      BY <1>2, <1>4, <2>1, <2>3, <3>1
  <2> QED
    BY <2>5, <2>6
<1> QED
  BY <1>1, <1>5, <1>6, <1>7, StepOfProposal

\* Before the vote starts nothing is counted, and nothing is no majority.
LEMMA NoEarlyMajority ==
    ASSUME ConstantsAssumption, TallyInv, BallotsAreVotes, NEW i \in Proposed,
           ~(proposals[i].startBlock < block)
    PROVE  proposals[i].forVotes = 0
<1>1. \A v \in Voter : ~proposals[i].receipts[v].hasVoted
  BY DEF BallotsAreVotes
<1>2. i \in ProposalId
  BY ProposedIsId DEF TallyInv, Inv
<1> QED
  BY <1>1, <1>2, NoBallotsNoVotes DEF TallyInv, TallyMatchesBallots

LEMMA MajorityLockStep ==
    ASSUME ConstantsAssumption, ParamsAssumption, FinalInv, [Next]_vars, RulesStay
    PROVE  MajorityLock'
<1>1. /\ Inv /\ TypeOK /\ Inv' /\ TypeOK' /\ TallyInv /\ BallotsAreVotes /\ LockMeansQuorum
      /\ Proposed' \subseteq ProposalId
  BY StepInv, ProposedIsId DEF FinalInv, TallyInv, Inv, Proposed
<1>2. SUFFICES ASSUME NEW i \in ProposalId, i \in Proposed',
                      proposals'[i].startBlock < block', AbsoluteMajority(proposals[i])'
               PROVE  proposals'[i].eta <= now' + params'.fastQueuePeriod
  BY <1>1 DEF MajorityLock
<1>3. /\ proposals[i] \in Proposal /\ proposals[i].startBlock \in Nat /\ proposals[i].eta \in Nat
      /\ proposals[i].forVotes \in Nat
      /\ block \in Nat /\ block' \in Nat /\ now \in Nat /\ now' \in Nat /\ now' >= now
      /\ params.fastQueuePeriod \in Nat /\ params'.fastQueuePeriod \in Nat
      /\ params'.fastQueuePeriod >= params.fastQueuePeriod
  BY <1>1, ProposalType, SettledBlocks DEF RulesStay, TypeOK, Params, ParamName
<1>4. ASSUME proposals'[i].startBlock = proposals[i].startBlock, proposals[i].startBlock < block
      PROVE  proposals'[i].forVotes > SupplyAt(proposals[i].startBlock) \div 2
  <2>1. SupplyAt(proposals[i].startBlock)' = SupplyAt(proposals[i].startBlock)
    BY <1>1, <1>3, <1>4, VotesAreSettled DEF RulesStay
  <2> QED
    BY <1>2, <2>1 DEF AbsoluteMajority
<1>5. CASE Kept(i)
  <2>1. /\ proposals'[i].startBlock = proposals[i].startBlock /\ i \in Proposed
        /\ proposals'[i].forVotes = proposals[i].forVotes /\ proposals'[i].eta = proposals[i].eta
    BY <1>2, <1>5 DEF Kept, Outcome
  <2>2. CASE proposals[i].startBlock < block
    <3>1. AbsoluteMajority(proposals[i])
      BY <1>4, <2>1, <2>2 DEF AbsoluteMajority
    <3>2. proposals[i].eta <= now + params.fastQueuePeriod
      BY <2>1, <2>2, <3>1 DEF FinalInv, MajorityLock
    <3> QED
      BY <1>3, <2>1, <3>2
  <2>3. CASE ~(proposals[i].startBlock < block)
    <3>1. proposals[i].eta = 0
      BY <1>1, <1>3, <2>1, <2>3 DEF Inv, PendingHasNoLock
    <3> QED
      BY <1>3, <2>1, <3>1
  <2> QED
    BY <2>2, <2>3
<1>6. CASE Started(i)
  BY <1>3, <1>6 DEF Started
<1>7. CASE BallotCast(i)
  <2>1. i \in Proposed
    BY <1>7 DEF BallotCast
  <2>2. PICK v \in Voter, s \in BOOLEAN, n \in Nat : Counts(proposals[i], proposals'[i], v, s, n)
    BY <1>1, <1>7, BallotMade
  <2>3. /\ proposals'[i] \in Proposal
        /\ proposals'[i].startBlock = proposals[i].startBlock /\ proposals[i].startBlock < block
        /\ proposals'[i].eta = NewLock(proposals[i], proposals'[i])
    BY <2>2 DEF Counts
  <2> DEFINE t == [proposals'[i] EXCEPT !.eta = proposals[i].eta]
  <2>4. CASE QuorumReached(proposals'[i])
    <3>1. t.forVotes = proposals'[i].forVotes /\ t.startBlock = proposals[i].startBlock
      BY <2>3 DEF Proposal
    <3>2. proposals'[i].eta = updatedETA(t, Leads(proposals[i]) # Leads(proposals'[i]))
      BY <2>3, <2>4, Zenon DEF NewLock
    <3> HIDE DEF t
    <3>3. AbsoluteMajority(t)
      BY <1>4, <2>3, <3>1 DEF AbsoluteMajority
    <3>4. proposals'[i].eta = now + params.fastQueuePeriod
      BY <3>2, <3>3 DEF updatedETA
    <3> QED
      BY <1>3, <3>4
  <2>5. CASE ~QuorumReached(proposals'[i])
    <3>1. ~QuorumReached(proposals[i])
      BY <2>2, <2>5 DEF Counts, QuorumReached, Proposal
    <3>2. proposals'[i].eta = 0
      BY <1>1, <1>3, <2>1, <2>3, <2>5, <3>1 DEF LockMeansQuorum, NewLock
    <3> QED
      BY <1>3, <3>2
  <2> QED
    BY <2>4, <2>5
<1> QED
  BY <1>1, <1>5, <1>6, <1>7, StepOfProposal

(* More than half of the reputation in favour cannot be outvoted, whatever  *)
(* ballots follow, and with a quorum the lock is the fast one: while the    *)
(* name service gives the same reputation contract and the DAO does not     *)
(* shorten fastQueuePeriod.                                                 *)
THEOREM MajoritiesAreFinal == Spec /\ [][RulesStay]_vars => []MajorityIsFinal
<1>1. Init => FinalInv
  <2> SUFFICES ASSUME Init PROVE LockMeansQuorum /\ BallotsAreVotes /\ MajorityLock
    BY InitTally DEF FinalInv
  <2>1. Proposed = {}
    BY ConstantsAssumption DEF Init, Proposed, ProposalId
  <2> QED
    BY <2>1 DEF LockMeansQuorum, BallotsAreVotes, MajorityLock
<1>2. FinalInv /\ [Next]_vars /\ [RulesStay]_vars => FinalInv'
  <2> SUFFICES ASSUME FinalInv, [Next]_vars, [RulesStay]_vars PROVE FinalInv'
    OBVIOUS
  <2>1. RulesStay
    <3>1. TypeOK
      BY DEF FinalInv, TallyInv, Inv
    <3> QED
      BY <3>1, PeriodTypes DEF RulesStay, vars
  <2>2. TallyInv' /\ LockMeansQuorum'
    BY TallyStep, QuorumStep, ConstantsAssumption, SnapshotsAssumption, ParamsAssumption
    DEF FinalInv, TallyInv
  <2>3. BallotsAreVotes' /\ MajorityLock'
    BY <2>1, BallotsAreVotesStep, MajorityLockStep, ConstantsAssumption, ParamsAssumption
    DEF FinalInv
  <2> QED
    BY <2>2, <2>3 DEF FinalInv
<1>3. FinalInv => MajorityIsFinal
  <2> SUFFICES ASSUME FinalInv, NEW i \in Proposed, AbsoluteMajority(proposals[i])
               PROVE  /\ Leads(proposals[i])
                      /\ proposals[i].eta <= now + params.fastQueuePeriod
    BY DEF MajorityIsFinal
  <2>1. /\ i \in ProposalId /\ Inv /\ TallyInv /\ BallotsAreVotes /\ TallyMatchesBallots
        /\ proposals[i].forVotes \in Nat /\ proposals[i].againstVotes \in Nat
        /\ proposals[i].startBlock \in Nat
    BY ConstantsAssumption, ProposedIsId, ProposalType DEF FinalInv, TallyInv, Inv
  <2>2. SupplyAt(proposals[i].startBlock) \in Nat
    BY <2>1, ConstantsAssumption, SnapshotType DEF Inv
  <2>3. proposals[i].forVotes > SupplyAt(proposals[i].startBlock) \div 2
    BY DEF AbsoluteMajority
  <2>4. proposals[i].startBlock < block
    <3>1. SUFFICES ASSUME ~(proposals[i].startBlock < block) PROVE FALSE
      OBVIOUS
    <3>2. proposals[i].forVotes = 0
      BY <2>1, <3>1, NoEarlyMajority, ConstantsAssumption
    <3> QED
      BY <2>2, <2>3, <3>2
  <2>5. proposals[i].forVotes + proposals[i].againstVotes <= SupplyAt(proposals[i].startBlock)
    BY <2>1, <2>4, CountedWithinSupply, ConstantsAssumption, SnapshotsAssumption
  <2>6. proposals[i].againstVotes < proposals[i].forVotes
    BY <2>1, <2>2, <2>3, <2>5
  <2> QED
    BY <2>4, <2>6 DEF Leads, FinalInv, MajorityLock
<1> QED
  BY <1>1, <1>2, <1>3, PTL DEF Spec
=============================================================================
