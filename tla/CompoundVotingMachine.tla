----------------------- MODULE CompoundVotingMachine -----------------------
(***************************************************************************)
(* The voting machine of the GoodDAO                                       *)
(* (contracts/governance/CompoundVotingMachine.sol): proposals, ballots,   *)
(* the time lock that starts when a quorum is reached, the guardian's veto *)
(* and the parameters the DAO may change.                                  *)
(*                                                                         *)
(* A transaction is one atomic step.  Between two steps the chain may mine *)
(* a block; the timestamp then grows too.  The reputation token is seen    *)
(* through its snapshots: reputation[b] is what every reputation contract  *)
(* answers for block b.                                                    *)
(***************************************************************************)
EXTENDS Integers, FiniteSets, Functions

CONSTANTS
    Voter,          \* the accounts that propose and vote
    Guardians,      \* the accounts that may be made guardian
    Avatar,         \* the DAO avatar
    NoAddress,      \* address(0)
    BadGuardian,    \* the hard-wired address of fixGuardian
    Reps,           \* the contracts the name service may give for REPUTATION
    InitRep,        \* the one given to initialize
    Snapshots,      \* what the contracts of Reps may answer for a block
    Chains,         \* chain ids a proposal can be for
    ThisChain,      \* getChainId()
    SignedBallots,  \* the ballots voters signed off chain
    InitParams,     \* the nine voting parameters at initialize
    ParamChanges,   \* the arguments setVotingParameters is called with
    InitGuardian, InitRelease,
    ActionCounts,   \* how many actions a proposal is made with
    MaxProposals, MaxProposalBlock,     \* bounds: proposals, the last block
    MaxBlock, MaxTime, MaxTimeStep      \* with a new one, the chain

ProposalId == 1..MaxProposals
Account == Voter \union Guardians \union {Avatar}

\* The voting parameters, in the order of setVotingParameters.
ParamName == {"votingPeriod", "quoromPercentage", "proposalPercentage",
              "proposalMaxOperations", "votingDelay", "queuePeriod",
              "fastQueuePeriod", "gameChangerPeriod", "gracePeriod"}
Params == [ParamName -> Nat]

Snapshot == [Reps -> [votes : [Voter -> Nat], supply : Nat]]

\* Percentages are in parts per million.
Whole == 1000000

ASSUME ConstantsAssumption ==
    /\ NoAddress \notin Account
    /\ InitRep \in Reps
    /\ Snapshots # {} /\ Snapshots \subseteq Snapshot
    /\ ThisChain \in Chains
    /\ SignedBallots \subseteq [voter : Voter, id : ProposalId, support : BOOLEAN]
    /\ InitGuardian \in Guardians
    /\ MaxProposals \in Nat /\ MaxProposalBlock \in Nat
    /\ MaxBlock \in Nat /\ MaxTime \in Nat
    /\ MaxTimeStep \in Nat
    /\ InitRelease \in Nat

\* Addresses are finitely many, and no block has more votes than reputation:
\* module GReputation establishes it.
ASSUME SnapshotsAssumption ==
    /\ IsFiniteSet(Voter)
    /\ \A s \in Snapshots, r \in Reps :
          SumFunctionOnSet(s[r].votes, Voter) <= s[r].supply

\* initialize passes positive values; a later value of 0 means "keep".
ASSUME ParamsAssumption ==
    /\ InitParams \in Params
    /\ \A p \in ParamName : InitParams[p] > 0
    /\ ParamChanges \subseteq Params

VARIABLES
    block,              \* block.number
    now,                \* block.timestamp
    reputation,         \* the snapshots of the blocks up to this one
    rep,                \* the reputation contract in use
    params,
    guardian, foundationGuardianRelease,
    proposalCount, proposals, latestProposalIds

chain == <<block, now, reputation>>
roles == <<guardian, foundationGuardianRelease>>
ballots == <<proposalCount, proposals, latestProposalIds>>
vars == <<block, now, reputation, rep, params, guardian,
          foundationGuardianRelease, proposalCount, proposals,
          latestProposalIds>>

-----------------------------------------------------------------------------
Receipt == [hasVoted : BOOLEAN, support : BOOLEAN, votes : Nat]
Proposal == [proposer : Voter \union {NoAddress}, eta : Nat,
             startBlock : Nat, endBlock : Nat,
             forVotes : Nat, againstVotes : Nat,
             canceled : BOOLEAN, executed : BOOLEAN,
             receipts : [Voter -> Receipt],
             quoromRequired : Nat, forBlockchain : Chains \union {NoAddress},
             guardianApproved : BOOLEAN]

\* Storage nobody has written: every field is zero.
BlankReceipt == [hasVoted |-> FALSE, support |-> FALSE, votes |-> 0]
BlankProposal == [proposer |-> NoAddress, eta |-> 0,
                  startBlock |-> 0, endBlock |-> 0,
                  forVotes |-> 0, againstVotes |-> 0,
                  canceled |-> FALSE, executed |-> FALSE,
                  receipts |-> [v \in Voter |-> BlankReceipt],
                  quoromRequired |-> 0, forBlockchain |-> NoAddress,
                  guardianApproved |-> FALSE]

\* What the reputation contract answers for block b.  A block that is not
\* mined yet has the latest values.
SnapshotAt(b) == reputation[IF b < block THEN b ELSE block][rep]
VotesAt(v, b) == SnapshotAt(b).votes[v]
SupplyAt(b) == SnapshotAt(b).supply

quorumVotes == (SupplyAt(block) * params.quoromPercentage) \div Whole
proposalThreshold(b) == (SupplyAt(b) * params.proposalPercentage) \div Whole

\* The voting period of a proposal that nobody has brought to a quorum.
InVotingPeriodForever(p) == p.eta = 0                        \* faulty variant
InVotingPeriod(p) == p.eta = 0 /\ block <= p.endBlock

state(i) ==
    LET p == proposals[i] IN
    IF p.canceled THEN "Canceled"
    ELSE IF block <= p.startBlock THEN "Pending"
    ELSE IF p.executed THEN "Executed"
    ELSE IF p.eta > 0 /\ now < p.eta THEN "ActiveTimelock"
    ELSE IF InVotingPeriod(p) THEN "Active"
    ELSE IF \/ p.forVotes <= p.againstVotes
            \/ p.forVotes < p.quoromRequired THEN "Defeated"
    ELSE IF p.eta > 0 /\ now >= p.eta + params.gracePeriod THEN "Expired"
    ELSE "Succeeded"

Proposed == {i \in ProposalId : i <= proposalCount}
Live(i) == state(i) \in {"Pending", "Active", "ActiveTimelock"}
OpenWhenDefeated(i) ==                                       \* faulty variant
    state(i) \in {"Active", "ActiveTimelock", "Defeated"}
Open(i) == state(i) \in {"Active", "ActiveTimelock"}

-----------------------------------------------------------------------------
\* Types.  Tallies and times are natural numbers: the checked arithmetic of the
\* ballots and of eta never goes below 0.
TypeOK ==
    /\ block \in Nat \ {0} /\ now \in Nat \ {0}
    /\ reputation \in [0..block -> Snapshots]
    /\ rep \in Reps
    /\ params \in Params /\ \A p \in ParamName : params[p] > 0
    /\ guardian \in Guardians \union {NoAddress}
    /\ foundationGuardianRelease \in Nat
    /\ proposalCount \in 0..MaxProposals
    /\ proposals \in [ProposalId -> Proposal]
    /\ latestProposalIds \in [Voter -> 0..MaxProposals]

\* The contract is deployed at block 1, with one block before it.
Init ==
    /\ block = 1 /\ now = 1
    /\ reputation \in [0..1 -> Snapshots]
    /\ rep = InitRep
    /\ params = InitParams
    /\ guardian = InitGuardian
    /\ foundationGuardianRelease = InitRelease
    /\ proposalCount = 0
    /\ proposals = [i \in ProposalId |-> BlankProposal]
    /\ latestProposalIds = [v \in Voter |-> 0]

-----------------------------------------------------------------------------
\* The chain mines a block.  What the reputation contracts answer for it is
\* settled then.
NextBlock ==
    /\ block < MaxBlock
    /\ \E dt \in 1..MaxTimeStep :
          /\ now + dt <= MaxTime
          /\ now' = now + dt
    /\ block' = block + 1
    /\ \E s \in Snapshots :
          reputation' = [b \in 0..(block + 1) |->
                            IF b <= block THEN reputation[b] ELSE s]
    /\ UNCHANGED <<rep, params, roles, ballots>>

\* Does the caller's latest proposal, if it has one, keep it from proposing?
MayProposeWhenPending(v) ==                                  \* faulty variant
    latestProposalIds[v] # 0 => ~Open(latestProposalIds[v])
MayPropose(v) ==
    latestProposalIds[v] # 0 => ~Live(latestProposalIds[v])

propose(v, nActions, forBlockchain) ==
    /\ proposalCount < MaxProposals /\ block <= MaxProposalBlock
    /\ VotesAt(v, block - 1) > proposalThreshold(block - 1)
    /\ nActions # 0 /\ nActions <= params.proposalMaxOperations
    /\ MayPropose(v)
    /\ LET id == proposalCount + 1
           start == block + params.votingDelay
       IN /\ proposals' = [proposals EXCEPT ![id] =
                 [@ EXCEPT !.proposer = v, !.eta = 0,
                           !.startBlock = start,
                           !.endBlock = start + params.votingPeriod,
                           !.forVotes = 0, !.againstVotes = 0,
                           !.canceled = FALSE, !.executed = FALSE,
                           !.quoromRequired = quorumVotes,
                           !.forBlockchain = forBlockchain]]
          /\ proposalCount' = id
          /\ latestProposalIds' = [latestProposalIds EXCEPT ![v] = id]
    /\ UNCHANGED <<chain, rep, params, roles>>

\* The eta of proposal p, its new tally counted, after a vote.
AbsoluteMajority(p) == p.forVotes > SupplyAt(p.startBlock) \div 2

\* Faulty variants: the queue counts before the majority, a turned decision
\* extends nothing.
updatedETAQueueFirst(p, hasVoteChanged) ==
    IF p.eta = 0 THEN now + params.queuePeriod
    ELSE IF AbsoluteMajority(p) THEN now + params.fastQueuePeriod
    ELSE p.eta
updatedETANoExtension(p, hasVoteChanged) ==
    IF AbsoluteMajority(p) THEN now + params.fastQueuePeriod
    ELSE IF p.eta = 0 THEN now + params.queuePeriod
    ELSE p.eta
updatedETA(p, hasVoteChanged) ==
    IF AbsoluteMajority(p) THEN now + params.fastQueuePeriod
    ELSE IF p.eta = 0 THEN now + params.queuePeriod
    ELSE IF hasVoteChanged /\ p.eta - now <= params.gameChangerPeriod
         THEN now + params.gameChangerPeriod
    ELSE p.eta

\* Proposal p after voter v's ballot.
Leads(p) == p.forVotes > p.againstVotes
QuorumPassed(p) ==                                           \* faulty variant
    p.forVotes > p.quoromRequired \/ p.againstVotes > p.quoromRequired
QuorumReached(p) ==
    p.forVotes >= p.quoromRequired \/ p.againstVotes >= p.quoromRequired

counted(p, v, support, votes) ==
    LET tallied == [p EXCEPT
            !.forVotes = IF support THEN @ + votes ELSE @,
            !.againstVotes = IF support THEN @ ELSE @ + votes,
            !.receipts[v] = [hasVoted |-> TRUE, support |-> support,
                             votes |-> votes]]
    IN [tallied EXCEPT
            !.eta = IF QuorumReached(tallied)
                    THEN updatedETA(tallied, Leads(p) # Leads(tallied))
                    ELSE @]

VotesAgain(v, i) == TRUE                                     \* faulty variant
NotVotedYet(v, i) == ~proposals[i].receipts[v].hasVoted

_castVote(v, i, support) ==
    /\ Open(i)
    /\ NotVotedYet(v, i)
    /\ proposals' = [proposals EXCEPT ![i] =
           counted(@, v, support, VotesAt(v, @.startBlock))]
    /\ UNCHANGED <<chain, rep, params, roles, proposalCount, latestProposalIds>>

castVote(v, i, support) == i \in Proposed /\ _castVote(v, i, support)

\* Anyone may bring in a ballot its voter signed.
castVoteBySig(b) == b.id \in Proposed /\ _castVote(b.voter, b.id, b.support)

\* The calls of the proposal are made in the same transaction, after the
\* flag is set: what they change here are the avatar's actions below, taken
\* next, and when one of them fails nothing happens.
execute(i) ==
    /\ i \in Proposed
    /\ state(i) = "Succeeded"
    /\ proposals[i].forBlockchain = ThisChain
    /\ guardian = NoAddress \/ proposals[i].guardianApproved
    /\ proposals' = [proposals EXCEPT ![i].executed = TRUE]
    /\ UNCHANGED <<chain, rep, params, roles, proposalCount, latestProposalIds>>

\* Has the proposer fewer votes than the proposal asks of it?
ProposerBelowThreshold(i) ==
    VotesAt(proposals[i].proposer, block - 1)
        < proposalThreshold(proposals[i].startBlock)

AlwaysCancelable(i) == i \in Proposed                        \* faulty variant
Cancelable(i) == i \in Proposed /\ state(i) # "Executed"

cancel(sender, i) ==
    /\ Cancelable(i)
    /\ sender = guardian \/ ProposerBelowThreshold(i)
    /\ proposals' = [proposals EXCEPT ![i].canceled = TRUE]
    /\ UNCHANGED <<chain, rep, params, roles, proposalCount, latestProposalIds>>

\* A proposal for another chain is marked executed here, for storage proofs.
emitSucceeded(i) ==
    /\ i \in Proposed
    /\ state(i) = "Succeeded"
    /\ proposals' = [proposals EXCEPT ![i].executed =
           IF proposals[i].forBlockchain # ThisChain THEN TRUE ELSE @]
    /\ UNCHANGED <<chain, rep, params, roles, proposalCount, latestProposalIds>>

\* Any id may be approved, one not proposed yet as well.
approveProposal(sender, i) ==
    /\ sender \in {Avatar, guardian}
    /\ proposals' = [proposals EXCEPT ![i].guardianApproved = TRUE]
    /\ UNCHANGED <<chain, rep, params, roles, proposalCount, latestProposalIds>>

-----------------------------------------------------------------------------
NotDoubled(p, new) ==
    /\ params[p] = 0 \/ new[p] <= 2 * params[p]
    /\ new[p] < Whole

ZeroesTaken(new) == new                                      \* faulty variant
ZeroesKept(new) ==
    [p \in ParamName |-> IF new[p] > 0 THEN new[p] ELSE params[p]]

setVotingParameters(new) ==
    /\ NotDoubled("quoromPercentage", new)
    /\ NotDoubled("proposalPercentage", new)
    /\ params' = ZeroesKept(new)
    /\ UNCHANGED <<chain, rep, roles, ballots>>

renounceGuardian ==
    /\ guardian # NoAddress
    /\ guardian' = NoAddress
    /\ foundationGuardianRelease' = 0
    /\ UNCHANGED <<chain, rep, params, ballots>>

setGuardian(sender, new) ==
    /\ sender \in {Avatar, guardian}
    /\ sender = guardian \/ now > foundationGuardianRelease
    /\ guardian' = new
    /\ UNCHANGED <<chain, rep, params, foundationGuardianRelease, ballots>>

\* Open to everyone while the guardian is the one deployed by mistake.
fixGuardian(new) ==
    /\ guardian = BadGuardian
    /\ guardian' = new
    /\ UNCHANGED <<chain, rep, params, foundationGuardianRelease, ballots>>

updateRep ==
    /\ rep' \in Reps
    /\ UNCHANGED <<chain, params, roles, ballots>>

-----------------------------------------------------------------------------
Vote ==
    \/ \E v \in Voter, i \in ProposalId, s \in BOOLEAN : castVote(v, i, s)
    \/ \E b \in SignedBallots : castVoteBySig(b)

Decide == \E i \in ProposalId :
    \/ execute(i)
    \/ emitSucceeded(i)
    \/ \E a \in Account : cancel(a, i) \/ approveProposal(a, i)

Administer ==
    \/ \E new \in ParamChanges : setVotingParameters(new)
    \/ renounceGuardian
    \/ \E a \in Account, g \in Guardians \union {NoAddress} :
          setGuardian(a, g) \/ fixGuardian(g)
    \/ updateRep

Next ==
    \/ NextBlock
    \/ \E v \in Voter, n \in ActionCounts, c \in Chains :
          propose(v, n, c)
    \/ Vote
    \/ Decide
    \/ Administer

Spec == Init /\ [][Next]_vars

\* Blocks keep coming; nobody has to transact.
FairSpec == Spec /\ WF_vars(NextBlock)
-----------------------------------------------------------------------------
(* Safety *)

\* A proposer has at most one proposal that waits for votes or can be voted
\* on, whatever happened to the earlier ones ("one live proposal per
\* proposer"): propose only looks at the latest.
OneLiveProposal ==
    \A i, j \in Proposed :
        /\ proposals[i].proposer = proposals[j].proposer
        /\ Live(i) /\ Live(j)
        => i = j

\* The tallies are the ballots: every vote that was counted is in exactly one
\* receipt, on the side its voter chose.
BallotsFor(p, side) == {v \in Voter :
    p.receipts[v].hasVoted /\ p.receipts[v].support = side}
CountedVotes(p, side) ==
    SumFunctionOnSet([v \in Voter |-> p.receipts[v].votes], BallotsFor(p, side))
TallyMatchesBallots == \A i \in ProposalId :
    /\ proposals[i].forVotes = CountedVotes(proposals[i], TRUE)
    /\ proposals[i].againstVotes = CountedVotes(proposals[i], FALSE)

\* A proposal that has passed went through a time lock, and it passed with a
\* majority and a quorum: no path leads to Succeeded or Executed with eta
\* still 0 or in the future, and no later ballot takes the majority back.
PassedAfterTimelock == \A i \in Proposed :
    state(i) \in {"Succeeded", "Executed", "Expired"} =>
        /\ 0 < proposals[i].eta /\ proposals[i].eta <= now
        /\ Leads(proposals[i])
        /\ proposals[i].forVotes >= proposals[i].quoromRequired
        /\ proposals[i].startBlock < block

\* More than half of the reputation in favour cannot be outvoted any more,
\* and with a quorum it shortens the lock to the fast queue
\* (fastQueuePeriod, while the DAO leaves that parameter alone).
MajorityIsFinal == \A i \in Proposed :
    state(i) # "Pending" /\ AbsoluteMajority(proposals[i]) =>
        /\ Leads(proposals[i])
        /\ proposals[i].eta <= now + params.fastQueuePeriod

(* What a step may do *)

\* A ballot that turns the decision leaves the others gameChangerPeriod to
\* react (or the whole queuePeriod, at the first quorum), and no ballot
\* shortens a running lock, unless it makes an absolute majority.
ShorterOf(a, b) == IF a < b THEN a ELSE b
FairNotice(i) ==
    LET p == proposals[i]
        q == proposals'[i]
    IN \/ AbsoluteMajority(q)
       \/ /\ q.eta >= p.eta
          /\ q.eta > 0 /\ Leads(p) # Leads(q) =>
                q.eta >= now + ShorterOf(params.queuePeriod,
                                         params.gameChangerPeriod)
VotersHaveTime == [][\A i \in Proposed :
    Open(i) /\ proposals'[i] # proposals[i] => FairNotice(i)]_vars

\* Nothing but guardianApproved, canceled and executed changes once voting is
\* closed, and it never opens again: not by a late ballot, not by a change of
\* parameters or of the guardian.
Outcome(p) == <<p.eta, p.forVotes, p.againstVotes, p.receipts, p.proposer,
                p.startBlock, p.endBlock, p.quoromRequired, p.forBlockchain>>
OutcomeIsFrozen == [][\A i \in Proposed :
    ~Live(i) => ~Live(i)' /\ Outcome(proposals'[i]) = Outcome(proposals[i])]_vars

\* Anyone but the guardian can cancel a proposal only when "proposer no
\* longer holds the votes that were required to propose" (the comment on
\* cancel): fewer than the threshold it passed when it proposed.
VotesRequiredToPropose(i) ==
    proposalThreshold(proposals[i].startBlock - params.votingDelay - 1)
CancelOnlyWhenVotesLost == [][\A i \in Proposed :
    /\ ~proposals[i].canceled /\ proposals'[i].canceled
    /\ guardian = NoAddress
    => VotesAt(proposals[i].proposer, block - 1) <= VotesRequiredToPropose(i)]_vars

(* Liveness *)

\* A proposal does not stay open for ever: however its voters time their
\* ballots, the lock they extend ends.
VotingEnds == \A i \in ProposalId : i \in Proposed ~> ~Live(i)

(* Refinement: what a proposal goes through. *)
Lifecycle == INSTANCE ProposalLifecycle WITH
    Proposer <- Voter, Nobody <- NoAddress,
    stage <- [i \in ProposalId |-> IF i \in Proposed THEN state(i) ELSE "None"],
    author <- [i \in ProposalId |-> proposals[i].proposer],
    grace <- params.gracePeriod
FollowsLifecycle == Lifecycle!Spec
=============================================================================
