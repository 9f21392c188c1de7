-------------------------- MODULE MCVotingMachine --------------------------
(* Small instances of CompoundVotingMachine for TLC. *)
EXTENDS CompoundVotingMachine

CONSTANTS alice, bob, carol, rep1, rep2, local, remote

\* Snapshots in which only the votes differ: one function for all contracts.
Everywhere(v, s) == [r \in Reps |-> [votes |-> v, supply |-> s]]
Votes3(a, b, c) == [v \in Voter |-> CASE v = alice -> a [] v = bob -> b
                                      [] OTHER -> c]

\* 10 votes: alice and bob reach the quorum of 3 alone, carol does not; alice
\* has half of the votes, alice and anyone an absolute majority.
SteadySnapshots == {Everywhere(Votes3(5, 3, 2), 10)}

\* Reputation is minted to others.
GrowingSnapshots == {Everywhere(Votes3(5, 3, 0), 10),
                     Everywhere(Votes3(5, 3, 0), 20)}

\* Two contracts, of which the second has less reputation.
TwoReps == {[r \in Reps |-> IF r = rep1
                THEN [votes |-> Votes3(5, 4, 0), supply |-> 10]
                ELSE [votes |-> Votes3(0, 1, 0), supply |-> 3]]}

\* The periods of initialize, in small units: queuePeriod is two
\* gameChangerPeriods, fastQueuePeriod is shorter than both.
Periods == [votingPeriod |-> 2, quoromPercentage |-> 300000,
            proposalPercentage |-> 200000, proposalMaxOperations |-> 2,
            votingDelay |-> 1, queuePeriod |-> 4, fastQueuePeriod |-> 1,
            gameChangerPeriod |-> 2, gracePeriod |-> 1]

ShortPeriods == [Periods EXCEPT !.votingPeriod = 1, !.queuePeriod = 2,
                                !.gameChangerPeriod = 1]
ThreeVoters == [Periods EXCEPT !.votingPeriod = 1, !.queuePeriod = 3]
\* Only who has more than 4 of 10 votes proposes.
OneProposer == [ShortPeriods EXCEPT !.proposalPercentage = 400000]

Keep == [p \in ParamName |-> 0]
NoChanges == {Keep}
\* A longer grace period with a shorter queue, and a quorum that more than
\* doubles, which is refused.
Changes == {[Keep EXCEPT !["gracePeriod"] = 3, !["queuePeriod"] = 1],
            [Keep EXCEPT !["quoromPercentage"] = 700000]}

NoBallots == {}
CarolsBallots == [voter : {carol}, id : {1}, support : BOOLEAN]
=============================================================================
