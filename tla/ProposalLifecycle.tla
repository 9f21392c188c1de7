------------------------- MODULE ProposalLifecycle --------------------------
(***************************************************************************)
(* What the voting machine promises about proposals, whatever the votes,   *)
(* the clock and the parameters are: the stages a proposal goes through    *)
(* (enum ProposalState of CompoundVotingMachine.sol), which can follow     *)
(* which, and what it takes for an expired one to be executable again.     *)
(***************************************************************************)
EXTENDS Naturals

CONSTANTS ProposalId,   \* ids, given out in order
          Proposer,     \* who proposes
          Nobody        \* the author of an id that is not given out

VARIABLES stage, author,
          grace         \* how long what passed can be executed

vars == <<stage, author, grace>>

Stage == {"None", "Pending", "Active", "ActiveTimelock", "Canceled",
          "Defeated", "Succeeded", "Expired", "Executed"}
LiveStages == {"Pending", "Active", "ActiveTimelock"}

\* The stages a stage can turn into.  Canceled is for ever; an executed
\* proposal stays executed; a defeated one never passes.
Successors == [
    None           |-> {},
    Pending        |-> {"Active", "Canceled"},
    Active         |-> {"ActiveTimelock", "Defeated", "Canceled"},
    ActiveTimelock |-> {"Defeated", "Succeeded", "Expired", "Canceled"},
    Canceled       |-> {},
    Defeated       |-> {"Canceled"},
    Succeeded      |-> {"Executed", "Expired", "Canceled"},
    Expired        |-> {"Succeeded", "Canceled"},
    Executed       |-> {}]

Init ==
    /\ stage = [i \in ProposalId |-> "None"]
    /\ author = [i \in ProposalId |-> Nobody]
    /\ grace \in Nat

\* A proposer with no live proposal starts the next one.
Start(p) ==
    /\ \A j \in ProposalId : author[j] = p => stage[j] \notin LiveStages
    /\ \E i \in ProposalId :
          /\ \A j \in ProposalId : stage[j] = "None" <=> j >= i
          /\ stage' = [stage EXCEPT ![i] = "Pending"]
          /\ author' = [author EXCEPT ![i] = p]
    /\ UNCHANGED grace

\* Time or a transaction moves proposals on; time moves several at once.
\* What has expired stays so, however long ago it passed, unless this very
\* step lengthens the grace period.
Revived(i) == stage[i] = "Expired" /\ stage'[i] = "Succeeded"
Move ==
    /\ grace' \in Nat
    /\ stage' \in [ProposalId -> Stage]
    /\ \A i \in ProposalId :
          stage'[i] # stage[i] => stage'[i] \in Successors[stage[i]]
    /\ (\E i \in ProposalId : Revived(i)) => grace' > grace
    /\ UNCHANGED author

Next == Move \/ \E p \in Proposer : Start(p)

Spec == Init /\ [][Next]_vars
=============================================================================
