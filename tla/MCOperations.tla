----------------------------- MODULE MCOperations -----------------------------
(***************************************************************************)
(* Small instances of the deployments and of the guardians' proposals for   *)
(* TLC.  They share no state: a behaviour is one of the two.                *)
(***************************************************************************)
EXTENDS MCDeployments, GuardianProposals

VARIABLE part

EveryChain == [c \in Chains |-> IF c = "xdc" THEN 0 ELSE 1]

MCInit ==
    \/ part = "deployments" /\ Init(Worlds) /\ ProposalInit({Plan("none", {}, "none")})
    \/ part = "proposals" /\ Init({World(<< >>, {}, << >>)}) /\ ProposalInit(Plans)
MCNext ==
    /\ UNCHANGED part
    /\ \/ part = "deployments" /\ Next /\ UNCHANGED proposal_vars
       \/ part = "proposals" /\ ProposalNext /\ UNCHANGED vars
MCSpec == MCInit /\ [][MCNext]_<< part, vars, proposal_vars >> /\ Fairness
=============================================================================
