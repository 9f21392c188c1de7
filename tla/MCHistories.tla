----------------------------- MODULE MCHistories -----------------------------
(***************************************************************************)
(* Histories, written and searched: the instance of GReputation of          *)
(* MCReputation, or calls of getValueAt on every history with checkpoints   *)
(* in the blocks of 1..Long.  A behaviour is one of them.                   *)
(***************************************************************************)
EXTENDS MCReputation, CheckpointSearch

CONSTANT Long
VARIABLE part

\* The i-th checkpoint has value i: a wrong one shows.
HistoryOf(blocks) ==
    [i \in 1..Cardinality(blocks) |->
        [from |-> CHOOSE b \in blocks :
                     Cardinality({c \in blocks : c <= b}) = i,
         value |-> i]]
AllHistories == {HistoryOf(blocks) : blocks \in SUBSET (1..Long)}
AllBlocks == 0..(Long + 1)

\* What was asked is asked again.
Again ==
    /\ pc = "done" /\ pc' = "start"
    /\ min' = 0 /\ max' = 0 /\ result' = 0
    /\ UNCHANGED <<checkpoints, _block>>

\* The other part stands still: a search is idle, or there is nothing to search.
Idle == checkpoints = << >> /\ _block = 0 /\ min = 0 /\ max = 0 /\ pc = "start" /\ result = 0

MCInit ==
    /\ part \in {"reputation", "search"}
    /\ Init
    /\ IF part = "search" THEN SearchInit ELSE Idle
MCNext ==
    /\ UNCHANGED part
    /\ \/ part = "reputation" /\ Next /\ UNCHANGED searchVars
       \/ part = "search" /\ (SearchNext \/ Again) /\ UNCHANGED vars
MCSpec == MCInit /\ [][MCNext]_<<part, vars, searchVars>>
=============================================================================
