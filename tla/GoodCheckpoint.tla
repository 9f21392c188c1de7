---------------------------- MODULE GoodCheckpoint ----------------------------
(***************************************************************************)
(* scripts/governance/goodCheckpointSorted: the holders of GOOD are read    *)
(* from a graph in pages, one query per epoch of `memberSince`; an epoch    *)
(* with more holders than the graph will skip is cut into smaller ones.     *)
(***************************************************************************)
EXTENDS Integers, FiniteSetsExt, TLC

CONSTANTS
    EPOCH, Start, Now,   \* seconds
    PAGE, MAXSKIP,       \* 1000 records per page, at most 5000 skipped
    Network,             \* "fuse" and others
    memberSince,         \* [Network -> [holders -> seconds]]
    activeVotes          \* [holders -> Nat]

\* No second is crowded: in one with more members than the graph will skip, a
\* quarter of an epoch is 0 seconds, and the query that is cut asks for nobody.
ASSUME CheckpointAssumption ==
    /\ {EPOCH, PAGE} \subseteq Nat \ {0} /\ {Start, Now, MAXSKIP} \subseteq Nat
    /\ "fuse" \in Network /\ "none" \notin Network
    /\ \A n \in Network : LET members == DOMAIN memberSince[n]
                         IN  /\ IsFiniteSet(members)
                             /\ \A h \in members :
                                   /\ memberSince[n][h] \in Nat
                                   /\ Cardinality({g \in members : memberSince[n][g] = memberSince[n][h]})
                                         <= MAXSKIP

VARIABLES
    network,    \* the network that is read, or "none"
    queries,    \* the queries of the pool: <<start, step, skip, records so far>>
    balances,   \* records received, with how often
    logged,     \* an error was printed
    checkpoints \* goodCheckpoint_<network>.json

checkpoint_vars == <<network, queries, balances, logged, checkpoints>>

Since == memberSince[network]
AfterStart(start, s) == {h \in DOMAIN Since : start < Since[h] /\ Since[h] < start + s}
InEpoch(start, s) == {h \in DOMAIN Since : start <= Since[h] /\ Since[h] < start + s}
Query(start, s) == [start |-> start, step |-> s, skip |-> 0, got |-> {}]
\* range(first, last, s) of lodash, in which a step of 0 counts as 1.
range(first, last, s) == {n \in first..(last - 1) : (n - first) % (IF s = 0 THEN 1 ELSE s) = 0}
\* (step / 4).toFixed(0)
quarter(s) == (s + 2) \div 4

CheckpointInit ==
    /\ network = "none" /\ queries = {} /\ balances = {} /\ logged = FALSE
    /\ checkpoints = [n \in Network |-> [of |-> "none", treeData |-> <<>>, logged |-> FALSE]]

goodActiveVotes(n) ==
    /\ network = "none"
    /\ network' = n /\ balances' = {} /\ logged' = FALSE
    /\ queries' = {Query(e, EPOCH) : e \in range(Start, Now, EPOCH)}
    /\ UNCHANGED checkpoints

Done(q, records) == queries' = queries \ {q} /\ balances' = balances \cup records

(***************************************************************************)
(* The next page of a query.  A full page asks for another one; a failed    *)
(* one counts as empty and is printed; too large a skip drops what the      *)
(* query has and puts its quarters into the pool.                           *)
(***************************************************************************)
graphQuery(q) ==
    LET left == InEpoch(q.start, q.step) \ q.got
    IN  \/ /\ q.skip <= MAXSKIP /\ Cardinality(left) >= PAGE
           /\ \E page \in kSubset(PAGE, left) :
                 queries' = (queries \ {q}) \cup
                     {[q EXCEPT !.skip = @ + PAGE, !.got = @ \cup page]}
           /\ UNCHANGED <<network, balances, logged, checkpoints>>
        \/ /\ q.skip <= MAXSKIP /\ Cardinality(left) < PAGE
           /\ Done(q, q.got \cup left)
           /\ UNCHANGED <<network, logged, checkpoints>>
        \/ /\ Done(q, q.got)
           /\ logged' = TRUE
           /\ UNCHANGED <<network, checkpoints>>

subepochs(q) ==
    LET newstep == quarter(q.step)
    IN  /\ q.skip > MAXSKIP
        /\ queries' = (queries \ {q}) \cup
               {Query(e, newstep) : e \in range(q.start, q.start + q.step, newstep)}
        /\ UNCHANGED <<network, balances, logged, checkpoints>>

\* One entry per holder, however often it was received.
save ==
    /\ network # "none" /\ queries = {}
    /\ checkpoints' = [checkpoints EXCEPT ![network] =
                    [of |-> network, treeData |-> [h \in balances |-> activeVotes[h]],
                     logged |-> logged]]
    /\ network' = "none" /\ balances' = {} /\ logged' = FALSE
    /\ UNCHANGED queries

\* The checkpoint of n and its root are written to the file of Fuse.
buildTree(n) ==
    /\ network = "none" /\ checkpoints[n].of # "none"
    /\ checkpoints' = [checkpoints EXCEPT !["fuse"] = checkpoints[n]]
    /\ UNCHANGED <<network, queries, balances, logged>>

CheckpointNext ==
    \/ \E n \in Network : goodActiveVotes(n) \/ buildTree(n)
    \/ \E q \in queries : graphQuery(q) \/ subepochs(q)
    \/ save
CheckpointSpec == CheckpointInit /\ [][CheckpointNext]_checkpoint_vars

(* No holder is missed without a word: a checkpoint in which somebody who   *)
(* was a member by then is missing comes with an error that was printed,    *)
(* however the epochs were cut and whatever order the pages came in.        *)
NoHolderMissed ==
    \A n \in Network : checkpoints[n].of # "none" /\ ~checkpoints[n].logged =>
        LET since == memberSince[checkpoints[n].of]
        IN  \A h \in DOMAIN since : since[h] \in Start..(Now - 1) =>
                h \in DOMAIN checkpoints[n].treeData
=============================================================================
