--------------------------- MODULE Airdrop_proofs ---------------------------
(***************************************************************************)
(* What TLAPS proves of the airdrop scripts, for all accounts, logs and     *)
(* balances, and of the checkpoints, for all members, pages and epochs.     *)
(***************************************************************************)
EXTENDS AirdropRecovery, AirdropCollection, GoodCheckpoint, Lemmas

(* The checkpoints of the holders of GOOD *)

LEMMA Quarters == \A s \in Nat : quarter(s) \in Nat /\ (quarter(s) = 0 => s <= 1)
BY DEF quarter

\* The chunks of a range leave no time of it out.
LEMMA RangeCovers ==
    ASSUME NEW first \in Nat, NEW last \in Nat, NEW s \in Nat, s > 0,
           NEW t \in Nat, first <= t, t < last
    PROVE  \E e \in range(first, last, s) : e \in Nat /\ e <= t /\ t < e + s
<1> DEFINE d == t - first
           e == first + (d \div s) * s
<1>1. d \in Nat /\ s # 0
  OBVIOUS
<1>2. d \div s \in Nat /\ d % s \in 0..(s - 1) /\ d = s * (d \div s) + (d % s)
  BY <1>1, SMTT(30)
<1> DEFINE k == d \div s
<1> HIDE DEF k
<1>3. k \in Nat /\ s * k \in Nat /\ k * s = s * k
  BY <1>2 DEF k
<1>4. e = first + s * k /\ e <= t /\ t < e + s
  <2>1. e = first + s * k
    BY <1>3 DEF k
  <2>2. d = s * k + (d % s) /\ d % s \in 0..(s - 1)
    BY <1>2 DEF k
  <2> HIDE DEF e
  <2>3. t = first + d /\ d \in Nat
    BY <1>1
  <2> QED
    BY <1>3, <2>1, <2>2, <2>3
<1>5. (e - first) % s = 0
  <2>1. e - first = s * k
    BY <1>3, <1>4
  <2>2. (s * k) % s = 0
    BY <1>3, SMTT(30)
  <2> QED
    BY <2>1, <2>2
<1>6. e \in first..(last - 1) /\ e \in Nat
  BY <1>3, <1>4
<1>7. range(first, last, s) = {n \in first..(last - 1) : (n - first) % s = 0}
  BY <1>1 DEF range
<1> HIDE DEF e
<1> QED
  BY <1>4, <1>5, <1>6, <1>7

LEMMA RangeIsNat == \A first, last \in Nat : \A s : range(first, last, s) \subseteq Nat
BY DEF range
Holders == DOMAIN Since
Awaited(h) == \E q \in queries : h \in InEpoch(q.start, q.step)
Accounted(h) == h \in balances \/ logged \/ Awaited(h)
\* What a query has received is of its epoch, and as much as it skips next.
QueryFacts(q) ==
    /\ DOMAIN q = {"start", "step", "skip", "got"}
    /\ {q.start, q.step, q.skip} \subseteq Nat
    /\ q.got \subseteq InEpoch(q.start, q.step) /\ Cardinality(q.got) = q.skip

(* Every member is received, awaited by a query or given up with an error.  *)
CheckpointInv ==
    /\ network \in Network \cup {"none"}
    /\ network = "none" => queries = {}
    /\ network # "none" =>
          /\ \A q \in queries : QueryFacts(q)
          /\ \A h \in Holders : Since[h] \in Start..(Now - 1) => Accounted(h)
    /\ DOMAIN checkpoints = Network
    /\ \A n \in Network : checkpoints[n].of \in Network \cup {"none"}
    /\ NoHolderMissed

LEMMA MembersFacts ==
    ASSUME network \in Network
    PROVE  /\ IsFiniteSet(Holders) /\ \A h \in Holders : Since[h] \in Nat
           /\ \A h \in Holders : Cardinality({g \in Holders : Since[g] = Since[h]}) <= MAXSKIP
BY CheckpointAssumption DEF Holders, Since

LEMMA EpochFacts ==
    ASSUME network \in Network, NEW start, NEW s
    PROVE  /\ IsFiniteSet(InEpoch(start, s))
           /\ \A S \in SUBSET InEpoch(start, s) : IsFiniteSet(S) /\ Cardinality(S) \in Nat
<1>1. IsFiniteSet(Holders) /\ InEpoch(start, s) \subseteq Holders
  BY MembersFacts DEF InEpoch, Holders
<1>2. IsFiniteSet(InEpoch(start, s))
  BY <1>1, FS_Subset
<1> QED
  BY <1>2, FS_Subset, FS_CardinalityType

\* An epoch of a second or less holds no more than the graph will skip.
LEMMA ASecondIsNotCrowded ==
    ASSUME network \in Network, NEW start \in Nat, NEW s \in Nat, s <= 1
    PROVE  Cardinality(InEpoch(start, s)) <= MAXSKIP
<1>1. CASE InEpoch(start, s) = {}
  BY <1>1, FS_EmptySet, CheckpointAssumption
<1>2. CASE InEpoch(start, s) # {}
  <2>1. PICK h \in InEpoch(start, s) : TRUE
    BY <1>2
  <2>2. \A g \in InEpoch(start, s) : g \in Holders /\ Since[g] \in Nat /\ Since[g] = start
    <3> TAKE g \in InEpoch(start, s)
    <3>1. g \in Holders /\ start <= Since[g] /\ Since[g] < start + s
      BY DEF InEpoch, Holders
    <3>2. Since[g] \in Nat
      BY <3>1, MembersFacts
    <3> QED
      BY <3>1, <3>2
  <2> DEFINE same == {g \in Holders : Since[g] = Since[h]}
  <2>3. h \in Holders /\ InEpoch(start, s) \subseteq same
    BY <2>1, <2>2
  <2>4. IsFiniteSet(same) /\ Cardinality(same) <= MAXSKIP
    <3>1. same \subseteq Holders
      OBVIOUS
    <3> QED
      BY <3>1, <2>3, MembersFacts, FS_Subset
  <2>5. Cardinality(InEpoch(start, s)) <= Cardinality(same) /\ Cardinality(same) \in Nat
    BY <2>3, <2>4, FS_Subset, FS_CardinalityType
  <2>6. Cardinality(InEpoch(start, s)) \in Nat
    BY EpochFacts, FS_CardinalityType
  <2> HIDE DEF same
  <2> QED
    BY <2>4, <2>5, <2>6, CheckpointAssumption
<1> QED
  BY <1>1, <1>2

LEMMA NewQuery ==
    ASSUME network \in Network, NEW start \in Nat, NEW s \in Nat
    PROVE  QueryFacts(Query(start, s)) /\ Query(start, s).start = start /\ Query(start, s).step = s
BY FS_EmptySet DEF QueryFacts, Query
LEMMA CheckpointInit_Inv == CheckpointInit => CheckpointInv
<1> SUFFICES ASSUME CheckpointInit PROVE CheckpointInv
  OBVIOUS
<1>1. network = "none" /\ queries = {}
  BY DEF CheckpointInit
<1>2. DOMAIN checkpoints = Network /\ \A n \in Network : checkpoints[n].of = "none"
  BY DEF CheckpointInit
<1>3. NoHolderMissed
  BY <1>2 DEF NoHolderMissed
<1> QED
  BY <1>1, <1>2, <1>3 DEF CheckpointInv

LEMMA SameCheckpoints ==
    ASSUME CheckpointInv, UNCHANGED checkpoints
    PROVE  /\ DOMAIN checkpoints' = Network
           /\ \A n \in Network : checkpoints'[n].of \in Network \cup {"none"}
           /\ NoHolderMissed'
BY DEF CheckpointInv, NoHolderMissed

LEMMA StartChecks ==
    ASSUME CheckpointInv, NEW n \in Network, goodActiveVotes(n)
    PROVE  CheckpointInv'
<1>1. network' = n /\ network' \in Network /\ network' # "none"
  BY CheckpointAssumption DEF goodActiveVotes
<1>2. \A q \in queries' : QueryFacts(q)'
  <2> TAKE q \in queries'
  <2>1. PICK e \in range(Start, Now, EPOCH) : q = Query(e, EPOCH)
    BY DEF goodActiveVotes
  <2>2. e \in Nat /\ EPOCH \in Nat
    BY RangeIsNat, CheckpointAssumption
  <2>3. q = [start |-> e, step |-> EPOCH, skip |-> 0, got |-> {}]
    BY <2>1 DEF Query
  <2> QED
    BY <2>2, <2>3, FS_EmptySet DEF QueryFacts
<1>3. ASSUME NEW h \in Holders', Since'[h] \in Start..(Now - 1) PROVE Accounted(h)'
  <2> DEFINE t == Since'[h]
  <2>1. t \in Nat /\ Start <= t /\ t < Now /\ {Start, Now, EPOCH} \subseteq Nat /\ EPOCH > 0
    BY <1>3, CheckpointAssumption
  <2> HIDE DEF t
  <2>2. PICK e \in range(Start, Now, EPOCH) : e \in Nat /\ e <= t /\ t < e + EPOCH
    BY <2>1, RangeCovers
  <2>3. Query(e, EPOCH) \in queries'
    BY DEF goodActiveVotes
  <2>4. Query(e, EPOCH).start = e /\ Query(e, EPOCH).step = EPOCH
    BY DEF Query
  <2>5. h \in InEpoch(e, EPOCH)'
    BY <2>2 DEF InEpoch, Holders, t
  <2> QED
    BY <2>3, <2>4, <2>5 DEF Accounted, Awaited
<1>4. UNCHANGED checkpoints
  BY DEF goodActiveVotes
<1> QED
  BY <1>1, <1>2, <1>3, <1>4, SameCheckpoints DEF CheckpointInv

\* Whoever was accounted for otherwise than by q still is.
LEMMA OthersStay ==
    ASSUME NEW h, NEW q, Accounted(h), UNCHANGED network,
           queries \ {q} \subseteq queries', balances \subseteq balances', logged => logged',
           h \notin InEpoch(q.start, q.step)
    PROVE  Accounted(h)'
<1>1. \A a, b : InEpoch(a, b)' = InEpoch(a, b)
  BY DEF InEpoch, Since
<1>2. CASE h \in balances \/ logged
  BY <1>2 DEF Accounted
<1>3. CASE Awaited(h)
  <2>1. PICK r \in queries : h \in InEpoch(r.start, r.step)
    BY <1>3 DEF Awaited
  <2>2. r \in queries'
    BY <2>1
  <2> QED
    BY <1>1, <2>1, <2>2 DEF Accounted, Awaited
<1> QED
  BY <1>2, <1>3 DEF Accounted

\* A step on query q keeps the invariant if what it leaves in the pool is
\* well formed and whoever q awaited is accounted for.
LEMMA PoolStep ==
    ASSUME CheckpointInv, NEW q \in queries, UNCHANGED <<network, checkpoints>>,
           queries \ {q} \subseteq queries', balances \subseteq balances', logged => logged',
           \A r \in queries' : r \in queries \/ QueryFacts(r)',
           \A h \in InEpoch(q.start, q.step) : Accounted(h)'
    PROVE  CheckpointInv'
<1>1. network \in Network /\ network # "none"
  BY DEF CheckpointInv
<1>2. \A a, b : InEpoch(a, b)' = InEpoch(a, b)
  BY DEF InEpoch, Since
<1>3. \A r \in queries' : QueryFacts(r)'
  BY <1>1, <1>2 DEF CheckpointInv, QueryFacts
<1>4. Holders' = Holders /\ Since' = Since
  BY DEF Holders, Since
<1>5. \A h \in Holders : Since[h] \in Start..(Now - 1) => Accounted(h)'
  BY <1>1, OthersStay DEF CheckpointInv
<1> QED
  BY <1>1, <1>3, <1>4, <1>5, SameCheckpoints DEF CheckpointInv

LEMMA PageAdded ==
    ASSUME NEW q, DOMAIN q = {"start", "step", "skip", "got"}, NEW page, NEW r,
           r = [q EXCEPT !.skip = @ + PAGE, !.got = @ \cup page]
    PROVE  /\ DOMAIN r = {"start", "step", "skip", "got"}
           /\ r.start = q.start /\ r.step = q.step
           /\ r.skip = q.skip + PAGE /\ r.got = q.got \cup page
OBVIOUS

LEMMA QueryStep ==
    ASSUME CheckpointInv, NEW q \in queries, graphQuery(q)
    PROVE  CheckpointInv'
<1> DEFINE left == InEpoch(q.start, q.step) \ q.got
<1>1. network \in Network /\ QueryFacts(q) /\ UNCHANGED <<network, checkpoints>>
  BY DEF CheckpointInv, graphQuery
<1>2. \A a, b : InEpoch(a, b)' = InEpoch(a, b)
  BY <1>1 DEF InEpoch, Since
<1>3. ASSUME NEW page \in kSubset(PAGE, left),
             queries' = (queries \ {q}) \cup {[q EXCEPT !.skip = @ + PAGE, !.got = @ \cup page]},
             UNCHANGED <<network, balances, logged, checkpoints>>
      PROVE  CheckpointInv'
  <2> DEFINE r == [q EXCEPT !.skip = @ + PAGE, !.got = @ \cup page]
  <2>1. page \subseteq left /\ Cardinality(page) = PAGE
    BY DEF kSubset
  <2> HIDE DEF left
  <2>3. r \in queries' /\ queries' = (queries \ {q}) \cup {r}
    BY <1>3
  <2>4. /\ DOMAIN r = {"start", "step", "skip", "got"}
        /\ r.start = q.start /\ r.step = q.step
        /\ r.skip = q.skip + PAGE /\ r.got = q.got \cup page
    <3>1. DOMAIN q = {"start", "step", "skip", "got"}
      BY <1>1 DEF QueryFacts
    <3> QED
      BY <3>1, PageAdded
  <2> HIDE DEF r
  <2>5. QueryFacts(r)'
    <3>1. page \subseteq InEpoch(q.start, q.step) /\ page \cap q.got = {}
      BY <2>1 DEF left
    <3>2. q.got \subseteq InEpoch(q.start, q.step) /\ Cardinality(q.got) = q.skip
      BY <1>1 DEF QueryFacts
    <3>3. IsFiniteSet(page) /\ IsFiniteSet(q.got)
      BY <1>1, <3>1, <3>2, EpochFacts
    <3>4. Cardinality(q.got \cup page)
            = Cardinality(q.got) + Cardinality(page) - Cardinality(q.got \cap page)
      BY <3>3, FS_Union
    <3>5. Cardinality(q.got \cap page) = 0
      BY <3>1, FS_EmptySet
    <3>6. q.skip \in Nat /\ q.skip + PAGE \in Nat /\ {q.start, q.step} \subseteq Nat
      BY <1>1, CheckpointAssumption DEF QueryFacts
    <3>7. Cardinality(q.got \cup page) = q.skip + PAGE
      BY <2>1, <3>2, <3>4, <3>5, <3>6, CheckpointAssumption
    <3> QED
      BY <1>2, <2>4, <3>1, <3>2, <3>6, <3>7 DEF QueryFacts
  <2>6. \A h \in InEpoch(q.start, q.step) : Accounted(h)'
    BY <1>2, <2>3, <2>4 DEF Accounted, Awaited
  <2> QED
    BY <1>3, <2>3, <2>5, <2>6, PoolStep
<1>4. ASSUME Done(q, q.got \cup left), UNCHANGED <<network, logged, checkpoints>>
      PROVE  CheckpointInv'
  <2>1. balances' = balances \cup (q.got \cup left) /\ queries' = queries \ {q}
    BY <1>4 DEF Done
  <2>2. \A h \in InEpoch(q.start, q.step) : Accounted(h)'
    BY <2>1 DEF Accounted
  <2> HIDE DEF left
  <2> QED
    BY <1>4, <2>1, <2>2, PoolStep
<1>5. ASSUME Done(q, q.got), logged' = TRUE, UNCHANGED <<network, checkpoints>>
      PROVE  CheckpointInv'
  <2>1. balances' = balances \cup q.got /\ queries' = queries \ {q}
    BY <1>5 DEF Done
  <2>2. \A h \in InEpoch(q.start, q.step) : Accounted(h)'
    BY <1>5 DEF Accounted
  <2> QED
    BY <1>5, <2>1, <2>2, PoolStep
<1> QED
  BY <1>3, <1>4, <1>5 DEF graphQuery

LEMMA CutStep ==
    ASSUME CheckpointInv, NEW q \in queries, subepochs(q)
    PROVE  CheckpointInv'
<1> DEFINE newstep == quarter(q.step)
           cuts == {Query(e, newstep) : e \in range(q.start, q.start + q.step, newstep)}
<1>1. network \in Network /\ QueryFacts(q) /\ UNCHANGED <<network, balances, logged, checkpoints>>
  BY DEF CheckpointInv, subepochs
<1>2. \A a, b : InEpoch(a, b)' = InEpoch(a, b)
  BY <1>1 DEF InEpoch, Since
<1>3. queries' = (queries \ {q}) \cup cuts /\ q.skip > MAXSKIP
  BY DEF subepochs
<1>4. {q.start, q.step, q.skip, newstep, q.start + q.step} \subseteq Nat
  BY <1>1, Quarters DEF QueryFacts
<1>5. newstep > 0
  <2>1. Cardinality(q.got) = q.skip /\ q.got \subseteq InEpoch(q.start, q.step)
    BY <1>1 DEF QueryFacts
  <2>2. q.skip <= Cardinality(InEpoch(q.start, q.step))
    BY <1>1, <2>1, EpochFacts, FS_Subset
  <2>3. Cardinality(InEpoch(q.start, q.step)) \in Nat
    BY <1>1, EpochFacts
  <2>4. ~ (q.step <= 1)
    BY <1>1, <1>3, <1>4, <2>2, <2>3, ASecondIsNotCrowded, CheckpointAssumption
  <2> QED
    BY <1>4, <2>4, Quarters
<1>6. \A r \in queries' : r \in queries \/ QueryFacts(r)'
  <2> SUFFICES ASSUME NEW r \in cuts PROVE QueryFacts(r)'
    BY <1>3
  <2>1. PICK e \in range(q.start, q.start + q.step, newstep) : r = Query(e, newstep)
    OBVIOUS
  <2>2. e \in Nat
    BY <1>4, RangeIsNat
  <2>3. QueryFacts(r)
    BY <1>1, <1>4, <2>1, <2>2, NewQuery
  <2> QED
    BY <1>2, <2>3 DEF QueryFacts
<1>7. ASSUME NEW h \in InEpoch(q.start, q.step) PROVE Accounted(h)'
  <2> DEFINE t == Since[h]
  <2>1. t \in Nat /\ q.start <= t /\ t < q.start + q.step
    BY <1>1, MembersFacts DEF InEpoch, Holders
  <2> HIDE DEF t, newstep
  <2>2. PICK e \in range(q.start, q.start + q.step, newstep) : e \in Nat /\ e <= t /\ t < e + newstep
    BY <1>4, <1>5, <2>1, RangeCovers
  <2>3. h \in InEpoch(e, newstep)
    BY <2>2 DEF InEpoch, t
  <2>4. Query(e, newstep) \in queries'
    BY <1>3
  <2>5. Query(e, newstep).start = e /\ Query(e, newstep).step = newstep
    BY DEF Query
  <2> QED
    BY <1>2, <2>3, <2>4, <2>5 DEF Accounted, Awaited
<1> HIDE DEF cuts
<1> QED
  BY <1>1, <1>3, <1>6, <1>7, PoolStep

LEMMA SaveStep ==
    ASSUME CheckpointInv, save
    PROVE  CheckpointInv'
<1> DEFINE saved == [of |-> network, treeData |-> [h \in balances |-> activeVotes[h]],
                     logged |-> logged]
<1>1. network \in Network /\ queries = {} /\ network' = "none" /\ queries' = {}
  BY DEF save, CheckpointInv
<1>2. /\ checkpoints' = [checkpoints EXCEPT ![network] = saved]
      /\ DOMAIN checkpoints' = Network
  BY DEF save, CheckpointInv
<1>3. \A n \in Network : checkpoints'[n] = IF n = network THEN saved ELSE checkpoints[n]
  BY <1>2 DEF CheckpointInv
<1>4. ~logged => \A h \in Holders : Since[h] \in Start..(Now - 1) => h \in balances
  BY <1>1, CheckpointAssumption DEF CheckpointInv, Accounted, Awaited
<1>5. saved.of = network /\ saved.logged = logged /\ DOMAIN saved.treeData = balances
  OBVIOUS
<1> HIDE DEF saved
<1>6. NoHolderMissed'
  <2> SUFFICES ASSUME NEW n \in Network, checkpoints'[n].of # "none", ~checkpoints'[n].logged,
                      NEW h \in DOMAIN memberSince[checkpoints'[n].of],
                      memberSince[checkpoints'[n].of][h] \in Start..(Now - 1)
               PROVE  h \in DOMAIN checkpoints'[n].treeData
    BY DEF NoHolderMissed
  <2>1. CASE n = network
    BY <1>3, <1>4, <1>5, <2>1 DEF Holders, Since
  <2>2. CASE n # network
    BY <1>3, <2>2 DEF CheckpointInv, NoHolderMissed
  <2> QED
    BY <2>1, <2>2
<1> QED
  BY <1>1, <1>2, <1>3, <1>5, <1>6 DEF CheckpointInv

LEMMA BuildStep ==
    ASSUME CheckpointInv, NEW n \in Network, buildTree(n)
    PROVE  CheckpointInv'
<1>1. checkpoints' = [checkpoints EXCEPT !["fuse"] = checkpoints[n]] /\ DOMAIN checkpoints' = Network
  BY DEF buildTree, CheckpointInv
<1>2. \A m \in Network : checkpoints'[m] = IF m = "fuse" THEN checkpoints[n] ELSE checkpoints[m]
  BY <1>1 DEF CheckpointInv
<1>3. NoHolderMissed'
  BY <1>2 DEF CheckpointInv, NoHolderMissed
<1>4. network = "none" /\ UNCHANGED <<network, queries>>
  BY DEF buildTree
<1> QED
  BY <1>1, <1>2, <1>3, <1>4 DEF CheckpointInv

LEMMA CheckpointInvariant == CheckpointSpec => []CheckpointInv
<1>1. CheckpointInv /\ [CheckpointNext]_checkpoint_vars => CheckpointInv'
  <2> SUFFICES ASSUME CheckpointInv, [CheckpointNext]_checkpoint_vars PROVE CheckpointInv'
    OBVIOUS
  <2>1. CASE UNCHANGED checkpoint_vars
    BY <2>1 DEF CheckpointInv, checkpoint_vars, NoHolderMissed, QueryFacts, Holders, Since,
                Accounted, Awaited, InEpoch
  <2> QED
    BY <2>1, StartChecks, BuildStep, QueryStep, CutStep, SaveStep DEF CheckpointNext
<1> QED
  BY CheckpointInit_Inv, <1>1, PTL DEF CheckpointSpec

(* No holder is missed without a word (goodActiveVotes of                   *)
(* goodCheckpointSorted): whatever the number of members, the pages and the *)
(* order of their answers, and however often an epoch is cut, a checkpoint  *)
(* that lacks somebody who was a member comes with an error.                *)
THEOREM HoldersAreNotMissed == CheckpointSpec => []NoHolderMissed
BY CheckpointInvariant, PTL DEF CheckpointInv
(* What is recovered from the logs *)

\* To sum over the images of a set under an injection is to sum over the set.
LEMMA SumOfImages ==
    ASSUME NEW S, IsFiniteSet(S), NEW m, NEW f, NEW g,
           \A x \in S : g[x] = f[m[x]] /\ f[m[x]] \in Int,
           \A x, y \in S : m[x] = m[y] => x = y
    PROVE  SumFunctionOnSet(f, {m[x] : x \in S}) = SumFunctionOnSet(g, S)
<1> DEFINE Image(T) == {m[x] : x \in T}
           Same(T) == SumFunctionOnSet(f, Image(T)) = SumFunctionOnSet(g, T)
           F == {T \in SUBSET S : ~Same(T)}
<1>1. SUFFICES ASSUME F # {} PROVE FALSE
  BY S \in SUBSET S
<1>2. \A T \in SUBSET S : IsFiniteSet(T)
  BY FS_Subset
<1>3. PICK T \in F : \A U \in F : Cardinality(T) <= Cardinality(U)
  <2>1. \A U \in F : IsFiniteSet(U)
    BY <1>2
  <2> HIDE DEF F
  <2> QED
    BY <1>1, <2>1, SmallestSet
<1>4. CASE T = {}
  <2>1. Image(T) = {}
    BY <1>4
  <2>2. Same(T)
    BY <1>4, <2>1, SumEmpty
  <2> QED
    BY <2>2
<1>5. CASE T # {}
  <2>1. PICK a \in T : TRUE
    BY <1>5
  <2> DEFINE U == T \ {a}
  <2>2. Cardinality(U) < Cardinality(T) /\ Cardinality(U) \in Nat /\ Cardinality(T) \in Nat
    BY <1>2, RemoveOne
  <2>3. U \in SUBSET S /\ T \in SUBSET S /\ IsFiniteSet(U) /\ IsFiniteSet(T)
    BY <1>2
  <2>4. Same(U)
    <3>1. U \notin F
      BY <1>3, <2>2
    <3> QED
      BY <2>3, <3>1
  <2>5. Image(T) = Image(U) \union {m[a]} /\ m[a] \notin Image(U)
    BY <2>1, <2>3
  <2>6. IsFiniteSet(Image(U))
    <3> DEFINE k == [x \in U |-> m[x]]
    <3>1. k \in Surjection(U, Image(U))
      BY DEF Surjection
    <3> QED
      BY <2>3, <3>1, FS_Surjection
  <2>7. SumFunctionOnSet(f, Image(T)) = SumFunctionOnSet(f, Image(U)) + f[m[a]]
    <3>1. \A y \in Image(U) \union {m[a]} : f[y] \in Int
      BY <2>3
    <3> DEFINE V == Image(U)
               W == Image(T)
    <3>2. W = V \union {m[a]} /\ m[a] \notin V /\ IsFiniteSet(V)
      BY <2>5, <2>6
    <3>3. \A y \in V \union {m[a]} : f[y] \in Int
      BY <3>1
    <3> HIDE DEF V, W
    <3>4. SumFunctionOnSet(f, W) = SumFunctionOnSet(f, V) + f[m[a]]
      BY <3>2, <3>3, SumAdd
    <3> QED
      BY <3>4 DEF V, W
  <2>8. SumFunctionOnSet(g, T) = SumFunctionOnSet(g, U) + g[a]
    <3>1. T = U \union {a} /\ a \notin U /\ \A y \in U \union {a} : g[y] \in Int
      BY <2>3
    <3> HIDE DEF U
    <3> QED
      BY <2>3, <3>1, SumAdd
  <2>9. Same(T)
    BY <2>3, <2>4, <2>7, <2>8
  <2> QED
    BY <2>9
<1> QED
  BY <1>4, <1>5

LEMMA TransactionFacts ==
    \A t \in Transactions : /\ t.type \in TransactionType /\ t.who \in Users /\ t.who # swaphelper
                            /\ t.amount \in Nat /\ t.block \in Nat /\ START_BLOCK <= t.block
BY RecoveryAssumption

LEMMA TotalIsSum ==
    ASSUME NEW B
    PROVE  Total(B) = SumFunctionOnSet([t \in B |-> t.amount], B)
BY DEF Total, SumFunction

LEMMA TotalOfFewer ==
    ASSUME NEW B \in SUBSET Transactions
    PROVE  /\ IsFiniteSet(B)
           /\ Total(B) = SumFunctionOnSet([t \in Transactions |-> t.amount], B)
           /\ Total(B) \in Nat
<1>1. IsFiniteSet(B)
  BY FS_Subset, RecoveryAssumption
<1> DEFINE f == [t \in B |-> t.amount]
           g == [t \in Transactions |-> t.amount]
<1>2. \A t \in B : f[t] = g[t] /\ f[t] \in Nat
  BY TransactionFacts
<1> HIDE DEF f, g
<1>3. SumFunctionOnSet(f, B) = SumFunctionOnSet(g, B) /\ SumFunctionOnSet(f, B) \in Nat
  BY <1>1, <1>2, SumOfSame, SumType
<1> QED
  BY <1>1, <1>3, TotalIsSum DEF f, g

LEMMA TotalOfUnion ==
    ASSUME NEW B \in SUBSET Transactions, NEW C \in SUBSET Transactions, B \intersect C = {}
    PROVE  Total(B \union C) = Total(B) + Total(C)
<1> DEFINE g == [t \in Transactions |-> t.amount]
<1>1. \A t \in B \union C : g[t] \in Int
  BY TransactionFacts
<1>2. B \union C \in SUBSET Transactions
  OBVIOUS
<1>3. IsFiniteSet(B) /\ IsFiniteSet(C)
  BY TotalOfFewer
<1>4. /\ Total(B) = SumFunctionOnSet(g, B) /\ Total(C) = SumFunctionOnSet(g, C)
      /\ Total(B \union C) = SumFunctionOnSet(g, B \union C)
  BY <1>2, TotalOfFewer
<1> HIDE DEF g
<1>5. SumFunctionOnSet(g, B \union C) = SumFunctionOnSet(g, B) + SumFunctionOnSet(g, C)
  BY <1>1, <1>3, SumOfParts
<1> QED
  BY <1>4, <1>5

LEMMA TotalGrows ==
    ASSUME NEW C \in SUBSET Transactions, NEW B \in SUBSET C
    PROVE  Total(B) <= Total(C)
<1> DEFINE g == [t \in Transactions |-> t.amount]
<1>1. \A t \in C : g[t] \in Nat
  BY TransactionFacts
<1>2. B \in SUBSET Transactions
  OBVIOUS
<1> HIDE DEF g
<1> QED
  BY <1>1, <1>2, TotalOfFewer, SumOfPart DEF g

\* The logs of one kind that transactions leave add up to what they are of.
LEMMA TotalOfLogs ==
    ASSUME NEW B \in SUBSET Transactions, NEW kind, NEW who
    PROVE  Total({log(t, kind, who) : t \in B}) = Total(B)
<1> DEFINE m == [t \in B |-> log(t, kind, who)]
           L == {log(t, kind, who) : t \in B}
           f == [l \in L |-> l.amount]
           g == [t \in B |-> t.amount]
<1>1. \A t \in B : m[t] \in L /\ m[t].amount = t.amount /\ m[t].id = t.id
  BY DEF log
<1>2. L = {m[t] : t \in B}
  OBVIOUS
<1>3. \A t \in B : g[t] = f[m[t]] /\ f[m[t]] \in Int
  BY <1>1, TransactionFacts
<1>4. \A s, t \in B : m[s] = m[t] => s = t
  <2> TAKE s, t \in B
  <2> HAVE m[s] = m[t]
  <2>1. s.id = t.id
    BY <1>1
  <2> QED
    BY <2>1, RecoveryAssumption
<1>5. IsFiniteSet(B)
  BY TotalOfFewer
<1> HIDE DEF m, f, g, L
<1>6. SumFunctionOnSet(f, L) = SumFunctionOnSet(g, B)
  BY <1>2, <1>3, <1>4, <1>5, SumOfImages
<1> QED
  BY <1>6, TotalIsSum DEF f, g, L
AllLogs == UNION {Emitted(t) : t \in Transactions}
\* The transactions of these types that leave a log of this kind of their sender's.
TypesOf == [TokenPurchased |-> {"buy"}, GDTraded |-> {"buyThroughHelper"},
            Mint |-> {"mint", "prove"}, StateHashProof |-> {"prove"}]

LEMMA WhatIsEmitted ==
    ASSUME NEW t \in Transactions, NEW l
    PROVE  l \in Emitted(t) <=>
             \/ t.type = "buy" /\ l = log(t, "TokenPurchased", t.who)
             \/ /\ t.type = "buyThroughHelper"
                /\ l \in {log(t, "TokenPurchased", swaphelper), log(t, "GDTraded", t.who)}
             \/ t.type = "mint" /\ l = log(t, "Mint", t.who)
             \/ t.type = "prove" /\ l \in {log(t, "Mint", t.who), log(t, "StateHashProof", t.who)}
             \/ t.type = "mintGdx" /\ l = log(t, "TransferFromZero", t.who)
             \/ t.type = "burnGdx" /\ l = log(t, "TransferToZero", t.who)
<1>1. t.type \in TransactionType
  BY TransactionFacts
<1>2. t.type = "buy" => Emitted(t) = {log(t, "TokenPurchased", t.who)}
  BY DEF Emitted
<1>3. t.type = "buyThroughHelper" =>
        Emitted(t) = {log(t, "TokenPurchased", swaphelper), log(t, "GDTraded", t.who)}
  BY DEF Emitted
<1>4. t.type = "mint" => Emitted(t) = {log(t, "Mint", t.who)}
  BY DEF Emitted
<1>5. t.type = "prove" => Emitted(t) = {log(t, "Mint", t.who), log(t, "StateHashProof", t.who)}
  BY DEF Emitted
<1>6. t.type = "mintGdx" => Emitted(t) = {log(t, "TransferFromZero", t.who)}
  BY DEF Emitted
<1>7. t.type = "burnGdx" => Emitted(t) = {log(t, "TransferToZero", t.who)}
  BY DEF Emitted
<1> QED
  BY <1>1, <1>2, <1>3, <1>4, <1>5, <1>6, <1>7 DEF TransactionType

LEMMA LogFields ==
    \A t, kind, who : LET l == log(t, kind, who)
                      IN  /\ l.kind = kind /\ l.who = who /\ l.block = t.block /\ l.on = t.on
                          /\ l.amount = t.amount
BY DEF log

LEMMA LogsOfSender ==
    ASSUME NEW u \in Users, NEW kind \in DOMAIN TypesOf, NEW l
    PROVE  l \in AllLogs /\ l.who = u /\ l.kind = kind
             <=> \E t \in Transactions : /\ t.type \in TypesOf[kind] /\ t.who = u
                                         /\ l = log(t, kind, u)
<1>1. u # swaphelper
  BY RecoveryAssumption
<1>2. ASSUME NEW t \in Transactions, l \in Emitted(t), l.who = u, l.kind = kind
      PROVE  t.type \in TypesOf[kind] /\ t.who = u /\ l = log(t, kind, u)
  BY <1>1, <1>2, WhatIsEmitted, LogFields DEF TypesOf
<1>3. ASSUME NEW t \in Transactions, t.type \in TypesOf[kind], t.who = u, l = log(t, kind, u)
      PROVE  l \in Emitted(t) /\ l.who = u /\ l.kind = kind
  BY <1>3, WhatIsEmitted, LogFields DEF TypesOf
<1> QED
  BY <1>2, <1>3 DEF AllLogs

---------------------------------------------------------------------------
InScan(b) == \E bc \in blocks : bc <= b /\ b <= bc + span - 1 /\ b <= LAST_BLOCK
OfKind(i, l) == l.kind = Kinds(job)[i] /\ l.on = job
Sought(i, bc) == {l \in AllLogs : OfKind(i, l) /\ Within(bc, l)}
Index(bc) == (bc - START_BLOCK) \div span
\* What was to be read of the groups that were started is read or asked for.
Reading(bc) ==
    \/ <<bc, 1>> \in asked
    \/ Sought(1, bc) \subseteq found /\ (<<bc, 2>> \in asked \/ Sought(2, bc) \subseteq found)
ScanInv ==
    /\ \A r \in asked : \E bc \in blocks : r \in {<<bc, 1>>, <<bc, 2>>}
    /\ job # "recoveredReserve" =>
          \A l \in found : l \in AllLogs /\ (OfKind(1, l) \/ OfKind(2, l)) /\ InScan(l.block)
    /\ \A bc \in blocks : Index(bc) < next * group => Reading(bc)
Numbers ==
    /\ {block, LAST_BLOCK, next} \subseteq Nat
    /\ LAST_BLOCK <= block /\ ETH_SNAPSHOT_BLOCK <= block

\* What a file that is written says.
SavedBuys(file) ==
    file.at > 0 =>
        /\ swaphelper \notin DOMAIN file.data
        /\ \A u \in Users :
              /\ Got(u, "buyBalances", {"buy", "buyThroughHelper"}, file.at) <= Credit(file.data, u)
              /\ Credit(file.data, u)
                   <= Got(u, "buyBalances", {"buy", "buyThroughHelper"}, file.at + 1)
SavedMints(file) ==
    file.at > 0 =>
        \A u \in Users :
            /\ Got(u, "repRecoverFuse", {"mint"}, file.at) <= Credit(file.data, u)
            /\ Credit(file.data, u) <= Got(u, "repRecoverFuse", {"mint"}, file.at + 1)
            /\ Credit(file.data, u) \in Nat
SavedTree(file, style) ==
    file.at > 0 =>
        LET tree == file.data
        IN  /\ \A u \in Users :
                  LET more == Owed(tree, lower(u)) - Credit(airdropPrev, lower(u))
                  IN  /\ Got(u, "repRecoverFuse", {"mint"}, file.at) <= more
                      /\ more <= Got(u, "repRecoverFuse", {"mint"}, file.at + 1)
                      /\ Owed(tree, mixed(u)) = Credit(airdropPrev, mixed(u))
                      /\ mixed(u) \in DOMAIN tree => mixed(u) \in DOMAIN airdropPrev
            /\ \A k \in DOMAIN tree : tree[k] = leaf(style, Owed(tree, k))
SavedInv ==
    /\ DOMAIN recovered = RecoveredFile
    /\ SavedBuys(recovered["buyBalances"])
    /\ SavedMints(recovered["repRecoverFuse"])
    /\ SavedTree(recovered["airdropSorted"], "double")
    /\ SavedTree(recovered["airdropRecover"], "simple")

(* A scan asks for every range it covers, and the chain is past what it     *)
(* asks for; the files say what happened before they were written.          *)
RecoveryInv ==
    /\ Numbers
    /\ job \in Job \cup {"none"}
    /\ ScanInv
    /\ SavedInv

LEMMA SavedIsPromised ==
    ASSUME SavedInv
    PROVE  PurchasesAreCredited /\ RecoveredIsOwed
<1>1. PurchasesAreCredited
  BY DEF SavedInv, SavedBuys, PurchasesAreCredited, Exists, Data, Sandwiched
<1>2. RecoveredIsOwed
  <2> SUFFICES ASSUME NEW f \in {"airdropSorted", "airdropRecover"}, Exists(f)
               PROVE  /\ \A u \in Users :
                            /\ Sandwiched(Owed(Data(f), lower(u)) - Credit(airdropPrev, lower(u)), f,
                                          LAMBDA n : Got(u, "repRecoverFuse", {"mint"}, n))
                            /\ Owed(Data(f), mixed(u)) = Credit(airdropPrev, mixed(u))
                            /\ mixed(u) \in DOMAIN Data(f) => mixed(u) \in DOMAIN airdropPrev
                      /\ \A k \in DOMAIN Data(f) :
                            Data(f)[k] = leaf(IF f = "airdropSorted" THEN "double" ELSE "simple",
                                              Owed(Data(f), k))
    BY DEF RecoveredIsOwed
  <2>1. SavedTree(recovered[f], IF f = "airdropSorted" THEN "double" ELSE "simple")
    BY DEF SavedInv
  <2> QED
    BY <2>1 DEF SavedTree, Exists, Data, Sandwiched
<1> QED
  BY <1>1, <1>2
LEMMA BlockFacts ==
    ASSUME LAST_BLOCK \in Nat
    PROVE  /\ \A bc \in blocks : /\ bc \in Nat /\ START_BLOCK <= bc /\ bc < LAST_BLOCK
                                 /\ Index(bc) \in Nat
                                 /\ bc = START_BLOCK + span * Index(bc)
           /\ \A b \in Nat : START_BLOCK <= b /\ b < LAST_BLOCK => InScan(b)
<1>1. span \in Nat /\ span > 0 /\ START_BLOCK \in Nat
  BY RecoveryAssumption
<1>2. ASSUME NEW bc \in blocks
      PROVE  /\ bc \in Nat /\ START_BLOCK <= bc /\ bc < LAST_BLOCK /\ Index(bc) \in Nat
             /\ bc = START_BLOCK + span * Index(bc)
  <2>1. bc \in START_BLOCK..(LAST_BLOCK - 1) /\ (bc - START_BLOCK) % span = 0
    BY DEF blocks
  <2> DEFINE d == bc - START_BLOCK
  <2>2. d \in Nat /\ bc = START_BLOCK + d /\ d % span = 0
    BY <1>1, <2>1
  <2> HIDE DEF d
  <2>3. d \div span \in Nat /\ d = span * (d \div span) + (d % span)
    BY <1>1, <2>2, SMTT(30)
  <2>4. d = span * (d \div span)
    BY <1>1, <2>2, <2>3
  <2>5. Index(bc) = d \div span
    BY DEF Index, d
  <2>6. bc \in Nat /\ START_BLOCK <= bc /\ bc < LAST_BLOCK
    BY <1>1, <2>1
  <2> QED
    BY <2>2, <2>3, <2>4, <2>5, <2>6
<1>3. ASSUME NEW b \in Nat, START_BLOCK <= b, b < LAST_BLOCK PROVE InScan(b)
  <2>1. PICK e \in range(START_BLOCK, LAST_BLOCK, span) : e \in Nat /\ e <= b /\ b < e + span
    BY <1>1, <1>3, RangeCovers
  <2>2. e \in blocks
    BY <1>1, <2>1 DEF range, blocks
  <2> QED
    BY <1>1, <1>3, <2>1, <2>2 DEF InScan
<1> QED
  BY <1>2, <1>3

\* When there is no further group every range has been asked for.
LEMMA NoGroupLeft ==
    ASSUME LAST_BLOCK \in Nat, next \in Nat, Group(next) = {}, NEW bc \in blocks
    PROVE  Index(bc) < next * group
<1> SUFFICES ASSUME ~(Index(bc) < next * group) PROVE FALSE
  OBVIOUS
<1> DEFINE k == next * group
           i == Index(bc)
           e == START_BLOCK + span * k
<1>1. k \in Nat /\ span \in Nat /\ span > 0 /\ START_BLOCK \in Nat /\ group \in Nat /\ group > 0
  BY RecoveryAssumption
<1>2. i \in Nat /\ k <= i /\ bc = START_BLOCK + span * i /\ bc < LAST_BLOCK
  <2>1. i \in Nat /\ bc = START_BLOCK + span * i /\ bc < LAST_BLOCK
    BY BlockFacts
  <2> HIDE DEF i
  <2>2. ~(i < k)
    BY DEF i
  <2> HIDE DEF k
  <2> QED
    BY <1>1, <2>1, <2>2
<1>3. Group(next) = {b \in blocks : (b - START_BLOCK) \div span \in k..(k + group - 1)}
  BY DEF Group
<1> HIDE DEF k, i
<1>4. span * k <= span * i /\ span * k \in Nat /\ span * i \in Nat
  BY <1>1, <1>2, SMTT(30)
<1>5. e \in START_BLOCK..(LAST_BLOCK - 1) /\ e - START_BLOCK = span * k
  BY <1>1, <1>2, <1>4
<1>6. (span * k) % span = 0 /\ (span * k) \div span = k
  BY <1>1, SMTT(30)
<1> HIDE DEF e
<1>7. e \in blocks
  BY <1>5, <1>6 DEF blocks
<1>8. (e - START_BLOCK) \div span \in k..(k + group - 1)
  BY <1>1, <1>5, <1>6
<1> QED
  BY <1>3, <1>7, <1>8

\* When a scan is over it has found the logs of its range of blocks, and only those.
LEMMA ScanIsWhole ==
    ASSUME Numbers, ScanInv, NEW j, Scanned(j), j # "recoveredReserve"
    PROVE  \A l : l \in found <=> /\ l \in AllLogs /\ (OfKind(1, l) \/ OfKind(2, l))
                                  /\ InScan(l.block)
<1>1. job # "recoveredReserve" /\ asked = {} /\ Group(next) = {}
  BY DEF Scanned
<1>2. \A bc \in blocks : Reading(bc)
  BY <1>1, NoGroupLeft DEF ScanInv, Numbers
<1>3. \A bc \in blocks : Sought(1, bc) \subseteq found /\ Sought(2, bc) \subseteq found
  BY <1>1, <1>2 DEF Reading
<1>4. ASSUME NEW l \in AllLogs, OfKind(1, l) \/ OfKind(2, l), InScan(l.block)
      PROVE  l \in found
  <2>1. PICK bc \in blocks : Within(bc, l)
    BY <1>4 DEF InScan, Within
  <2> QED
    BY <1>3, <1>4, <2>1 DEF Sought
<1> QED
  BY <1>1, <1>4 DEF ScanInv

\* What is asked for is in the past: the chain has all the logs of it.
LEMMA AnswersAreWhole ==
    ASSUME Numbers, NEW bc, NEW i
    PROVE  {l \in Logs : l.kind = Kinds(job)[i] /\ l.on = job /\ Within(bc, l)} = Sought(i, bc)
<1>1. \A l \in AllLogs : l.block \in Nat
  <2> TAKE l \in AllLogs
  <2>1. PICK t \in Transactions : l \in Emitted(t)
    BY DEF AllLogs
  <2>2. l.block = t.block
    BY <2>1, WhatIsEmitted, LogFields
  <2> QED
    BY <2>2, TransactionFacts
<1>2. \A l \in AllLogs : Within(bc, l) => l.block <= block
  BY <1>1 DEF Within, Numbers
<1>3. Logs = {l \in AllLogs : l.block <= block}
  BY DEF Logs, AllLogs
<1> QED
  BY <1>2, <1>3 DEF Sought, OfKind
InScanned(u, on, types) ==
    {t \in Transactions : t.who = u /\ t.on = on /\ t.type \in types /\ InScan(t.block)}

LEMMA GotInScan ==
    ASSUME Numbers, NEW u, NEW on, NEW types
    PROVE  /\ Total(InScanned(u, on, types)) \in Nat
           /\ Got(u, on, types, LAST_BLOCK) <= Total(InScanned(u, on, types))
           /\ Total(InScanned(u, on, types)) <= Got(u, on, types, LAST_BLOCK + 1)
<1> DEFINE Before(n) == {t \in Transactions : t.who = u /\ t.on = on /\ t.type \in types /\ t.block < n}
           B == Before(LAST_BLOCK)
           C == InScanned(u, on, types)
           D == Before(LAST_BLOCK + 1)
<1>1. LAST_BLOCK \in Nat
  BY DEF Numbers
<1>2. B \subseteq C
  BY <1>1, TransactionFacts, BlockFacts DEF InScanned
<1>3. C \subseteq D
  <2> SUFFICES ASSUME NEW t \in C PROVE t.block < LAST_BLOCK + 1
    BY DEF InScanned
  <2>1. t.block \in Nat /\ t.block <= LAST_BLOCK
    BY TransactionFacts DEF InScanned, InScan
  <2> QED
    BY <1>1, <2>1
<1>4. B \in SUBSET Transactions /\ C \in SUBSET Transactions /\ D \in SUBSET Transactions
  BY DEF InScanned
<1> HIDE DEF B, C, D
<1>5. Total(C) \in Nat /\ Total(B) <= Total(C) /\ Total(C) <= Total(D)
  BY <1>2, <1>3, <1>4, TotalOfFewer, TotalGrows
<1> QED
  BY <1>5 DEF B, C, D, Got

LEMMA AmountFound ==
    ASSUME Numbers, ScanInv, NEW j, Scanned(j), j # "recoveredReserve", NEW u \in Users,
           NEW kind \in DOMAIN TypesOf, kind \in {Kinds(j)[1], Kinds(j)[2]}
    PROVE  /\ Amount(u, kind) = Total(InScanned(u, j, TypesOf[kind]))
           /\ u \notin {l.who : l \in found} => InScanned(u, j, TypesOf[kind]) = {}
<1> DEFINE B == InScanned(u, j, TypesOf[kind])
<1>1. job = j
  BY DEF Scanned
<1>2. ASSUME NEW t \in B
      PROVE  log(t, kind, u) \in found /\ log(t, kind, u).who = u /\ log(t, kind, u).kind = kind
  <2> DEFINE l == log(t, kind, u)
  <2>1. t \in Transactions /\ t.type \in TypesOf[kind] /\ t.who = u /\ t.on = j /\ InScan(t.block)
    BY DEF InScanned
  <2>2. l \in AllLogs /\ l.who = u /\ l.kind = kind
    BY <2>1, LogsOfSender
  <2>3. l.on = t.on /\ l.block = t.block
    BY LogFields
  <2> HIDE DEF l
  <2>4. OfKind(1, l) \/ OfKind(2, l)
    BY <1>1, <2>1, <2>2, <2>3 DEF OfKind
  <2>5. l \in found
    BY <2>1, <2>2, <2>3, <2>4, ScanIsWhole
  <2> QED
    BY <2>2, <2>5 DEF l
<1>3. ASSUME NEW l \in Of(u, kind) PROVE \E t \in B : l = log(t, kind, u)
  <2>1. l \in found /\ l.who = u /\ l.kind = kind
    BY DEF Of
  <2>2. l \in AllLogs /\ l.on = j /\ InScan(l.block)
    BY <1>1, <2>1, ScanIsWhole DEF OfKind
  <2>3. PICK t \in Transactions : t.type \in TypesOf[kind] /\ t.who = u /\ l = log(t, kind, u)
    BY <2>1, <2>2, LogsOfSender
  <2>4. t \in B
    BY <2>2, <2>3, LogFields DEF InScanned
  <2> QED
    BY <2>3, <2>4
<1>4. Of(u, kind) = {log(t, kind, u) : t \in B}
  BY <1>2, <1>3 DEF Of
<1>5. B \in SUBSET Transactions
  BY DEF InScanned
<1>6. u \notin {l.who : l \in found} => B = {}
  BY <1>2
<1> HIDE DEF B
<1>7. Total(Of(u, kind)) = Total(B)
  BY <1>4, <1>5, TotalOfLogs
<1> QED
  BY <1>6, <1>7 DEF Amount, B

LEMMA BuysAreSaved ==
    ASSUME Numbers, ScanInv, Scanned("buyBalances"), NEW file,
           file = [at |-> LAST_BLOCK,
                   data |-> [u \in {l.who : l \in found} \ {swaphelper} |-> Bought(u)]]
    PROVE  SavedBuys(file)
<1>1. file.at = LAST_BLOCK /\ swaphelper \notin DOMAIN file.data
  OBVIOUS
<1>2. ASSUME NEW u \in Users
      PROVE  Credit(file.data, u)
               = Total(InScanned(u, "buyBalances", {"buy", "buyThroughHelper"}))
  <2> DEFINE A == InScanned(u, "buyBalances", {"buy"})
             B == InScanned(u, "buyBalances", {"buyThroughHelper"})
             C == InScanned(u, "buyBalances", {"buy", "buyThroughHelper"})
  <2>1. Kinds("buyBalances") = <<"TokenPurchased", "GDTraded">>
    BY DEF Kinds
  <2>0. {"TokenPurchased", "GDTraded"} \subseteq {Kinds("buyBalances")[1], Kinds("buyBalances")[2]}
    BY <2>1
  <2>2. /\ TypesOf["TokenPurchased"] = {"buy"} /\ TypesOf["GDTraded"] = {"buyThroughHelper"}
        /\ {"TokenPurchased", "GDTraded"} \subseteq DOMAIN TypesOf
    BY DEF TypesOf
  <2>3. /\ Amount(u, "TokenPurchased") = Total(A)
        /\ Amount(u, "GDTraded") = Total(B)
        /\ u \notin {l.who : l \in found} => A = {} /\ B = {}
    <3>1. /\ Amount(u, "TokenPurchased") = Total(InScanned(u, "buyBalances", TypesOf["TokenPurchased"]))
          /\ u \notin {l.who : l \in found} => InScanned(u, "buyBalances", TypesOf["TokenPurchased"]) = {}
      BY <2>0, <2>2, AmountFound
    <3>2. /\ Amount(u, "GDTraded") = Total(InScanned(u, "buyBalances", TypesOf["GDTraded"]))
          /\ u \notin {l.who : l \in found} => InScanned(u, "buyBalances", TypesOf["GDTraded"]) = {}
      BY <2>0, <2>2, AmountFound
    <3> QED
      BY <2>2, <3>1, <3>2
  <2>4. C = A \union B /\ A \intersect B = {} /\ A \in SUBSET Transactions /\ B \in SUBSET Transactions
    BY DEF InScanned
  <2> HIDE DEF A, B, C
  <2>5. Total(C) = Total(A) + Total(B)
    BY <2>4, TotalOfUnion
  <2>6. Bought(u) = Total(C)
    BY <2>3, <2>5 DEF Bought
  <2>7. CASE u \in {l.who : l \in found}
    <3>1. u # swaphelper
      BY RecoveryAssumption
    <3>2. u \in DOMAIN file.data /\ file.data[u] = Bought(u)
      BY <2>7, <3>1
    <3> QED
      BY <2>6, <3>2 DEF Credit, C
  <2>8. CASE u \notin {l.who : l \in found}
    <3>1. u \notin DOMAIN file.data
      BY <2>8
    <3>2. C = {}
      BY <2>3, <2>4, <2>8
    <3>3. Total(C) = 0
      BY <3>2, TotalIsSum, SumEmpty
    <3> QED
      BY <3>1, <3>3 DEF Credit, C
  <2> QED
    BY <2>7, <2>8
<1>3. \A u \in Users :
        /\ Got(u, "buyBalances", {"buy", "buyThroughHelper"}, LAST_BLOCK) <= Credit(file.data, u)
        /\ Credit(file.data, u) <= Got(u, "buyBalances", {"buy", "buyThroughHelper"}, LAST_BLOCK + 1)
  BY <1>2, GotInScan
<1> QED
  BY <1>1, <1>3 DEF SavedBuys

LEMMA MintsAreSaved ==
    ASSUME Numbers, ScanInv, Scanned("repRecoverFuse"), NEW file,
           file = [at |-> LAST_BLOCK,
                   data |-> [u \in {u \in {l.who : l \in found} : NotProved(u) > 0} |-> NotProved(u)]]
    PROVE  SavedMints(file)
<1>1. file.at = LAST_BLOCK
  OBVIOUS
<1>2. ASSUME NEW u \in Users
      PROVE  Credit(file.data, u) = Total(InScanned(u, "repRecoverFuse", {"mint"}))
  <2> DEFINE A == InScanned(u, "repRecoverFuse", {"mint"})
             B == InScanned(u, "repRecoverFuse", {"prove"})
             C == InScanned(u, "repRecoverFuse", {"mint", "prove"})
  <2>1. Kinds("repRecoverFuse") = <<"Mint", "StateHashProof">>
    BY DEF Kinds
  <2>0. {"Mint", "StateHashProof"} \subseteq {Kinds("repRecoverFuse")[1], Kinds("repRecoverFuse")[2]}
    BY <2>1
  <2>2. /\ TypesOf["Mint"] = {"mint", "prove"} /\ TypesOf["StateHashProof"] = {"prove"}
        /\ {"Mint", "StateHashProof"} \subseteq DOMAIN TypesOf
    BY DEF TypesOf
  <2>3. /\ Amount(u, "Mint") = Total(C)
        /\ Amount(u, "StateHashProof") = Total(B)
        /\ u \notin {l.who : l \in found} => C = {} /\ B = {}
    <3>1. /\ Amount(u, "Mint") = Total(InScanned(u, "repRecoverFuse", TypesOf["Mint"]))
          /\ u \notin {l.who : l \in found} => InScanned(u, "repRecoverFuse", TypesOf["Mint"]) = {}
      BY <2>0, <2>2, AmountFound
    <3>2. /\ Amount(u, "StateHashProof") = Total(InScanned(u, "repRecoverFuse", TypesOf["StateHashProof"]))
          /\ u \notin {l.who : l \in found} => InScanned(u, "repRecoverFuse", TypesOf["StateHashProof"]) = {}
      BY <2>0, <2>2, AmountFound
    <3> QED
      BY <2>2, <3>1, <3>2
  <2>4. C = A \union B /\ A \intersect B = {} /\ A \in SUBSET Transactions /\ B \in SUBSET Transactions
    BY DEF InScanned
  <2> HIDE DEF A, B, C
  <2>5. Total(C) = Total(A) + Total(B) /\ Total(A) \in Nat /\ Total(B) \in Nat
    BY <2>4, TotalOfUnion, TotalOfFewer
  <2>6. NotProved(u) = Total(A)
    BY <2>3, <2>5 DEF NotProved
  <2>7. CASE u \in {l.who : l \in found} /\ NotProved(u) > 0
    <3>1. u \in DOMAIN file.data /\ file.data[u] = NotProved(u)
      BY <2>7
    <3> QED
      BY <2>6, <3>1 DEF Credit, A
  <2>8. CASE u \in {l.who : l \in found} /\ ~(NotProved(u) > 0)
    <3>1. u \notin DOMAIN file.data
      BY <2>8
    <3>2. Total(A) = 0
      BY <2>5, <2>6, <2>8
    <3> QED
      BY <3>1, <3>2 DEF Credit, A
  <2>9. CASE u \notin {l.who : l \in found}
    <3>1. u \notin DOMAIN file.data
      BY <2>9
    <3>2. A = {}
      BY <2>3, <2>4, <2>9
    <3>3. Total(A) = 0
      BY <3>2, TotalIsSum, SumEmpty
    <3> QED
      BY <3>1, <3>3 DEF Credit, A
  <2> QED
    BY <2>7, <2>8, <2>9
<1>3. \A u \in Users :
        /\ Got(u, "repRecoverFuse", {"mint"}, LAST_BLOCK) <= Credit(file.data, u)
        /\ Credit(file.data, u) <= Got(u, "repRecoverFuse", {"mint"}, LAST_BLOCK + 1)
        /\ Credit(file.data, u) \in Nat
  BY <1>2, GotInScan
<1> QED
  BY <1>1, <1>3 DEF SavedMints

LEMMA TreeIsSaved ==
    ASSUME SavedMints(recovered["repRecoverFuse"]), NEW style, NEW file,
           file = [at |-> recovered["repRecoverFuse"].at, data |-> Renewed(style)]
    PROVE  SavedTree(file, style)
<1> DEFINE old == recovered["repRecoverFuse"]
           tree == file.data
           new == Data("repRecoverFuse")
<1>1. file.at = old.at /\ tree = Renewed(style) /\ new = old.data
  BY DEF Data
<1> HIDE DEF tree
<1>2. DOMAIN tree = {lower(u) : u \in DOMAIN new} \union DOMAIN airdropPrev
  BY <1>1 DEF Renewed
<1>3. \A k \in DOMAIN tree : tree[k] = leaf(style, Credit(airdropPrev, k) + Fuse(k))
  BY <1>1, <1>2 DEF Renewed
<1>4. \A n : leaf(style, n).rep = n
  BY DEF leaf
<1>5. \A u : /\ Fuse(lower(u)) = Credit(new, u) /\ Fuse(mixed(u)) = 0
             /\ mixed(u) \in DOMAIN tree => mixed(u) \in DOMAIN airdropPrev
  BY <1>1, <1>2 DEF Fuse, lower, mixed
<1> HIDE DEF new
<1>6. \A k \in DOMAIN tree : Owed(tree, k) = Credit(airdropPrev, k) + Fuse(k)
  BY <1>3, <1>4 DEF Owed
<1>7. ASSUME NEW u \in Users, file.at > 0
      PROVE  /\ Owed(tree, lower(u)) - Credit(airdropPrev, lower(u)) = Credit(new, u)
             /\ Owed(tree, mixed(u)) = Credit(airdropPrev, mixed(u))
  <2>1. Credit(new, u) \in Nat
    BY <1>1, <1>7 DEF SavedMints
  <2>2. \A k : Credit(airdropPrev, k) \in Nat
    BY RecoveryAssumption DEF Credit
  <2>0. Fuse(lower(u)) = Credit(new, u) /\ Fuse(mixed(u)) = 0
    BY <1>5
  <2>3. ASSUME lower(u) \in DOMAIN tree
        PROVE  Owed(tree, lower(u)) - Credit(airdropPrev, lower(u)) = Credit(new, u)
    <3>1. Owed(tree, lower(u)) = Credit(airdropPrev, lower(u)) + Credit(new, u)
      BY <1>6, <2>0, <2>3
    <3>2. PICK x, y \in Nat : x = Credit(airdropPrev, lower(u)) /\ y = Credit(new, u)
      BY <2>1, <2>2
    <3> QED
      BY <3>1, <3>2
  <2>4. ASSUME lower(u) \notin DOMAIN tree
        PROVE  Owed(tree, lower(u)) - Credit(airdropPrev, lower(u)) = Credit(new, u)
    <3>1. u \notin DOMAIN new /\ lower(u) \notin DOMAIN airdropPrev
      BY <1>2, <2>4
    <3>2. Owed(tree, lower(u)) = 0 /\ Credit(new, u) = 0 /\ Credit(airdropPrev, lower(u)) = 0
      BY <2>4, <3>1, Zenon DEF Owed, Credit
    <3> QED
      BY <3>2
  <2>5. Owed(tree, lower(u)) - Credit(airdropPrev, lower(u)) = Credit(new, u)
    BY <2>3, <2>4
  <2>6. Owed(tree, mixed(u)) = Credit(airdropPrev, mixed(u))
    <3>1. CASE mixed(u) \in DOMAIN tree
      <4>1. Owed(tree, mixed(u)) = Credit(airdropPrev, mixed(u)) + 0
        BY <1>6, <2>0, <3>1
      <4>2. PICK x \in Nat : x = Credit(airdropPrev, mixed(u))
        BY <2>2
      <4> QED
        BY <4>1, <4>2
    <3>2. CASE mixed(u) \notin DOMAIN tree
      BY <1>2, <3>2 DEF Owed, Credit
    <3> QED
      BY <3>1, <3>2
  <2> QED
    BY <2>5, <2>6
<1>8. \A k \in DOMAIN tree : tree[k] = leaf(style, Owed(tree, k))
  BY <1>3, <1>6
<1> QED
  BY <1>1, <1>5, <1>7, <1>8 DEF SavedTree, SavedMints, tree
---------------------------------------------------------------------------
LEMMA IndexIsNat == \A bc \in Nat : START_BLOCK <= bc => Index(bc) \in Nat /\ ~(Index(bc) < 0)
<1> SUFFICES ASSUME NEW bc \in Nat, START_BLOCK <= bc PROVE Index(bc) \in Nat
  OBVIOUS
<1>1. bc - START_BLOCK \in Nat /\ span \in Nat /\ span > 0
  BY RecoveryAssumption
<1> DEFINE d == bc - START_BLOCK
<1> HIDE DEF d
<1>2. d \div span \in Nat
  BY <1>1, SMTT(30) DEF d
<1> QED
  BY <1>2 DEF Index, d

LEMMA FreshScan ==
    ASSUME LAST_BLOCK' \in Nat, asked' = {}, next' = 0, found' = {} \/ job' = "recoveredReserve"
    PROVE  ScanInv'
<1>1. \A bc \in blocks' : ~(Index(bc) < next' * group)
  <2> TAKE bc \in blocks'
  <2>1. bc \in Nat /\ START_BLOCK <= bc
    BY RecoveryAssumption DEF blocks
  <2>2. next' * group = 0
    BY RecoveryAssumption
  <2> QED
    BY <2>1, <2>2, IndexIsNat
<1> QED
  BY <1>1 DEF ScanInv

LEMMA SameScan ==
    ASSUME ScanInv, UNCHANGED scan_vars
    PROVE  ScanInv'
<1>1. blocks' = blocks
  BY DEF scan_vars, blocks
<1>2. \A i, l : OfKind(i, l)' = OfKind(i, l)
  BY DEF scan_vars, OfKind
<1>3. \A b : InScan(b)' = InScan(b)
  BY <1>1 DEF scan_vars, InScan
<1>4. \A i, bc : Sought(i, bc)' = Sought(i, bc)
  BY <1>2 DEF scan_vars, Sought, Within
<1>5. \A bc : Reading(bc)' = Reading(bc)
  BY <1>4 DEF scan_vars, Reading
<1> QED
  BY <1>1, <1>2, <1>3, <1>5 DEF ScanInv, scan_vars

LEMMA NextGroupScan ==
    ASSUME Numbers, ScanInv, NextGroup
    PROVE  ScanInv'
<1>0. /\ asked = {} /\ asked' = {<<b, 1>> : b \in Group(next)} /\ next' = next + 1
      /\ UNCHANGED <<job, LAST_BLOCK, found>>
  BY DEF NextGroup
<1>1. blocks' = blocks
  BY <1>0 DEF blocks
<1>2. \A i, l : OfKind(i, l)' = OfKind(i, l)
  BY <1>0 DEF OfKind
<1>3. \A b : InScan(b)' = InScan(b)
  BY <1>0, <1>1 DEF InScan
<1>4. \A i, bc : Sought(i, bc)' = Sought(i, bc)
  BY <1>0, <1>2 DEF Sought, Within
<1>5. \A r \in asked' : \E bc \in blocks' : r \in {<<bc, 1>>, <<bc, 2>>}
  BY <1>0, <1>1 DEF Group
<1>6. ASSUME NEW bc \in blocks, Index(bc) < next' * group PROVE Reading(bc)'
  <2>1. CASE Index(bc) < next * group
    <3>1. Sought(1, bc) \subseteq found /\ Sought(2, bc) \subseteq found
      BY <1>0, <2>1 DEF ScanInv, Reading
    <3> QED
      BY <1>0, <1>4, <3>1 DEF Reading
  <2>2. CASE ~(Index(bc) < next * group)
    <3> DEFINE k == next * group
               i == Index(bc)
    <3>1. next' * group = k + group /\ k \in Nat /\ group \in Nat
      BY <1>0, RecoveryAssumption, SMTT(30) DEF Numbers
    <3>2. i \in Nat
      BY BlockFacts DEF Numbers
    <3>3. i < next' * group /\ ~(i < k)
      BY <1>6, <2>2
    <3> HIDE DEF k, i
    <3>4. i \in k..(k + group - 1)
      BY <3>1, <3>2, <3>3
    <3>5. bc \in Group(next)
      BY <3>4 DEF Group, k, i, Index
    <3> QED
      BY <1>0, <3>5 DEF Reading
  <2> QED
    BY <2>1, <2>2
<1> QED
  BY <1>0, <1>1, <1>2, <1>3, <1>5, <1>6 DEF ScanInv

LEMMA AnswerScan ==
    ASSUME Numbers, ScanInv, Answer
    PROVE  ScanInv'
<1>0. PICK r \in asked :
        /\ found' = found \cup {l \in Logs : /\ l.kind = Kinds(job)[r[2]] /\ l.on = job
                                             /\ Within(r[1], l)}
        /\ asked' = (asked \ {r}) \cup (IF r[2] = 1 THEN {<<r[1], 2>>} ELSE {})
        /\ UNCHANGED <<block, job, LAST_BLOCK, next, recovered>>
  BY DEF Answer
<1>1. blocks' = blocks
  BY <1>0 DEF blocks
<1>2. \A i, l : OfKind(i, l)' = OfKind(i, l)
  BY <1>0 DEF OfKind
<1>3. \A b : InScan(b)' = InScan(b)
  BY <1>0, <1>1 DEF InScan
<1>4. \A i, bc : Sought(i, bc)' = Sought(i, bc)
  BY <1>0, <1>2 DEF Sought, Within
<1>5. PICK bc \in blocks : r \in {<<bc, 1>>, <<bc, 2>>}
  BY DEF ScanInv
<1>6. r[1] = bc /\ r[2] \in {1, 2} /\ found' = found \cup Sought(r[2], bc)
  <2>1. r[1] = bc /\ r[2] \in {1, 2}
    BY <1>5
  <2>2. found' = found \cup Sought(r[2], r[1])
    BY <1>0, AnswersAreWhole
  <2> QED
    BY <2>1, <2>2
<1>7. \A q \in asked' : \E c \in blocks' : q \in {<<c, 1>>, <<c, 2>>}
  BY <1>0, <1>1, <1>5, <1>6 DEF ScanInv
<1>8. ASSUME job # "recoveredReserve", NEW l \in found'
      PROVE  l \in AllLogs /\ (OfKind(1, l) \/ OfKind(2, l)) /\ InScan(l.block)
  <2>1. CASE l \in found
    BY <1>8, <2>1 DEF ScanInv
  <2>2. CASE l \in Sought(r[2], bc)
    BY <1>6, <2>2 DEF Sought, InScan, Within
  <2> QED
    BY <1>6, <2>1, <2>2
<1>9. ASSUME NEW c \in blocks, Reading(c) PROVE Reading(c)'
  <2>1. CASE r = <<c, 1>>
    <3>1. c = bc /\ r[2] = 1
      BY <1>5, <2>1
    <3> QED
      BY <1>0, <1>4, <1>6, <3>1 DEF Reading
  <2>2. CASE r = <<c, 2>>
    <3>1. c = bc /\ r[2] = 2
      BY <1>5, <2>2
    <3>2. Sought(2, c) \subseteq found'
      BY <1>6, <3>1
    <3>3. <<c, 1>> \in asked => <<c, 1>> \in asked'
      BY <1>0, <2>2
    <3> QED
      BY <1>4, <1>6, <1>9, <3>2, <3>3 DEF Reading
  <2>3. CASE r # <<c, 1>> /\ r # <<c, 2>>
    <3>1. /\ <<c, 1>> \in asked => <<c, 1>> \in asked'
          /\ <<c, 2>> \in asked => <<c, 2>> \in asked'
      BY <1>0, <2>3
    <3> QED
      BY <1>4, <1>6, <1>9, <3>1 DEF Reading
  <2> QED
    BY <2>1, <2>2, <2>3
<1> QED
  BY <1>0, <1>1, <1>2, <1>3, <1>7, <1>8, <1>9 DEF ScanInv

LEMMA SaveFile ==
    ASSUME SavedInv, NEW f \in RecoveredFile, NEW file,
           recovered' = [recovered EXCEPT ![f] = file],
           f = "buyBalances" => SavedBuys(file),
           f = "repRecoverFuse" => SavedMints(file),
           f = "airdropSorted" => SavedTree(file, "double"),
           f = "airdropRecover" => SavedTree(file, "simple")
    PROVE  SavedInv'
<1>1. DOMAIN recovered' = RecoveredFile
  BY DEF SavedInv
<1>2. \A g \in RecoveredFile : recovered'[g] = IF g = f THEN file ELSE recovered[g]
  BY DEF SavedInv
<1>3. {"buyBalances", "repRecoverFuse", "airdropSorted", "airdropRecover"} \subseteq RecoveredFile
  BY DEF RecoveredFile
<1> QED
  BY <1>1, <1>2, <1>3 DEF SavedInv
\* Actions that leave the files alone, and the ones that stop after writing.
LEMMA Rescan ==
    ASSUME RecoveryInv, NEW j \in Job \cup {"none"}, NEW last \in Nat, last <= block,
           job' = j, LAST_BLOCK' = last, next' = 0, asked' = {}, found' = {}, UNCHANGED block,
           SavedInv'
    PROVE  RecoveryInv'
<1>1. Numbers'
  BY DEF RecoveryInv, Numbers
<1>2. ScanInv'
  BY FreshScan
<1> QED
  BY <1>1, <1>2 DEF RecoveryInv

LEMMA SavedStays == ASSUME SavedInv, UNCHANGED recovered PROVE SavedInv'
BY DEF SavedInv

LEMMA BlockNumbers ==
    ASSUME RecoveryInv
    PROVE  0 \in Nat /\ 0 <= block /\ block \in Nat /\ block <= block
           /\ ETH_SNAPSHOT_BLOCK \in Nat /\ ETH_SNAPSHOT_BLOCK <= block
BY RecoveryAssumption DEF RecoveryInv, Numbers

\* The process ends its scan and writes a file.
LEMMA StopAndSave ==
    ASSUME RecoveryInv, NEW f \in RecoveredFile, NEW data, Save(f, data), Stopped,
           UNCHANGED block,
           f = "buyBalances" => SavedBuys([at |-> LAST_BLOCK, data |-> data]),
           f = "repRecoverFuse" => SavedMints([at |-> LAST_BLOCK, data |-> data]),
           f \notin {"airdropSorted", "airdropRecover"}
    PROVE  RecoveryInv'
<1>1. SavedInv'
  BY SaveFile DEF RecoveryInv, Save
<1> QED
  BY <1>1, Rescan, BlockNumbers DEF Stopped

\* A file that no property is about is written from another one.
LEMMA CopyFile ==
    ASSUME RecoveryInv, NEW f \in {"gdxairdrop", "gdxAirdropRecovery"}, NEW file,
           recovered' = [recovered EXCEPT ![f] = file], UNCHANGED <<block, scan_vars>>
    PROVE  RecoveryInv'
<1>1. SavedInv'
  BY SaveFile DEF RecoveryInv, RecoveredFile
<1>2. ScanInv'
  BY SameScan DEF RecoveryInv
<1> QED
  BY <1>1, <1>2 DEF RecoveryInv, Numbers, scan_vars

LEMMA TreeStep ==
    ASSUME RecoveryInv, NEW f, NEW style,
           <<f, style>> \in {<<"airdropSorted", "double">>, <<"airdropRecover", "simple">>},
           SaveTree(f, Renewed(style))
    PROVE  RecoveryInv'
<1> DEFINE file == [at |-> recovered["repRecoverFuse"].at, data |-> Renewed(style)]
           other == [at |-> recovered["repRecoverMainnet"].at, data |-> Restored(Renewed(style))]
<1>1. /\ recovered' = [recovered EXCEPT ![f] = file, !["ethAirdropRecover"] = other]
      /\ UNCHANGED <<block, scan_vars>>
  BY DEF SaveTree
<1>2. SavedTree(file, style)
  BY TreeIsSaved DEF RecoveryInv, SavedInv
<1> HIDE DEF file, other
<1>3. DOMAIN recovered' = RecoveredFile
  BY <1>1 DEF RecoveryInv, SavedInv
<1>4. \A g \in RecoveredFile \ {"ethAirdropRecover"} :
        recovered'[g] = IF g = f THEN file ELSE recovered[g]
  BY <1>1 DEF RecoveryInv, SavedInv
<1>5. {"buyBalances", "repRecoverFuse", "airdropSorted", "airdropRecover"}
        \subseteq RecoveredFile \ {"ethAirdropRecover"}
  BY DEF RecoveredFile
<1>6. SavedInv'
  BY <1>2, <1>3, <1>4, <1>5 DEF RecoveryInv, SavedInv
<1>7. ScanInv'
  BY <1>1, SameScan DEF RecoveryInv
<1> QED
  BY <1>1, <1>6, <1>7 DEF RecoveryInv, Numbers, scan_vars

LEMMA BuyStep ==
    ASSUME RecoveryInv, getBuyingAddresses
    PROVE  RecoveryInv'
<1>1. CASE Scan("buyBalances", ETH_SNAPSHOT_BLOCK) /\ UNCHANGED <<block, recovered>>
  <2>1. SavedInv' /\ "buyBalances" \in Job
    BY <1>1, SavedStays DEF RecoveryInv, Job
  <2> QED
    BY <1>1, <2>1, Rescan, BlockNumbers DEF Scan
<1>2. CASE /\ Scanned("buyBalances") /\ Stopped /\ UNCHANGED block
           /\ Save("buyBalances", [u \in {l.who : l \in found} \ {swaphelper} |-> Bought(u)])
  <2> DEFINE data == [u \in {l.who : l \in found} \ {swaphelper} |-> Bought(u)]
  <2>1. SavedBuys([at |-> LAST_BLOCK, data |-> data])
    BY <1>2, BuysAreSaved DEF RecoveryInv
  <2> HIDE DEF data
  <2>2. Save("buyBalances", data)
    BY <1>2 DEF data
  <2> QED
    BY <1>2, <2>1, <2>2, StopAndSave DEF RecoveredFile
<1> QED
  BY <1>1, <1>2 DEF getBuyingAddresses

LEMMA MintStep ==
    ASSUME RecoveryInv, calcGoodMints
    PROVE  RecoveryInv'
<1>1. ASSUME NEW j \in {"repRecoverFuse", "repRecoverMainnet"}, Scan(j, block),
             UNCHANGED <<block, recovered>>
      PROVE  RecoveryInv'
  <2>1. SavedInv' /\ j \in Job
    BY <1>1, SavedStays DEF RecoveryInv, Job
  <2> QED
    BY <1>1, <2>1, Rescan, BlockNumbers DEF Scan
<1>2. CASE /\ Scanned("repRecoverFuse") /\ Stopped /\ UNCHANGED block
           /\ Save("repRecoverFuse",
                   [u \in {u \in {l.who : l \in found} : NotProved(u) > 0} |-> NotProved(u)])
  <2> DEFINE data == [u \in {u \in {l.who : l \in found} : NotProved(u) > 0} |-> NotProved(u)]
  <2>1. SavedMints([at |-> LAST_BLOCK, data |-> data])
    BY <1>2, MintsAreSaved DEF RecoveryInv
  <2> HIDE DEF data
  <2>2. Save("repRecoverFuse", data)
    BY <1>2 DEF data
  <2> QED
    BY <1>2, <2>1, <2>2, StopAndSave DEF RecoveredFile
<1>3. CASE /\ Scanned("repRecoverMainnet") /\ Stopped /\ UNCHANGED block
           /\ Save("repRecoverMainnet", [u \in {l.who : l \in found} |-> Amount(u, "Mint")])
  <2> DEFINE data == [u \in {l.who : l \in found} |-> Amount(u, "Mint")]
  <2> HIDE DEF data
  <2>1. Save("repRecoverMainnet", data)
    BY <1>3 DEF data
  <2> QED
    BY <1>3, <2>1, StopAndSave DEF RecoveredFile
<1> QED
  BY <1>1, <1>2, <1>3 DEF calcGoodMints

LEMMA HoldersStep ==
    ASSUME RecoveryInv, getHoldersInformation
    PROVE  RecoveryInv'
<1>1. SavedInv'
  BY SavedStays DEF RecoveryInv, getHoldersInformation
<1>2. CASE Scan("newReserve", block) /\ UNCHANGED <<block, recovered>>
  <2>1. "newReserve" \in Job
    BY DEF Job
  <2> QED
    BY <1>1, <1>2, <2>1, Rescan, BlockNumbers DEF Scan
<1>3. CASE /\ Scanned("newReserve") /\ job' = "recoveredReserve" /\ next' = 0
           /\ UNCHANGED <<block, LAST_BLOCK, asked, found, recovered>>
  <2>1. asked' = {} /\ LAST_BLOCK' \in Nat
    BY <1>3 DEF Scanned, RecoveryInv, Numbers
  <2>2. ScanInv'
    BY <1>3, <2>1, FreshScan
  <2>3. Numbers' /\ job' \in Job
    BY <1>3 DEF RecoveryInv, Numbers, Job
  <2> QED
    BY <1>1, <2>2, <2>3 DEF RecoveryInv
<1> QED
  BY <1>2, <1>3 DEF getHoldersInformation

LEMMA CombineStep ==
    ASSUME RecoveryInv, addCalculationsToPreviousData
    PROVE  RecoveryInv'
<1>1. PICK data : Save("buyBalancesCombined", data)
  BY DEF addCalculationsToPreviousData
<1>2. Stopped /\ UNCHANGED block
  BY DEF addCalculationsToPreviousData
<1> QED
  BY <1>1, <1>2, StopAndSave DEF RecoveredFile

LEMMA RecoveryInit_Inv == RecoveryInit => RecoveryInv
<1> SUFFICES ASSUME RecoveryInit PROVE RecoveryInv
  OBVIOUS
<1>1. Numbers
  BY RecoveryAssumption DEF RecoveryInit, Numbers
<1>2. blocks = {}
  BY RecoveryAssumption DEF RecoveryInit, blocks
<1>3. ScanInv
  BY <1>2 DEF RecoveryInit, ScanInv
<1>4. DOMAIN recovered = RecoveredFile /\ \A f \in RecoveredFile : recovered[f].at = 0
  BY DEF RecoveryInit
<1>5. SavedInv
  BY <1>4 DEF SavedInv, SavedBuys, SavedMints, SavedTree, RecoveredFile
<1>6. job = "none"
  BY DEF RecoveryInit
<1> QED
  BY <1>1, <1>3, <1>5, <1>6 DEF RecoveryInv

LEMMA ScanningStep ==
    ASSUME RecoveryInv, Mined \/ Died \/ NextGroup \/ Answer
    PROVE  RecoveryInv'
<1>1. SavedInv'
  BY SavedStays DEF RecoveryInv, Mined, Died, NextGroup, Answer
<1>2. CASE Mined
  <2>1. ScanInv'
    BY <1>2, SameScan DEF RecoveryInv, Mined
  <2>2. Numbers' /\ job' = job
    BY <1>2, RecoveryAssumption DEF RecoveryInv, Numbers, Mined, scan_vars
  <2> QED
    BY <1>1, <2>1, <2>2 DEF RecoveryInv
<1>3. CASE Died
  BY <1>1, <1>3, Rescan, BlockNumbers DEF Died, Stopped
<1>4. CASE NextGroup
  <2>1. ScanInv'
    BY <1>4, NextGroupScan DEF RecoveryInv
  <2>2. Numbers' /\ job' = job
    BY <1>4 DEF RecoveryInv, Numbers, NextGroup
  <2> QED
    BY <1>1, <2>1, <2>2 DEF RecoveryInv
<1>5. CASE Answer
  <2>1. ScanInv'
    BY <1>5, AnswerScan DEF RecoveryInv
  <2>2. Numbers' /\ job' = job
    BY <1>5 DEF RecoveryInv, Numbers, Answer
  <2> QED
    BY <1>1, <2>1, <2>2 DEF RecoveryInv
<1> QED
  BY <1>2, <1>3, <1>4, <1>5

LEMMA RecoveryInvariant == RecoverySpec => []RecoveryInv
<1>1. RecoveryInv /\ [RecoveryNext]_recovery_vars => RecoveryInv'
  <2> SUFFICES ASSUME RecoveryInv, [RecoveryNext]_recovery_vars PROVE RecoveryInv'
    OBVIOUS
  <2>1. CASE UNCHANGED recovery_vars
    <3>1. UNCHANGED scan_vars /\ UNCHANGED <<block, recovered>>
      BY <2>1 DEF recovery_vars
    <3>2. ScanInv' /\ SavedInv'
      BY <3>1, SameScan, SavedStays DEF RecoveryInv
    <3> QED
      BY <3>1, <3>2 DEF RecoveryInv, Numbers, scan_vars
  <2>2. CASE gdxTree
    BY <2>2, CopyFile DEF gdxTree
  <2>3. CASE gdxRecoveryTree
    BY <2>3, CopyFile DEF gdxRecoveryTree
  <2>4. CASE buildMerkleTreeSorted
    BY <2>4, TreeStep DEF buildMerkleTreeSorted
  <2>5. CASE buildMerkleTreeRecover
    BY <2>5, TreeStep DEF buildMerkleTreeRecover
  <2>6. CASE Mined \/ Died \/ NextGroup \/ Answer
    BY <2>6, ScanningStep
  <2>7. CASE collectSorted \/ collectRecover
    BY <2>7, MintStep DEF collectSorted, collectRecover
  <2> QED
    BY <2>1, <2>2, <2>3, <2>4, <2>5, <2>6, <2>7, BuyStep, HoldersStep, CombineStep
       DEF RecoveryNext
<1> QED
  BY RecoveryInit_Inv, <1>1, PTL DEF RecoverySpec

(* Everybody is credited with the GDX he bought before the snapshot, once,  *)
(* directly or through the swap helper (getBuyingAddresses), for every set  *)
(* of purchases, however the ranges of blocks are cut and answered, and     *)
(* wherever the process dies and starts again.                              *)
THEOREM PurchasesAreCreditedOnce == RecoverySpec => []PurchasesAreCredited
BY RecoveryInvariant, SavedIsPromised, PTL DEF RecoveryInv

(* The lower case leaf of an account in the recovered tree of GOOD is its   *)
(* old lower case leaf and what was minted besides it, and a leaf under the *)
(* other spelling is the old one: no GOOD is lost, or doubled by proofs     *)
(* that are logged as minting (calcGoodMints and buildMerkleTree of         *)
(* airdropCalculationSorted and airdropCalculationRecover).                 *)
THEOREM RecoveredGoodIsOwed == RecoverySpec => []RecoveredIsOwed
BY RecoveryInvariant, SavedIsPromised, PTL DEF RecoveryInv
(* What is collected for the airdrop *)

EverHeld(a) == {FuseBalance[b][a] : b \in {b \in Blocks : b <= clock}}
\* What a file says once it is written.
ClaimsWhole(f) ==
    f # NoFile => \A a \in Accounts :
        /\ At(f.data, lower(a)) >= ClaimsOf(a, 0..(f.at - 1))
        /\ At(f.data, lower(a)) <= ClaimsOf(a, 0..f.at)
FarmOut(f) == f # NoFile => lower(usdcgdYieldFarming) \notin DOMAIN f.data
Listed(f) ==
    f # NoFile => \A l \in TransferLogs : l.block < f.at =>
        /\ lower(l.to) \in DOMAIN f.data
        /\ \/ f.data[lower(l.to)] \in EverHeld(l.to)
           \/ f.data[lower(l.to)] = 0 /\ (failedTmp.newer \/ l.to \in failedTmp.list)
FilesInv ==
    /\ DOMAIN files = Part /\ DOMAIN failedTmp = {"list", "newer"}
    /\ ClaimsWhole(files["claims"]) /\ FarmOut(files["fuseswap"]) /\ Listed(files["fuse"])

\* While the farm has no share yet every record is positive: a file that is
\* written now lacks the farm's.
FarmPart ==
    stage.yieldFarmingRep = 0 =>
        /\ requests \subseteq {r \in Pairs \X Accounts : FuseswapShare[snapshot][r] > 0}
        /\ \A k \in DOMAIN addresses : addresses[k] \in Nat \ {0}

\* A claim is counted unless a query that covers it is still to be answered.
CoveredBy(r, i) == ClaimLogs[i].ubi = r[1] /\ Covers(r[2], ClaimLogs[i].block)
ToAnswer == requests \cup (IF stage = "ubi" THEN ClaimChunks("ubinew") ELSE {})
Counted(a) ==
    {i \in DOMAIN ClaimLogs : /\ ClaimLogs[i].from = a
                              /\ \E r \in ClaimChunks("ubi") \cup ClaimChunks("ubinew") : CoveredBy(r, i)
                              /\ ~ \E r \in ToAnswer : CoveredBy(r, i)}
ClaimsPart ==
    /\ stage \in {"ubi", "ubinew"} /\ requests \subseteq ClaimChunks(stage)
    /\ \A a \in Accounts : At(addresses, lower(a)) = Cardinality(Counted(a))

\* A receiver is known or in logs to come; his record is what he held, or 0 and he
\* failed; once failed.tmp is written it names them and nothing is asked for.
FusePart ==
    /\ DOMAIN stage = {"addrs", "listed"}
    /\ stage.addrs \subseteq Accounts /\ failed \in Seq(Accounts)
    /\ stage.listed => /\ requests = {} /\ DOMAIN addresses = {lower(a) : a \in stage.addrs}
                       /\ failedTmp.list = Range(failed)
    /\ \A r \in requests : r \in {"logs"} \X Nat \/ r \in {"balance"} \X stage.addrs
    /\ \A l \in TransferLogs : l.block < snapshot =>
          l.to \in stage.addrs \/ \E r \in requests : r[1] = "logs" /\ Covers(r[2], l.block)
    /\ \A a \in Accounts :
          /\ <<"balance", a>> \in requests => lower(a) \notin DOMAIN addresses
          /\ lower(a) \in DOMAIN addresses =>
                \/ addresses[lower(a)] \in EverHeld(a)
                \/ addresses[lower(a)] = 0 /\ a \in Range(failed)

(* Of the part that is read, what is in memory and what is asked for        *)
(* together are whole; so are the files that are written.                   *)
CollectionInv ==
    /\ clock \in Blocks /\ snapshot \in Snapshots \cup {0}
    /\ part \in Part \cup {"none"}
    /\ IF part = "none" THEN addresses = Empty /\ failed = <<>> ELSE snapshot # 0
    /\ part = "fuseswap" => FarmPart
    /\ part = "claims" => ClaimsPart
    /\ part = "fuse" => FusePart
    /\ FilesInv

LEMMA FilesArePromised ==
    ASSUME FilesInv
    PROVE  FilesAreWhole /\ FarmGetsNothing
<1>1. FarmGetsNothing
  BY DEF FilesInv, FarmOut, FarmGetsNothing
<1>2. ClaimsAreWhole
  BY DEF FilesInv, ClaimsWhole, ClaimsAreWhole
<1>3. UnreadIsListed
  BY DEF FilesInv, Listed, UnreadIsListed, EverHeld
<1> QED
  BY <1>1, <1>2, <1>3 DEF FilesAreWhole

LEMMA SnapshotFacts ==
    ASSUME CollectionInv
    PROVE  /\ snapshot \in Nat /\ clock \in Nat
           /\ snapshot # 0 => snapshot \in Blocks
<1>1. Blocks \subseteq Nat /\ Snapshots \subseteq Blocks \ {0}
  BY CollectionAssumption
<1>2. clock \in Blocks /\ snapshot \in Snapshots \cup {0}
  BY DEF CollectionInv
<1> QED
  BY <1>1, <1>2

LEMMA HeldGrows ==
    ASSUME CollectionInv, clock' \in Nat, clock <= clock'
    PROVE  \A a : EverHeld(a) \subseteq EverHeld(a)'
<1>1. Blocks \subseteq Nat /\ clock \in Nat
  BY CollectionAssumption, SnapshotFacts
<1>2. \A b \in Blocks : b <= clock => b <= clock'
  BY <1>1
<1> QED
  BY <1>2 DEF EverHeld

LEMMA FilesStay ==
    ASSUME CollectionInv, UNCHANGED <<files, failedTmp>>, clock' \in Nat, clock <= clock'
    PROVE  FilesInv'
<1>1. FilesInv
  BY DEF CollectionInv
<1>2. Listed(files["fuse"])'
  BY <1>1, HeldGrows DEF FilesInv, Listed
<1> QED
  BY <1>1, <1>2 DEF FilesInv

\* A part writes its file.
LEMMA FileWritten ==
    ASSUME CollectionInv, NEW p \in Part, NEW file, files' = [files EXCEPT ![p] = file],
           UNCHANGED clock,
           p = "claims" => ClaimsWhole(file),
           p = "fuseswap" => FarmOut(file),
           p = "fuse" => Listed(file)',
           p # "fuse" => UNCHANGED failedTmp,
           DOMAIN failedTmp' = DOMAIN failedTmp
    PROVE  FilesInv'
<1>1. FilesInv /\ clock \in Nat
  BY SnapshotFacts DEF CollectionInv
<1>2. DOMAIN files' = Part /\ DOMAIN failedTmp' = {"list", "newer"}
  BY <1>1 DEF FilesInv
<1>3. \A q \in Part : files'[q] = IF q = p THEN file ELSE files[q]
  BY <1>1 DEF FilesInv
<1>4. {"claims", "fuse", "fuseswap"} \subseteq Part
  BY DEF Part
<1>5. ClaimsWhole(files'["claims"]) /\ FarmOut(files'["fuseswap"])
  BY <1>1, <1>3, <1>4 DEF FilesInv
<1>6. Listed(files["fuse"])'
  <2>1. CASE p = "fuse"
    BY <1>3, <1>4, <2>1 DEF Listed
  <2>2. CASE p # "fuse"
    <3>1. files'["fuse"] = files["fuse"] /\ failedTmp' = failedTmp
      BY <1>3, <1>4, <2>2
    <3>2. \A a : EverHeld(a)' = EverHeld(a)
      BY DEF EverHeld
    <3> QED
      BY <1>1, <3>1, <3>2 DEF FilesInv, Listed
  <2> QED
    BY <2>1, <2>2
<1> QED
  BY <1>2, <1>5, <1>6 DEF FilesInv

\* Steps of the parts no property is about, and the ends of all parts.
LEMMA OtherPart ==
    ASSUME CollectionInv, part' \in {"uniswap", "eth", "stakers", "none"},
           UNCHANGED clock, snapshot' \in Snapshots \cup {0},
           IF part' = "none" THEN addresses' = Empty /\ failed' = <<>> ELSE snapshot' # 0,
           FilesInv'
    PROVE  CollectionInv'
BY DEF CollectionInv, Part

LEMMA ClockFacts == ASSUME CollectionInv PROVE clock \in Nat /\ clock <= clock
BY SnapshotFacts

LEMMA UniswapStep ==
    ASSUME CollectionInv, getUniswapBalances
    PROVE  CollectionInv'
<1>1. CASE Begin("uniswap", "positions", {a \in Accounts : UniswapShare[snapshot][a] > 0})
  <2>1. FilesInv'
    BY <1>1, FilesStay, ClockFacts DEF Begin, files_vars
  <2> QED
    BY <1>1, <2>1, OtherPart DEF Begin, CollectionInv
<1>2. ASSUME part = "uniswap", NEW a, Answered(a, lower(a), UniswapShare[snapshot][a])
      PROVE  CollectionInv'
  <2>1. FilesInv'
    BY <1>2, FilesStay, ClockFacts DEF Answered, files_vars
  <2> QED
    BY <1>2, <2>1, OtherPart DEF Answered, CollectionInv
<1>3. CASE part = "uniswap" /\ Written("uniswap", addresses)
           /\ UNCHANGED <<clock, snapshot, runs, failedTmp, airdrop>>
  <2>1. FilesInv'
    BY <1>3, FileWritten DEF Written, Part
  <2> QED
    BY <1>3, <2>1, OtherPart DEF Written, Idle, CollectionInv
<1> QED
  BY <1>1, <1>2, <1>3 DEF getUniswapBalances

LEMMA EthStep ==
    ASSUME CollectionInv, getEthPlorerHolders
    PROVE  CollectionInv'
<1>1. CASE Begin("eth", "first", EthHolders)
  <2>1. FilesInv'
    BY <1>1, FilesStay, ClockFacts DEF Begin, files_vars
  <2> QED
    BY <1>1, <2>1, OtherPart DEF Begin, CollectionInv
<1>2. CASE part = "eth" /\ UNCHANGED <<clock, snapshot, part, files_vars>>
  <2>1. FilesInv'
    BY <1>2, FilesStay, ClockFacts DEF files_vars
  <2> QED
    BY <1>2, <2>1, OtherPart DEF CollectionInv
<1>3. CASE part = "eth" /\ Written("eth", addresses)
           /\ UNCHANGED <<clock, snapshot, runs, failedTmp, airdrop>>
  <2>1. FilesInv'
    BY <1>3, FileWritten DEF Written, Part
  <2> QED
    BY <1>3, <2>1, OtherPart DEF Written, Idle, CollectionInv
<1> QED
  BY <1>1, <1>2, <1>3 DEF getEthPlorerHolders, Answered

LEMMA StakersStep ==
    ASSUME CollectionInv, getStakersBalance
    PROVE  CollectionInv'
<1>1. PICK data : Written("stakers", data)
  BY DEF getStakersBalance
<1>2. UNCHANGED <<clock, snapshot, failedTmp>>
  BY DEF getStakersBalance
<1>3. FilesInv'
  BY <1>1, <1>2, FileWritten DEF Written, Part
<1> QED
  BY <1>1, <1>2, <1>3, OtherPart DEF Written, Idle, CollectionInv
(* The farm *)

\* What is added under a key, and that other records stay.
LEMMA PlusDomain == \A k, n : DOMAIN plus(k, n) = DOMAIN addresses \cup {k}
BY DEF plus
LEMMA PlusAt == \A k, n : plus(k, n)[k] = At(addresses, k) + n
BY DEF plus
LEMMA PlusElsewhere ==
    \A k, n : \A x \in DOMAIN addresses : x # k => plus(k, n)[x] = addresses[x] + 0
BY DEF plus, At

LEMMA FarmAnswer ==
    ASSUME CollectionInv, part = "fuseswap", UNCHANGED <<clock, snapshot, part, files_vars>>,
           (stage.yieldFarmingRep = 0 => FarmPart)'
    PROVE  CollectionInv'
<1>1. FilesInv'
  BY FilesStay, ClockFacts DEF files_vars
<1> QED
  BY <1>1 DEF CollectionInv, FarmPart, Part

LEMMA FarmStep ==
    ASSUME CollectionInv, getFuseSwapBalances
    PROVE  CollectionInv'
<1>1. ASSUME NEW read \in SUBSET Pairs,
             Begin("fuseswap", [yieldFarmingRep |-> 0],
                   {r \in read \X Accounts : FuseswapShare[snapshot][r] > 0})
      PROVE  CollectionInv'
  <2>1. FilesInv'
    BY <1>1, FilesStay, ClockFacts DEF Begin, files_vars
  <2>2. addresses' = Empty
    BY <1>1 DEF Begin, CollectionInv
  <2>3. requests' \subseteq {r \in Pairs \X Accounts : FuseswapShare[snapshot'][r] > 0}
    BY <1>1 DEF Begin
  <2>4. FarmPart'
    BY <2>2, <2>3 DEF FarmPart, Empty
  <2> QED
    BY <1>1, <2>1, <2>4 DEF Begin, CollectionInv, Part
<1>2. ASSUME part = "fuseswap", NEW r \in requests \cap (Pairs \X Accounts),
             Answered(r, lower(r[2]), FuseswapShare[snapshot][r])
      PROVE  CollectionInv'
  <2>1. /\ requests' = requests \ {r} /\ addresses' = plus(lower(r[2]), FuseswapShare[snapshot][r])
        /\ UNCHANGED <<clock, snapshot, part, stage, files_vars>>
    BY <1>2 DEF Answered
  <2> SUFFICES ASSUME stage.yieldFarmingRep = 0 PROVE FarmPart'
    BY <1>2, <2>1, FarmAnswer
  <2>2. FarmPart
    BY <1>2 DEF CollectionInv
  <2> DEFINE n == FuseswapShare[snapshot][r]
             k == lower(r[2])
  <2>3. n \in Nat \ {0}
    <3>1. r \in Pairs \X Accounts /\ n > 0
      BY <2>2 DEF FarmPart
    <3>2. snapshot \in Blocks
      BY <1>2, SnapshotFacts DEF CollectionInv
    <3>3. FuseswapShare \in [Blocks -> [Pairs \X Accounts -> Nat]]
      BY CollectionAssumption
    <3>4. n \in Nat
      BY <3>1, <3>2, <3>3
    <3> QED
      BY <3>1, <3>4
  <2> HIDE DEF n, k
  <2>4. \A x \in DOMAIN addresses : addresses[x] \in Nat \ {0}
    BY <2>2 DEF FarmPart
  <2>5. At(addresses, k) \in Nat
    BY <2>4 DEF At
  <2>6. \A x \in DOMAIN plus(k, n) : plus(k, n)[x] \in Nat \ {0}
    <3> TAKE x \in DOMAIN plus(k, n)
    <3>1. CASE x = k
      <4>1. plus(k, n)[k] = At(addresses, k) + n
        BY PlusAt
      <4> QED
        BY <2>3, <2>5, <3>1, <4>1
    <3>2. CASE x # k
      <4>1. x \in DOMAIN addresses
        <5>1. DOMAIN plus(k, n) = DOMAIN addresses \cup {k}
          BY PlusDomain
        <5> QED
          BY <3>2, <5>1
      <4>3. plus(k, n)[x] = addresses[x] + 0
        BY <3>2, <4>1, PlusElsewhere
      <4>2. addresses[x] \in Nat \ {0}
        BY <2>4, <4>1
      <4> QED
        BY <4>2, <4>3
    <3> QED
      BY <3>1, <3>2
  <2>7. \A x \in DOMAIN addresses' : addresses'[x] \in Nat \ {0}
    BY <2>1, <2>6 DEF n, k
  <2> QED
    BY <2>1, <2>2, <2>7 DEF FarmPart
<1> DEFINE rep == At(addresses, lower(usdcgdYieldFarming))
<1>3. CASE /\ part = "fuseswap" /\ stage.yieldFarmingRep = 0 /\ rep > 0
           /\ stage' = [yieldFarmingRep |-> rep]
           /\ UNCHANGED <<clock, snapshot, part, files_vars>>
  <2>1. rep \in Nat
    BY <1>3 DEF CollectionInv, FarmPart, At
  <2>2. stage'.yieldFarmingRep # 0
    BY <1>3, <2>1
  <2> QED
    BY <1>3, <2>2, FarmAnswer
<1>4. CASE /\ part = "fuseswap" /\ stage.yieldFarmingRep = 0 /\ rep = 0
           /\ Written("fuseswap", addresses)
           /\ UNCHANGED <<clock, snapshot, failedTmp>>
  <2>1. lower(usdcgdYieldFarming) \notin DOMAIN addresses
    BY <1>4 DEF CollectionInv, FarmPart, At
  <2>2. FilesInv'
    <3> DEFINE file == [at |-> snapshot, data |-> addresses]
    <3>1. FarmOut(file)
      BY <2>1 DEF FarmOut
    <3>2. files' = [files EXCEPT !["fuseswap"] = file]
      BY <1>4 DEF Written
    <3> HIDE DEF file
    <3> QED
      BY <1>4, <3>1, <3>2, FileWritten DEF Part
  <2> QED
    BY <1>4, <2>2, OtherPart DEF Written, Idle, CollectionInv
<1>5. ASSUME part = "fuseswap", NEW r \in requests \cap Events, NEW k, NEW n, Answered(r, k, n)
      PROVE  CollectionInv'
  <2>1. stage.yieldFarmingRep # 0
    <3>1. r[1] = "event" /\ "event" \notin Pairs
      BY CollectionAssumption DEF Events
    <3>2. r \notin Pairs \X Accounts
      BY <3>1
    <3> QED
      BY <1>5, <3>2 DEF CollectionInv, FarmPart
  <2> QED
    BY <1>5, <2>1, FarmAnswer DEF Answered
<1>6. CASE /\ part = "fuseswap" /\ Written("fuseswap", Dropped)
           /\ UNCHANGED <<clock, snapshot, failedTmp>>
  <2>1. lower(usdcgdYieldFarming) \notin DOMAIN Dropped
    BY DEF Dropped
  <2>2. FilesInv'
    <3> DEFINE file == [at |-> snapshot, data |-> Dropped]
    <3>1. FarmOut(file)
      BY <2>1 DEF FarmOut
    <3>2. files' = [files EXCEPT !["fuseswap"] = file]
      BY <1>6 DEF Written
    <3> HIDE DEF file
    <3> QED
      BY <1>6, <3>1, <3>2, FileWritten DEF Part
  <2> QED
    BY <1>6, <2>2, OtherPart DEF Written, Idle, CollectionInv
<1> QED
  BY <1>1, <1>2, <1>3, <1>4, <1>5, <1>6 DEF getFuseSwapBalances
(* Claims *)

BothChunks == ClaimChunks("ubi") \cup ClaimChunks("ubinew")

LEMMA LogFacts ==
    /\ IsFiniteSet(DOMAIN ClaimLogs)
    /\ \A i \in DOMAIN ClaimLogs :
          /\ ClaimLogs[i].ubi \in {"ubi", "ubinew"} /\ ClaimLogs[i].block \in Nat
          /\ ClaimLogs[i].ubi = "ubi" => ClaimLogs[i].block \in FirstBlock..(OldUBIEnd - 1)
          /\ ClaimLogs[i].ubi = "ubinew" => NewUBIStart <= ClaimLogs[i].block
<1>1. /\ ClaimLogs \in Seq([ubi : {"ubi", "ubinew"}, from : Accounts, block : Nat])
      /\ \A i \in DOMAIN ClaimLogs :
            IF ClaimLogs[i].ubi = "ubi" THEN ClaimLogs[i].block \in FirstBlock..(OldUBIEnd - 1)
            ELSE NewUBIStart <= ClaimLogs[i].block
  BY CollectionAssumption
<1>2. DOMAIN ClaimLogs = 1..Len(ClaimLogs) /\ Len(ClaimLogs) \in Nat
  BY <1>1
<1>3. IsFiniteSet(1..Len(ClaimLogs))
  BY <1>2, FS_Interval
<1>4. \A i \in DOMAIN ClaimLogs : ClaimLogs[i] \in [ubi : {"ubi", "ubinew"}, from : Accounts, block : Nat]
  <2> DEFINE S == [ubi : {"ubi", "ubinew"}, from : Accounts, block : Nat]
  <2>1. ClaimLogs \in Seq(S)
    BY <1>1
  <2> HIDE DEF S
  <2>2. \A i \in DOMAIN ClaimLogs : ClaimLogs[i] \in S
    BY <1>2, <2>1
  <2> QED
    BY <2>2 DEF S
<1> QED
  BY <1>1, <1>2, <1>3, <1>4

LEMMA IndexSets ==
    \A S \in SUBSET (DOMAIN ClaimLogs) : IsFiniteSet(S) /\ Cardinality(S) \in Nat
BY LogFacts, FS_Subset, FS_CardinalityType

LEMMA ChunksAreRanges == \A first, last \in Nat : Chunks(first, last) = range(first, last, step)
BY CollectionAssumption DEF Chunks, range

LEMMA ChunksCover ==
    ASSUME NEW first \in Nat, NEW last \in Nat, NEW n \in Nat, first <= n, n < last, n <= snapshot
    PROVE  \E b \in Chunks(first, last) : b \in Nat /\ Covers(b, n)
<1>1. step \in Nat /\ step > 0
  BY CollectionAssumption
<1>2. PICK b \in range(first, last, step) : b \in Nat /\ b <= n /\ n < b + step
  BY <1>1, RangeCovers
<1>3. b <= n /\ n <= b + step - 1
  BY <1>1, <1>2
<1> QED
  BY <1>2, <1>3, ChunksAreRanges DEF Covers

\* Two chunks of one range cover no block together.
LEMMA ChunksAreApart ==
    ASSUME NEW first \in Nat, NEW last \in Nat, NEW n \in Nat,
           NEW b \in Chunks(first, last), NEW c \in Chunks(first, last), Covers(b, n), Covers(c, n)
    PROVE  b = c
<1>1. step \in Nat /\ step > 0
  BY CollectionAssumption
<1>2. ASSUME NEW x \in Chunks(first, last)
      PROVE  \E i \in Nat : x = first + step * i /\ x \in Nat
  <2> DEFINE d == x - first
  <2>1. d \in Nat /\ x = first + d /\ d % step = 0
    BY <1>1 DEF Chunks
  <2> HIDE DEF d
  <2>2. d \div step \in Nat /\ d = step * (d \div step) + (d % step)
    BY <1>1, <2>1, SMTT(30)
  <2> QED
    BY <1>1, <2>1, <2>2
<1>3. PICK i \in Nat : b = first + step * i
  BY <1>2
<1>4. PICK j \in Nat : c = first + step * j
  BY <1>2
<1>5. b <= n /\ n <= b + step - 1 /\ c <= n /\ n <= c + step - 1
  BY DEF Covers
<1>6. \A x, y \in Nat : x < y => step * x + step <= step * y
  <2> TAKE x, y \in Nat
  <2> HAVE x < y
  <2>1. y - x - 1 \in Nat /\ y = x + 1 + (y - x - 1)
    OBVIOUS
  <2> DEFINE z == y - x - 1
  <2>2. z \in Nat /\ y = x + 1 + z
    BY <2>1
  <2> HIDE DEF z
  <2>3. step * y = step * x + step + step * z /\ step * z \in Nat /\ step * x \in Nat
    BY <1>1, <2>2, SMTT(30)
  <2> QED
    BY <1>1, <2>3
<1>7. step * i \in Nat /\ step * j \in Nat
  BY <1>1
<1>8. ~(i < j)
  BY <1>1, <1>3, <1>4, <1>5, <1>6, <1>7
<1>9. ~(j < i)
  BY <1>1, <1>3, <1>4, <1>5, <1>6, <1>7
<1> QED
  BY <1>3, <1>4, <1>8, <1>9

LEMMA OneChunk ==
    ASSUME CollectionInv, NEW i \in DOMAIN ClaimLogs, NEW r \in BothChunks, NEW q \in BothChunks,
           CoveredBy(r, i), CoveredBy(q, i)
    PROVE  r = q
<1> DEFINE u == ClaimLogs[i].ubi
           chunks == IF u = "ubi" THEN Chunks(FirstBlock, OldUBIEnd) ELSE Chunks(NewUBIStart, snapshot)
<1>1. {FirstBlock, OldUBIEnd, NewUBIStart, snapshot} \subseteq Nat
  BY CollectionAssumption, SnapshotFacts
<1>2. r[1] = u /\ q[1] = u /\ Covers(r[2], ClaimLogs[i].block) /\ Covers(q[2], ClaimLogs[i].block)
  BY DEF CoveredBy
<1>3. \A x \in BothChunks : x = <<x[1], x[2]>> /\ (x[1] = u => x[2] \in chunks)
  BY DEF BothChunks, ClaimChunks
<1>4. r[2] = q[2]
  BY <1>1, <1>2, <1>3, ChunksAreApart, LogFacts
<1> QED
  BY <1>2, <1>3, <1>4

LEMMA ClaimsInOf ==
    \A r, a : ClaimsIn(r, a) = Cardinality({i \in DOMAIN ClaimLogs : ClaimLogs[i].from = a /\ CoveredBy(r, i)})
<1> TAKE r, a
<1>1. {i \in DOMAIN ClaimLogs : ClaimLogs[i].from = a /\ CoveredBy(r, i)}
        = {i \in DOMAIN ClaimLogs : /\ ClaimLogs[i].ubi = r[1] /\ ClaimLogs[i].from = a
                                    /\ Covers(r[2], ClaimLogs[i].block)}
  BY DEF CoveredBy
<1> QED
  BY <1>1 DEF ClaimsIn
\* When the answer to r is counted, the claims r covers are counted and no others.
LEMMA AnswerCounts ==
    ASSUME CollectionInv, NEW r \in BothChunks, r \in ToAnswer, NEW a \in Accounts,
           NEW Now2, Now2 = {i \in DOMAIN ClaimLogs :
                               /\ ClaimLogs[i].from = a
                               /\ \E q \in BothChunks : CoveredBy(q, i)
                               /\ ~ \E q \in ToAnswer \ {r} : CoveredBy(q, i)},
           ToAnswer \subseteq BothChunks
    PROVE  Cardinality(Now2) = Cardinality(Counted(a)) + ClaimsIn(r, a)
<1> DEFINE new == {i \in DOMAIN ClaimLogs : ClaimLogs[i].from = a /\ CoveredBy(r, i)}
           old == Counted(a)
<1>1. old = {i \in DOMAIN ClaimLogs : /\ ClaimLogs[i].from = a
                                      /\ \E q \in BothChunks : CoveredBy(q, i)
                                      /\ ~ \E q \in ToAnswer : CoveredBy(q, i)}
  BY DEF Counted, BothChunks
<1>2. \A i \in new, q \in BothChunks : CoveredBy(q, i) => q = r
  BY OneChunk
<1>3. Now2 = old \cup new /\ old \cap new = {}
  BY <1>1, <1>2
<1>4. IsFiniteSet(old) /\ IsFiniteSet(new) /\ Cardinality(old) \in Nat /\ Cardinality(new) \in Nat
  BY <1>1, IndexSets
<1>5. ClaimsIn(r, a) = Cardinality(new)
  BY ClaimsInOf
<1> HIDE DEF new, old
<1>6. Cardinality(old \cap new) = 0
  BY <1>3, FS_EmptySet
<1>7. Cardinality(old \cup new) = Cardinality(old) + Cardinality(new) - Cardinality(old \cap new)
  BY <1>4, FS_Union
<1>8. Cardinality(old \cup new) = Cardinality(old) + Cardinality(new)
  BY <1>4, <1>6, <1>7
<1> QED
  BY <1>3, <1>5, <1>8 DEF old

\* A part goes on without writing.
LEMMA ClaimsGoOn ==
    ASSUME CollectionInv, part' = "claims", snapshot # 0,
           UNCHANGED <<clock, snapshot, files_vars>>, ClaimsPart'
    PROVE  CollectionInv'
<1>1. FilesInv'
  BY FilesStay, ClockFacts DEF files_vars
<1> QED
  BY <1>1 DEF CollectionInv, Part

LEMMA SameCover ==
    ASSUME UNCHANGED snapshot
    PROVE  /\ \A r, i : CoveredBy(r, i)' = CoveredBy(r, i)
           /\ \A ubi : ClaimChunks(ubi)' = ClaimChunks(ubi)
           /\ BothChunks' = BothChunks
<1>1. \A r, i : CoveredBy(r, i)' = CoveredBy(r, i)
  BY DEF CoveredBy, Covers
<1>2. \A ubi : ClaimChunks(ubi)' = ClaimChunks(ubi)
  BY DEF ClaimChunks, Chunks
<1> QED
  BY <1>1, <1>2 DEF BothChunks

LEMMA NothingCounted ==
    ASSUME requests = ClaimChunks("ubi"), stage = "ubi"
    PROVE  \A a : Counted(a) = {}
BY DEF Counted, ToAnswer

LEMMA ChunksOfStage ==
    ASSUME ClaimsPart
    PROVE  /\ ToAnswer \subseteq BothChunks /\ requests \subseteq ToAnswer
           /\ \A r \in requests : ToAnswer \ {r} = (requests \ {r}) \cup
                                    (IF stage = "ubi" THEN ClaimChunks("ubinew") ELSE {})
<1>1. requests \subseteq ClaimChunks(stage) /\ stage \in {"ubi", "ubinew"}
  BY DEF ClaimsPart
<1>2. \A r \in ClaimChunks("ubi") : r \notin ClaimChunks("ubinew")
  BY DEF ClaimChunks
<1> QED
  BY <1>1, <1>2 DEF ToAnswer, BothChunks

LEMMA ClaimsAnswer ==
    ASSUME CollectionInv, part = "claims", NEW r \in requests, requests' = requests \ {r},
           addresses' = [k \in DOMAIN addresses \cup {lower(a) : a \in Claimers(r)} |->
                           At(addresses, k) + ClaimsIn(r, k[1])],
           UNCHANGED <<clock, snapshot, runs, finished, part, stage, failed, files_vars>>
    PROVE  CollectionInv'
<1>1. ClaimsPart /\ snapshot # 0
  BY DEF CollectionInv
<1>2. stage' \in {"ubi", "ubinew"} /\ requests' \subseteq ClaimChunks(stage)'
  <2>1. ClaimChunks(stage)' = ClaimChunks(stage)
    BY DEF ClaimChunks, Chunks
  <2> QED
    BY <1>1, <2>1 DEF ClaimsPart
<1>3. ASSUME NEW a \in Accounts PROVE At(addresses, lower(a))' = Cardinality(Counted(a)')
  <2> DEFINE k == lower(a)
             new == Counted(a)'
  <2>1. At(addresses, k) = Cardinality(Counted(a)) /\ Cardinality(Counted(a)) \in Nat
    BY <1>1, IndexSets DEF ClaimsPart, Counted
  <2>2. k[1] = a
    BY DEF lower
  <2>3. ClaimsIn(r, a) \in Nat
    BY ClaimsInOf, IndexSets
  <2>4. At(addresses', k) = At(addresses, k) + ClaimsIn(r, a)
    <3>1. CASE k \in DOMAIN addresses'
      <4>1. addresses'[k] = At(addresses, k) + ClaimsIn(r, k[1])
        BY <3>1
      <4> QED
        BY <2>2, <3>1, <4>1 DEF At
    <3>2. CASE k \notin DOMAIN addresses'
      <4>1. k \notin DOMAIN addresses /\ a \notin Claimers(r)
        BY <3>2
      <4>2. ~(ClaimsIn(r, a) > 0) /\ At(addresses, k) = 0
        BY <4>1 DEF Claimers, At
      <4>3. At(addresses', k) = 0
        BY <3>2 DEF At
      <4> QED
        BY <2>3, <4>2, <4>3
    <3> QED
      BY <3>1, <3>2
  <2>5. r \in BothChunks /\ r \in ToAnswer /\ ToAnswer \subseteq BothChunks
    BY <1>1, ChunksOfStage
  <2>6. ToAnswer' = ToAnswer \ {r}
    BY <1>1, ChunksOfStage, SameCover DEF ToAnswer
  <2>7. new = {i \in DOMAIN ClaimLogs :
                 /\ ClaimLogs[i].from = a
                 /\ \E q \in BothChunks : CoveredBy(q, i)
                 /\ ~ \E q \in ToAnswer \ {r} : CoveredBy(q, i)}
    BY <2>6, SameCover DEF Counted, BothChunks
  <2> HIDE DEF new, k
  <2>8. Cardinality(new) = Cardinality(Counted(a)) + ClaimsIn(r, a)
    BY <2>5, <2>7, AnswerCounts
  <2> QED
    BY <2>1, <2>4, <2>8 DEF new, k
<1>4. ClaimsPart'
  BY <1>2, <1>3 DEF ClaimsPart
<1> QED
  BY <1>1, <1>4, ClaimsGoOn
LEMMA ClaimsStep ==
    ASSUME CollectionInv, getClaimsPerAddress
    PROVE  CollectionInv'
<1>1. CASE Begin("claims", "ubi", ClaimChunks("ubi"))
  <2>1. /\ stage' = "ubi" /\ requests' = ClaimChunks("ubi") /\ part' = "claims" /\ snapshot # 0
        /\ UNCHANGED <<clock, snapshot, addresses, files_vars>> /\ addresses = Empty
    BY <1>1 DEF Begin, CollectionInv
  <2>2. ClaimChunks("ubi")' = ClaimChunks("ubi") /\ \A a : Counted(a)' = {}
    <3>1. ClaimChunks("ubi")' = ClaimChunks("ubi") /\ BothChunks' = BothChunks
      BY <2>1, SameCover
    <3>2. ToAnswer' = BothChunks'
      BY <2>1, <3>1 DEF ToAnswer, BothChunks
    <3> QED
      BY <3>1, <3>2 DEF Counted, BothChunks
  <2>3. \A a : At(addresses, lower(a))' = 0
    BY <2>1 DEF At, Empty
  <2>4. ClaimsPart'
    BY <2>1, <2>2, <2>3, FS_EmptySet DEF ClaimsPart
  <2> QED
    BY <2>1, <2>4, ClaimsGoOn
<1>2. ASSUME part = "claims", NEW r \in requests, requests' = requests \ {r},
             addresses' = [k \in DOMAIN addresses \cup {lower(a) : a \in Claimers(r)} |->
                             At(addresses, k) + ClaimsIn(r, k[1])],
             UNCHANGED <<clock, snapshot, runs, finished, part, stage, failed, files_vars>>
      PROVE  CollectionInv'
  BY <1>2, ClaimsAnswer
<1>3. CASE /\ part = "claims" /\ stage = "ubi" /\ requests = {}
           /\ stage' = "ubinew" /\ requests' = ClaimChunks("ubinew")
           /\ UNCHANGED <<clock, snapshot, runs, finished, part, addresses, failed, files_vars>>
  <2>1. ClaimsPart /\ snapshot # 0
    BY <1>3 DEF CollectionInv
  <2>2. ToAnswer' = ToAnswer
    BY <1>3 DEF ToAnswer
  <2>3. \A a : Counted(a)' = Counted(a)
    BY <1>3, <2>2, SameCover DEF Counted
  <2>4. requests' \subseteq ClaimChunks(stage)'
    BY <1>3, SameCover
  <2>5. ClaimsPart'
    BY <1>3, <2>1, <2>3, <2>4 DEF ClaimsPart
  <2> QED
    BY <1>3, <2>1, <2>5, ClaimsGoOn
<1>4. CASE /\ part = "claims" /\ stage = "ubinew" /\ requests = {}
           /\ Written("claims", addresses)
           /\ UNCHANGED <<clock, snapshot, runs, failedTmp, airdrop>>
  <2> DEFINE file == [at |-> snapshot, data |-> addresses]
  <2>1. ClaimsPart /\ snapshot \in Nat /\ {FirstBlock, OldUBIEnd, NewUBIStart} \subseteq Nat
    BY <1>4, SnapshotFacts, CollectionAssumption DEF CollectionInv
  <2>2. ASSUME NEW a \in Accounts
        PROVE  /\ At(addresses, lower(a)) >= ClaimsOf(a, 0..(snapshot - 1))
               /\ At(addresses, lower(a)) <= ClaimsOf(a, 0..snapshot)
    <3> DEFINE counted == Counted(a)
               before == {i \in DOMAIN ClaimLogs :
                            ClaimLogs[i].from = a /\ ClaimLogs[i].block \in 0..(snapshot - 1)}
               upto == {i \in DOMAIN ClaimLogs :
                            ClaimLogs[i].from = a /\ ClaimLogs[i].block \in 0..snapshot}
    <3>1. ToAnswer = {}
      BY <1>4 DEF ToAnswer
    <3>2. counted = {i \in DOMAIN ClaimLogs : ClaimLogs[i].from = a
                                             /\ \E r \in BothChunks : CoveredBy(r, i)}
      BY <3>1 DEF Counted, BothChunks
    <3>3. ASSUME NEW i \in before PROVE \E r \in BothChunks : CoveredBy(r, i)
      <4> DEFINE u == ClaimLogs[i].ubi
                 n == ClaimLogs[i].block
      <4>1. i \in DOMAIN ClaimLogs /\ n \in Nat /\ n < snapshot /\ u \in {"ubi", "ubinew"}
        BY <2>1, LogFacts
      <4>2. PICK b \in (IF u = "ubi" THEN Chunks(FirstBlock, OldUBIEnd)
                        ELSE Chunks(NewUBIStart, snapshot)) : Covers(b, n)
        <5>1. CASE u = "ubi"
          <6>1. FirstBlock <= n /\ n < OldUBIEnd /\ n <= snapshot
            BY <2>1, <4>1, <5>1, LogFacts
          <6> HIDE DEF n
          <6> QED
            BY <2>1, <4>1, <5>1, <6>1, ChunksCover
        <5>2. CASE u = "ubinew"
          <6>1. NewUBIStart <= n /\ n <= snapshot
            BY <2>1, <4>1, <5>2, LogFacts
          <6> HIDE DEF n
          <6> QED
            BY <2>1, <4>1, <5>2, <6>1, ChunksCover
        <5> QED
          BY <4>1, <5>1, <5>2
      <4>3. <<u, b>> \in BothChunks
        BY <4>1, <4>2 DEF BothChunks, ClaimChunks
      <4>4. CoveredBy(<<u, b>>, i)
        BY <4>2 DEF CoveredBy
      <4> QED
        BY <4>3, <4>4
    <3>4. before \subseteq counted
      BY <3>2, <3>3
    <3>5. counted \subseteq upto
      <4> SUFFICES ASSUME NEW i \in counted PROVE ClaimLogs[i].block \in 0..snapshot
        BY <3>2
      <4>1. ClaimLogs[i].block \in Nat /\ ClaimLogs[i].block <= snapshot
        BY <3>2, LogFacts DEF CoveredBy, Covers
      <4> QED
        BY <2>1, <4>1
    <3>6. /\ counted \in SUBSET (DOMAIN ClaimLogs) /\ before \in SUBSET (DOMAIN ClaimLogs)
          /\ upto \in SUBSET (DOMAIN ClaimLogs)
      BY <3>2
    <3>7. At(addresses, lower(a)) = Cardinality(counted)
      BY <2>1 DEF ClaimsPart
    <3>8. ClaimsOf(a, 0..(snapshot - 1)) = Cardinality(before)
          /\ ClaimsOf(a, 0..snapshot) = Cardinality(upto)
      BY DEF ClaimsOf
    <3> HIDE DEF counted, before, upto
    <3>9. /\ IsFiniteSet(counted) /\ IsFiniteSet(upto)
          /\ {Cardinality(before), Cardinality(counted), Cardinality(upto)} \subseteq Nat
      BY <3>6, IndexSets
    <3>10. Cardinality(before) <= Cardinality(counted) /\ Cardinality(counted) <= Cardinality(upto)
      BY <3>4, <3>5, <3>9, FS_Subset
    <3> QED
      BY <3>7, <3>8, <3>9, <3>10
  <2>3. ClaimsWhole(file)
    BY <2>2 DEF ClaimsWhole
  <2>4. files' = [files EXCEPT !["claims"] = file]
    BY <1>4 DEF Written
  <2> HIDE DEF file
  <2>5. FilesInv'
    BY <1>4, <2>3, <2>4, FileWritten DEF Part
  <2> QED
    BY <1>4, <2>5, OtherPart DEF Written, Idle, CollectionInv
<1> QED
  BY <1>1, <1>2, <1>3, <1>4 DEF getClaimsPerAddress

(* Holders on Fuse *)

LEMMA TransferFacts ==
    \A l \in TransferLogs : l.to \in Accounts /\ l.block \in Nat /\ FirstBlock <= l.block
<1>1. TransferLogs \subseteq [to : Accounts, block : Nat] /\ \A l \in TransferLogs : FirstBlock <= l.block
  BY CollectionAssumption
<1> QED
  BY <1>1

LEMMA HeldIsNat == \A a \in Accounts : EverHeld(a) \subseteq Nat
<1>1. FuseBalance \in [Blocks -> [Accounts -> Nat]]
  BY CollectionAssumption
<1> QED
  BY <1>1 DEF EverHeld

LEMMA RangeAppend ==
    ASSUME NEW S, NEW s \in Seq(S), NEW e \in S
    PROVE  Append(s, e) \in Seq(S) /\ Range(Append(s, e)) = Range(s) \cup {e}
<1>1. Append(s, e) \in Seq(S) /\ Len(Append(s, e)) = Len(s) + 1 /\ Len(s) \in Nat
  OBVIOUS
<1>2. \A i \in 1..Len(s) : Append(s, e)[i] = s[i]
  OBVIOUS
<1>3. Append(s, e)[Len(s) + 1] = e
  OBVIOUS
<1>4. DOMAIN s = 1..Len(s) /\ DOMAIN Append(s, e) = 1..(Len(s) + 1)
  BY <1>1
<1> DEFINE t == Append(s, e)
           n == Len(s)
<1>5. DOMAIN t = DOMAIN s \cup {n + 1} /\ n \in Nat
  BY <1>1, <1>4
<1> HIDE DEF t, n
<1>6. Range(t) = Range(s) \cup {e}
  BY <1>2, <1>3, <1>4, <1>5 DEF Range, t, n
<1> QED
  BY <1>1, <1>6 DEF t

LEMMA FuseGoesOn ==
    ASSUME CollectionInv, part' = "fuse", snapshot # 0,
           UNCHANGED <<clock, snapshot, files_vars>>, FusePart'
    PROVE  CollectionInv'
<1>1. FilesInv'
  BY FilesStay, ClockFacts DEF files_vars
<1> QED
  BY <1>1 DEF CollectionInv, Part

LEMMA FuseBegins ==
    ASSUME CollectionInv,
           Begin("fuse", [addrs |-> {}, listed |-> FALSE], {"logs"} \X Chunks(FirstBlock, snapshot))
    PROVE  CollectionInv'
<1>1. /\ stage' = [addrs |-> {}, listed |-> FALSE] /\ requests' = {"logs"} \X Chunks(FirstBlock, snapshot)
      /\ part' = "fuse" /\ snapshot # 0 /\ addresses = Empty /\ failed = <<>>
      /\ UNCHANGED <<clock, snapshot, addresses, failed, files_vars>>
  BY DEF Begin, CollectionInv
<1>2. FirstBlock \in Nat /\ snapshot \in Nat
  BY SnapshotFacts, CollectionAssumption
<1>3. Chunks(FirstBlock, snapshot) \subseteq Nat
  BY <1>2, ChunksAreRanges, RangeIsNat
<1>4. ASSUME NEW l \in TransferLogs, l.block < snapshot
      PROVE  \E r \in requests' : r[1] = "logs" /\ Covers(r[2], l.block)'
  <2>1. l.block \in Nat /\ FirstBlock <= l.block /\ l.block <= snapshot
    BY <1>2, <1>4, TransferFacts
  <2>2. PICK b \in Chunks(FirstBlock, snapshot) : Covers(b, l.block)
    BY <1>2, <1>4, <2>1, ChunksCover
  <2>3. <<"logs", b>> \in requests'
    BY <1>1
  <2>4. Covers(b, l.block)'
    BY <1>1, <2>2 DEF Covers
  <2> QED
    BY <2>3, <2>4
<1>5. stage'.addrs = {} /\ DOMAIN stage' = {"addrs", "listed"} /\ ~stage'.listed
  BY <1>1
<1>6. DOMAIN addresses' = {}
  BY <1>1 DEF Empty
<1>7. failed' \in Seq(Accounts)
  BY <1>1
<1>8. \A r \in requests' : r \in {"logs"} \X Nat
  BY <1>1, <1>3
<1>9. FusePart'
  BY <1>1, <1>4, <1>5, <1>6, <1>7, <1>8 DEF FusePart
<1> QED
  BY <1>1, <1>9, FuseGoesOn

LEMMA FuseLogs ==
    ASSUME CollectionInv, part = "fuse", NEW r \in requests \cap ({"logs"} \X Int),
           requests' = requests \ {r}, stage' = [stage EXCEPT !.addrs = @ \cup Receivers(r[2])],
           UNCHANGED <<clock, snapshot, runs, finished, part, addresses, failed, files_vars>>
    PROVE  CollectionInv'
<1>1. FusePart /\ snapshot # 0
  BY DEF CollectionInv
<1>2. /\ stage'.addrs = stage.addrs \cup Receivers(r[2])
      /\ DOMAIN stage' = {"addrs", "listed"} /\ ~stage'.listed
  BY <1>1 DEF FusePart
<1>3. Receivers(r[2]) \subseteq Accounts
  BY TransferFacts DEF Receivers
<1>4. \A b, n : Covers(b, n)' = Covers(b, n)
  BY DEF Covers
<1>5. ASSUME NEW l \in TransferLogs, l.block < snapshot
      PROVE  l.to \in stage'.addrs \/ \E q \in requests' : q[1] = "logs" /\ Covers(q[2], l.block)
  <2>1. CASE l.to \in stage.addrs
    BY <1>2, <2>1
  <2>2. ASSUME NEW q \in requests, q[1] = "logs", Covers(q[2], l.block)
        PROVE  l.to \in stage'.addrs \/ q \in requests'
    <3>1. q = r => l.to \in Receivers(r[2])
      BY <2>2 DEF Receivers
    <3> QED
      BY <1>2, <3>1
  <2> QED
    BY <1>1, <1>5, <2>1, <2>2 DEF FusePart
<1>6. \A a : EverHeld(a)' = EverHeld(a)
  BY DEF EverHeld
<1>7. \A q \in requests' : q \in {"logs"} \X Nat \/ q \in {"balance"} \X stage'.addrs
  BY <1>1, <1>2 DEF FusePart
<1>8. FusePart'
  BY <1>1, <1>2, <1>3, <1>4, <1>5, <1>6, <1>7 DEF FusePart
<1> QED
  BY <1>1, <1>8, FuseGoesOn

LEMMA FuseBalances ==
    ASSUME CollectionInv, part = "fuse", requests = {}, addresses = Empty, stage.addrs # {},
           requests' = {"balance"} \X stage.addrs,
           UNCHANGED <<clock, snapshot, runs, finished, part, stage, addresses, failed, files_vars>>
    PROVE  CollectionInv'
<1>1. FusePart /\ snapshot # 0 /\ DOMAIN addresses = {}
  BY DEF CollectionInv, Empty
<1>2. \A b, n : Covers(b, n)' = Covers(b, n)
  BY DEF Covers
<1>3. \A l \in TransferLogs : l.block < snapshot => l.to \in stage.addrs
  BY <1>1 DEF FusePart
<1>5. ~stage.listed
  <2>1. PICK a \in stage.addrs : TRUE
    OBVIOUS
  <2>2. lower(a) \notin DOMAIN addresses
    BY <1>1
  <2> QED
    BY <1>1, <2>1, <2>2 DEF FusePart
<1>4. FusePart'
  BY <1>1, <1>3, <1>5 DEF FusePart
<1> QED
  BY <1>1, <1>4, FuseGoesOn

\* A balance is recorded, as what it is or as 0 and then listed.
LEMMA FuseRecords ==
    ASSUME CollectionInv, part = "fuse", NEW a \in Accounts, <<"balance", a>> \in requests,
           requests' = requests \ {<<"balance", a>>}, NEW n, n \in Nat,
           addresses' = plus(lower(a), n),
           \/ n \in EverHeld(a) /\ failed' = failed
           \/ n = 0 /\ failed' = Append(failed, a),
           UNCHANGED <<clock, snapshot, part, stage, files_vars>>
    PROVE  CollectionInv'
<1>1. FusePart /\ snapshot # 0
  BY DEF CollectionInv
<1>2. lower(a) \notin DOMAIN addresses
  BY <1>1 DEF FusePart
<1>3. At(addresses, lower(a)) = 0
  BY <1>2 DEF At
<1>4. DOMAIN addresses' = DOMAIN addresses \cup {lower(a)}
  BY PlusDomain
<1>5. addresses'[lower(a)] = n
  <2>1. addresses'[lower(a)] = At(addresses, lower(a)) + n
    BY PlusAt
  <2> QED
    BY <1>3, <2>1
<1>6. failed' \in Seq(Accounts) /\ Range(failed) \subseteq Range(failed')
      /\ (n \in EverHeld(a) \/ (n = 0 /\ a \in Range(failed')))
  <2>1. failed \in Seq(Accounts)
    BY <1>1 DEF FusePart
  <2>2. Append(failed, a) \in Seq(Accounts) /\ Range(Append(failed, a)) = Range(failed) \cup {a}
    BY <2>1, RangeAppend
  <2>3. CASE n \in EverHeld(a) /\ failed' = failed
    BY <2>1, <2>3
  <2>4. CASE n = 0 /\ failed' = Append(failed, a)
    BY <2>2, <2>4
  <2> QED
    BY <2>3, <2>4
<1>7. \A c, m : Covers(c, m)' = Covers(c, m)
  BY DEF Covers
<1>8. \A c : EverHeld(c)' = EverHeld(c)
  BY DEF EverHeld
<1>9. \A c \in Accounts : lower(c) = lower(a) => c = a
  BY DEF lower
<1>10. ASSUME NEW c \in Accounts
       PROVE  /\ <<"balance", c>> \in requests' => lower(c) \notin DOMAIN addresses'
              /\ lower(c) \in DOMAIN addresses' =>
                    \/ addresses'[lower(c)] \in EverHeld(c)
                    \/ addresses'[lower(c)] = 0 /\ c \in Range(failed')
  <2>1. CASE c = a
    BY <1>5, <1>6, <2>1
  <2>2. CASE c # a
    <3>1. lower(c) # lower(a)
      BY <1>9, <2>2
    <3>2. lower(c) \in DOMAIN addresses' => lower(c) \in DOMAIN addresses
      BY <1>4, <3>1
    <3>3. <<"balance", c>> \in requests' => <<"balance", c>> \in requests
      OBVIOUS
    <3>4. lower(c) \in DOMAIN addresses =>
             \/ addresses'[lower(c)] \in EverHeld(c)
             \/ addresses'[lower(c)] = 0 /\ c \in Range(failed')
      <4> SUFFICES ASSUME lower(c) \in DOMAIN addresses
                   PROVE  \/ addresses'[lower(c)] \in EverHeld(c)
                          \/ addresses'[lower(c)] = 0 /\ c \in Range(failed')
        OBVIOUS
      <4>1. \/ addresses[lower(c)] \in EverHeld(c)
            \/ addresses[lower(c)] = 0 /\ c \in Range(failed)
        BY <1>1 DEF FusePart
      <4>3. addresses[lower(c)] \in Nat
        BY <4>1, HeldIsNat
      <4>2. addresses'[lower(c)] = addresses[lower(c)] + 0
        <5> DEFINE k == lower(a)
                   x == lower(c)
        <5>1. x \in DOMAIN addresses /\ x # k /\ addresses' = plus(k, n)
          BY <3>1
        <5> HIDE DEF k, x
        <5>2. addresses'[x] = addresses[x] + 0
          BY <5>1, PlusElsewhere
        <5> QED
          BY <5>2 DEF x
      <4> QED
        BY <1>6, <4>1, <4>2, <4>3
    <3> QED
      BY <1>1, <1>6, <3>2, <3>3, <3>4 DEF FusePart
  <2> QED
    BY <2>1, <2>2
<1>11. \A l \in TransferLogs : l.block < snapshot =>
          l.to \in stage.addrs \/ \E r \in requests' : r[1] = "logs" /\ Covers(r[2], l.block)
  BY <1>1 DEF FusePart
<1>13. ~stage.listed
  BY <1>1 DEF FusePart
<1>12. FusePart'
  BY <1>1, <1>6, <1>7, <1>8, <1>10, <1>11, <1>13 DEF FusePart
<1> QED
  BY <1>1, <1>12, FuseGoesOn
\* failed.tmp is written; the balances an earlier process wrote stay as they are.
LEMMA FuseLists ==
    ASSUME CollectionInv, part = "fuse", requests = {},
           DOMAIN addresses = {lower(a) : a \in stage.addrs},
           failedTmp' = [list |-> Range(failed), newer |-> TRUE],
           stage' = [stage EXCEPT !.listed = TRUE],
           UNCHANGED <<clock, snapshot, part, requests, addresses, failed, files>>
    PROVE  CollectionInv'
<1>1. FusePart /\ FilesInv /\ snapshot # 0
  BY DEF CollectionInv
<1>2. \A a : EverHeld(a)' = EverHeld(a)
  BY DEF EverHeld
<1>3. FilesInv'
  BY <1>1, <1>2 DEF FilesInv, Listed
<1>4. stage'.addrs = stage.addrs /\ DOMAIN stage' = {"addrs", "listed"}
  BY <1>1 DEF FusePart
<1>5. \A b, n : Covers(b, n)' = Covers(b, n)
  BY DEF Covers
<1>6. FusePart'
  BY <1>1, <1>2, <1>4, <1>5 DEF FusePart
<1> QED
  BY <1>1, <1>3, <1>6 DEF CollectionInv

\* The balances are written, after the list that belongs to them.
LEMMA FuseWritten ==
    ASSUME CollectionInv, part = "fuse", stage.listed,
           failedTmp' = [failedTmp EXCEPT !.newer = FALSE],
           Written("fuse", addresses), UNCHANGED <<clock, snapshot>>
    PROVE  CollectionInv'
<1>0. PICK file : file = [at |-> snapshot, data |-> addresses]
  OBVIOUS
<1>1. FusePart /\ FilesInv
  BY DEF CollectionInv
<1>2. failedTmp'.list = Range(failed) /\ DOMAIN failedTmp' = DOMAIN failedTmp
  BY <1>1 DEF FusePart, FilesInv
<1>3. ASSUME NEW l \in TransferLogs, l.block < snapshot
      PROVE  /\ lower(l.to) \in DOMAIN addresses
             /\ \/ addresses[lower(l.to)] \in EverHeld(l.to)
                \/ addresses[lower(l.to)] = 0 /\ l.to \in failedTmp'.list
  <2>1. l.to \in stage.addrs /\ l.to \in Accounts
    BY <1>1, <1>3, TransferFacts DEF FusePart
  <2>2. lower(l.to) \in DOMAIN addresses
    BY <1>1, <2>1 DEF FusePart
  <2> QED
    BY <1>1, <1>2, <2>1, <2>2 DEF FusePart
<1>4. \A a : EverHeld(a)' = EverHeld(a)
  BY DEF EverHeld
<1>5. Listed(file)'
  <2>1. file.at = snapshot /\ file.data = addresses
    BY <1>0
  <2> QED
    BY <1>3, <1>4, <2>1 DEF Listed
<1>6. files' = [files EXCEPT !["fuse"] = file]
  BY <1>0 DEF Written
<1>7. FilesInv'
  BY <1>2, <1>5, <1>6, FileWritten DEF Part
<1> QED
  BY <1>7, OtherPart DEF Written, Idle, CollectionInv

LEMMA FuseStep ==
    ASSUME CollectionInv, getFuseHolders
    PROVE  CollectionInv'
<1>1. CASE Begin("fuse", [addrs |-> {}, listed |-> FALSE], {"logs"} \X Chunks(FirstBlock, snapshot))
  BY <1>1, FuseBegins
<1>2. ASSUME part = "fuse", NEW r \in requests \cap ({"logs"} \X Int),
             requests' = requests \ {r}, stage' = [stage EXCEPT !.addrs = @ \cup Receivers(r[2])],
             UNCHANGED <<clock, snapshot, runs, finished, part, addresses, failed, files_vars>>
      PROVE  CollectionInv'
  BY <1>2, FuseLogs
<1>3. CASE /\ part = "fuse" /\ requests = {} /\ addresses = Empty /\ stage.addrs # {}
           /\ requests' = {"balance"} \X stage.addrs
           /\ UNCHANGED <<clock, snapshot, runs, finished, part, stage, addresses, failed, files_vars>>
  BY <1>3, FuseBalances
<1>4. ASSUME part = "fuse", NEW r \in requests \cap ({"balance"} \X Accounts)
      PROVE  /\ r[2] \in Accounts /\ r = <<"balance", r[2]>> /\ <<"balance", r[2]>> \in requests
             /\ FuseBalance[clock][r[2]] \in Nat /\ FuseBalance[clock][r[2]] \in EverHeld(r[2])
  <2>1. r[2] \in Accounts /\ r = <<"balance", r[2]>>
    OBVIOUS
  <2>2. clock \in Blocks /\ clock \in Nat
    BY SnapshotFacts DEF CollectionInv
  <2>3. FuseBalance[clock][r[2]] \in EverHeld(r[2])
    BY <2>2 DEF EverHeld
  <2> QED
    BY <1>4, <2>1, <2>3, HeldIsNat
<1>5. ASSUME part = "fuse", NEW r \in requests \cap ({"balance"} \X Accounts),
             Answered(r, lower(r[2]), FuseBalance[clock][r[2]])
      PROVE  CollectionInv'
  <2> DEFINE a == r[2]
             n == FuseBalance[clock][a]
  <2>1. a \in Accounts /\ r = <<"balance", a>> /\ <<"balance", a>> \in requests
        /\ n \in Nat /\ n \in EverHeld(a)
    BY <1>4, <1>5
  <2>2. /\ requests' = requests \ {r} /\ addresses' = plus(lower(a), n) /\ failed' = failed
        /\ UNCHANGED <<clock, snapshot, part, stage, files_vars>>
    BY <1>5 DEF Answered
  <2> HIDE DEF a, n
  <2> QED
    BY <1>5, <2>1, <2>2, FuseRecords
<1>6. ASSUME part = "fuse", NEW r \in requests \cap ({"balance"} \X Accounts),
             requests' = requests \ {r}, failed' = Unread(r[2]), addresses' = plus(lower(r[2]), 0),
             UNCHANGED <<clock, snapshot, runs, finished, part, stage, files_vars>>
      PROVE  CollectionInv'
  <2> DEFINE a == r[2]
  <2>1. a \in Accounts /\ r = <<"balance", a>> /\ <<"balance", a>> \in requests
    BY <1>4, <1>6
  <2>2. /\ requests' = requests \ {r} /\ addresses' = plus(lower(a), 0) /\ failed' = Append(failed, a)
        /\ UNCHANGED <<clock, snapshot, part, stage, files_vars>>
    BY <1>6 DEF Unread
  <2> HIDE DEF a
  <2> QED
    BY <1>6, <2>1, <2>2, FuseRecords
<1>7. CASE /\ part = "fuse" /\ requests = {} /\ DOMAIN addresses = {lower(a) : a \in stage.addrs}
           /\ ~stage.listed
           /\ failedTmp' = [list |-> Range(failed), newer |-> TRUE]
           /\ stage' = [stage EXCEPT !.listed = TRUE]
           /\ UNCHANGED <<clock, snapshot, runs, finished, part, requests, addresses, failed,
                          files, airdrop>>
  BY <1>7, FuseLists
<1>8. CASE /\ part = "fuse" /\ stage.listed
           /\ failedTmp' = [failedTmp EXCEPT !.newer = FALSE]
           /\ Written("fuse", addresses)
           /\ UNCHANGED <<clock, snapshot, runs, airdrop>>
  BY <1>8, FuseWritten
<1> QED
  BY <1>1, <1>2, <1>3, <1>5, <1>6, <1>7, <1>8 DEF getFuseHolders
(* The collection as a whole *)

LEMMA Init_CollectionInv == Init => CollectionInv
<1> SUFFICES ASSUME Init
             PROVE  CollectionInv
  OBVIOUS
<1>1. /\ files = [p \in Part |-> NoFile] /\ {"claims", "fuse", "fuseswap"} \subseteq Part
      /\ DOMAIN failedTmp = {"list", "newer"}
  BY DEF Init, Part
<1>2. FilesInv
  BY <1>1 DEF FilesInv, ClaimsWhole, FarmOut, Listed
<1> QED
  BY <1>2 DEF Init, CollectionInv

LEMMA NextBlockStep ==
    ASSUME CollectionInv, NextBlock
    PROVE  CollectionInv'
<1>1. clock' \in Blocks /\ clock' \in Nat /\ clock <= clock'
      /\ UNCHANGED <<snapshot, part, stage, requests, addresses, failed, files, failedTmp>>
  BY SnapshotFacts, CollectionAssumption DEF NextBlock, part_vars, files_vars
<1>2. FilesInv'
  BY <1>1, FilesStay
<1>3. part = "fuseswap" => FarmPart'
  BY <1>1 DEF CollectionInv, FarmPart
<1>4. part = "claims" => ClaimsPart'
  <2>1. SUFFICES ASSUME part = "claims"
                 PROVE  ClaimsPart'
    OBVIOUS
  <2>2. ClaimsPart
    BY <2>1 DEF CollectionInv
  <2>3. ToAnswer' = ToAnswer
    BY <1>1, SameCover DEF ToAnswer
  <2>4. \A a : Counted(a)' = Counted(a)
    BY <1>1, <2>3, SameCover DEF Counted
  <2>5. requests' \subseteq ClaimChunks(stage)'
    BY <1>1, <2>2, SameCover DEF ClaimsPart
  <2> QED
    BY <1>1, <2>2, <2>4, <2>5 DEF ClaimsPart
<1>5. part = "fuse" => FusePart'
  <2>1. SUFFICES ASSUME part = "fuse"
                 PROVE  FusePart'
    OBVIOUS
  <2>2. FusePart
    BY <2>1 DEF CollectionInv
  <2>3. \A a : EverHeld(a) \subseteq EverHeld(a)'
    BY <1>1, HeldGrows
  <2>4. \A b, n : Covers(b, n)' = Covers(b, n)
    BY <1>1 DEF Covers
  <2> QED
    BY <1>1, <2>2, <2>3, <2>4 DEF FusePart
<1> QED
  BY <1>1, <1>2, <1>3, <1>4, <1>5 DEF CollectionInv

LEMMA ProcessStep ==
    ASSUME CollectionInv,
           \/ \E s \in Snapshots : collectAirdropData(s)
           \/ Exit
           \/ buildMerkleTree
    PROVE  CollectionInv'
<1>1. UNCHANGED <<clock, files, failedTmp>> /\ snapshot' \in Snapshots \cup {0}
  BY DEF collectAirdropData, Exit, buildMerkleTree, files_vars, CollectionInv
<1>2. part' = "none" /\ addresses' = Empty /\ failed' = <<>>
  BY DEF collectAirdropData, Exit, buildMerkleTree, Idle, part_vars, CollectionInv
<1>3. FilesInv'
  BY <1>1, FilesStay, ClockFacts
<1> QED
  BY <1>1, <1>2, <1>3, OtherPart

LEMMA CollectionStutters ==
    ASSUME CollectionInv, UNCHANGED collection_vars
    PROVE  CollectionInv'
<1>1. UNCHANGED <<clock, snapshot, part, stage, requests, addresses, failed, files, failedTmp>>
  BY DEF collection_vars, part_vars, files_vars
<1>2. FilesInv'
  BY <1>1, FilesStay, ClockFacts
<1>3. part = "fuseswap" => FarmPart'
  BY <1>1 DEF CollectionInv, FarmPart
<1>4. part = "claims" => ClaimsPart'
  BY <1>1 DEF CollectionInv, ClaimsPart, Counted, CoveredBy, Covers, ToAnswer, ClaimChunks, Chunks
<1>5. part = "fuse" => FusePart'
  BY <1>1 DEF CollectionInv, FusePart, EverHeld, Covers
<1> QED
  BY <1>1, <1>2, <1>3, <1>4, <1>5 DEF CollectionInv

LEMMA CollectionInvariant == Spec => []CollectionInv
<1>1. CollectionInv /\ [Next]_collection_vars => CollectionInv'
  <2> SUFFICES ASSUME CollectionInv, [Next]_collection_vars
               PROVE  CollectionInv'
    OBVIOUS
  <2>1. CASE NextBlock
    BY <2>1, NextBlockStep
  <2>2. CASE (\E s \in Snapshots : collectAirdropData(s)) \/ Exit \/ buildMerkleTree
    BY <2>2, ProcessStep
  <2>3. CASE getUniswapBalances
    BY <2>3, UniswapStep
  <2>4. CASE getFuseSwapBalances
    BY <2>4, FarmStep
  <2>5. CASE getClaimsPerAddress
    BY <2>5, ClaimsStep
  <2>6. CASE getEthPlorerHolders
    BY <2>6, EthStep
  <2>7. CASE getFuseHolders
    BY <2>7, FuseStep
  <2>8. CASE getStakersBalance
    BY <2>8, StakersStep
  <2>9. CASE UNCHANGED collection_vars
    BY <2>9, CollectionStutters
  <2> QED
    BY <2>1, <2>2, <2>3, <2>4, <2>5, <2>6, <2>7, <2>8, <2>9 DEF Next
<1> QED
  BY <1>1, Init_CollectionInv, PTL DEF Spec

\* collectAirdropData: in whatever order the pools of getClaimsPerAddress and
\* getFuseHolders answer, with queries that overlap, reads that fail and
\* processes that die, a file that was written counts every claim once and has
\* a record of every receiver: what it held, or 0, and then it is in failed.tmp
\* unless that file is of a later process that has not written its balances.
THEOREM CollectedFilesAreWhole == Spec => []FilesAreWhole
<1>1. CollectionInv => FilesAreWhole
  BY FilesArePromised DEF CollectionInv
<1> QED
  BY <1>1, CollectionInvariant, PTL

\* getFuseSwapBalances: nobody waits for the positions, and yet no file that
\* was written has a record of the farming contract: it is written before the
\* first share of the farm was added, or that record is dropped.
THEOREM FarmIsLeftOut == Spec => []FarmGetsNothing
<1>1. CollectionInv => FarmGetsNothing
  BY FilesArePromised DEF CollectionInv
<1> QED
  BY <1>1, CollectionInvariant, PTL

(* The tree of the airdrop *)

\* InOrder lists every member of a finite set once, whatever the order.
LEMMA EachInOrder ==
    ASSUME NEW S, IsFiniteSet(S), NEW R,
           \A i \in S : <<i, i>> \notin R,
           \A i, j, k \in S : <<i, j>> \in R /\ <<j, k>> \in R => <<i, k>> \in R,
           \A i, j \in S : i # j => <<i, j>> \in R \/ <<j, i>> \in R
    PROVE  /\ Cardinality(S) \in Nat /\ DOMAIN InOrder(S, R) = 1 .. Cardinality(S)
           /\ \A n \in 1 .. Cardinality(S) : InOrder(S, R)[n] \in S
           /\ \A n, m \in 1 .. Cardinality(S) : InOrder(S, R)[n] = InOrder(S, R)[m] => n = m
           /\ \A i \in S : \E n \in 1 .. Cardinality(S) : InOrder(S, R)[n] = i
<1> DEFINE N == Cardinality(S)
           Before(i) == {j \in S : <<j, i>> \in R}
           place == [i \in S |-> Cardinality(Before(i)) + 1]
<1>1. N \in Nat
  BY FS_CardinalityType
<1>2. ASSUME NEW i \in S
      PROVE  /\ IsFiniteSet(Before(i)) /\ Cardinality(Before(i)) \in Nat
             /\ Cardinality(Before(i)) + 1 \in 1 .. N
  <2>1. IsFiniteSet(S \ {i}) /\ Cardinality(S \ {i}) = N - 1
    BY FS_RemoveElement
  <2>2. Before(i) \in SUBSET (S \ {i})
    OBVIOUS
  <2>3. IsFiniteSet(Before(i)) /\ Cardinality(Before(i)) <= N - 1
    <3> DEFINE B == Before(i)
               C == S \ {i}
    <3>1. B \in SUBSET C /\ IsFiniteSet(C) /\ Cardinality(C) = N - 1
      BY <2>1, <2>2
    <3> HIDE DEF B, C
    <3>2. IsFiniteSet(B) /\ Cardinality(B) <= Cardinality(C)
      BY <3>1, FS_Subset
    <3> QED
      BY <3>1, <3>2 DEF B
  <2>4. Cardinality(Before(i)) \in Nat
    BY <2>3, FS_CardinalityType
  <2> QED
    BY <1>1, <2>3, <2>4
<1>3. ASSUME NEW i \in S, NEW j \in S, <<i, j>> \in R
      PROVE  place[i] < place[j]
  <2>1. Before(i) \union {i} \in SUBSET Before(j) /\ i \notin Before(i)
    BY <1>3
  <2>2. Cardinality(Before(i) \union {i}) = Cardinality(Before(i)) + 1
    BY <1>2, <2>1, FS_AddElement
  <2>3. Cardinality(Before(i) \union {i}) <= Cardinality(Before(j))
    BY <1>2, <2>1, FS_Subset
  <2>4. place[i] = Cardinality(Before(i)) + 1 /\ place[j] = Cardinality(Before(j)) + 1
    OBVIOUS
  <2>5. Cardinality(Before(i)) \in Nat /\ Cardinality(Before(j)) \in Nat
    BY <1>2
  <2> HIDE DEF place, Before
  <2> QED
    BY <2>2, <2>3, <2>4, <2>5
<1>4. place \in [S -> 1 .. N]
  BY <1>2
<1>5. \A i, j \in S : place[i] = place[j] => i = j
  <2> SUFFICES ASSUME NEW i \in S, NEW j \in S, i # j PROVE place[i] # place[j]
    OBVIOUS
  <2>1. place[i] < place[j] \/ place[j] < place[i]
    BY <1>3
  <2>2. place[i] \in Nat /\ place[j] \in Nat
    BY <1>4
  <2> HIDE DEF place
  <2> QED
    BY <2>1, <2>2
<1>6. \A n \in 1 .. N : \E i \in S : place[i] = n
  <2>1. place \in Injection(S, 1 .. N)
    BY <1>4, <1>5 DEF Injection, IsInjective
  <2>2. IsFiniteSet(1 .. N) /\ Cardinality(1 .. N) = N
    BY <1>1, FS_Interval
  <2>3. place \in Surjection(S, 1 .. N)
    BY <2>1, <2>2, FS_Injection
  <2> HIDE DEF place
  <2> QED
    BY <2>3 DEF Surjection
<1>7. ASSUME NEW n \in 1 .. N
      PROVE  InOrder(S, R)[n] \in S /\ place[InOrder(S, R)[n]] = n
  <2>1. InOrder(S, R)[n] = CHOOSE i \in S : Cardinality(Before(i)) = n - 1
    BY DEF InOrder
  <2>2. PICK i \in S : place[i] = n
    BY <1>6
  <2>3. \A j \in S : place[j] = n <=> Cardinality(Before(j)) = n - 1
    <3>1. \A j \in S : Cardinality(Before(j)) \in Nat /\ place[j] = Cardinality(Before(j)) + 1
      BY <1>2
    <3> HIDE DEF place, Before
    <3> QED
      BY <1>1, <3>1
  <2> HIDE DEF place, Before
  <2> QED
    BY <2>1, <2>2, <2>3
<1>8. DOMAIN InOrder(S, R) = 1 .. N
  BY DEF InOrder
<1> HIDE DEF place
<1>9. ASSUME NEW i \in S PROVE \E n \in 1 .. N : InOrder(S, R)[n] = i
  <2>1. place[i] \in 1 .. N
    BY <1>4
  <2> QED
    BY <1>5, <1>7, <2>1
<1> QED
  BY <1>1, <1>7, <1>8, <1>9

\* Numbers in their order.
LEMMA InOrderOfNumbers ==
    ASSUME NEW N \in Nat, NEW R, \A i, j \in 1 .. N : <<i, j>> \in R <=> i < j
    PROVE  DOMAIN InOrder(1 .. N, R) = 1 .. N /\ \A n \in 1 .. N : InOrder(1 .. N, R)[n] = n
<1>1. Cardinality(1 .. N) = N
  BY FS_Interval
<1>2. DOMAIN InOrder(1 .. N, R) = 1 .. N
  BY <1>1 DEF InOrder
<1>3. ASSUME NEW i \in 1 .. N
      PROVE  Cardinality({j \in 1 .. N : <<j, i>> \in R}) = i - 1
  <2>1. {j \in 1 .. N : <<j, i>> \in R} = 1 .. (i - 1)
    OBVIOUS
  <2>2. Cardinality(1 .. (i - 1)) = i - 1
    BY FS_Interval
  <2> QED
    BY <2>1, <2>2
<1>4. ASSUME NEW n \in 1 .. N PROVE InOrder(1 .. N, R)[n] = n
  <2>1. InOrder(1 .. N, R)[n]
          = CHOOSE i \in 1 .. N : Cardinality({j \in 1 .. N : <<j, i>> \in R}) = n - 1
    BY <1>1 DEF InOrder
  <2>2. \A i \in 1 .. N : Cardinality({j \in 1 .. N : <<j, i>> \in R}) = n - 1 <=> i = n
    BY <1>3
  <2> QED
    BY <2>1, <2>2
<1> QED
  BY <1>2, <1>4

\* Leaves, each with a key of its own, are saved as they are.
Apart(t) == \A i, j \in DOMAIN t : t[i].key = t[j].key => i = j
LEMMA SavedAsBuilt ==
    ASSUME NEW t, NEW N \in Nat, t = [n \in 1 .. N |-> t[n]], Apart(t)
    PROVE  treeData(t) = t /\ \A i \in DOMAIN t : getProof(t, t[i].key).index = i
<1>1. DOMAIN t = 1 .. N
  OBVIOUS
<1> DEFINE first == {i \in DOMAIN t : \A j \in 1 .. (i - 1) : t[j].key # t[i].key}
           last(k) == CHOOSE j \in DOMAIN t : /\ t[j].key = k
                                              /\ \A h \in DOMAIN t : t[h].key = k => h <= j
           R == {p \in first \X first : p[1] < p[2]}
<1>2. first = 1 .. N
  <2>1. \A i \in 1 .. N : \A j \in 1 .. (i - 1) : j \in 1 .. N /\ j # i
    OBVIOUS
  <2> QED
    BY <1>1, <2>1 DEF Apart
<1>3. \A n \in 1 .. N : last(t[n].key) = n
  <2> SUFFICES ASSUME NEW n \in 1 .. N PROVE last(t[n].key) = n
    OBVIOUS
  <2>1. \A j \in DOMAIN t : t[j].key = t[n].key <=> j = n
    BY <1>1 DEF Apart
  <2> QED
    BY <1>1, <2>1
<1>4. \A i, j \in 1 .. N : <<i, j>> \in R <=> i < j
  BY <1>2
<1>5. treeData(t) = [n \in DOMAIN InOrder(first, R) |-> t[last(t[InOrder(first, R)[n]].key)]]
  BY DEF treeData
<1> HIDE DEF first, last, R
<1>6. /\ DOMAIN InOrder(first, R) = 1 .. N
      /\ \A n \in 1 .. N : InOrder(first, R)[n] = n
  BY <1>2, <1>4, InOrderOfNumbers
<1>7. treeData(t) = t
  <2>1. treeData(t) = [n \in 1 .. N |-> t[n]]
    BY <1>3, <1>5, <1>6
  <2> QED
    BY <2>1
<1>8. ASSUME NEW n \in 1 .. N PROVE getProof(t, t[n].key).index = n
  <2> DEFINE I == {i \in 1 .. Len(t) : t[i].key = t[n].key}
  <2>1. Len(t) = N
    BY <1>1
  <2>2. I = {n}
    BY <1>1, <2>1 DEF Apart
  <2>3. SelectInSeq(t, LAMBDA l : l.key = t[n].key) = IF I # {} THEN Min(I) ELSE 0
    BY DEF SelectInSeq
  <2>4. Min({n}) = n
    BY DEF Min
  <2>5. SelectInSeq(t, LAMBDA l : l.key = t[n].key) = n
    BY <2>2, <2>3, <2>4
  <2> QED
    BY <2>5 DEF getProof
<1> QED
  BY <1>1, <1>7, <1>8
Tree(t) == t \in Seq([key : Key, rep : Int]) /\ Apart(t)
Reps(t) == [i \in DOMAIN t |-> t[i].rep]
Keys(t) == {t[i].key : i \in DOMAIN t}
Positive(t) == \A i \in DOMAIN t : t[i].rep \in Nat

\* What every leaf is, and its place.
LEMMA TreeFacts ==
    ASSUME NEW t, Tree(t)
    PROVE  /\ Len(t) \in Nat /\ DOMAIN t = 1 .. Len(t) /\ IsFiniteSet(DOMAIN t)
           /\ \A i \in DOMAIN t : t[i].key \in Key /\ t[i].rep \in Int
           /\ DOMAIN Reps(t) = DOMAIN t /\ \A i \in DOMAIN t : Reps(t)[i] = t[i].rep
           /\ Sum(Reps(t)) \in Int
<1> DEFINE L == [key : Key, rep : Int]
<1>0. t \in Seq(L) /\ \A l \in L : l.key \in Key /\ l.rep \in Int
  BY DEF Tree
<1> HIDE DEF L
<1>1. Len(t) \in Nat /\ DOMAIN t = 1 .. Len(t)
      /\ \A i \in DOMAIN t : t[i].key \in Key /\ t[i].rep \in Int
  <2>1. Len(t) \in Nat /\ DOMAIN t = 1 .. Len(t) /\ \A i \in DOMAIN t : t[i] \in L
    BY <1>0
  <2> QED
    BY <1>0, <2>1
<1>2. IsFiniteSet(DOMAIN t)
  <2>1. IsFiniteSet(1 .. Len(t))
    BY <1>1, FS_Interval
  <2> QED
    BY <1>1, <2>1
<1>3. DOMAIN Reps(t) = DOMAIN t /\ \A i \in DOMAIN t : Reps(t)[i] = t[i].rep
  BY DEF Reps
<1>4. Sum(Reps(t)) \in Int
  BY <1>1, <1>2, <1>3, SumType DEF Sum
<1> QED
  BY <1>1, <1>2, <1>3, <1>4

\* sortBy, reverse and filter: leaves with a key of their own stay so, and all
\* that is handed is still there when no leaf is negative.
LEMMA SortedTree ==
    ASSUME NEW t, Tree(t)
    PROVE  /\ \E N \in Nat : Ranked(t) = [n \in 1 .. N |-> Ranked(t)[n]]
           /\ Apart(Ranked(t))
           /\ Positive(t) => Sum(Reps(Ranked(t))) = Sum(Reps(t))
<1> DEFINE kept == {i \in DOMAIN t : t[i].rep > 0}
           order == InOrder(kept, Larger(t))
           N == Cardinality(kept)
<1>1. /\ IsFiniteSet(DOMAIN t) /\ IsFiniteSet(kept) /\ DOMAIN t \subseteq Nat
      /\ \A i \in DOMAIN t : t[i].rep \in Int
  <2>1. kept \in SUBSET DOMAIN t
    OBVIOUS
  <2> QED
    BY <2>1, TreeFacts, FS_Subset
<1>2. \A i, j \in kept : <<i, j>> \in Larger(t)
                           <=> t[i].rep > t[j].rep \/ (t[i].rep = t[j].rep /\ i > j)
  BY DEF Larger
<1>3. /\ \A i \in kept : <<i, i>> \notin Larger(t)
      /\ \A i, j, k \in kept :
            <<i, j>> \in Larger(t) /\ <<j, k>> \in Larger(t) => <<i, k>> \in Larger(t)
      /\ \A i, j \in kept : i # j => <<i, j>> \in Larger(t) \/ <<j, i>> \in Larger(t)
  <2>1. \A i \in kept : i \in Nat /\ t[i].rep \in Int
    BY <1>1
  <2> HIDE DEF kept
  <2> QED
    BY <1>2, <2>1
<1> HIDE DEF kept
<1>4. /\ N \in Nat /\ DOMAIN order = 1 .. N
      /\ \A n \in 1 .. N : order[n] \in kept
      /\ \A n, m \in 1 .. N : order[n] = order[m] => n = m
      /\ \A i \in kept : \E n \in 1 .. N : order[n] = i
  <2> DEFINE R == Larger(t)
  <2>1. /\ \A i \in kept : <<i, i>> \notin R
        /\ \A i, j, k \in kept : <<i, j>> \in R /\ <<j, k>> \in R => <<i, k>> \in R
        /\ \A i, j \in kept : i # j => <<i, j>> \in R \/ <<j, i>> \in R
    BY <1>3
  <2> HIDE DEF R
  <2>2. /\ Cardinality(kept) \in Nat /\ DOMAIN InOrder(kept, R) = 1 .. Cardinality(kept)
        /\ \A n \in 1 .. Cardinality(kept) : InOrder(kept, R)[n] \in kept
        /\ \A n, m \in 1 .. Cardinality(kept) :
              InOrder(kept, R)[n] = InOrder(kept, R)[m] => n = m
        /\ \A i \in kept : \E n \in 1 .. Cardinality(kept) : InOrder(kept, R)[n] = i
    BY <1>1, <2>1, EachInOrder
  <2> QED
    BY <2>2 DEF R
<1>5. Ranked(t) = [n \in DOMAIN order |-> t[order[n]]]
  BY DEF Ranked, kept
<1> HIDE DEF order, N
<1>6. Ranked(t) = [n \in 1 .. N |-> t[order[n]]]
  BY <1>4, <1>5
<1>7. \E n \in Nat : Ranked(t) = [i \in 1 .. n |-> Ranked(t)[i]]
  BY <1>4, <1>6
<1>8. Apart(Ranked(t))
  <2>1. kept \subseteq DOMAIN t
    BY DEF kept
  <2> QED
    BY <1>4, <1>6, <2>1 DEF Apart, Tree
<1>9. ASSUME Positive(t) PROVE Sum(Reps(Ranked(t))) = Sum(Reps(t))
  <2> DEFINE f == Reps(t)
             g == Reps(Ranked(t))
             rest == DOMAIN t \ kept
  <2>1. /\ DOMAIN g = 1 .. N /\ \A n \in 1 .. N : g[n] = f[order[n]]
        /\ DOMAIN f = DOMAIN t /\ \A i \in DOMAIN t : f[i] = t[i].rep /\ f[i] \in Int
        /\ kept \subseteq DOMAIN t
    <3>1. kept \subseteq DOMAIN t
      BY DEF kept
    <3> QED
      BY <1>1, <1>4, <1>6, <3>1 DEF Reps
  <2> HIDE DEF f, g
  <2>2. {order[n] : n \in 1 .. N} = kept
    BY <1>4
  <2>3. SumFunctionOnSet(f, {order[n] : n \in 1 .. N}) = SumFunctionOnSet(g, 1 .. N)
    <3>1. IsFiniteSet(1 .. N)
      BY <1>4, FS_Interval
    <3>2. \A n \in 1 .. N : g[n] = f[order[n]] /\ f[order[n]] \in Int
      BY <1>4, <2>1
    <3> QED
      BY <1>4, <3>1, <3>2, SumOfImages
  <2>4. SumFunctionOnSet(f, rest) = 0 /\ IsFiniteSet(rest)
    <3>1. IsFiniteSet(rest)
      BY <1>1, FS_Subset
    <3>2. \A i \in rest : f[i] = 0
      <4> SUFFICES ASSUME NEW i \in rest PROVE f[i] = 0
        OBVIOUS
      <4>1. t[i].rep \in Nat /\ ~(t[i].rep > 0) /\ f[i] = t[i].rep
        BY <1>9, <2>1 DEF kept, Positive
      <4> QED
        BY <4>1
    <3> HIDE DEF rest
    <3> QED
      BY <3>1, <3>2, SumOfZeros
  <2>5. SumFunctionOnSet(f, DOMAIN t) = SumFunctionOnSet(f, kept) + SumFunctionOnSet(f, rest)
    <3>1. kept \union rest = DOMAIN t /\ kept \intersect rest = {}
      BY <2>1
    <3>2. \A i \in kept \union rest : f[i] \in Int
      BY <2>1
    <3> HIDE DEF rest
    <3>3. SumFunctionOnSet(f, kept \union rest)
            = SumFunctionOnSet(f, kept) + SumFunctionOnSet(f, rest)
      BY <1>1, <2>4, <3>1, <3>2, SumOfParts
    <3> QED
      BY <3>1, <3>3
  <2>6. SumFunctionOnSet(f, kept) \in Int
    <3>1. \A i \in kept : f[i] \in Int
      BY <2>1
    <3> QED
      BY <1>1, <3>1, SumType
  <2>7. SumFunctionOnSet(f, DOMAIN t) = SumFunctionOnSet(g, 1 .. N)
    <3>1. SumFunctionOnSet(f, kept) = SumFunctionOnSet(g, 1 .. N)
      BY <2>2, <2>3
    <3> QED
      BY <2>4, <2>5, <2>6, <3>1
  <2> QED
    BY <2>1, <2>7 DEF Sum, f, g
<1> QED
  BY <1>7, <1>8, <1>9

\* A leaf with a new key.
LEMMA AddedLeaf ==
    ASSUME NEW t, Tree(t), NEW k \in Key, k \notin Keys(t), NEW n \in Int
    PROVE  /\ Tree(Append(t, Leaf(k, n)))
           /\ Keys(Append(t, Leaf(k, n))) = Keys(t) \union {k}
           /\ Sum(Reps(Append(t, Leaf(k, n)))) = Sum(Reps(t)) + n
           /\ Positive(t) /\ n \in Nat => Positive(Append(t, Leaf(k, n)))
<1> DEFINE l == Leaf(k, n)
           s == Append(t, l)
           N == Len(t)
<1>1. l.key = k /\ l.rep = n /\ l \in [key : Key, rep : Int]
  BY DEF Leaf
<1> HIDE DEF l
<1>2. t \in Seq([key : Key, rep : Int]) /\ N \in Nat /\ DOMAIN t = 1 .. N
  BY TreeFacts DEF Tree
<1>3. /\ s \in Seq([key : Key, rep : Int]) /\ DOMAIN s = 1 .. (N + 1)
      /\ \A i \in 1 .. N : s[i] = t[i]
      /\ s[N + 1] = l
  BY <1>1, <1>2
<1> HIDE DEF s, N
<1>4. \A i \in DOMAIN s : i \in DOMAIN t \/ i = N + 1
  BY <1>2, <1>3
<1>5. DOMAIN s = DOMAIN t \union {N + 1} /\ N + 1 \notin DOMAIN t
  BY <1>2, <1>3
<1>6. Apart(s)
  <2>1. Apart(t)
    BY DEF Tree
  <2>2. \A i \in DOMAIN t : s[i].key = t[i].key /\ t[i].key # k
    BY <1>2, <1>3 DEF Keys
  <2>3. s[N + 1].key = k
    BY <1>1, <1>3
  <2> QED
    BY <1>4, <2>1, <2>2, <2>3 DEF Apart
<1>7. Keys(s) = Keys(t) \union {k}
  BY <1>1, <1>2, <1>3, <1>5 DEF Keys
<1>8. Sum(Reps(s)) = Sum(Reps(t)) + n
  <2> DEFINE f == Reps(t)
             g == Reps(s)
  <2>1. /\ DOMAIN g = DOMAIN s /\ \A i \in DOMAIN t : g[i] = f[i] /\ g[i] \in Int
        /\ g[N + 1] = n /\ DOMAIN f = DOMAIN t
    BY <1>1, <1>2, <1>3, <1>5, TreeFacts DEF Reps
  <2> HIDE DEF f, g
  <2>2. IsFiniteSet(DOMAIN t)
    BY TreeFacts
  <2>3. SumFunctionOnSet(g, DOMAIN t \union {N + 1}) = SumFunctionOnSet(g, DOMAIN t) + g[N + 1]
    <3>1. \A i \in DOMAIN t \union {N + 1} : g[i] \in Int
      BY <2>1
    <3> QED
      BY <1>5, <2>2, <3>1, SumAdd
  <2>4. SumFunctionOnSet(g, DOMAIN t) = SumFunctionOnSet(f, DOMAIN t)
    BY <2>1, <2>2, SumOfSame
  <2> QED
    BY <1>5, <2>1, <2>3, <2>4 DEF Sum, f, g
<1>9. Positive(t) /\ n \in Nat => Positive(s)
  BY <1>1, <1>2, <1>3, <1>4 DEF Positive
<1> QED
  BY <1>3, <1>6, <1>7, <1>8, <1>9 DEF Tree, s, l
\* The first leaf of a key is raised, or a new one is added.
LEMMA RaisedLeaf ==
    ASSUME NEW t, Tree(t), NEW k \in Key, NEW n \in Int
    PROVE  /\ Tree(Raised(t, k, n))
           /\ Keys(Raised(t, k, n)) = Keys(t) \union {k}
           /\ Sum(Reps(Raised(t, k, n))) = Sum(Reps(t)) + n
           /\ Positive(t) /\ n \in Nat => Positive(Raised(t, k, n))
<1>1. CASE ~\E i \in DOMAIN t : t[i].key = k
  <2>1. Raised(t, k, n) = Append(t, Leaf(k, n)) /\ k \notin Keys(t)
    BY <1>1 DEF Raised, Keys
  <2> QED
    BY <2>1, AddedLeaf
<1>2. CASE \E i \in DOMAIN t : t[i].key = k
  <2> DEFINE I == {i \in 1 .. Len(t) : t[i].key = k}
             L == [key : Key, rep : Int]
             at == SelectInSeq(t, LAMBDA l : l.key = k)
             s == Raised(t, k, n)
             m == t[at].rep + n
             l == [t[at] EXCEPT !.rep = m]
  <2>1. /\ t \in Seq(L) /\ Apart(t) /\ DOMAIN t = 1 .. Len(t) /\ IsFiniteSet(DOMAIN t)
        /\ \A i \in DOMAIN t : t[i].key \in Key /\ t[i].rep \in Int
    BY TreeFacts DEF Tree
  <2>2. PICK j \in DOMAIN t : t[j].key = k
    BY <1>2
  <2>3. I = {j}
    BY <2>1, <2>2 DEF Apart
  <2>4. at = IF I # {} THEN Min(I) ELSE 0
    BY DEF SelectInSeq
  <2>5. Min({j}) = j
    BY DEF Min
  <2>6. at = j
    BY <2>3, <2>4, <2>5
  <2>7. s = [t EXCEPT ![at].rep = @ + n]
    BY <1>2 DEF Raised
  <2> HIDE DEF at
  <2>8. t[j] \in L /\ m \in Int
    <3>1. t[j] \in L
      <4> HIDE DEF L
      <4> QED
        BY <2>1, <2>2
    <3>2. t[j].rep \in Int
      BY <2>1, <2>2
    <3> QED
      BY <2>6, <3>1, <3>2
  <2>9. l \in L /\ l.key = k /\ l.rep = m
    BY <2>2, <2>6, <2>8
  <2>10. /\ DOMAIN s = DOMAIN t /\ s[j] = l /\ \A i \in DOMAIN t \ {j} : s[i] = t[i]
         /\ s = [t EXCEPT ![j] = l]
    BY <2>6, <2>7
  <2> HIDE DEF s, l, I
  <2>11. s \in Seq(L)
    <3> HIDE DEF L
    <3> QED
      BY <2>1, <2>9, <2>10
  <2>12. \A i \in DOMAIN t : s[i].key = t[i].key
    BY <2>2, <2>9, <2>10
  <2>13. Tree(s)
    BY <2>1, <2>10, <2>11, <2>12 DEF Tree, Apart
  <2>14. Keys(s) = Keys(t) \union {k}
    BY <2>2, <2>10, <2>12 DEF Keys
  <2>15. Sum(Reps(s)) = Sum(Reps(t)) + n
    <3> DEFINE f == Reps(t)
               g == Reps(s)
    <3>1. /\ DOMAIN f = DOMAIN t /\ DOMAIN g = DOMAIN t
          /\ \A i \in DOMAIN t : f[i] \in Int /\ g[i] \in Int
          /\ \A i \in DOMAIN t \ {j} : g[i] = f[i]
          /\ f[j] = t[j].rep /\ g[j] = m
      BY <2>1, <2>2, <2>8, <2>9, <2>10 DEF Reps
    <3> HIDE DEF f, g
    <3>2. SumFunctionOnSet(g, DOMAIN t) = SumFunctionOnSet(f, DOMAIN t) - f[j] + g[j]
      <4> DEFINE D == DOMAIN t
      <4>1. /\ IsFiniteSet(D) /\ j \in D
            /\ \A i \in D : f[i] \in Int /\ g[i] \in Int
            /\ \A i \in D \ {j} : g[i] = f[i]
        BY <2>1, <2>2, <3>1
      <4> HIDE DEF D
      <4>2. SumFunctionOnSet(g, D) = SumFunctionOnSet(f, D) - f[j] + g[j]
        BY <4>1, SumUpdate
      <4> QED
        BY <4>2 DEF D
    <3>3. SumFunctionOnSet(f, DOMAIN t) \in Int
      <4>1. \A i \in DOMAIN t : f[i] \in Int
        BY <3>1
      <4> QED
        BY <2>1, <4>1, SumType
    <3>4. m = f[j] + n /\ f[j] \in Int
      BY <2>1, <2>2, <2>6, <3>1
    <3>5. SumFunctionOnSet(g, DOMAIN t) = SumFunctionOnSet(f, DOMAIN t) + n
      BY <3>1, <3>2, <3>3, <3>4
    <3> QED
      BY <3>1, <3>5 DEF Sum, f, g
  <2>16. Positive(t) /\ n \in Nat => Positive(s)
    <3> SUFFICES ASSUME Positive(t), n \in Nat PROVE Positive(s)
      OBVIOUS
    <3>1. m \in Nat
      BY <2>2, <2>6 DEF Positive
    <3> QED
      BY <2>2, <2>9, <2>10, <3>1 DEF Positive
  <2> QED
    BY <2>13, <2>14, <2>15, <2>16 DEF s
<1> QED
  BY <1>1, <1>2
\* A fold over a set whose steps are a function of the next member and of the
\* result so far.
IsFold(h, G, b, S) ==
    h = [s \in SUBSET S |-> IF s = {} THEN b
                            ELSE G[<<Chosen(s), h[s \ {Chosen(s)}]>>]]

\* There is one way only to fold a set.
LEMMA FoldsAgree ==
    ASSUME NEW G, NEW b, NEW S, IsFiniteSet(S),
           NEW A, S \subseteq A, NEW B, S \subseteq B,
           NEW h, IsFold(h, G, b, A), NEW k, IsFold(k, G, b, B)
    PROVE  h[S] = k[S]
<1> DEFINE F == {T \in SUBSET S : h[T] # k[T]}
<1>1. SUFFICES ASSUME F # {} PROVE FALSE
  BY S \in SUBSET S
<1>2. \A T \in SUBSET S : IsFiniteSet(T)
  BY FS_Subset
<1>3. PICK T \in F : \A U \in F : Cardinality(T) <= Cardinality(U)
  <2>1. \A U \in F : IsFiniteSet(U)
    BY <1>2
  <2> HIDE DEF F
  <2> QED
    BY <1>1, <2>1, SmallestSet
<1>4. T \in SUBSET A /\ T \in SUBSET B
  OBVIOUS
<1>5. h[T] = IF T = {} THEN b ELSE G[<<Chosen(T), h[T \ {Chosen(T)}]>>]
  BY <1>4 DEF IsFold
<1>6. k[T] = IF T = {} THEN b ELSE G[<<Chosen(T), k[T \ {Chosen(T)}]>>]
  BY <1>4 DEF IsFold
<1>7. T # {}
  BY <1>5, <1>6
<1>8. Chosen(T) \in T
  BY <1>7, ChosenIn
<1>9. h[T \ {Chosen(T)}] = k[T \ {Chosen(T)}]
  <2> DEFINE U == T \ {Chosen(T)}
  <2>1. Cardinality(U) < Cardinality(T) /\ Cardinality(U) \in Nat /\ Cardinality(T) \in Nat
    BY <1>2, <1>8, RemoveOne
  <2>2. U \notin F
    BY <1>3, <2>1
  <2> QED
    BY <2>2
<1> QED
  BY <1>5, <1>6, <1>7, <1>8, <1>9

\* The recursion of the fold has a solution, for every finite set.
LEMMA FoldExists ==
    ASSUME NEW G, NEW b, NEW S, IsFiniteSet(S)
    PROVE  \E h : IsFold(h, G, b, S)
<1> DEFINE F == {T \in SUBSET S : ~\E h : IsFold(h, G, b, T)}
           Fold(T) == (CHOOSE h : IsFold(h, G, b, T))[T]
<1>1. SUFFICES ASSUME F # {} PROVE FALSE
  BY S \in SUBSET S
<1>2. \A T \in SUBSET S : IsFiniteSet(T)
  BY FS_Subset
<1>3. PICK T \in F : \A U \in F : Cardinality(T) <= Cardinality(U)
  <2>1. \A U \in F : IsFiniteSet(U)
    BY <1>2
  <2> HIDE DEF F
  <2> QED
    BY <1>1, <2>1, SmallestSet
<1>4. ASSUME NEW U \in SUBSET T, U # T
      PROVE  IsFold(CHOOSE h : IsFold(h, G, b, U), G, b, U)
  <2>1. Cardinality(U) < Cardinality(T)
    <3>1. PICK x \in T : x \notin U
      BY <1>4
    <3>2. Cardinality(U) <= Cardinality(T \ {x}) /\ Cardinality(U) \in Nat
      <4>1. U \subseteq T \ {x} /\ IsFiniteSet(T \ {x})
        BY <1>2, <3>1
      <4> QED
        BY <4>1, FS_Subset, FS_CardinalityType
    <3>3. Cardinality(T \ {x}) < Cardinality(T)
      BY <1>2, RemoveOne
    <3> QED
      BY <1>2, <3>2, <3>3, FS_CardinalityType
  <2>2. U \in SUBSET S /\ Cardinality(U) \in Nat /\ Cardinality(T) \in Nat
    BY <1>2, FS_CardinalityType
  <2>3. U \notin F
    BY <1>3, <2>1, <2>2
  <2>4. \E h : IsFold(h, G, b, U)
    BY <2>2, <2>3
  <2> QED
    BY <2>4
<1>5. ASSUME NEW U \in SUBSET T, U # T
      PROVE  Fold(U) = IF U = {} THEN b ELSE G[<<Chosen(U), Fold(U \ {Chosen(U)})>>]
  <2> DEFINE h == CHOOSE h : IsFold(h, G, b, U)
  <2>1. IsFold(h, G, b, U) /\ Fold(U) = h[U]
    BY <1>4, <1>5
  <2> HIDE DEF h
  <2>2. h[U] = IF U = {} THEN b ELSE G[<<Chosen(U), h[U \ {Chosen(U)}]>>]
    BY <2>1 DEF IsFold
  <2>3. CASE U = {}
    BY <2>1, <2>2, <2>3
  <2>4. CASE U # {}
    <3> DEFINE V == U \ {Chosen(U)}
               k == CHOOSE k : IsFold(k, G, b, V)
    <3>1. V \in SUBSET T /\ V # T /\ V \subseteq U /\ IsFiniteSet(V)
      BY <1>2, <1>5, <2>4, ChosenIn
    <3>2. IsFold(k, G, b, V) /\ Fold(V) = k[V]
      BY <1>4, <3>1
    <3> HIDE DEF k
    <3>3. h[V] = k[V]
      BY <2>1, <3>1, <3>2, FoldsAgree
    <3> QED
      BY <2>1, <2>2, <2>4, <3>2, <3>3
  <2> QED
    BY <2>3, <2>4
<1> DEFINE g == [U \in SUBSET T |-> IF U = {} THEN b
                                   ELSE G[<<Chosen(U), Fold(U \ {Chosen(U)})>>]]
<1>6. \A U \in SUBSET T : U # T => g[U] = Fold(U)
  BY <1>5
<1>7. \A U \in SUBSET T : U # {} => U \ {Chosen(U)} \in SUBSET T /\ U \ {Chosen(U)} # T
  BY ChosenIn
<1>8. g = [U \in SUBSET T |-> IF U = {} THEN b
                              ELSE G[<<Chosen(U), g[U \ {Chosen(U)}]>>]]
  <2> HIDE DEF Fold
  <2>1. \A U \in SUBSET T : U # {} => g[U \ {Chosen(U)}] = Fold(U \ {Chosen(U)})
    <3> HIDE DEF g
    <3> QED
      BY <1>6, <1>7
  <2> QED
    BY <2>1
<1>9. IsFold(g, G, b, T)
  BY <1>8 DEF IsFold
<1> QED
  BY <1>9
\* What every step keeps in a set stays in it.
LEMMA FoldType ==
    ASSUME NEW G, NEW b, NEW S, IsFiniteSet(S), NEW h, IsFold(h, G, b, S),
           NEW V, b \in V, \A x \in S : \A v \in V : G[<<x, v>>] \in V
    PROVE  \A T \in SUBSET S : h[T] \in V
<1> DEFINE F == {T \in SUBSET S : h[T] \notin V}
<1>1. SUFFICES ASSUME F # {} PROVE FALSE
  OBVIOUS
<1>2. \A T \in SUBSET S : IsFiniteSet(T)
  BY FS_Subset
<1>3. PICK T \in F : \A U \in F : Cardinality(T) <= Cardinality(U)
  <2>1. \A U \in F : IsFiniteSet(U)
    BY <1>2
  <2> HIDE DEF F
  <2> QED
    BY <1>1, <2>1, SmallestSet
<1>4. h[T] = IF T = {} THEN b ELSE G[<<Chosen(T), h[T \ {Chosen(T)}]>>]
  BY DEF IsFold
<1>5. T # {} /\ Chosen(T) \in T
  BY <1>4, ChosenIn
<1> DEFINE U == T \ {Chosen(T)}
<1>6. h[U] \in V
  <2>1. Cardinality(U) < Cardinality(T) /\ Cardinality(U) \in Nat /\ Cardinality(T) \in Nat
    BY <1>2, <1>5, RemoveOne
  <2>2. U \notin F
    BY <1>3, <2>1
  <2> QED
    BY <2>2
<1> QED
  BY <1>4, <1>5, <1>6

\* Object.entries: one leaf for each key.
IsLeaves(h, rep, K) ==
    h = [s \in SUBSET K |-> IF s = {} THEN <<>>
                            ELSE Append(h[s \ {Chosen(s)}], Leaf(Chosen(s), rep[Chosen(s)]))]
LEMMA LeavesDef ==
    ASSUME NEW rep
    PROVE  Leaves(rep) = (CHOOSE h : IsLeaves(h, rep, DOMAIN rep))[DOMAIN rep]
BY Zenon DEF Leaves, FoldSet, MapThenFoldSet, IsLeaves, Chosen

LEMMA LeavesExist ==
    ASSUME NEW K \in SUBSET Key, IsFiniteSet(K), NEW rep, \A k \in K : rep[k] \in Int
    PROVE  \E h : IsLeaves(h, rep, K)
<1> DEFINE L == [key : Key, rep : Int]
           G == [p \in K \X Seq(L) |-> Append(p[2], Leaf(p[1], rep[p[1]]))]
<1>1. \A k \in K : Leaf(k, rep[k]) \in L
  BY DEF Leaf
<1> HIDE DEF L
<1>2. \A k \in K : \A v \in Seq(L) : /\ G[<<k, v>>] = Append(v, Leaf(k, rep[k]))
                                     /\ G[<<k, v>>] \in Seq(L)
  BY <1>1
<1> HIDE DEF G
<1>3. PICK h : IsFold(h, G, <<>>, K)
  BY FoldExists
<1>4. <<>> \in Seq(L)
  OBVIOUS
<1>5. \A T \in SUBSET K : h[T] \in Seq(L)
  <2> DEFINE V == Seq(L)
  <2>1. <<>> \in V /\ \A k \in K : \A v \in V : G[<<k, v>>] \in V
    BY <1>2, <1>4
  <2> HIDE DEF V
  <2>2. \A T \in SUBSET K : h[T] \in V
    BY <1>3, <2>1, FoldType
  <2> QED
    BY <2>2 DEF V
<1>6. \A s \in SUBSET K : s # {} => /\ Chosen(s) \in K /\ s \ {Chosen(s)} \in SUBSET K
                                    /\ h[s \ {Chosen(s)}] \in Seq(L)
  BY <1>5, ChosenIn
<1>7. IsLeaves(h, rep, K)
  <2>1. \A s \in SUBSET K : s # {} =>
            G[<<Chosen(s), h[s \ {Chosen(s)}]>>]
              = Append(h[s \ {Chosen(s)}], Leaf(Chosen(s), rep[Chosen(s)]))
    BY <1>2, <1>6
  <2> QED
    BY <1>3, <2>1 DEF IsFold, IsLeaves
<1> QED
  BY <1>7

LEMMA LeavesOfKeys ==
    ASSUME NEW K \in SUBSET Key, IsFiniteSet(K), NEW rep, DOMAIN rep = K,
           \A k \in K : rep[k] \in Int
    PROVE  /\ Tree(Leaves(rep)) /\ Keys(Leaves(rep)) = K
           /\ Sum(Reps(Leaves(rep))) = Sum(rep)
           /\ (\A k \in K : rep[k] \in Nat) => Positive(Leaves(rep))
<1> DEFINE h == CHOOSE h : IsLeaves(h, rep, K)
           Fine(T) == /\ Tree(h[T]) /\ Keys(h[T]) = T
                      /\ Sum(Reps(h[T])) = SumFunctionOnSet(rep, T)
                      /\ (\A k \in K : rep[k] \in Nat) => Positive(h[T])
           F == {T \in SUBSET K : ~Fine(T)}
<1>1. IsLeaves(h, rep, K) /\ Leaves(rep) = h[K]
  BY LeavesExist, LeavesDef
<1> HIDE DEF h
<1>2. SUFFICES ASSUME F # {} PROVE FALSE
  <2>1. Fine(K)
    BY <1>2
  <2> QED
    BY <1>1, <2>1 DEF Sum
<1>3. \A T \in SUBSET K : IsFiniteSet(T)
  BY FS_Subset
<1>4. PICK T \in F : \A U \in F : Cardinality(T) <= Cardinality(U)
  <2>1. \A U \in F : IsFiniteSet(U)
    BY <1>3
  <2> HIDE DEF F
  <2> QED
    BY <1>2, <2>1, SmallestSet
<1>5. h[T] = IF T = {} THEN <<>>
             ELSE Append(h[T \ {Chosen(T)}], Leaf(Chosen(T), rep[Chosen(T)]))
  BY <1>1 DEF IsLeaves
<1>6. CASE T = {}
  <2>1. h[T] = <<>>
    BY <1>5, <1>6
  <2>2. Tree(<<>>) /\ Keys(<<>>) = {} /\ Positive(<<>>) /\ DOMAIN Reps(<<>>) = {}
    BY DEF Tree, Keys, Positive, Apart, Reps
  <2>3. Sum(Reps(<<>>)) = 0 /\ SumFunctionOnSet(rep, {}) = 0
    BY <2>2, SumEmpty DEF Sum
  <2>4. Fine(T)
    BY <1>6, <2>1, <2>2, <2>3
  <2> QED
    BY <2>4
<1>7. CASE T # {}
  <2> DEFINE c == Chosen(T)
             U == T \ {c}
  <2>1. c \in T /\ T \in SUBSET K
    BY <1>7, ChosenIn
  <2>2. Cardinality(U) < Cardinality(T) /\ Cardinality(U) \in Nat /\ Cardinality(T) \in Nat
    BY <1>3, <2>1, RemoveOne
  <2>3. Fine(U)
    <3>1. U \notin F
      <4> HIDE DEF F, U
      <4> QED
        BY <1>4, <2>2
    <3>2. U \in SUBSET K
      BY <2>1
    <3> HIDE DEF U
    <3> QED
      BY <3>1, <3>2
  <2>4. h[T] = Append(h[U], Leaf(c, rep[c]))
    BY <1>5, <1>7
  <2>5. /\ T = U \union {c} /\ c \notin U /\ c \in Key /\ rep[c] \in Int /\ IsFiniteSet(U)
        /\ \A k \in U \union {c} : rep[k] \in Int
    BY <1>3, <2>1
  <2> HIDE DEF c, U
  <2>6. SumFunctionOnSet(rep, T) = SumFunctionOnSet(rep, U) + rep[c]
    BY <2>5, SumAdd
  <2> DEFINE s == Append(h[U], Leaf(c, rep[c]))
  <2>7. /\ Tree(s) /\ Keys(s) = T /\ Sum(Reps(s)) = SumFunctionOnSet(rep, T)
        /\ Positive(h[U]) /\ rep[c] \in Nat => Positive(s)
    BY <2>3, <2>5, <2>6, AddedLeaf
  <2>8. Fine(T)
    <3> HIDE DEF s
    <3>1. h[T] = s
      BY <2>4 DEF s
    <3> QED
      BY <2>1, <2>3, <2>7, <3>1
  <2> QED
    BY <2>8
<1> QED
  BY <1>6, <1>7

\* TEAM.forEach: every member gets n.
IsRaise(h, t, n) ==
    h = [s \in SUBSET TEAM |-> IF s = {} THEN t
                               ELSE Raised(h[s \ {Chosen(s)}], lower(Chosen(s)), n)]
LEMMA RaiseExists ==
    ASSUME NEW t, Tree(t), NEW n \in Int
    PROVE  \E h : IsRaise(h, t, n)
<1> DEFINE V == {v \in Seq([key : Key, rep : Int]) : Tree(v)}
           G == [p \in TEAM \X V |-> Raised(p[2], lower(p[1]), n)]
<1>1. \A v : v \in V <=> Tree(v)
  BY DEF Tree
<1> HIDE DEF V
<1>2. \A a \in TEAM : \A v \in V : G[<<a, v>>] = Raised(v, lower(a), n) /\ G[<<a, v>>] \in V
  <2>1. \A a \in TEAM : lower(a) \in Key
    BY AirdropAssumption DEF lower, Key
  <2>2. \A a \in TEAM : \A v \in V : Raised(v, lower(a), n) \in V
    BY <1>1, <2>1, RaisedLeaf
  <2> QED
    BY <2>2
<1> HIDE DEF G
<1>3. IsFiniteSet(TEAM)
  BY AirdropAssumption, FS_Subset
<1>4. PICK h : IsFold(h, G, t, TEAM)
  BY <1>3, FoldExists
<1>5. \A T \in SUBSET TEAM : h[T] \in V
  <2>1. t \in V
    BY <1>1
  <2> QED
    BY <1>2, <1>3, <1>4, <2>1, FoldType
<1>6. \A s \in SUBSET TEAM : s # {} => /\ Chosen(s) \in TEAM
                                       /\ h[s \ {Chosen(s)}] \in V
  BY <1>5, ChosenIn
<1>7. IsRaise(h, t, n)
  <2>1. \A s \in SUBSET TEAM : s # {} =>
            G[<<Chosen(s), h[s \ {Chosen(s)}]>>] = Raised(h[s \ {Chosen(s)}], lower(Chosen(s)), n)
    BY <1>2, <1>6
  <2> QED
    BY <1>4, <2>1 DEF IsFold, IsRaise
<1> QED
  BY <1>7

LEMMA TimesOneMore ==
    \A n \in Int, m \in Nat : \A k : k = m + 1 => n * k = n * m + n /\ n * m \in Int /\ n * k \in Int
OBVIOUS

LEMMA RaiseFacts ==
    ASSUME NEW t, Tree(t), NEW n \in Int, NEW h, IsRaise(h, t, n)
    PROVE  /\ Tree(h[TEAM]) /\ Sum(Reps(h[TEAM])) = Sum(Reps(t)) + n * Cardinality(TEAM)
           /\ Positive(t) /\ n \in Nat => Positive(h[TEAM])
<1> DEFINE Fine(T) == /\ Tree(h[T]) /\ Sum(Reps(h[T])) = Sum(Reps(t)) + n * Cardinality(T)
                      /\ Positive(t) /\ n \in Nat => Positive(h[T])
           F == {T \in SUBSET TEAM : ~Fine(T)}
<1>3. SUFFICES ASSUME F # {} PROVE FALSE
  <2>1. Fine(TEAM)
    BY <1>3
  <2> QED
    BY <2>1
<1>4. \A T \in SUBSET TEAM : IsFiniteSet(T)
  <2>1. IsFiniteSet(TEAM)
    BY AirdropAssumption, FS_Subset
  <2> QED
    BY <2>1, FS_Subset
<1>5. PICK T \in F : \A U \in F : Cardinality(T) <= Cardinality(U)
  <2>1. \A U \in F : IsFiniteSet(U)
    BY <1>4
  <2> HIDE DEF F
  <2> QED
    BY <1>3, <2>1, SmallestSet
<1>6. h[T] = IF T = {} THEN t ELSE Raised(h[T \ {Chosen(T)}], lower(Chosen(T)), n)
  BY DEF IsRaise
<1>7. CASE T = {}
  <2>1. h[T] = t /\ Cardinality(T) = 0
    BY <1>6, <1>7, FS_EmptySet
  <2>2. Sum(Reps(t)) \in Int
    BY TreeFacts
  <2>3. n * 0 = 0
    OBVIOUS
  <2>4. Sum(Reps(h[T])) = Sum(Reps(t)) + n * Cardinality(T)
    BY <2>1, <2>2, <2>3
  <2>5. Fine(T)
    <3>1. Tree(h[T]) /\ (Positive(t) /\ n \in Nat => Positive(h[T]))
      BY <2>1
    <3> QED
      BY <2>4, <3>1
  <2> QED
    BY <2>5
<1>8. CASE T # {}
  <2> DEFINE c == Chosen(T)
             U == T \ {c}
  <2>1. c \in T /\ T \in SUBSET TEAM
    BY <1>8, ChosenIn
  <2>2. /\ Cardinality(U) \in Nat /\ Cardinality(T) = Cardinality(U) + 1
        /\ ~(Cardinality(T) <= Cardinality(U))
    <3>1. IsFiniteSet(T) /\ c \in T
      BY <1>4, <2>1
    <3> HIDE DEF c
    <3>2. IsFiniteSet(U) /\ Cardinality(U) = Cardinality(T) - 1
      BY <3>1, FS_RemoveElement
    <3>3. Cardinality(U) \in Nat /\ Cardinality(T) \in Nat
      BY <3>1, <3>2, FS_CardinalityType
    <3> HIDE DEF U
    <3> QED
      BY <3>2, <3>3
  <2>3. Fine(U)
    <3>1. U \notin F
      <4> HIDE DEF F, U
      <4> QED
        BY <1>5, <2>2
    <3>2. U \in SUBSET TEAM
      BY <2>1
    <3> HIDE DEF U
    <3> QED
      BY <3>1, <3>2
  <2>4. h[T] = Raised(h[U], lower(c), n)
    BY <1>6, <1>8
  <2>5. lower(c) \in Key
    BY <2>1, AirdropAssumption DEF lower, Key
  <2> HIDE DEF c, U
  <2> DEFINE r == Raised(h[U], lower(c), n)
  <2>6. /\ Tree(r) /\ Sum(Reps(r)) = Sum(Reps(h[U])) + n
        /\ Positive(h[U]) /\ n \in Nat => Positive(r)
    BY <2>3, <2>5, RaisedLeaf
  <2> HIDE DEF r
  <2>7. Sum(Reps(r)) = Sum(Reps(t)) + n * Cardinality(T)
    <3>1. Sum(Reps(h[U])) = Sum(Reps(t)) + n * Cardinality(U)
      BY <2>3
    <3>2. Cardinality(T) = Cardinality(U) + 1 /\ Cardinality(U) \in Nat
      BY <2>2
    <3>3. /\ n * Cardinality(T) = n * Cardinality(U) + n
          /\ n * Cardinality(U) \in Int /\ n * Cardinality(T) \in Int
      BY <3>2, TimesOneMore
    <3>4. Sum(Reps(t)) \in Int
      BY TreeFacts
    <3>5. Sum(Reps(h[U])) \in Int
      BY <2>3, TreeFacts
    <3>6. Sum(Reps(r)) \in Int
      BY <2>6, TreeFacts
    <3> HIDE DEF Fine
    <3> QED
      BY <2>6, <3>1, <3>3, <3>4, <3>5, <3>6
  <2>8. Fine(T)
    <3>1. h[T] = r
      BY <2>4 DEF r
    <3> QED
      BY <2>3, <2>6, <2>7, <3>1
  <2> QED
    BY <2>8
<1> QED
  BY <1>7, <1>8

LEMMA TeamIsRaised ==
    ASSUME NEW t, Tree(t), NEW n \in Int,
           NEW s, s = FoldSet(LAMBDA a, tree : Raised(tree, lower(a), n), t, TEAM)
    PROVE  /\ Tree(s) /\ Sum(Reps(s)) = Sum(Reps(t)) + n * Cardinality(TEAM)
           /\ Positive(t) /\ n \in Nat => Positive(s)
<1> DEFINE h == CHOOSE h : IsRaise(h, t, n)
<1>1. IsRaise(h, t, n)
  BY RaiseExists, Zenon
<1>2. s = h[TEAM]
  BY Zenon DEF FoldSet, MapThenFoldSet, IsRaise, Chosen
<1> HIDE DEF h
<1> QED
  BY <1>1, <1>2, RaiseFacts, Zenon
LEMMA ExactQuotient ==
    ASSUME NEW q \in Int, NEW n \in Nat \ {0}, NEW m, m = q * n
    PROVE  m \div n = q
<1> DEFINE d == m \div n
<1>1. m \in Int /\ d \in Int /\ n * d <= m /\ m < n * d + n
  OBVIOUS
<1> HIDE DEF d
<1>2. CASE d <= q - 1
  <2>1. n * (d + 1) <= n * q
    BY <1>1, <1>2
  <2>2. n * (d + 1) = n * d + n /\ n * q = m
    BY <1>1
  <2>3. n * d \in Int
    BY <1>1
  <2> QED
    BY <1>1, <2>1, <2>2, <2>3
<1>3. CASE q <= d - 1
  <2>1. n * (q + 1) <= n * d
    BY <1>1, <1>3
  <2>2. n * (q + 1) = n * q + n /\ n * q = m
    BY <1>1
  <2>3. n * d \in Int
    BY <1>1
  <2> QED
    BY <1>1, <2>1, <2>2, <2>3
<1> QED
  BY <1>1, <1>2, <1>3 DEF d

LEMMA TeamFacts ==
    /\ Cardinality(TEAM) \in Nat \ {0} /\ IsFiniteSet(TEAM) /\ IsFiniteSet(ETORO)
    /\ \A a \in ETORO : lower(a) \in Key
    /\ lower(FoundationOfficial) \in Key /\ lower(EtoroOfficial) \in Key
    /\ lower(FoundationOfficial) # lower(EtoroOfficial)
    /\ EtoroOfficial \in ETORO
    /\ \A a, b \in ETORO : lower(a) = lower(b) => a = b
<1>1. IsFiniteSet(TEAM) /\ IsFiniteSet(ETORO)
  BY AirdropAssumption, FS_Subset
<1>2. Cardinality(TEAM) \in Nat \ {0}
  BY <1>1, AirdropAssumption, FS_CardinalityType, FS_EmptySet
<1> QED
  BY <1>1, <1>2, AirdropAssumption DEF lower, Key

\* What eToro holds and what the others hold is all there is.
EtoroKeys == {lower(a) : a \in ETORO}
LEMMA EtoroIsAPart ==
    ASSUME NEW D \in SUBSET Key, IsFiniteSet(D), NEW rep, DOMAIN rep = D,
           \A k \in D : rep[k] \in Int, EtoroKeys \subseteq D
    PROVE  /\ eToroRep(rep) \in Int /\ Sum(WithoutEtoro(rep)) \in Int
           /\ Sum(rep) = Sum(WithoutEtoro(rep)) + eToroRep(rep)
           /\ (\A k \in D : rep[k] \in Nat) => eToroRep(rep) \in Nat
<1> DEFINE m == [a \in ETORO |-> lower(a)]
           g == [a \in ETORO |-> rep[lower(a)]]
           rest == D \ EtoroKeys
           w == WithoutEtoro(rep)
<1>1. IsFiniteSet(ETORO) /\ \A a \in ETORO : lower(a) \in D
  BY TeamFacts DEF EtoroKeys
<1>2. /\ \A a \in ETORO : g[a] = rep[m[a]] /\ rep[m[a]] \in Int
      /\ \A a, b \in ETORO : m[a] = m[b] => a = b
      /\ {m[a] : a \in ETORO} = EtoroKeys
      /\ eToroRep(rep) = SumFunctionOnSet(g, ETORO)
  <2>1. {m[a] : a \in ETORO} = EtoroKeys
    BY DEF EtoroKeys
  <2>2. eToroRep(rep) = SumFunctionOnSet(g, ETORO)
    BY DEF eToroRep, Sum
  <2> QED
    BY <1>1, <2>1, <2>2, TeamFacts
<1>3. (\A k \in D : rep[k] \in Nat) => \A a \in ETORO : g[a] \in Nat
  BY <1>1
<1> HIDE DEF m, g
<1>4. SumFunctionOnSet(rep, EtoroKeys) = eToroRep(rep)
  <2>1. SumFunctionOnSet(rep, {m[a] : a \in ETORO}) = SumFunctionOnSet(g, ETORO)
    BY <1>1, <1>2, SumOfImages
  <2> QED
    BY <1>2, <2>1
<1>5. eToroRep(rep) \in Int /\ ((\A k \in D : rep[k] \in Nat) => eToroRep(rep) \in Nat)
  BY <1>1, <1>2, <1>3, SumType
<1>6. /\ DOMAIN w = rest /\ \A k \in rest : w[k] = rep[k] /\ rep[k] \in Int
      /\ IsFiniteSet(rest) /\ IsFiniteSet(EtoroKeys)
  <2>1. DOMAIN w = rest /\ \A k \in rest : w[k] = rep[k] /\ rep[k] \in Int
    BY DEF WithoutEtoro, EtoroKeys
  <2> QED
    BY <2>1, FS_Subset
<1>7. EtoroKeys \union rest = D /\ EtoroKeys \intersect rest = {}
  OBVIOUS
<1> HIDE DEF rest, w
<1>8. Sum(w) = SumFunctionOnSet(rep, rest) /\ SumFunctionOnSet(rep, rest) \in Int
  <2>1. SumFunctionOnSet(w, rest) = SumFunctionOnSet(rep, rest)
    BY <1>6, SumOfSame
  <2> QED
    BY <1>6, <2>1, SumType DEF Sum
<1>9. SumFunctionOnSet(rep, EtoroKeys \union rest)
        = SumFunctionOnSet(rep, EtoroKeys) + SumFunctionOnSet(rep, rest)
  <2>1. \A k \in EtoroKeys \union rest : rep[k] \in Int
    BY <1>7
  <2> QED
    BY <1>6, <1>7, <2>1, SumOfParts
<1>10. Sum(rep) = Sum(w) + eToroRep(rep)
  <2>1. Sum(rep) = SumFunctionOnSet(rep, EtoroKeys \union rest)
    BY <1>7 DEF Sum
  <2>2. eToroRep(rep) \in Int
    BY <1>5
  <2> QED
    BY <1>4, <1>8, <1>9, <2>1, <2>2
<1> QED
  BY <1>5, <1>8, <1>10 DEF w

\* eToro's reputation is split: each leaf still has a key of its own, and all
\* of it is handed when the team can share what is left.
LEMMA SplitTree ==
    ASSUME NEW D \in SUBSET Key, IsFiniteSet(D), NEW rep, DOMAIN rep = D,
           \A k \in D : rep[k] \in Int, EtoroKeys \subseteq D, NEW unit \in Int
    PROVE  /\ Tree(split(rep, unit))
           /\ \A q \in Nat : /\ \A k \in D : rep[k] \in Nat
                             /\ unit \in Nat
                             /\ eToroRep(rep) = 2 * (foundationEtoroRepShare * unit)
                                                + q * Cardinality(TEAM)
                             => /\ Positive(split(rep, unit))
                                /\ Sum(Reps(split(rep, unit))) = Sum(rep)
<1> DEFINE fixed == foundationEtoroRepShare * unit
           n == Cardinality(TEAM)
           share == (eToroRep(rep) - 2 * fixed) \div n
           w == WithoutEtoro(rep)
           K == D \ EtoroKeys
           f == lower(FoundationOfficial)
           e == lower(EtoroOfficial)
           t1 == Leaves(w)
           t2 == Raised(t1, f, fixed)
           t3 == Append(t2, Leaf(e, fixed))
<1>1. /\ n \in Nat \ {0} /\ f \in Key /\ e \in Key /\ f # e /\ e \in EtoroKeys
      /\ eToroRep(rep) \in Int
  BY TeamFacts, EtoroIsAPart DEF EtoroKeys
<1>2. fixed \in Int /\ (unit \in Nat => fixed \in Nat)
  BY AirdropAssumption
<1>3. split(rep, unit)
        = FoldSet(LAMBDA a, tree : Raised(tree, lower(a), share), t3, TEAM)
  BY Zenon DEF split
<1>4. /\ K \in SUBSET Key /\ IsFiniteSet(K) /\ DOMAIN w = K
      /\ \A k \in K : w[k] = rep[k] /\ w[k] \in Int
  <2>1. K \in SUBSET Key /\ IsFiniteSet(K)
    BY FS_Subset
  <2>2. DOMAIN w = K /\ \A k \in K : w[k] = rep[k] /\ w[k] \in Int
    BY DEF WithoutEtoro, EtoroKeys
  <2> QED
    BY <2>1, <2>2
<1> HIDE DEF fixed, w, K, f, e
<1>5. share \in Int
  BY <1>1, <1>2
<1> HIDE DEF n, share
<1>6. /\ Tree(t1) /\ Keys(t1) = K /\ Sum(Reps(t1)) = Sum(w)
      /\ (\A k \in K : w[k] \in Nat) => Positive(t1)
  BY <1>4, LeavesOfKeys
<1> HIDE DEF t1
<1>7. /\ Tree(t2) /\ Keys(t2) = K \union {f} /\ Sum(Reps(t2)) = Sum(Reps(t1)) + fixed
      /\ Positive(t1) /\ fixed \in Nat => Positive(t2)
  BY <1>1, <1>2, <1>6, RaisedLeaf
<1> HIDE DEF t2
<1>8. /\ Tree(t3) /\ Sum(Reps(t3)) = Sum(Reps(t2)) + fixed
      /\ Positive(t2) /\ fixed \in Nat => Positive(t3)
  <2>1. e \notin Keys(t2)
    BY <1>1, <1>7 DEF K
  <2> QED
    BY <1>1, <1>2, <1>7, <2>1, AddedLeaf
<1> HIDE DEF t3
<1>9. PICK s : s = split(rep, unit)
  OBVIOUS
<1>10. /\ Tree(s) /\ Sum(Reps(s)) = Sum(Reps(t3)) + share * n
       /\ Positive(t3) /\ share \in Nat => Positive(s)
  <2>1. s = FoldSet(LAMBDA a, tree : Raised(tree, lower(a), share), t3, TEAM)
    BY <1>3, <1>9, Zenon
  <2> QED
    BY <1>5, <1>8, <2>1, TeamIsRaised, Zenon DEF n
<1>11. ASSUME NEW q \in Nat, \A k \in D : rep[k] \in Nat, unit \in Nat,
              eToroRep(rep) = 2 * (foundationEtoroRepShare * unit) + q * Cardinality(TEAM)
       PROVE  Positive(s) /\ Sum(Reps(s)) = Sum(rep)
  <2>1. q * n \in Nat /\ eToroRep(rep) = 2 * fixed + q * n
    BY <1>1, <1>11 DEF fixed, n
  <2>2. share = q
    <3>1. eToroRep(rep) - 2 * fixed = q * n
      BY <1>2, <2>1
    <3> QED
      BY <1>1, <3>1, ExactQuotient DEF share
  <2>3. Positive(s)
    <3>1. \A k \in K : w[k] \in Nat
      BY <1>4, <1>11 DEF K
    <3> QED
      BY <1>2, <1>6, <1>7, <1>8, <1>10, <1>11, <2>2, <3>1
  <2>4. Sum(rep) = Sum(w) + eToroRep(rep) /\ Sum(w) \in Int
    BY EtoroIsAPart DEF w
  <2>5. Sum(Reps(s)) = Sum(w) + fixed + fixed + q * n
    BY <1>6, <1>7, <1>8, <1>10, <2>2
  <2>6. Sum(w) + fixed + fixed + q * n = Sum(w) + (2 * fixed + q * n)
    BY <1>2, <2>1, <2>4
  <2> QED
    BY <2>1, <2>3, <2>4, <2>5, <2>6
<1> QED
  BY <1>9, <1>10, <1>11
\* The share of a key in a total, in units every total divides.
LEMMA TotalDivides ==
    ASSUME NEW r \in Nat, NEW n \in Nat \ {0}, NEW total \in Nat,
           NEW unit, unit = (r * n) * OrOne(total)
    PROVE  OrOne(total) \in Nat \ {0} /\ unit \div OrOne(total) = r * n /\ unit \in Nat
<1>1. OrOne(total) \in Nat \ {0}
  BY DEF OrOne
<1>2. PICK o, q : o = OrOne(total) /\ q = r * n
  OBVIOUS
<1>3. q \in Nat /\ o \in Nat \ {0} /\ unit = q * o
  BY <1>1, <1>2
<1>4. unit \div o = q /\ unit \in Nat
  <2>1. q \in Int /\ o \in Nat \ {0} /\ unit = q * o
    BY <1>3
  <2>2. unit \div o = q
    BY <2>1, ExactQuotient
  <2>3. q * o \in Nat
    BY <1>3
  <2> QED
    BY <1>3, <2>2, <2>3
<1> QED
  BY <1>1, <1>2, <1>4

LEMMA TimesTwice ==
    \A a, c, r, n \in Nat : /\ a * c * (r * n) = (a * (r * n)) * c
                            /\ a * c * (r * n) = n * (a * r * c)
                            /\ a * c * (r * n) \in Nat /\ a * r * c \in Nat
                            /\ a * (r * n) \in Nat
<1> SUFFICES ASSUME NEW a \in Nat, NEW c \in Nat, NEW r \in Nat, NEW n \in Nat
             PROVE  /\ a * c * (r * n) = (a * (r * n)) * c
                    /\ a * c * (r * n) = n * (a * r * c)
                    /\ a * c * (r * n) \in Nat /\ a * r * c \in Nat
                    /\ a * (r * n) \in Nat
  OBVIOUS
<1>1. a * c * (r * n) = (a * (r * n)) * c
  OBVIOUS
<1>2. a * c * (r * n) = n * (a * r * c)
  OBVIOUS
<1>3. a * c * (r * n) \in Nat
  OBVIOUS
<1>4. a * r * c \in Nat
  OBVIOUS
<1>5. a * (r * n) \in Nat
  OBVIOUS
<1> QED
  BY <1>1, <1>2, <1>3, <1>4, <1>5

AreShares(h, c, D, allocation, unit, total) ==
    \A k \in D : h[k] = allocation * c[k] * (unit \div OrOne(total))
AreMultiples(h, c, D, allocation, r, n) ==
    \A k \in D : h[k] \in Nat /\ h[k] = n * (allocation * r * c[k])
Divides(total, unit, r, n) == unit = (r * n) * OrOne(total)
Handed(unit, total, allocation) == unit * (IF total > 0 THEN allocation ELSE 0)
LEMMA ShareOfTotal ==
    ASSUME NEW D, IsFiniteSet(D), NEW c, \A k \in D : c[k] \in Nat,
           NEW total, total = SumFunctionOnSet(c, D),
           NEW allocation \in Nat, NEW r \in Nat, NEW n \in Nat \ {0},
           NEW unit, Divides(total, unit, r, n),
           NEW h, AreShares(h, c, D, allocation, unit, total)
    PROVE  /\ AreMultiples(h, c, D, allocation, r, n)
           /\ SumFunctionOnSet(h, D) = Handed(unit, total, allocation)
<1> USE DEF AreShares, AreMultiples, Divides, Handed
<1>1. total \in Nat
  BY SumType
<1>2. unit \div OrOne(total) = r * n /\ unit \in Nat
  BY <1>1, TotalDivides
<1>3. \A k \in D : h[k] = allocation * c[k] * (r * n)
  BY <1>2
<1>4. \A k \in D : h[k] \in Nat /\ h[k] = n * (allocation * r * c[k])
  BY <1>3, TimesTwice
<1> DEFINE factor == allocation * (r * n)
<1>5. factor \in Int /\ \A k \in D : c[k] \in Int /\ h[k] = factor * c[k]
  <2>1. factor \in Int
    BY TimesTwice
  <2> QED
    BY <1>3, <2>1, TimesTwice
<1> HIDE DEF factor
<1>6. SumFunctionOnSet(h, D) = factor * total
  <2>1. SumFunctionOnSet(h, D) = factor * SumFunctionOnSet(c, D)
    BY <1>5, SumTimes
  <2> QED
    BY <2>1
<1>7. CASE total = 0
  <2>1. factor * total = 0 /\ unit * 0 = 0
    BY <1>2, <1>5, <1>7
  <2> QED
    BY <1>1, <1>2, <1>4, <1>6, <1>7, <2>1
<1>8. CASE total # 0
  <2>1. unit = (r * n) * total
    BY <1>8 DEF OrOne
  <2>2. total > 0
    BY <1>1, <1>8
  <2>3. (allocation * (r * n)) * total = ((r * n) * total) * allocation
    <3>1. PICK q : q = r * n
      OBVIOUS
    <3>2. q \in Nat
      BY <3>1
    <3>3. (allocation * q) * total = (q * total) * allocation
      BY <1>1, <3>2
    <3> QED
      BY <3>1, <3>3
  <2>4. SumFunctionOnSet(h, D) = unit * allocation
    BY <1>6, <2>1, <2>3 DEF factor
  <2> QED
    BY <1>1, <1>2, <1>4, <2>2, <2>4
<1> QED
  BY <1>7, <1>8
\* What is known of keys: three numbers each.
Known(d) ==
    /\ DOMAIN d \in SUBSET Key
    /\ \A k \in DOMAIN d : d[k].claims \in Nat /\ d[k].balance \in Nat /\ d[k].stake \in Nat
ClaimsHeld(d) == [k \in DOMAIN d |-> d[k].claims]
BalancesHeld(d) == [k \in DOMAIN d |-> d[k].balance]
StakesHeld(d) == [k \in DOMAIN d |-> d[k].stake]
AllocatedTo(d) ==
    (IF Totals(d).claims > 0 THEN CLAIMER_REP_ALLOCATION ELSE 0)
    + (IF Totals(d).balance > 0 THEN HOLDER_REP_ALLOCATION ELSE 0)
    + (IF Totals(d).stake > 0 THEN STAKER_REP_ALLOCATION ELSE 0)

LEMMA FiniteKeys == \A D \in SUBSET Key : IsFiniteSet(D)
<1>1. IsFiniteSet({"lower"}) /\ IsFiniteSet({"mixed"})
  BY FS_Singleton
<1>2. IsFiniteSet({"lower"} \cup {"mixed"})
  BY <1>1, FS_Union
<1>3. {"lower"} \cup {"mixed"} = {"lower", "mixed"}
  OBVIOUS
<1>4. IsFiniteSet(Accounts \X {"lower", "mixed"})
  BY <1>2, <1>3, AirdropAssumption, FS_Product
<1> QED
  BY <1>4, FS_Subset DEF Key

LEMMA TotalsFacts ==
    ASSUME NEW d, Known(d)
    PROVE  /\ Totals(d).claims = SumFunctionOnSet(ClaimsHeld(d), DOMAIN d)
           /\ Totals(d).balance = SumFunctionOnSet(BalancesHeld(d), DOMAIN d)
           /\ Totals(d).stake = SumFunctionOnSet(StakesHeld(d), DOMAIN d)
           /\ IsFiniteSet(DOMAIN d)
           /\ \A k \in DOMAIN d : /\ ClaimsHeld(d)[k] = d[k].claims /\ d[k].claims \in Nat
                                  /\ BalancesHeld(d)[k] = d[k].balance /\ d[k].balance \in Nat
                                  /\ StakesHeld(d)[k] = d[k].stake /\ d[k].stake \in Nat
           /\ Totals(d).claims \in Nat /\ Totals(d).balance \in Nat /\ Totals(d).stake \in Nat
<1>1. /\ DOMAIN ClaimsHeld(d) = DOMAIN d /\ DOMAIN BalancesHeld(d) = DOMAIN d
      /\ DOMAIN StakesHeld(d) = DOMAIN d
  BY DEF ClaimsHeld, BalancesHeld, StakesHeld
<1>2. /\ Totals(d).claims = Sum(ClaimsHeld(d)) /\ Totals(d).balance = Sum(BalancesHeld(d))
      /\ Totals(d).stake = Sum(StakesHeld(d))
  BY DEF Totals, ClaimsHeld, BalancesHeld, StakesHeld
<1>3. IsFiniteSet(DOMAIN d)
  BY FiniteKeys DEF Known
<1>4. \A k \in DOMAIN d : /\ ClaimsHeld(d)[k] = d[k].claims /\ d[k].claims \in Nat
                          /\ BalancesHeld(d)[k] = d[k].balance /\ d[k].balance \in Nat
                          /\ StakesHeld(d)[k] = d[k].stake /\ d[k].stake \in Nat
  BY DEF ClaimsHeld, BalancesHeld, StakesHeld, Known
<1>5. /\ Totals(d).claims = SumFunctionOnSet(ClaimsHeld(d), DOMAIN d)
      /\ Totals(d).balance = SumFunctionOnSet(BalancesHeld(d), DOMAIN d)
      /\ Totals(d).stake = SumFunctionOnSet(StakesHeld(d), DOMAIN d)
  BY <1>1, <1>2 DEF Sum
<1>6. /\ SumFunctionOnSet(ClaimsHeld(d), DOMAIN d) \in Nat
      /\ SumFunctionOnSet(BalancesHeld(d), DOMAIN d) \in Nat
      /\ SumFunctionOnSet(StakesHeld(d), DOMAIN d) \in Nat
  BY <1>3, <1>4, SumType
<1> QED
  BY <1>3, <1>4, <1>5, <1>6

\* The unit is a multiple of every total and of the team's number.
LEMMA UnitFacts ==
    ASSUME NEW d, Known(d)
    PROVE  \E a, b, c, n \in Nat \ {0} :
              /\ a = OrOne(Totals(d).claims) /\ b = OrOne(Totals(d).balance)
              /\ c = OrOne(Totals(d).stake) /\ n = Cardinality(TEAM)
              /\ Unit(d) \in Nat /\ Unit(d) = (a * b * c) * n
              /\ b * c \in Nat /\ a * c \in Nat /\ a * b \in Nat /\ a * b * c \in Nat
              /\ Unit(d) = ((b * c) * n) * a /\ Unit(d) = ((a * c) * n) * b
              /\ Unit(d) = ((a * b) * n) * c
<1>1. /\ OrOne(Totals(d).claims) \in Nat \ {0} /\ OrOne(Totals(d).balance) \in Nat \ {0}
      /\ OrOne(Totals(d).stake) \in Nat \ {0} /\ Cardinality(TEAM) \in Nat \ {0}
  BY TotalsFacts, TeamFacts DEF OrOne
<1>2. PICK a, b, c, n \in Nat \ {0} :
              /\ a = OrOne(Totals(d).claims) /\ b = OrOne(Totals(d).balance)
              /\ c = OrOne(Totals(d).stake) /\ n = Cardinality(TEAM)
  BY <1>1
<1>3. Unit(d) = (a * b * c) * n
  BY <1>2 DEF Unit
<1>4. a * b \in Nat /\ a * c \in Nat /\ b * c \in Nat
  OBVIOUS
<1>5. a * b * c \in Nat
  BY <1>4
<1>6. (a * b * c) * n \in Nat
  BY <1>5
<1>7. (a * b * c) * n = ((b * c) * n) * a
  OBVIOUS
<1>8. (a * b * c) * n = ((a * c) * n) * b
  OBVIOUS
<1>9. (a * b * c) * n = ((a * b) * n) * c
  OBVIOUS
<1>10. PICK u : u = (a * b * c) * n
  OBVIOUS
<1>11. /\ Unit(d) \in Nat /\ Unit(d) = (a * b * c) * n
       /\ Unit(d) = ((b * c) * n) * a /\ Unit(d) = ((a * c) * n) * b
       /\ Unit(d) = ((a * b) * n) * c
  <2>1. Unit(d) = u /\ u \in Nat
    BY <1>3, <1>6, <1>10
  <2>2. u = ((b * c) * n) * a /\ u = ((a * c) * n) * b /\ u = ((a * b) * n) * c
    BY <1>7, <1>8, <1>9, <1>10, Zenon
  <2> QED
    BY <1>10, <2>1, <2>2
<1>12. b * c \in Nat /\ a * c \in Nat /\ a * b \in Nat /\ a * b * c \in Nat
  BY <1>4, <1>5
<1> QED
  BY <1>2, <1>11, <1>12, Zenon

\* Three shares together.
LEMMA TimesSum ==
    \A n \in Int, x, y, z \in Int : n * x + n * y + n * z = n * (x + y + z)
OBVIOUS

LEMMA RelativeRep ==
    ASSUME NEW d, Known(d)
    PROVE  /\ DOMAIN calcRelativeRep(d) = DOMAIN d
           /\ \A k \in DOMAIN d : calcRelativeRep(d)[k] \in Nat
           /\ Sum(calcRelativeRep(d)) = Unit(d) * AllocatedTo(d)
           /\ \E m : \A k \in DOMAIN d : /\ m[k] \in Nat
                                         /\ calcRelativeRep(d)[k] = Cardinality(TEAM) * m[k]
<1> DEFINE D == DOMAIN d
           rep == calcRelativeRep(d)
           CA == CLAIMER_REP_ALLOCATION
           HA == HOLDER_REP_ALLOCATION
           SA == STAKER_REP_ALLOCATION
<1>1. PICK a, b, c, n \in Nat \ {0} :
              /\ a = OrOne(Totals(d).claims) /\ b = OrOne(Totals(d).balance)
              /\ c = OrOne(Totals(d).stake) /\ n = Cardinality(TEAM)
              /\ Unit(d) \in Nat /\ Unit(d) = (a * b * c) * n
              /\ b * c \in Nat /\ a * c \in Nat /\ a * b \in Nat /\ a * b * c \in Nat
              /\ Unit(d) = ((b * c) * n) * a /\ Unit(d) = ((a * c) * n) * b
              /\ Unit(d) = ((a * b) * n) * c
  BY UnitFacts
<1> DEFINE u == Unit(d)
           h1 == [k \in D |-> CA * d[k].claims * (u \div a)]
           h2 == [k \in D |-> HA * d[k].balance * (u \div b)]
           h3 == [k \in D |-> SA * d[k].stake * (u \div c)]
           h12 == [k \in D |-> h1[k] + h2[k]]
<1>2. /\ DOMAIN rep = D /\ \A k \in D : rep[k] = h1[k] + h2[k] + h3[k]
      /\ \A k \in D : h12[k] = h1[k] + h2[k] /\ rep[k] = h12[k] + h3[k]
  BY <1>1 DEF calcRelativeRep
<1>3. CA \in Nat /\ HA \in Nat /\ SA \in Nat
  BY AirdropAssumption
<1>4. PICK u1 : u1 = u
  OBVIOUS
<1>5. PICK p, q, r \in Nat : p = b * c /\ q = a * c /\ r = a * b
  BY <1>1
<1>6. u1 \in Nat /\ u1 = (p * n) * a /\ u1 = (q * n) * b /\ u1 = (r * n) * c
  BY <1>1, <1>4, <1>5
<1>7. /\ \A k \in D : h1[k] = CA * ClaimsHeld(d)[k] * (u1 \div a)
      /\ \A k \in D : h2[k] = HA * BalancesHeld(d)[k] * (u1 \div b)
      /\ \A k \in D : h3[k] = SA * StakesHeld(d)[k] * (u1 \div c)
  BY <1>4, TotalsFacts
<1> HIDE DEF h1, h2, h3, h12, u, rep, CA, HA, SA
<1>8. PICK s1, s2, s3 : /\ s1 = Totals(d).claims /\ s2 = Totals(d).balance
                        /\ s3 = Totals(d).stake
  OBVIOUS
<1>9. /\ IsFiniteSet(D) /\ \A k \in D : /\ ClaimsHeld(d)[k] \in Nat
                                        /\ BalancesHeld(d)[k] \in Nat /\ StakesHeld(d)[k] \in Nat
      /\ s1 = SumFunctionOnSet(ClaimsHeld(d), D) /\ s2 = SumFunctionOnSet(BalancesHeld(d), D)
      /\ s3 = SumFunctionOnSet(StakesHeld(d), D)
      /\ a = OrOne(s1) /\ b = OrOne(s2) /\ c = OrOne(s3)
  BY <1>1, <1>8, TotalsFacts
<1> HIDE DEF D
<1>10. /\ \A k \in D : h1[k] \in Nat /\ h1[k] = n * (CA * p * ClaimsHeld(d)[k])
       /\ SumFunctionOnSet(h1, D) = u1 * (IF s1 > 0 THEN CA ELSE 0)
  <2>1. PICK f : f = ClaimsHeld(d)
    OBVIOUS
  <2>2. PICK x : x = CA
    OBVIOUS
  <2>3. x \in Nat /\ n \in Nat \ {0} /\ p \in Nat /\ IsFiniteSet(D)
    BY <1>3, <1>9, <2>2
  <2>4. Divides(s1, u1, p, n) /\ s1 = SumFunctionOnSet(f, D)
    BY <1>6, <1>9, <2>1 DEF Divides
  <2>5. \A k \in D : f[k] \in Nat
    BY <1>9, <2>1
  <2>6. AreShares(h1, f, D, x, u1, s1)
    BY <1>7, <1>9, <2>1, <2>2 DEF AreShares
  <2>7. /\ AreMultiples(h1, f, D, x, p, n)
        /\ SumFunctionOnSet(h1, D) = Handed(u1, s1, x)
    BY <2>3, <2>4, <2>5, <2>6, ShareOfTotal
  <2> QED
    BY <2>1, <2>2, <2>7 DEF AreMultiples, Handed
<1>11. /\ \A k \in D : h2[k] \in Nat /\ h2[k] = n * (HA * q * BalancesHeld(d)[k])
       /\ SumFunctionOnSet(h2, D) = u1 * (IF s2 > 0 THEN HA ELSE 0)
  <2>1. PICK f : f = BalancesHeld(d)
    OBVIOUS
  <2>2. PICK x : x = HA
    OBVIOUS
  <2>3. x \in Nat /\ n \in Nat \ {0} /\ q \in Nat /\ IsFiniteSet(D)
    BY <1>3, <1>9, <2>2
  <2>4. Divides(s2, u1, q, n) /\ s2 = SumFunctionOnSet(f, D)
    BY <1>6, <1>9, <2>1 DEF Divides
  <2>5. \A k \in D : f[k] \in Nat
    BY <1>9, <2>1
  <2>6. AreShares(h2, f, D, x, u1, s2)
    BY <1>7, <1>9, <2>1, <2>2 DEF AreShares
  <2>7. /\ AreMultiples(h2, f, D, x, q, n)
        /\ SumFunctionOnSet(h2, D) = Handed(u1, s2, x)
    BY <2>3, <2>4, <2>5, <2>6, ShareOfTotal
  <2> QED
    BY <2>1, <2>2, <2>7 DEF AreMultiples, Handed
<1>12. /\ \A k \in D : h3[k] \in Nat /\ h3[k] = n * (SA * r * StakesHeld(d)[k])
       /\ SumFunctionOnSet(h3, D) = u1 * (IF s3 > 0 THEN SA ELSE 0)
  <2>1. PICK f : f = StakesHeld(d)
    OBVIOUS
  <2>2. PICK x : x = SA
    OBVIOUS
  <2>3. x \in Nat /\ n \in Nat \ {0} /\ r \in Nat /\ IsFiniteSet(D)
    BY <1>3, <1>9, <2>2
  <2>4. Divides(s3, u1, r, n) /\ s3 = SumFunctionOnSet(f, D)
    BY <1>6, <1>9, <2>1 DEF Divides
  <2>5. \A k \in D : f[k] \in Nat
    BY <1>9, <2>1
  <2>6. AreShares(h3, f, D, x, u1, s3)
    BY <1>7, <1>9, <2>1, <2>2 DEF AreShares
  <2>7. /\ AreMultiples(h3, f, D, x, r, n)
        /\ SumFunctionOnSet(h3, D) = Handed(u1, s3, x)
    BY <2>3, <2>4, <2>5, <2>6, ShareOfTotal
  <2> QED
    BY <2>1, <2>2, <2>7 DEF AreMultiples, Handed
<1>13. /\ \A k \in D : h1[k] \in Int /\ h2[k] \in Int /\ h3[k] \in Int
       /\ \A k \in D : h12[k] = h1[k] + h2[k] /\ h12[k] \in Int
       /\ \A k \in D : rep[k] = h12[k] + h3[k] /\ rep[k] \in Nat
  BY <1>2, <1>10, <1>11, <1>12
<1>14. SumFunctionOnSet(h12, D) = SumFunctionOnSet(h1, D) + SumFunctionOnSet(h2, D)
  BY <1>9, <1>13, SumPlus
<1>15. SumFunctionOnSet(rep, D) = SumFunctionOnSet(h12, D) + SumFunctionOnSet(h3, D)
  BY <1>9, <1>13, SumPlus
<1>16. Sum(rep) = u1 * AllocatedTo(d)
  <2>1. PICK x, y, z \in Nat : /\ x = (IF s1 > 0 THEN CA ELSE 0)
                               /\ y = (IF s2 > 0 THEN HA ELSE 0)
                               /\ z = (IF s3 > 0 THEN SA ELSE 0)
    BY <1>3
  <2>2. AllocatedTo(d) = x + y + z
    BY <1>8, <2>1 DEF AllocatedTo, CA, HA, SA
  <2>3. Sum(rep) = u1 * x + u1 * y + u1 * z
    BY <1>2, <1>10, <1>11, <1>12, <1>14, <1>15, <2>1 DEF Sum
  <2>4. u1 * x + u1 * y + u1 * z = u1 * (x + y + z)
    BY <1>6, TimesSum
  <2> QED
    BY <2>2, <2>3, <2>4
<1>17. \E m : \A k \in D : m[k] \in Nat /\ rep[k] = n * m[k]
  <2> DEFINE m == [k \in D |-> CA * p * ClaimsHeld(d)[k] + HA * q * BalancesHeld(d)[k]
                               + SA * r * StakesHeld(d)[k]]
  <2>1. ASSUME NEW k \in D PROVE m[k] \in Nat /\ rep[k] = n * m[k]
    <3>1. PICK x, y, z : /\ x = CA * p * ClaimsHeld(d)[k] /\ y = HA * q * BalancesHeld(d)[k]
                         /\ z = SA * r * StakesHeld(d)[k]
      OBVIOUS
    <3>2. x \in Nat /\ y \in Nat /\ z \in Nat
      BY <1>3, <1>5, <1>9, <3>1, TimesTwice
    <3>3. rep[k] = n * x + n * y + n * z /\ m[k] = x + y + z
      BY <1>10, <1>11, <1>12, <1>13, <3>1
    <3>4. n * x + n * y + n * z = n * (x + y + z)
      BY <3>2, TimesSum
    <3> QED
      BY <3>2, <3>3, <3>4
  <2> QED
    BY <2>1
<1> QED
  BY <1>1, <1>2, <1>4, <1>13, <1>16, <1>17 DEF D, rep, u
\* A file of what was collected.
Recorded(f) == DOMAIN f \in SUBSET Key /\ \A k \in DOMAIN f : f[k] \in Nat
Collected(c) == DOMAIN c = Part /\ \A p \in Part : Recorded(c[p])

LEMMA AtType == ASSUME NEW f, Recorded(f) PROVE \A k : At(f, k) \in Nat
BY DEF Recorded, At

LEMMA FourBalances == IsFiniteSet(Balances) /\ Balances \subseteq Part
<1>1. /\ IsFiniteSet({"eth"}) /\ IsFiniteSet({"fuse"}) /\ IsFiniteSet({"uniswap"})
      /\ IsFiniteSet({"fuseswap"})
  BY FS_Singleton
<1>2. IsFiniteSet({"eth"} \cup {"fuse"}) /\ IsFiniteSet({"uniswap"} \cup {"fuseswap"})
  BY <1>1, FS_Union
<1>3. IsFiniteSet(({"eth"} \cup {"fuse"}) \cup ({"uniswap"} \cup {"fuseswap"}))
  BY <1>2, FS_Union
<1>4. ({"eth"} \cup {"fuse"}) \cup ({"uniswap"} \cup {"fuseswap"}) = Balances
  BY DEF Balances
<1> QED
  BY <1>3, <1>4 DEF Balances, Part

LEMMA MergedKnown ==
    ASSUME NEW c, Collected(c)
    PROVE  Known(merged(c))
<1>1. DOMAIN merged(c) = UNION {DOMAIN c[p] : p \in Part}
  BY DEF merged, Collected
<1>2. DOMAIN merged(c) \in SUBSET Key
  BY <1>1 DEF Collected, Recorded
<1>3. ASSUME NEW k \in DOMAIN merged(c)
      PROVE  /\ merged(c)[k].claims \in Nat /\ merged(c)[k].balance \in Nat
             /\ merged(c)[k].stake \in Nat
  <2> DEFINE b == [p \in Balances |-> At(c[p], k)]
  <2>1. /\ merged(c)[k].claims = At(c["claims"], k) /\ merged(c)[k].stake = At(c["stakers"], k)
        /\ merged(c)[k].balance = Sum(b)
    BY DEF merged
  <2>2. \A p \in Part : At(c[p], k) \in Nat
    BY AtType DEF Collected
  <2>3. "claims" \in Part /\ "stakers" \in Part
    BY DEF Part
  <2>4. DOMAIN b = Balances /\ \A p \in Balances : b[p] \in Nat
    BY <2>2, FourBalances
  <2> HIDE DEF b
  <2>5. Sum(b) \in Nat
    BY <2>4, FourBalances, SumType DEF Sum
  <2> QED
    BY <2>1, <2>2, <2>3, <2>5
<1> QED
  BY <1>2, <1>3 DEF Known

LEMMA MovedKnown ==
    ASSUME NEW d, Known(d), EtoroKeys \subseteq DOMAIN d, lower(shoppingio) \in DOMAIN d
    PROVE  Known(moved(d)) /\ EtoroKeys \subseteq DOMAIN moved(d)
<1> DEFINE m == moved(d)
           new == mixed(shoppingioNew)
           old == lower(shoppingio)
<1>1. /\ DOMAIN m = {new} \cup (DOMAIN d \ {old})
      /\ \A k \in DOMAIN m : m[k] = d[old] \/ (k \in DOMAIN d /\ m[k] = d[k])
  BY DEF moved
<1>2. new \in Key
  BY AirdropAssumption DEF mixed, Key
<1>3. old \notin EtoroKeys
  BY AirdropAssumption DEF EtoroKeys, lower
<1> HIDE DEF m, new, old
<1>4. EtoroKeys \subseteq DOMAIN m
  BY <1>1, <1>3
<1>5. Known(m)
  BY <1>1, <1>2 DEF Known, old
<1> QED
  BY <1>4, <1>5 DEF m

LEMMA TeamShare ==
    ASSUME NEW n \in Nat \ {0}, NEW m \in Nat, NEW f \in Nat, NEW w \in Nat,
           NEW unit, unit = w * n, NEW e, e = n * m, e >= 2 * f * unit
    PROVE  \E q \in Nat : e = 2 * (f * unit) + q * n
<1>1. PICK z : z = 2 * f * w
  OBVIOUS
<1>2. z \in Nat
  BY <1>1
<1>3. 2 * f * (w * n) = n * (2 * f * w)
  OBVIOUS
<1>4. 2 * (f * (w * n)) = n * (2 * f * w)
  OBVIOUS
<1>5. n * m >= n * z
  BY <1>1, <1>3, Zenon
<1>6. z <= m
  <2>1. SUFFICES ASSUME m + 1 <= z PROVE FALSE
    BY <1>2
  <2>2. n * (m + 1) <= n * z
    BY <1>2, <2>1
  <2>3. n * (m + 1) = n * m + n /\ n * m \in Nat /\ n * z \in Nat
    BY <1>2
  <2> QED
    BY <1>5, <2>2, <2>3
<1>7. m - z \in Nat /\ n * m = n * z + (m - z) * n
  BY <1>2, <1>6
<1>8. e = 2 * (f * unit) + (m - z) * n
  BY <1>1, <1>4, <1>7
<1> QED
  BY <1>7, <1>8

LEMMA EtoroIsShared ==
    ASSUME NEW d, Known(d), EtoroKeys \subseteq DOMAIN d,
           eToroRep(calcRelativeRep(d)) >= 2 * foundationEtoroRepShare * Unit(d)
    PROVE  \E q \in Nat : eToroRep(calcRelativeRep(d))
                            = 2 * (foundationEtoroRepShare * Unit(d)) + q * Cardinality(TEAM)
<1>1. PICK m : \A k \in DOMAIN d : /\ m[k] \in Nat
                                   /\ calcRelativeRep(d)[k] = Cardinality(TEAM) * m[k]
  BY RelativeRep
<1> DEFINE g == [a \in ETORO |-> calcRelativeRep(d)[lower(a)]]
           h == [a \in ETORO |-> m[lower(a)]]
<1>2. PICK n \in Nat \ {0} : n = Cardinality(TEAM)
  BY TeamFacts
<1>3. ASSUME NEW a \in ETORO PROVE h[a] \in Nat /\ h[a] \in Int /\ g[a] = n * h[a]
  <2>1. lower(a) \in DOMAIN d
    BY DEF EtoroKeys
  <2>2. m[lower(a)] \in Nat /\ calcRelativeRep(d)[lower(a)] = n * m[lower(a)]
    BY <1>1, <1>2, <2>1
  <2>3. g[a] = calcRelativeRep(d)[lower(a)] /\ h[a] = m[lower(a)]
    OBVIOUS
  <2> HIDE DEF g, h
  <2> QED
    BY <2>2, <2>3
<1>4. eToroRep(calcRelativeRep(d)) = SumFunctionOnSet(g, ETORO) /\ IsFiniteSet(ETORO)
  BY TeamFacts DEF eToroRep, Sum
<1> HIDE DEF g, h
<1>5. SumFunctionOnSet(g, ETORO) = n * SumFunctionOnSet(h, ETORO)
  BY <1>3, <1>4, SumTimes
<1>6. PICK s \in Nat : s = SumFunctionOnSet(h, ETORO)
  BY <1>3, <1>4, SumType
<1>7. PICK w \in Nat : Unit(d) = w * n
  BY <1>2, UnitFacts
<1>8. PICK u, e, f : /\ u = Unit(d) /\ e = eToroRep(calcRelativeRep(d))
                     /\ f = foundationEtoroRepShare
  OBVIOUS
<1>9. f \in Nat /\ u = w * n /\ e = n * s /\ e >= 2 * f * u
  BY <1>4, <1>5, <1>6, <1>7, <1>8, AirdropAssumption
<1>10. \E q \in Nat : e = 2 * (f * u) + q * n
  BY <1>9, TeamShare
<1> QED
  BY <1>2, <1>8, <1>10

\* What the build makes of whole files.
LEMMA BuiltTree ==
    ASSUME NEW c, Collected(c), Buildable(c), NEW d, d = moved(merged(c))
    PROVE  /\ \E N \in Nat : toTree(c) = [n \in 1 .. N |-> toTree(c)[n]]
           /\ Apart(toTree(c))
           /\ eToroRep(calcRelativeRep(d)) >= 2 * foundationEtoroRepShare * Unit(d)
                => Sum(Reps(toTree(c))) = Unit(d) * AllocatedTo(d)
<1>1. EtoroKeys \subseteq DOMAIN merged(c) /\ lower(shoppingio) \in DOMAIN merged(c)
  BY DEF Buildable, EtoroKeys
<1>2. Known(d) /\ EtoroKeys \subseteq DOMAIN d
  BY <1>1, MergedKnown, MovedKnown
<1>3. PICK rep, unit, s : rep = calcRelativeRep(d) /\ unit = Unit(d) /\ s = split(rep, unit)
  OBVIOUS
<1>4. toTree(c) = Ranked(s)
  BY <1>3 DEF toTree
<1>5. /\ DOMAIN rep = DOMAIN d /\ \A k \in DOMAIN d : rep[k] \in Nat /\ rep[k] \in Int
      /\ DOMAIN d \in SUBSET Key /\ IsFiniteSet(DOMAIN d)
      /\ unit \in Nat /\ unit \in Int /\ Sum(rep) = unit * AllocatedTo(d)
  <2>1. DOMAIN d \in SUBSET Key
    BY <1>2 DEF Known
  <2>2. unit \in Nat
    BY <1>2, <1>3, UnitFacts
  <2> QED
    BY <1>2, <1>3, <2>1, <2>2, RelativeRep, FiniteKeys
<1>6. Tree(s)
  BY <1>2, <1>3, <1>5, SplitTree
<1>7. /\ \E N \in Nat : Ranked(s) = [n \in 1 .. N |-> Ranked(s)[n]]
      /\ Apart(Ranked(s))
      /\ Positive(s) => Sum(Reps(Ranked(s))) = Sum(Reps(s))
  BY <1>6, SortedTree
<1>8. ASSUME eToroRep(calcRelativeRep(d)) >= 2 * foundationEtoroRepShare * Unit(d)
      PROVE  Sum(Reps(toTree(c))) = Unit(d) * AllocatedTo(d)
  <2>1. PICK q \in Nat :
            eToroRep(rep) = 2 * (foundationEtoroRepShare * unit) + q * Cardinality(TEAM)
    BY <1>2, <1>3, <1>8, EtoroIsShared
  <2>2. Positive(s) /\ Sum(Reps(s)) = Sum(rep)
    BY <1>2, <1>3, <1>5, <2>1, SplitTree
  <2> QED
    BY <1>3, <1>4, <1>5, <1>7, <2>2
<1> QED
  BY <1>4, <1>7, <1>8
(* What is collected is numbers under keys, and the tree is saved as built  *)
FilesRecorded == DOMAIN files = Part /\ \A p \in Part : Recorded(files[p].data)
PartRecorded ==
    /\ Recorded(addresses) /\ failed \in Seq(Accounts)
    /\ part = "uniswap" => requests \subseteq Accounts
    /\ part = "eth" => requests \subseteq Accounts
    /\ part = "fuseswap" => stage.yieldFarmingRep \in Nat
TreeSaved ==
    /\ \E N \in Nat : airdrop.tree = [n \in 1 .. N |-> airdrop.tree[n]]
    /\ Apart(airdrop.tree) /\ airdrop.data = airdrop.tree
RecordsInv == FilesRecorded /\ PartRecorded /\ TreeSaved

LEMMA EmptyRecorded == Recorded(Empty)
BY DEF Recorded, Empty

LEMMA PlusRecorded ==
    ASSUME Recorded(addresses), NEW k \in Key, NEW n \in Nat
    PROVE  Recorded(plus(k, n))
<1>1. \A x : At(addresses, x) \in Nat
  BY AtType
<1>2. /\ DOMAIN plus(k, n) = DOMAIN addresses \cup {k}
      /\ \A x \in DOMAIN plus(k, n) :
            plus(k, n)[x] = At(addresses, x) + (IF x = k THEN n ELSE 0)
  BY DEF plus
<1>3. \A x : At(addresses, x) + (IF x = k THEN n ELSE 0) \in Nat
  BY <1>1
<1> QED
  BY <1>2, <1>3 DEF Recorded

LEMMA SpelledKeys == \A a \in Accounts : lower(a) \in Key /\ mixed(a) \in Key
BY DEF lower, mixed, Key

LEMMA RecordsBegin ==
    ASSUME RecordsInv, NEW p, NEW first, NEW sent, Begin(p, first, sent),
           p \in {"uniswap", "eth"} => sent \subseteq Accounts,
           p = "fuseswap" => first.yieldFarmingRep \in Nat
    PROVE  RecordsInv'
<1>1. FilesRecorded' /\ TreeSaved'
  BY DEF Begin, files_vars, RecordsInv, FilesRecorded, TreeSaved
<1>2. PartRecorded'
  BY DEF Begin, RecordsInv, PartRecorded
<1> QED
  BY <1>1, <1>2 DEF RecordsInv

LEMMA RecordsStay ==
    ASSUME RecordsInv, UNCHANGED <<part, files, airdrop>>, Recorded(addresses'),
           failed' \in Seq(Accounts),
           part \in {"uniswap", "eth"} => requests' \subseteq Accounts,
           part = "fuseswap" => stage'.yieldFarmingRep \in Nat
    PROVE  RecordsInv'
<1>1. FilesRecorded' /\ TreeSaved'
  BY DEF RecordsInv, FilesRecorded, TreeSaved
<1>2. PartRecorded'
  BY DEF RecordsInv, PartRecorded
<1> QED
  BY <1>1, <1>2 DEF RecordsInv

LEMMA RecordsGoOn ==
    ASSUME RecordsInv, UNCHANGED <<part, files_vars>>, Recorded(addresses'),
           failed' \in Seq(Accounts),
           part \in {"uniswap", "eth"} => requests' \subseteq Accounts,
           part = "fuseswap" => stage'.yieldFarmingRep \in Nat
    PROVE  RecordsInv'
<1>1. UNCHANGED <<part, files, airdrop>>
  BY DEF files_vars
<1> QED
  BY <1>1, RecordsStay

LEMMA RecordsAnswered ==
    ASSUME RecordsInv, NEW r, NEW k \in Key, NEW n \in Nat, Answered(r, k, n)
    PROVE  RecordsInv'
<1>1. Recorded(addresses') /\ UNCHANGED <<part, stage, failed, files_vars>>
      /\ requests' \subseteq requests
  BY PlusRecorded DEF Answered, RecordsInv, PartRecorded
<1> QED
  BY <1>1, RecordsGoOn DEF RecordsInv, PartRecorded

LEMMA RecordsIdle ==
    ASSUME Idle
    PROVE  PartRecorded'
<1>1. Recorded(addresses')
  BY EmptyRecorded DEF Idle
<1>2. failed' \in Seq(Accounts)
  BY DEF Idle
<1>3. part' = "none"
  BY DEF Idle
<1> QED
  BY <1>1, <1>2, <1>3 DEF PartRecorded

LEMMA RecordsWritten ==
    ASSUME RecordsInv, NEW p \in Part, NEW data, Recorded(data), Written(p, data),
           UNCHANGED airdrop
    PROVE  RecordsInv'
<1>1. files' = [files EXCEPT ![p] = [at |-> snapshot, data |-> data]] /\ Idle
  BY DEF Written
<1>2. FilesRecorded'
  BY <1>1 DEF RecordsInv, FilesRecorded
<1>3. TreeSaved'
  BY DEF RecordsInv, TreeSaved
<1> QED
  BY <1>1, <1>2, <1>3, RecordsIdle DEF RecordsInv

LEMMA BalanceFacts ==
    /\ \A s \in Blocks, a \in Accounts : /\ UniswapShare[s][a] \in Nat /\ EthBalance[s][a] \in Nat
                                         /\ FuseBalance[s][a] \in Nat /\ FarmStake[s][a] \in Nat
    /\ \A s \in Blocks, r \in Pairs \X Accounts : FuseswapShare[s][r] \in Nat
<1>1. \A f \in {EthBalance, UniswapShare, FarmStake, FuseBalance} : f \in [Blocks -> [Accounts -> Nat]]
  BY CollectionAssumption
<1>2. \A f \in [Blocks -> [Accounts -> Nat]] : \A s \in Blocks, a \in Accounts : f[s][a] \in Nat
  OBVIOUS
<1>3. \A s \in Blocks, r \in Pairs \X Accounts : FuseswapShare[s][r] \in Nat
  <2>1. FuseswapShare \in [Blocks -> [Pairs \X Accounts -> Nat]]
    BY CollectionAssumption
  <2> QED
    BY <2>1
<1>4. \A s \in Blocks, a \in Accounts : /\ UniswapShare[s][a] \in Nat /\ EthBalance[s][a] \in Nat
                                         /\ FuseBalance[s][a] \in Nat /\ FarmStake[s][a] \in Nat
  BY <1>1, <1>2
<1> QED
  BY <1>3, <1>4

LEMMA UniswapRecords ==
    ASSUME CollectionInv, RecordsInv, getUniswapBalances
    PROVE  RecordsInv'
<1>1. CASE Begin("uniswap", "positions", {a \in Accounts : UniswapShare[snapshot][a] > 0})
  BY <1>1, RecordsBegin
<1>2. ASSUME part = "uniswap", NEW a \in requests,
             Answered(a, lower(a), UniswapShare[snapshot][a])
      PROVE  RecordsInv'
  <2>1. a \in Accounts /\ snapshot \in Blocks
    BY <1>2, SnapshotFacts DEF RecordsInv, PartRecorded, CollectionInv
  <2> QED
    BY <1>2, <2>1, SpelledKeys, BalanceFacts, RecordsAnswered
<1>3. CASE Written("uniswap", addresses) /\ UNCHANGED airdrop
  BY <1>3, RecordsWritten DEF RecordsInv, PartRecorded, Part
<1> QED
  BY <1>1, <1>2, <1>3 DEF getUniswapBalances

LEMMA FarmShare ==
    ASSUME snapshot \in Snapshots, NEW a \in Accounts, stage.yieldFarmingRep \in Nat
    PROVE  farmerShare(a) \in Nat
<1>1. /\ snapshot \in Blocks /\ FarmStake[snapshot][a] \in Nat /\ totalStaked > 0
      /\ FarmStake[snapshot] \in [Accounts -> Nat]
  BY CollectionAssumption DEF totalStaked
<1>2. totalStaked \in Nat
  BY <1>1, SumType, AirdropAssumption DEF totalStaked, Sum
<1>3. PICK x, y, z \in Nat : /\ x = FarmStake[snapshot][a] /\ y = stage.yieldFarmingRep
                             /\ z = totalStaked
  BY <1>1, <1>2
<1>4. (x * y) \div z \in Nat
  <2>1. x * y \in Nat /\ z > 0
    BY <1>1, <1>3
  <2> QED
    BY <2>1
<1> QED
  BY <1>3, <1>4 DEF farmerShare

LEMMA FuseswapRecords ==
    ASSUME CollectionInv, RecordsInv, getFuseSwapBalances
    PROVE  RecordsInv'
<1>1. ASSUME NEW read \in SUBSET Pairs,
             Begin("fuseswap", [yieldFarmingRep |-> 0],
                   {r \in read \X Accounts : FuseswapShare[snapshot][r] > 0})
      PROVE  RecordsInv'
  BY <1>1, RecordsBegin
<1>2. ASSUME part = "fuseswap", NEW r \in requests \cap (Pairs \X Accounts),
             Answered(r, lower(r[2]), FuseswapShare[snapshot][r])
      PROVE  RecordsInv'
  <2>1. r \in Pairs \X Accounts /\ r[2] \in Accounts /\ snapshot \in Blocks
    BY <1>2, SnapshotFacts DEF CollectionInv
  <2>2. lower(r[2]) \in Key /\ FuseswapShare[snapshot][r] \in Nat
    BY <2>1, SpelledKeys, BalanceFacts
  <2> QED
    BY <1>2, <2>2, RecordsAnswered
<1>3. ASSUME part = "fuseswap", stage' = [yieldFarmingRep |-> At(addresses, lower(usdcgdYieldFarming))],
             UNCHANGED <<part, addresses, failed, files_vars>>
      PROVE  RecordsInv'
  <2>1. Recorded(addresses) /\ failed \in Seq(Accounts)
    BY DEF RecordsInv, PartRecorded
  <2>2. At(addresses, lower(usdcgdYieldFarming)) \in Nat
    BY <2>1, AtType
  <2> QED
    BY <1>3, <2>1, <2>2, RecordsGoOn
<1>4. CASE Written("fuseswap", addresses) /\ UNCHANGED airdrop
  BY <1>4, RecordsWritten DEF RecordsInv, PartRecorded, Part
<1>5. ASSUME part = "fuseswap", NEW r \in requests \cap Events,
             Answered(r, mixed(StakedLogs[r[2]]), farmerShare(StakedLogs[r[2]]))
      PROVE  RecordsInv'
  <2>1. r[2] \in DOMAIN StakedLogs
    BY DEF Events
  <2>2. StakedLogs[r[2]] \in Accounts
    <3>1. StakedLogs \in Seq(Accounts)
      BY CollectionAssumption
    <3> QED
      BY <2>1, <3>1
  <2>3. snapshot \in Snapshots /\ stage.yieldFarmingRep \in Nat
    BY <1>5 DEF CollectionInv, RecordsInv, PartRecorded
  <2>4. farmerShare(StakedLogs[r[2]]) \in Nat /\ mixed(StakedLogs[r[2]]) \in Key
    BY <2>2, <2>3, FarmShare, SpelledKeys
  <2> QED
    BY <1>5, <2>4, RecordsAnswered
<1>6. CASE Written("fuseswap", Dropped) /\ UNCHANGED airdrop
  <2>1. Recorded(Dropped)
    BY DEF Dropped, RecordsInv, PartRecorded, Recorded
  <2> QED
    BY <1>6, <2>1, RecordsWritten DEF Part
<1> QED
  BY <1>1, <1>2, <1>3, <1>4, <1>5, <1>6 DEF getFuseSwapBalances

LEMMA ClaimsRecords ==
    ASSUME CollectionInv, RecordsInv, getClaimsPerAddress
    PROVE  RecordsInv'
<1>0. Recorded(addresses) /\ failed \in Seq(Accounts)
  BY DEF RecordsInv, PartRecorded
<1>1. CASE Begin("claims", "ubi", ClaimChunks("ubi"))
  BY <1>1, RecordsBegin
<1>2. ASSUME part = "claims", NEW r \in requests,
             addresses' = [k \in DOMAIN addresses \cup {lower(a) : a \in Claimers(r)} |->
                                At(addresses, k) + ClaimsIn(r, k[1])],
             UNCHANGED <<part, stage, failed, files_vars>>
      PROVE  RecordsInv'
  <2>1. \A k : At(addresses, k) \in Nat /\ ClaimsIn(r, k[1]) \in Nat
    BY <1>0, AtType, IndexSets DEF ClaimsIn
  <2>2. \A k : At(addresses, k) + ClaimsIn(r, k[1]) \in Nat
    BY <2>1
  <2>3. {lower(a) : a \in Claimers(r)} \subseteq Key
    BY SpelledKeys DEF Claimers
  <2>4. Recorded(addresses')
    BY <1>0, <1>2, <2>2, <2>3 DEF Recorded
  <2> QED
    BY <1>0, <1>2, <2>4, RecordsGoOn
<1>3. CASE part = "claims" /\ UNCHANGED <<part, addresses, failed, files_vars>>
  BY <1>0, <1>3, RecordsGoOn
<1>4. CASE Written("claims", addresses) /\ UNCHANGED airdrop
  BY <1>0, <1>4, RecordsWritten DEF Part
<1> QED
  BY <1>1, <1>2, <1>3, <1>4 DEF getClaimsPerAddress

LEMMA EthRecords ==
    ASSUME CollectionInv, RecordsInv, getEthPlorerHolders
    PROVE  RecordsInv'
<1>0. /\ Recorded(addresses) /\ failed \in Seq(Accounts)
      /\ part = "eth" => requests \subseteq Accounts
  BY DEF RecordsInv, PartRecorded
<1>1. CASE Begin("eth", "first", EthHolders)
  BY <1>1, CollectionAssumption, RecordsBegin
<1>2. ASSUME part = "eth", NEW a \in requests, Answered(a, lower(a), EthBalance[snapshot][a])
      PROVE  RecordsInv'
  <2>1. a \in Accounts /\ snapshot \in Blocks
    BY <1>0, <1>2, SnapshotFacts DEF CollectionInv
  <2> QED
    BY <1>2, <2>1, SpelledKeys, BalanceFacts, RecordsAnswered
<1>3. ASSUME part = "eth", NEW a \in requests, requests' = requests \ {a},
             failed' = Append(failed, a), addresses' = plus(lower(a), Len(failed')),
             UNCHANGED <<part, files_vars>>
      PROVE  RecordsInv'
  <2>1. a \in Accounts /\ failed' \in Seq(Accounts) /\ requests' \subseteq Accounts
    BY <1>0, <1>3
  <2>2. Len(failed') \in Nat /\ lower(a) \in Key
    BY <2>1, SpelledKeys
  <2>3. Recorded(addresses')
    BY <1>0, <1>3, <2>2, PlusRecorded
  <2> QED
    BY <1>3, <2>1, <2>3, RecordsGoOn
<1>4. CASE part = "eth" /\ requests' = Range(failed) /\ UNCHANGED <<part, addresses, failed, files_vars>>
  <2>1. Range(failed) \subseteq Accounts
    BY <1>0 DEF Range
  <2> QED
    BY <1>0, <1>4, <2>1, RecordsGoOn
<1>5. CASE Written("eth", addresses) /\ UNCHANGED airdrop
  BY <1>0, <1>5, RecordsWritten DEF Part
<1> QED
  BY <1>1, <1>2, <1>3, <1>4, <1>5 DEF getEthPlorerHolders

LEMMA FuseRecorded ==
    ASSUME CollectionInv, RecordsInv, getFuseHolders
    PROVE  RecordsInv'
<1>0. Recorded(addresses) /\ failed \in Seq(Accounts)
  BY DEF RecordsInv, PartRecorded
<1>1. CASE Begin("fuse", [addrs |-> {}, listed |-> FALSE], {"logs"} \X Chunks(FirstBlock, snapshot))
  BY <1>1, RecordsBegin
<1>2. CASE part = "fuse" /\ UNCHANGED <<part, addresses, failed, files, airdrop>>
  BY <1>0, <1>2, RecordsStay
<1>3. ASSUME part = "fuse", NEW r \in requests \cap ({"balance"} \X Accounts),
             Answered(r, lower(r[2]), FuseBalance[clock][r[2]])
      PROVE  RecordsInv'
  <2>1. r[2] \in Accounts /\ clock \in Blocks
    BY DEF CollectionInv
  <2>2. lower(r[2]) \in Key /\ FuseBalance[clock][r[2]] \in Nat
    BY <2>1, SpelledKeys, BalanceFacts
  <2> QED
    BY <1>3, <2>2, RecordsAnswered
<1>4. ASSUME part = "fuse", NEW r \in requests \cap ({"balance"} \X Accounts),
             failed' = Unread(r[2]), addresses' = plus(lower(r[2]), 0),
             UNCHANGED <<part, files_vars>>
      PROVE  RecordsInv'
  <2>1. r[2] \in Accounts /\ failed' \in Seq(Accounts)
    BY <1>0, <1>4 DEF Unread
  <2>2. Recorded(addresses')
    BY <1>0, <1>4, <2>1, SpelledKeys, PlusRecorded
  <2> QED
    BY <1>4, <2>1, <2>2, RecordsGoOn
<1>5. CASE Written("fuse", addresses) /\ UNCHANGED airdrop
  BY <1>0, <1>5, RecordsWritten DEF Part
<1> QED
  BY <1>1, <1>2, <1>3, <1>4, <1>5 DEF getFuseHolders, files_vars

LEMMA StakeTimeType ==
    \A a : \A kinds : \A s \in Nat : StakeTime(a, kinds, s) \in Nat
<1> SUFFICES ASSUME NEW a, NEW kinds, NEW s \in Nat PROVE StakeTime(a, kinds, s) \in Nat
  OBVIOUS
<1> DEFINE L == {l \in StakeLogs : l.from = a /\ l.kind \in kinds /\ l.block <= s}
           f == [l \in L |-> l.dai * (s - l.block)]
<1>1. IsFiniteSet(L)
  BY CollectionAssumption, FS_Subset
<1>2. \A l \in L : f[l] \in Nat
  <2> SUFFICES ASSUME NEW l \in L PROVE l.dai * (s - l.block) \in Nat
    OBVIOUS
  <2>1. l.dai \in Nat /\ l.block \in Nat /\ l.block <= s
    BY CollectionAssumption
  <2>2. PICK x, y : x = l.dai /\ y = s - l.block
    OBVIOUS
  <2>3. x \in Nat /\ y \in Nat
    BY <2>1, <2>2
  <2>4. x * y \in Nat
    BY <2>3
  <2> QED
    BY <2>2, <2>4
<1>3. StakeTime(a, kinds, s) = Sum(f) /\ DOMAIN f = L
  BY DEF StakeTime
<1> HIDE DEF L, f
<1> QED
  BY <1>1, <1>2, <1>3, SumType DEF Sum

LEMMA StakersRecords ==
    ASSUME CollectionInv, RecordsInv, getStakersBalance
    PROVE  RecordsInv'
<1> DEFINE K == {lower(a) : a \in StakersNow \ SystemContracts}
           in(k) == StakeTime(k[1], {"staked", "donated"}, snapshot)
           out(k) == StakeTime(k[1], {"withdrawn"}, snapshot)
           data == [k \in K |-> in(k) - out(k)]
<1>1. snapshot \in Snapshots /\ snapshot \in Nat
  BY SnapshotFacts DEF getStakersBalance, CollectionInv
<1>2. StakersNow \subseteq Accounts
  BY CollectionAssumption DEF StakersNow
<1>3. \A k \in K : k \in Key /\ k[1] \in Accounts
  BY <1>2 DEF lower, Key
<1>4. ASSUME NEW k \in K PROVE in(k) - out(k) \in Nat
  <2>1. in(k) \in Nat /\ out(k) \in Nat
    BY <1>1, StakeTimeType
  <2>2. out(k) <= in(k)
    BY <1>1, <1>3, WithdrawalAssumption
  <2> HIDE DEF in, out
  <2> QED
    BY <2>1, <2>2
<1>5. Recorded(data)
  BY <1>3, <1>4 DEF Recorded
<1>6. Written("stakers", data) /\ UNCHANGED airdrop
  BY DEF getStakersBalance
<1> HIDE DEF data
<1> QED
  BY <1>5, <1>6, RecordsWritten DEF Part

LEMMA BuildRecords ==
    ASSUME RecordsInv, buildMerkleTree
    PROVE  RecordsInv'
<1>1. PICK c, t : /\ c = [p \in Part |-> files[p].data] /\ t = toTree(c)
  OBVIOUS
<1>2. Collected(c)
  BY <1>1 DEF Collected, RecordsInv, FilesRecorded
<1>3. Buildable(c) /\ airdrop' = [tree |-> t, data |-> treeData(t)]
      /\ UNCHANGED <<part_vars, files>>
  BY <1>1 DEF buildMerkleTree
<1>4. Apart(t) /\ \E N \in Nat : t = [n \in 1 .. N |-> t[n]]
  BY <1>1, <1>2, <1>3, BuiltTree
<1>5. treeData(t) = t
  BY <1>4, SavedAsBuilt
<1>6. TreeSaved'
  BY <1>3, <1>4, <1>5 DEF TreeSaved
<1>7. FilesRecorded' /\ PartRecorded'
  BY <1>3 DEF RecordsInv, FilesRecorded, PartRecorded, part_vars
<1> QED
  BY <1>6, <1>7 DEF RecordsInv

LEMMA Init_RecordsInv == Init => RecordsInv
<1> SUFFICES ASSUME Init PROVE RecordsInv
  OBVIOUS
<1>1. FilesRecorded
  BY EmptyRecorded DEF Init, FilesRecorded, NoFile
<1>2. PartRecorded
  BY EmptyRecorded DEF Init, PartRecorded
<1>3. TreeSaved
  <2>1. airdrop.tree = <<>> /\ airdrop.data = <<>>
    BY DEF Init, NoAirdrop
  <2>2. <<>> = [n \in 1 .. 0 |-> <<>>[n]] /\ Apart(<<>>)
    BY DEF Apart
  <2> QED
    BY <2>1, <2>2 DEF TreeSaved
<1> QED
  BY <1>1, <1>2, <1>3 DEF RecordsInv

LEMMA RecordsInvariant == Spec => []RecordsInv
<1>1. CollectionInv /\ RecordsInv /\ [Next]_collection_vars => RecordsInv'
  <2> SUFFICES ASSUME CollectionInv, RecordsInv, [Next]_collection_vars
               PROVE  RecordsInv'
    OBVIOUS
  <2>1. CASE NextBlock \/ (\E s \in Snapshots : collectAirdropData(s)) \/ UNCHANGED collection_vars
    <3>1. UNCHANGED <<part_vars, files_vars>>
      BY <2>1 DEF NextBlock, collectAirdropData, collection_vars
    <3> QED
      BY <3>1, RecordsGoOn DEF part_vars, RecordsInv, PartRecorded
  <2>2. CASE Exit
    <3>1. Idle /\ UNCHANGED files_vars
      BY <2>2 DEF Exit
    <3> QED
      BY <3>1, RecordsIdle DEF files_vars, RecordsInv, FilesRecorded, TreeSaved
  <2>3. CASE getUniswapBalances
    BY <2>3, UniswapRecords
  <2>4. CASE getFuseSwapBalances
    BY <2>4, FuseswapRecords
  <2>5. CASE getClaimsPerAddress
    BY <2>5, ClaimsRecords
  <2>6. CASE getEthPlorerHolders
    BY <2>6, EthRecords
  <2>7. CASE getFuseHolders
    BY <2>7, FuseRecorded
  <2>8. CASE getStakersBalance
    BY <2>8, StakersRecords
  <2>9. CASE buildMerkleTree
    BY <2>9, BuildRecords
  <2> QED
    BY <2>1, <2>2, <2>3, <2>4, <2>5, <2>6, <2>7, <2>8, <2>9 DEF Next
<1> QED
  BY <1>1, Init_RecordsInv, CollectionInvariant, PTL DEF Spec

LEMMA OnlyTheBuildChanges ==
    ASSUME [Next]_collection_vars, airdrop' # airdrop
    PROVE  buildMerkleTree
BY DEF Next, collection_vars, files_vars, part_vars, NextBlock, collectAirdropData, getUniswapBalances,
       getFuseSwapBalances, getClaimsPerAddress, getEthPlorerHolders, getFuseHolders,
       getStakersBalance, Exit, Begin, Answered

LEMMA BuildHandsAll ==
    ASSUME RecordsInv, buildMerkleTree, EtoroHasEnough
    PROVE  Sum([i \in DOMAIN airdrop'.tree |-> airdrop'.tree[i].rep]) = Unit(Shared) * Allocated
<1>1. PICK c, d : c = [p \in Part |-> files[p].data] /\ d = moved(merged(c))
  OBVIOUS
<1>2. Collected(c)
  BY <1>1 DEF Collected, RecordsInv, FilesRecorded
<1>3. Buildable(c) /\ airdrop'.tree = toTree(c)
  BY <1>1 DEF buildMerkleTree
<1>4. Shared = d /\ Allocated = AllocatedTo(d)
  BY <1>1 DEF Shared, Allocated, AllocatedTo
<1>5. eToroRep(calcRelativeRep(d)) >= 2 * foundationEtoroRepShare * Unit(d)
  BY <1>4 DEF EtoroHasEnough
<1>6. Sum(Reps(toTree(c))) = Unit(d) * AllocatedTo(d)
  BY <1>1, <1>2, <1>3, <1>5, BuiltTree
<1> QED
  BY <1>3, <1>4, <1>6 DEF Reps

\* getMerkleAndProof: the elements the root was made from were sorted as a list,
\* those of a proof come from the object the file holds; the same leaves in the
\* same order, because the split left one leaf for each key, and so the index
\* of a proof is the index of its leaf.
THEOREM ProofsAreOfTheRoot == Spec => []ProofsMatchRoot
<1>1. RecordsInv => ProofsMatchRoot
  <2> SUFFICES ASSUME RecordsInv, NEW i \in DOMAIN airdrop.tree
               PROVE  /\ getProof(airdrop.data, airdrop.tree[i].key).elements = airdrop.tree
                      /\ getProof(airdrop.data, airdrop.tree[i].key).index = i
    BY DEF ProofsMatchRoot
  <2>1. PICK t : t = airdrop.tree
    OBVIOUS
  <2>2. airdrop.data = t /\ Apart(t) /\ \E N \in Nat : t = [n \in 1 .. N |-> t[n]]
    BY <2>1 DEF RecordsInv, TreeSaved
  <2>3. getProof(t, t[i].key).index = i
    BY <2>1, <2>2, SavedAsBuilt
  <2>4. getProof(t, t[i].key).elements = t
    BY DEF getProof
  <2> QED
    BY <2>1, <2>2, <2>3, <2>4
<1> QED
  BY <1>1, RecordsInvariant, PTL

\* buildMerkleTree: of eToro's reputation the fixed parts of eToro and of the
\* foundation and the team's equal shares are all of it, so whatever is collected
\* the leaves add up to the allocations that had somebody to go to.
THEOREM WholeAllocationIsHanded == Spec => EveryRepIsHanded
<1>1. RecordsInv /\ [Next]_collection_vars
        => [airdrop' # airdrop /\ EtoroHasEnough
              => Sum([i \in DOMAIN airdrop'.tree |-> airdrop'.tree[i].rep])
                   = Unit(Shared) * Allocated]_collection_vars
  BY OnlyTheBuildChanges, BuildHandsAll
<1> QED
  BY <1>1, RecordsInvariant, PTL DEF Spec, EveryRepIsHanded
=============================================================================
