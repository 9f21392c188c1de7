----------------------------- MODULE AirdropTree -----------------------------
(***************************************************************************)
(* buildMerkleTree and getProof of scripts/governance/airdropCalculation:   *)
(* how what was collected about people becomes the leaves of the GOOD       *)
(* airdrop.  A file of collected data is a function from keys to numbers;   *)
(* a key is an address as it was spelled.  Reputation is counted in units   *)
(* of 1 / (total claims * total G$ * total stake * team), in which every    *)
(* share is a whole number.                                                 *)
(***************************************************************************)
EXTENDS Spelling, Integers, SequencesExt, FiniteSetsExt

CONSTANTS
    Accounts,
    ETORO, EtoroOfficial, FoundationOfficial, TEAM,  \* accounts singled out
    shoppingio, shoppingioNew,  \* a wallet that moved
    CLAIMER_REP_ALLOCATION, HOLDER_REP_ALLOCATION, STAKER_REP_ALLOCATION,
    foundationEtoroRepShare

ASSUME AirdropAssumption ==
    /\ ETORO \cup TEAM \cup {EtoroOfficial, FoundationOfficial} \subseteq Accounts
    /\ IsFiniteSet(Accounts) /\ {shoppingio, shoppingioNew} \subseteq Accounts
    /\ EtoroOfficial \in ETORO /\ TEAM # {} /\ shoppingio \notin ETORO
    /\ FoundationOfficial \notin ETORO
    /\ {CLAIMER_REP_ALLOCATION, HOLDER_REP_ALLOCATION, STAKER_REP_ALLOCATION,
        foundationEtoroRepShare} \subseteq Nat

Key == Accounts \X {"lower", "mixed"}

At(f, k) == IF k \in DOMAIN f THEN f[k] ELSE 0
Sum(f) == SumFunctionOnSet(f, DOMAIN f)
\* A share of a total that is 0 is 0.
OrOne(n) == IF n = 0 THEN 1 ELSE n

\* What the six files say of a key.
Balances == {"eth", "fuse", "uniswap", "fuseswap"}
merged(files) ==
    [k \in UNION {DOMAIN files[p] : p \in DOMAIN files} |->
        [claims |-> At(files["claims"], k),
         balance |-> Sum([p \in Balances |-> At(files[p], k)]),
         stake |-> At(files["stakers"], k)]]

\* The build stops when one of the accounts it names is missing.
Buildable(files) ==
    {lower(a) : a \in ETORO \cup {FoundationOfficial, shoppingio}} \subseteq DOMAIN merged(files)

moved(data) ==
    LET new == mixed(shoppingioNew)
        old == lower(shoppingio)
    IN  [k \in {new} \cup (DOMAIN data \ {old}) |-> data[IF k = new THEN old ELSE k]]

Totals(data) ==
    [claims |-> Sum([k \in DOMAIN data |-> data[k].claims]),
     balance |-> Sum([k \in DOMAIN data |-> data[k].balance]),
     stake |-> Sum([k \in DOMAIN data |-> data[k].stake])]
Unit(data) ==
    LET t == Totals(data)
    IN  OrOne(t.claims) * OrOne(t.balance) * OrOne(t.stake) * Cardinality(TEAM)

\* The reputation of every key before the split of eToro's.
calcRelativeRep(data) ==
    LET t == Totals(data)
        unit == Unit(data)
        of(share, total, allocation) == allocation * share * (unit \div OrOne(total))
    IN  [k \in DOMAIN data |->
            of(data[k].claims, t.claims, CLAIMER_REP_ALLOCATION)
            + of(data[k].balance, t.balance, HOLDER_REP_ALLOCATION)
            + of(data[k].stake, t.stake, STAKER_REP_ALLOCATION)]

Leaf(k, r) == [key |-> k, rep |-> r]
Leaves(rep) == FoldSet(LAMBDA k, s : Append(s, Leaf(k, rep[k])), <<>>, DOMAIN rep)
\* The first record of a key is raised; a missing one is added.
Raised(tree, k, amount) ==
    IF \E i \in DOMAIN tree : tree[i].key = k
    THEN LET i == SelectInSeq(tree, LAMBDA l : l.key = k)
         IN  [tree EXCEPT ![i].rep = @ + amount]
    ELSE Append(tree, Leaf(k, amount))

eToroRep(rep) == Sum([a \in ETORO |-> rep[lower(a)]])
WithEtoro(rep) == rep
WithoutEtoro(rep) == [k \in DOMAIN rep \ {lower(a) : a \in ETORO} |-> rep[k]]
\* eToro's reputation goes to eToro, the foundation and the team.
split(rep, unit) ==
    LET fixed == foundationEtoroRepShare * unit
        teamRepShare == (eToroRep(rep) - 2 * fixed) \div Cardinality(TEAM)
        funded == Append(Raised(Leaves(WithoutEtoro(rep)), lower(FoundationOfficial), fixed),
                         Leaf(lower(EtoroOfficial), fixed))
    IN  FoldSet(LAMBDA a, tree : Raised(tree, lower(a), teamRepShare), funded, TEAM)

\* The members of S as a sequence; before: the pairs in that order.
InOrder(S, before) ==
    [n \in 1..Cardinality(S) |->
        CHOOSE i \in S : Cardinality({j \in S : <<j, i>> \in before}) = n - 1]

\* The order of leaves is stable and then reversed: of equals the last is first.
Larger(leaves) ==
    {p \in (DOMAIN leaves) \X (DOMAIN leaves) :
        \/ leaves[p[1]].rep > leaves[p[2]].rep
        \/ leaves[p[1]].rep = leaves[p[2]].rep /\ p[1] > p[2]}
Ranked(leaves) ==
    LET order == InOrder({i \in DOMAIN leaves : leaves[i].rep > 0}, Larger(leaves))
    IN  [n \in DOMAIN order |-> leaves[order[n]]]

toTree(files) ==
    LET data == moved(merged(files))
    IN  Ranked(split(calcRelativeRep(data), Unit(data)))

\* The object that is saved: one entry per key, where the key came first.
treeData(tree) ==
    LET first == {i \in DOMAIN tree : \A j \in 1..(i - 1) : tree[j].key # tree[i].key}
        last(k) == CHOOSE j \in DOMAIN tree :
                      /\ tree[j].key = k
                      /\ \A h \in DOMAIN tree : tree[h].key = k => h <= j
        order == InOrder(first, {p \in first \X first : p[1] < p[2]})
    IN  [n \in DOMAIN order |-> tree[last(tree[order[n]].key)]]

\* The proof of an account, from the saved object: the leaves the tree is
\* rebuilt from and the place (from 1) the proof is for.
getProof(data, k) ==
    [elements |-> data, index |-> SelectInSeq(data, LAMBDA l : l.key = k)]
=============================================================================
