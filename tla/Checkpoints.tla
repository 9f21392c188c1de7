---------------------------- MODULE Checkpoints -----------------------------
(***************************************************************************)
(* The snapshot arrays of contracts/governance/Reputation.sol: a history   *)
(* is the sequence of the values it took and, for each, the block from     *)
(* which it held.                                                          *)
(***************************************************************************)
EXTENDS Integers, Sequences

Checkpoint == [from : Nat, value : Nat]

\* Blocks strictly increase: there is one checkpoint per block at most.
Sorted(cps) ==
    \A i, j \in DOMAIN cps : i < j => cps[i].from < cps[j].from
History == {cps \in Seq(Checkpoint) : Sorted(cps)}

\* Checkpoint i is the last one made at block b or before.
IsLastAt(cps, b, i) ==
    /\ i \in DOMAIN cps
    /\ cps[i].from <= b
    /\ \A j \in DOMAIN cps : cps[j].from <= b => j <= i

\* getValueAt: the value at block b, 0 before the first checkpoint.  Module
\* CheckpointSearch has the search the code makes.
ValueAt(cps, b) ==
    IF \E i \in DOMAIN cps : cps[i].from <= b
    THEN cps[CHOOSE i \in DOMAIN cps : IsLastAt(cps, b, i)].value
    ELSE 0

\* updateValueAtNow: a second value in the same block replaces the first.
Appended(cps, now, v) ==                                     \* faulty variant
    Append(cps, [from |-> now, value |-> v])
Overwritten(cps, now, v) ==                                  \* faulty variant
    IF cps = <<>> THEN <<[from |-> now, value |-> v]>>
    ELSE [cps EXCEPT ![Len(cps)].value = v]
Updated(cps, now, v) ==
    IF cps = <<>> \/ cps[Len(cps)].from < now
    THEN Append(cps, [from |-> now, value |-> v])
    ELSE [cps EXCEPT ![Len(cps)].value = v]
=============================================================================
