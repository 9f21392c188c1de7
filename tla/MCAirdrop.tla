------------------------------ MODULE MCAirdrop ------------------------------
(***************************************************************************)
(* Small instances of the airdrop scripts for TLC.  The scripts that        *)
(* collect, recover and checkpoint share no file: a behaviour runs one.     *)
(***************************************************************************)
EXTENDS AirdropCollection, AirdropRecovery, GoodCheckpoint

CONSTANTS etoro, foundation, shop, shopNew, ann, bob, farm, cal, helper

Amounts(f) == [a \in Accounts |-> IF a \in DOMAIN f THEN f[a] ELSE 0]
Always(f) == [b \in Blocks |-> f]
MCClaimLogs == << [ubi |-> "ubi", from |-> ann, block |-> 1],
                  [ubi |-> "ubi", from |-> etoro, block |-> 2],
                  [ubi |-> "ubinew", from |-> ann, block |-> 3],
                  [ubi |-> "ubinew", from |-> ann, block |-> 4],
                  [ubi |-> "ubinew", from |-> bob, block |-> 6] >>
MCTransferLogs == {[to |-> shop, block |-> 1], [to |-> shop, block |-> 3]}
MCFuseBalance == [b \in Blocks |-> Amounts(shop :> b)]
MCEthBalance == Always(Amounts(ann :> 4))
MCEthHolders == {ann}
MCUniswapShare == Always(Amounts((etoro :> 3) @@ (bob :> 1)))
MCFuseswapShare == Always([r \in {"pair", "other"} \X Accounts |->
    IF r \in {<<"pair", farm>>, <<"other", farm>>} THEN 2 ELSE 0])
MCStakedLogs == << ann >>
MCFarmStake == Always(Amounts((ann :> 1) @@ (bob :> 1)))
MCStakeLogs == {[from |-> foundation, dai |-> 1, block |-> 1, kind |-> "staked"],
                [from |-> etoro, dai |-> 2, block |-> 2, kind |-> "donated"],
                [from |-> foundation, dai |-> 1, block |-> 4, kind |-> "withdrawn"],
                [from |-> farm, dai |-> 1, block |-> 4, kind |-> "donated"]}

---------------------------------------------------------------------------
tx(i, type, who, amount, b, on) ==
    [id |-> i, type |-> type, who |-> who, amount |-> amount, block |-> b, on |-> on]
MCTransactions ==
    { tx(1, "buy", ann, 2, 1, "buyBalances"), tx(2, "buyThroughHelper", ann, 1, 3, "buyBalances"),
      tx(3, "buyThroughHelper", bob, 2, 4, "buyBalances"),
      tx(4, "mint", ann, 1, 1, "repRecoverFuse"), tx(5, "prove", ann, 3, 3, "repRecoverFuse"),
      tx(6, "prove", bob, 2, 4, "repRecoverFuse"), tx(7, "mint", cal, 4, 5, "repRecoverFuse"),
      tx(8, "mint", bob, 1, 2, "repRecoverMainnet"), tx(9, "prove", cal, 1, 4, "repRecoverMainnet"),
      tx(10, "mintGdx", ann, 4, 1, "newReserve"), tx(11, "burnGdx", ann, 1, 4, "newReserve"),
      tx(12, "mintGdx", cal, 3, 2, "recoveredReserve"), tx(13, "mintGdx", cal, 2, 3, "recoveredReserve"),
      tx(14, "burnGdx", bob, 1, 2, "recoveredReserve") }

MCAirdropPrev == (lower(ann) :> 3) @@ (lower(bob) :> 2) @@ (mixed(cal) :> 5)

---------------------------------------------------------------------------
MCMemberSince == [n \in {"fuse", "mainnet"} |->
    IF n = "fuse" THEN (ann :> 1) @@ (bob :> 2) @@ (cal :> 5) @@ (shop :> 7) ELSE bob :> 11]
MCActiveVotes == [a \in {ann, bob, cal, shop} |-> 1]

---------------------------------------------------------------------------
VARIABLE script

MCInit ==
    /\ script \in {"collection", "recovery", "checkpoint"}
    /\ Init /\ RecoveryInit /\ CheckpointInit
MCNext ==
    /\ UNCHANGED script
    /\ \/ script = "collection" /\ Next /\ UNCHANGED <<recovery_vars, checkpoint_vars>>
       \/ script = "recovery" /\ RecoveryNext /\ UNCHANGED <<collection_vars, checkpoint_vars>>
       \/ script = "checkpoint" /\ CheckpointNext /\ UNCHANGED <<collection_vars, recovery_vars>>
MCSpec == MCInit /\ [][MCNext]_<<script, collection_vars, recovery_vars, checkpoint_vars>>
=============================================================================
