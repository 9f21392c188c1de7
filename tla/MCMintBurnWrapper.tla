-------------------------- MODULE MCMintBurnWrapper --------------------------
(* Small instances of MintBurnWrapper for TLC: a bridge and a rewarder. *)
EXTENDS MintBurnWrapper

CONSTANTS bridge, rewarder

CapsOf(m, in, bps, out) ==
    [minter |-> m, capIn |-> in, maxIn |-> 0, bpsIn |-> bps,
     capOut |-> out, maxOut |-> 2, bpsOut |-> 0]

\* The rewarder mints half of the supply a day; the guardian may lower that
\* to a quarter.
BridgeAndRewarder ==
    {[caps |-> CapsOf(bridge, 2, 0, 2), rewards |-> FALSE],
     [caps |-> CapsOf(rewarder, 3, 5000, 0), rewards |-> TRUE]}
LowerCaps == {CapsOf(rewarder, 3, 2500, 0)}
NoNewCaps == {}

ASSUME CapsFit == CapsAreSet
=============================================================================
