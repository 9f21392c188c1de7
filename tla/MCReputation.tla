---------------------------- MODULE MCReputation ----------------------------
(* Small instances of GReputation for TLC. *)
EXTENDS GReputation

CONSTANTS ann, ben, airdrop, fuse1, fuse2

\* ann has half of the airdrop, and all of fuse's first state; the second one
\* moves that to ben.
SmallLeaves == [h \in Hash |-> [u \in User |->
    CASE h = airdrop -> IF u = ann THEN 1 ELSE 0
      [] h = fuse1   -> IF u = ann THEN 1 ELSE 0
      [] OTHER       -> IF u = ben THEN 1 ELSE 0]]
SmallTotals == [h \in Hash |-> IF h = airdrop THEN 2 ELSE 1]

\* initialize publishes fuse's first state or nothing, the avatar the airdrop
\* and fuse's second state.
NoStates == {NoState}
FuseStates == [id : Chain, hash : {fuse1, fuse2}]
AirdropState == {[id |-> Root, hash |-> airdrop]}
FirstStates == [id : Chain, hash : {fuse1}]
TwoStates == [id \in Id |-> IF id = Root THEN 1 ELSE 2]
LaterStates == AirdropState \union [id : Chain, hash : {fuse2}]

Signed == {[user |-> ann, delegate |-> ben, nonce |-> 0, expiry |-> 1]}
ManyStates == [id \in Id |-> 2]
AnnToBen == {[user |-> ann, target |-> ben]}
None == {}

ASSUME RootFits == RootTreeIsItsOwn
=============================================================================
