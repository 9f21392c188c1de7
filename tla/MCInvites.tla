------------------------------ MODULE MCInvites ------------------------------
(* Small instances of InvitesV2 for TLC: three people, codes, two levels. *)
EXTENDS InvitesV2, TLC

CONSTANTS ann, ben, cal, hers, gift

level(n, b, d) == [toNext |-> n, bounty |-> b, daysToComplete |-> d]

\* Ann's address reads as the code hers.  One invitee within a day completes level 0.
Addresses == (ann :> hers) @@ (ben :> Nobody) @@ (cal :> Nobody)
TwoLevels == (0 :> level(1, 2, 1)) @@ (1 :> level(0, 4, 0))
HigherBounty == {<<0, level(0, 4, 0)>>}

Alike == Permutations({ben, cal})

ASSUME InvitesFit == InvitesAssumption
=============================================================================
