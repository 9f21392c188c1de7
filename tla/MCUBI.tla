-------------------------------- MODULE MCUBI --------------------------------
(* Small instances of UBISchemeV2 for TLC: two interchangeable claimers. *)
EXTENDS UBISchemeV2
LOCAL INSTANCE TLC

CONSTANTS alice, bob
Claimers == Permutations({alice, bob})
=============================================================================
