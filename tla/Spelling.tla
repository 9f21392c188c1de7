------------------------------- MODULE Spelling -------------------------------
(***************************************************************************)
(* The keys of the scripts' objects are addresses as they were spelled: to  *)
(* JavaScript the lower case spelling of an address and the checksummed one *)
(* ("mixed") are two keys.                                                  *)
(***************************************************************************)
lower(a) == <<a, "lower">>
mixed(a) == <<a, "mixed">>
=============================================================================
