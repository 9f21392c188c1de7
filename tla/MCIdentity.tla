----------------------------- MODULE MCIdentity -----------------------------
(* Small instances of IdentityV4 for TLC. *)
EXTENDS IdentityV4

CONSTANTS alice, bob, passport, licence

Schedule == <<1, 2>>
Schedules == {<<>>, <<2>>, <<1, 2>>, <<2, 1>>}

\* Bob comes from the old identity, which also knows the passport as his.
OldKnowsBob == [a \in Account |-> IF a = bob THEN "whitelisted" ELSE "none"]
OldPassport == [d \in Did |-> IF d = passport THEN bob ELSE NoOne]

=============================================================================
