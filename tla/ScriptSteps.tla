----------------------------- MODULE ScriptSteps -----------------------------
(***************************************************************************)
(* The vocabulary in which the scripts that deploy and govern GoodDollar    *)
(* are written down: a script is a sequence of steps, each one transaction, *)
(* one write of releases/deployment.json or one decision.  Module ScriptRun *)
(* runs them.                                                               *)
(*                                                                          *)
(* The state of a deployed system is a table of slots <<contract, slot,     *)
(* subject>>; an entry <<contract, slot, subject, value>> stands for a slot *)
(* having a value.  In a script, a contract, a subject and a value are the  *)
(* names that deployment.json uses; a name nothing is recorded under is an  *)
(* account.                                                                 *)
(***************************************************************************)
EXTENDS Naturals, Sequences

Blank == [do |-> "transact", name |-> "", at |-> "", refs |-> {}, imports |-> {},
          attach |-> FALSE, caught |-> FALSE, unless |-> "", makes |-> {},
          needs |-> {}, sets |-> {}, jump |-> 0]

\* A transaction: what must hold for it not to revert, and what it changes.
Transact(needs, sets) == [Blank EXCEPT !.needs = needs, !.sets = sets]
\* One that creates contracts too.
Making(step, names) == [step EXCEPT !.makes = names]

\* A contract is created: at a new address; by the proxy factory, behind a
\* proxy, at an address that is a function of the factory and the name; by the
\* proxy factory at one that is a function of the arguments too; by a signed
\* transaction with nonce 0 of an account of its own, at one that is fixed.
Create(name, at, refs) == [Blank EXCEPT !.do = "create", !.name = name, !.at = at, !.refs = refs]
Deploy(name, refs) == Create(name, "new", refs)
DeployProxy(name, refs) == Create(name, "proxy", refs)
DeployCode(name, refs) == Create(name, "code", refs)
PreSigned(name) == Create(name, "fixed", {})
\* What its constructor or initializer sets.
Setting(step, sets) == [step EXCEPT !.sets = sets]
\* Arguments taken from the deployment.json the process started with.
Importing(step, names) == [step EXCEPT !.imports = names]

\* A contract that exists already is used; a failure is printed only.
Attached(step) == [step EXCEPT !.attach = TRUE]
Caught(step) == [step EXCEPT !.caught = TRUE]
\* The step is left out when its contract is recorded.
UnlessRecorded(step) == [step EXCEPT !.unless = step.name]
\* The process dies when the name is recorded.
RefuseIfRecorded(name) == [Blank EXCEPT !.do = "refuse", !.name = name]
\* n steps are left out when the slot has a value.
SkipIfSet(contract, slot, n) ==
    [Blank EXCEPT !.do = "decide", !.needs = {<<contract, slot, "", "unset">>}, !.jump = n]
\* A name is bound to what a slot holds.
Read(name, contract, slot) ==
    [Blank EXCEPT !.do = "read", !.name = name, !.sets = {<<contract, slot, "", "">>}]
\* releaser: what the process holds is written to deployment.json, but for
\* contracts that only the script itself knows.
Unreleased == {"BridgeScheme", "AddFounders", "daoCreator", "distHelper", "SuperGoodDollarLogic",
               "InflowNFT", "OutflowNFT"}
Save == [Blank EXCEPT !.do = "save"]
---------------------------------------------------------------------------
(* Slots.                                                                   *)
scheme(who, permissions) == <<"Controller", "scheme", who, permissions>>
minter(who, is) == <<"GoodDollar", "minter", who, is>>
role(contract, who, is) == <<contract, "role", who, is>>
named(key, who) == <<"NameService", key, "", who>>
Registered(keys) == {named(key, keys[key]) : key \in DOMAIN keys}

\* Only a scheme with all permissions makes the controller do something.
AsScheme(who, needs) == needs \cup {scheme(who, "all")}
ByScheme(who, sets) == Transact(AsScheme(who, {}), sets)

\* executeViaGuardian: one transaction for each call.
ViaGuardian(calls) == [i \in DOMAIN calls |-> ByScheme("root", calls[i])]
\* A call that fails ends the others with it, and is printed.
CaughtTogether(steps) ==
    [i \in DOMAIN steps |-> [steps[i] EXCEPT !.caught = TRUE, !.jump = Len(steps) - i]]
=============================================================================
