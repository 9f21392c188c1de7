------------------------------- MODULE ScriptRun -------------------------------
(***************************************************************************)
(* An operator runs scripts one after the other (hardhat run), and runs one *)
(* that died again, from its first step.  The chain keeps what was mined    *)
(* and releases/deployment.json what was written; what a process knows is   *)
(* lost with it.  A process may die between any two steps.                  *)
(*                                                                          *)
(* An address is a tuple: <<name>> for an account or a contract that was    *)
(* there before, <<name, number>> for a contract made or for a proxy, whose *)
(* number is that of its factory, <<name, number, arguments>> for one whose *)
(* address depends on its code.                                             *)
(***************************************************************************)
EXTENDS Scripts, FiniteSets, Functions, TLC

CONSTANTS MaxRuns,       \* how often the operator runs a script
          MaxCrashes,    \* how many processes die
          MaxFailures    \* how many transactions fail for reasons of the chain

VARIABLES contracts,     \* addresses of the contracts, with what each was given
          slots,         \* what they hold
          file,          \* deployment.json, the part of this network
          imported,      \* as it was when the process started
          release,       \* what the process has in memory
          pc,            \* its next step; 0 when none runs
          left,          \* the scripts still to be run
          ended,         \* those that were
          assumed,       \* contracts whose deployment failed and was only printed
          printed,       \* entries of slots whose transaction failed and was only printed
          runs, crashes, failures

vars == << contracts, slots, file, imported, release, pc, left, ended, assumed, printed,
           runs, crashes, failures >>

Program == Programs[left[1]]
Step == Program[pc]
Running == pc > 0 /\ pc <= Len(Program)

Nothing == << "unset" >>
Address(names, n) == IF n \in DOMAIN names THEN names[n] ELSE << n >>
Key(names, e) == << Address(names, e[1]), e[2], Address(names, e[3]) >>
Value(key) == IF key \in DOMAIN slots THEN slots[key] ELSE Nothing
Holds(names, entries) == \A e \in entries : Value(Key(names, e)) = Address(names, e[4])

\* A call to an address without a contract succeeds and does nothing.
IsLive(address) == Len(address) = 1 \/ address \in DOMAIN contracts
Write(names, entries, at) ==
    LET done == {e \in entries : Len(Address(names, e[1])) = 1 \/ Address(names, e[1]) \in at}
    IN  slots' = [k \in {Key(names, e) : e \in done} |->
                    Address(names, (CHOOSE e \in done : Key(names, e) = k)[4])] @@ slots

\* Where a contract is made.
Fresh(name) == 1 + Cardinality({a \in DOMAIN contracts : a[1] = name})
Given(step) == [n \in step.refs \cup step.imports |->
                  IF n \in step.imports THEN imported[n] ELSE release[n]]
Place(step) ==
    CASE step.at = "new" -> << step.name, Fresh(step.name) >>
      [] step.at = "fixed" -> << step.name, 1 >>
      [] step.at = "proxy" -> << step.name, release["ProxyFactory"][2] >>
      [] step.at = "code" -> << step.name, release["ProxyFactory"][2], Given(step) >>

IsKept == Step.unless # "" /\ Step.unless \in DOMAIN imported
IsGiven ==
    /\ Step.imports \subseteq DOMAIN imported
    /\ Step.refs \subseteq DOMAIN release
    /\ Step.at \in {"proxy", "code"} => "ProxyFactory" \in DOMAIN release

\* A proxy is looked for before its arguments are used.
Exists ==
    /\ "ProxyFactory" \in DOMAIN release \/ Step.at \in {"new", "fixed"}
    /\ IsGiven \/ Step.at = "proxy"
    /\ Place(Step) \in DOMAIN contracts

GoOn(n) == pc' = pc + 1 + n
Bound(names) == release' = names @@ release

---------------------------------------------------------------------------
(* The steps of a process.                                                  *)
Keep ==
    /\ Running /\ IsKept
    /\ GoOn(0)
    /\ UNCHANGED << contracts, slots, file, imported, release, left, ended, assumed, printed,
                    runs, crashes, failures >>

Make ==
    /\ Running /\ ~IsKept /\ Step.do = "create" /\ IsGiven /\ ~Exists
    /\ LET at == Place(Step)
       IN  /\ contracts' = (at :> Given(Step)) @@ contracts
           /\ Bound(Step.name :> at)
           /\ Write(release', Step.sets, DOMAIN contracts')
    /\ GoOn(0)
    /\ UNCHANGED << file, imported, left, ended, assumed, printed, runs, crashes, failures >>

\* It is there already and is used.
Attach ==
    /\ Running /\ ~IsKept /\ Step.do = "create" /\ Step.attach /\ Exists
    /\ Bound(Step.name :> Place(Step))
    /\ GoOn(0)
    /\ UNCHANGED << contracts, slots, file, imported, left, ended, assumed, printed,
                    runs, crashes, failures >>

\* The deployment fails and the contract is assumed to exist.
Assume ==
    /\ Running /\ ~IsKept /\ Step.do = "create" /\ Step.caught /\ IsGiven /\ ~Exists
    /\ failures < MaxFailures
    /\ failures' = failures + 1
    /\ Bound(Step.name :> Place(Step))
    /\ assumed' = assumed \cup {Step.name}
    /\ GoOn(0)
    /\ UNCHANGED << contracts, slots, file, imported, left, ended, printed, runs, crashes >>

\* A transaction succeeds.
Transacted ==
    /\ Running /\ ~IsKept /\ Step.do = "transact" /\ IsGiven
    /\ Holds(release, Step.needs)
    /\ LET made == [n \in Step.makes |-> << n, Fresh(n) >>]
       IN  /\ contracts' = [a \in {made[n] : n \in Step.makes} |-> << >>] @@ contracts
           /\ Bound(made)
           /\ Write(release', Step.sets, DOMAIN contracts')
    /\ GoOn(0)
    /\ UNCHANGED << file, imported, left, ended, assumed, printed, runs, crashes, failures >>

\* It fails, and the script prints that and goes on.
Failed ==
    /\ Running /\ ~IsKept /\ Step.do = "transact" /\ Step.caught
    /\ \/ /\ ~(IsGiven /\ Holds(release, Step.needs))
          /\ UNCHANGED failures
       \/ /\ failures < MaxFailures
          /\ failures' = failures + 1
    /\ printed' = printed \cup
          UNION {Program[i].sets : i \in {j \in pc .. pc + Step.jump : Program[j].do = "transact"}}
    /\ GoOn(Step.jump)
    /\ UNCHANGED << contracts, slots, file, imported, release, left, ended, assumed, runs, crashes >>

\* What the script decides on what a contract holds.
Decide ==
    /\ Running /\ Step.do = "decide"
    /\ \A e \in Step.needs : IsLive(Address(release, e[1]))
    /\ GoOn(IF Holds(release, Step.needs) THEN 0 ELSE Step.jump)
    /\ UNCHANGED << contracts, slots, file, imported, release, left, ended, assumed, printed,
                    runs, crashes, failures >>

ReadSlot ==
    /\ Running /\ Step.do = "read"
    /\ \E e \in Step.sets :
          /\ Value(Key(release, e)) # Nothing
          /\ Bound(Step.name :> Value(Key(release, e)))
    /\ GoOn(0)
    /\ UNCHANGED << contracts, slots, file, imported, left, ended, assumed, printed,
                    runs, crashes, failures >>

NotRecorded ==
    /\ Running /\ Step.do = "refuse" /\ Step.name \notin DOMAIN imported
    /\ GoOn(0)
    /\ UNCHANGED << contracts, slots, file, imported, release, left, ended, assumed, printed,
                    runs, crashes, failures >>

\* releaser merges what it is given into the file.
Released(names) == Restrict(names, DOMAIN names \ Unreleased)
releaser ==
    /\ Running /\ Step.do = "save"
    /\ file' = Released(release) @@ file
    /\ GoOn(0)
    /\ UNCHANGED << contracts, slots, imported, release, left, ended, assumed, printed,
                    runs, crashes, failures >>

Proceed == Keep \/ Make \/ Attach \/ Assume \/ Transacted \/ Failed \/ Decide \/ ReadSlot
           \/ NotRecorded \/ releaser

---------------------------------------------------------------------------
(* The life of a process.                                                   *)
Start ==
    /\ pc = 0 /\ left # << >> /\ runs < MaxRuns
    /\ pc' = 1 /\ runs' = runs + 1
    /\ imported' = file /\ release' = file
    /\ UNCHANGED << contracts, slots, file, left, ended, assumed, printed, crashes, failures >>

Die == /\ pc' = 0
       /\ imported' = << >> /\ release' = << >>
       /\ UNCHANGED << contracts, slots, file, left, ended, assumed, printed, runs, failures >>

\* An exception nothing catches.
Throw ==
    /\ Running /\ ~IsKept
    /\ \/ /\ Step.do = "create"
          /\ IF Exists THEN ~Step.attach ELSE ~IsGiven
       \/ /\ Step.do = "transact" /\ ~Step.caught
          /\ ~(IsGiven /\ Holds(release, Step.needs))
       \/ /\ Step.do = "decide"
          /\ \E e \in Step.needs : ~IsLive(Address(release, e[1]))
       \/ /\ Step.do = "read"
          /\ \E e \in Step.sets : Value(Key(release, e)) = Nothing
       \/ /\ Step.do = "refuse" /\ Step.name \in DOMAIN imported
    /\ Die /\ UNCHANGED crashes

Crash ==
    /\ Running /\ crashes < MaxCrashes
    /\ crashes' = crashes + 1
    /\ Die

Finish ==
    /\ pc > 0 /\ pc > Len(Program)
    /\ pc' = 0 /\ runs' = 0
    /\ left' = Tail(left) /\ ended' = Append(ended, left[1])
    /\ UNCHANGED << contracts, slots, file, imported, release, assumed, printed,
                    crashes, failures >>

---------------------------------------------------------------------------
(* A world to start in: the scripts to be run, what is recorded and what    *)
(* the chain holds.                                                         *)
Init(worlds) ==
    /\ \E w \in worlds :
          /\ left = w.scripts /\ file = w.file
          /\ contracts = w.contracts /\ slots = w.slots
    /\ imported = << >> /\ release = << >> /\ pc = 0 /\ ended = << >>
    /\ assumed = {} /\ printed = {}
    /\ runs = 0 /\ crashes = 0 /\ failures = 0

Next == Proceed \/ Start \/ Throw \/ Crash \/ Finish

\* A process goes on, and the operator runs the scripts.
Fairness == WF_vars(Proceed) /\ WF_vars(Start) /\ WF_vars(Throw) /\ WF_vars(Finish)

---------------------------------------------------------------------------
(* What the operator relies on.                                             *)
\* The last script that ran to its end, when nothing runs.
AtRest == pc = 0 /\ runs = 0 /\ ended # << >>
LastEnded == ended[Len(ended)]
\* What a recorded contract was given, and what the name service says, is what is recorded.
IsWired ==
    /\ \A n \in DOMAIN file : file[n] \in DOMAIN contracts =>
          LET given == contracts[file[n]]
          IN  \A m \in DOMAIN given \cap DOMAIN file : given[m] = file[m]
    /\ \A k \in DOMAIN slots :
          "NameService" \in DOMAIN file /\ k[1] = file["NameService"] /\ Len(slots[k]) > 1
          => slots[k] \in Range(file)
\* A name recorded for a contract that is not there was printed.
IsThere == \A n \in DOMAIN file : IsLive(file[n]) \/ n \in assumed

(* When a script has ended, the contracts that deployment.json names are    *)
(* wired to each other: none was given, and the name service has, an        *)
(* address of an earlier run that the file no longer names, and no address  *)
(* is recorded at which nothing was deployed, unless that was printed.      *)
FinishedIsWired == AtRest => IsWired /\ IsThere

\* What running the script once, without a failure, leaves in each slot; when it has
\* ended, what the process knows is still there to say which contracts it means.
Wanted(program) ==
    LET Writes(e) == [i \in DOMAIN program |->
                       \E f \in program[i].sets : f[1] = e[1] /\ f[2] = e[2] /\ f[3] = e[3]]
    IN  UNION {{e \in program[i].sets :
                  /\ program[i].do # "read"
                  /\ \A j \in i + 1 .. Len(program) : ~Writes(e)[j]} : i \in DOMAIN program}
FinishedIsWhole(Excused(_)) ==
    AtRest => \A e \in Wanted(Programs[LastEnded]) \ printed :
                  Excused(e) \/ e[1] \in assumed \/ Holds(release, {e})
=============================================================================
