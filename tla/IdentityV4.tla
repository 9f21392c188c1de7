----------------------------- MODULE IdentityV4 -----------------------------
(***************************************************************************)
(* IdentityV4 (contracts/identity/IdentityV4.sol): who is a person, known  *)
(* by a unique id (DID), how long an authentication counts, and which      *)
(* further accounts are connected to a person's.                           *)
(*                                                                         *)
(* Time is in days.  Admins act for the contract; what an account is in    *)
(* the identity contract before this one (oldIdentity) only ever shrinks   *)
(* here, as this one removes it there.                                     *)
(***************************************************************************)
EXTENDS Integers, Sequences, FiniteSets

CONSTANTS
    Account, Did, NoDid,
    NoOne,              \* address 0
    Contracts,          \* the accounts that are contracts
    OptionLists,        \* the arguments of setReverifyDaysOptions
    InitOptions,        \* 1, 7 and 180 days
    UpgradeTime,        \* authentications before it count as the last step
    OldStatus, OldDIDOwner, \* what the old identity knows
    Timestamps,         \* that an admin may give, past or to come; 0 for none
    Start, MaxTime,     \* bound: the last day
    MaxCount            \* bound: of whitelistedCount

Listed == {1, 2}        \* whitelisted or a contract of the DAO
Status == {0, 255} \union Listed
Ascending(list) == \A i \in 2..Len(list) : list[i] > list[i - 1]

ASSUME IdentityAssumption ==
    /\ IsFiniteSet(Account) /\ Contracts \subseteq Account
    /\ NoOne \notin Account /\ NoDid \notin Did
    /\ OptionLists \subseteq Seq(Nat)
    /\ InitOptions \in Seq(Nat) /\ Len(InitOptions) > 0 /\ Ascending(InitOptions)
    /\ UpgradeTime \in Nat /\ Timestamps \subseteq Nat
    /\ Start \in Nat /\ MaxTime \in Nat /\ MaxCount \in Nat
    /\ OldStatus \in [Account -> {"none", "whitelisted", "blacklisted", "contract"}]
    /\ OldDIDOwner \in [Did -> Account \union {NoOne}]

VARIABLES
    now, paused,
    reverifyDaysOptions,
    identities, didHashToAddress, connectedAccounts,
    whitelistedCount, whitelistedContracts,
    oldIdentity

counts == <<whitelistedCount, whitelistedContracts>>
vars == <<now, paused, reverifyDaysOptions, identities, didHashToAddress,
          connectedAccounts, counts, oldIdentity>>

Identity == [dateAuthenticated : Nat, did : Did \union {NoDid},
             status : Status, authCount : Nat]
NoIdentity == [dateAuthenticated |-> 0, did |-> NoDid, status |-> 0, authCount |-> 0]

\* Types.  The counters of the whitelist never go below 0, where the checked
\* subtraction of _removeWhitelisted would revert, and a schedule is never empty.
TypeOK ==
    /\ now \in Nat /\ paused \in BOOLEAN
    /\ reverifyDaysOptions \in Seq(Nat) /\ Len(reverifyDaysOptions) > 0
    /\ identities \in [Account -> Identity]
    /\ didHashToAddress \in [Did \union {NoDid} -> Account \union {NoOne}]
    /\ connectedAccounts \in [Account -> Account \union {NoOne}]
    /\ whitelistedCount \in Nat /\ whitelistedContracts \in Nat
    /\ oldIdentity \in [Account -> {"none", "whitelisted", "blacklisted", "contract"}]

Init ==
    /\ now = Start /\ paused = FALSE
    /\ reverifyDaysOptions = InitOptions
    /\ identities = [a \in Account |-> NoIdentity]
    /\ didHashToAddress = [d \in Did \union {NoDid} |-> NoOne]
    /\ connectedAccounts = [a \in Account |-> NoOne]
    /\ whitelistedCount = 0 /\ whitelistedContracts = 0
    /\ oldIdentity = OldStatus

-----------------------------------------------------------------------------
(* Who is whitelisted *)

status(a) == identities[a].status
LastStep == Len(reverifyDaysOptions) - 1

\* The step of the schedule that counts for a.
stepOf(a) == IF identities[a].dateAuthenticated < UpgradeTime THEN LastStep
             ELSE identities[a].authCount

\* Beyond the last step the array cannot be read, and the call reverts.
InSchedule(a) == stepOf(a) <= LastStep

shouldReverify(a, days) == days >= reverifyDaysOptions[stepOf(a) + 1]

\* The calls that ask whether a is whitelisted, when they return: not before
\* the date of a's authentication.
Dated(a) == identities[a].dateAuthenticated <= now
Known(a) == Dated(a) /\ (status(a) = 1 => InSchedule(a))
isWhitelisted(a) ==
    IF status(a) = 1
    THEN Dated(a) /\ InSchedule(a) /\ ~shouldReverify(a, now - identities[a].dateAuthenticated)
    ELSE Dated(a) /\ oldIdentity[a] = "whitelisted"
isBlacklisted(a) == status(a) = 255 \/ oldIdentity[a] = "blacklisted"

getWhitelistedRoot(a) ==
    CASE isWhitelisted(a) -> a
      [] OTHER -> IF connectedAccounts[a] # NoOne /\ isWhitelisted(connectedAccounts[a])
                  THEN connectedAccounts[a] ELSE NoOne

authenticationPeriod == reverifyDaysOptions[Len(reverifyDaysOptions)]

-----------------------------------------------------------------------------
(* Authentication *)

AnyOrder(list) == TRUE                                       \* faulty variant
InOrder(list) == Ascending(list)

AnyList(list) == TRUE                                        \* faulty variant
NonEmpty(list) == Len(list) > 0

setReverifyDaysOptions(list) ==
    /\ NonEmpty(list) /\ InOrder(list)
    /\ reverifyDaysOptions' = list
    /\ UNCHANGED <<now, paused, identities, didHashToAddress, connectedAccounts,
                   counts, oldIdentity>>

NoCycle(step) == step + 1                                    \* faulty variant
NextStep(step) == IF step + 1 > LastStep THEN 0 ELSE step + 1

\* A timestamp before the last one makes the subtraction revert.
authenticateWithTimestamp(a, t) ==
    LET days == t - identities[a].dateAuthenticated IN
    /\ ~paused /\ status(a) = 1
    /\ days >= 0 /\ InSchedule(a)
    /\ identities' = [identities EXCEPT
           ![a].authCount = IF shouldReverify(a, days) THEN NextStep(stepOf(a))
                            ELSE stepOf(a),
           ![a].dateAuthenticated = t]
    /\ UNCHANGED <<now, paused, reverifyDaysOptions, didHashToAddress,
                   connectedAccounts, counts, oldIdentity>>

authenticate(a) == authenticateWithTimestamp(a, now)

-----------------------------------------------------------------------------
(* The whitelist *)

\* What _addWhitelisted does, with status s and id did, as authenticated at t.
Whitelist(a, s, did, t) ==
    /\ whitelistedCount < MaxCount
    /\ ~paused /\ status(a) = 0
    /\ identities' = [identities EXCEPT ![a] =
           [dateAuthenticated |-> t, did |-> did, status |-> s, authCount |-> 0]]
    /\ connectedAccounts' = [connectedAccounts EXCEPT ![a] = NoOne]
    /\ whitelistedCount' = whitelistedCount + 1
    /\ whitelistedContracts' = whitelistedContracts + (IF a \in Contracts THEN 1 ELSE 0)
    /\ UNCHANGED <<now, paused, reverifyDaysOptions, oldIdentity>>

addWhitelisted(a) ==
    /\ Whitelist(a, 1, identities[a].did, now)
    /\ UNCHANGED didHashToAddress

addContract(a) ==
    /\ a \in Contracts
    /\ Whitelist(a, 2, identities[a].did, now)
    /\ UNCHANGED didHashToAddress

NeverMind(did) == TRUE                                       \* faulty variant
Unregistered(did) == didHashToAddress[did] = NoOne

\* Also with the date of an authentication on another chain, if one is given.
addWhitelistedWithDIDAndChain(a, did, t) ==
    /\ Unregistered(did)
    /\ Whitelist(a, 1, did, IF t > 0 THEN t ELSE now)
    /\ didHashToAddress' = [didHashToAddress EXCEPT ![did] = a]

addWhitelistedWithDID(a, did) == addWhitelistedWithDIDAndChain(a, did, 0)

InAnyCase(a) == TRUE                                         \* faulty variant
InList(a) == status(a) \in Listed

\* The old identity is asked after this one is changed.
OldRemoved(a) ==
    IF oldIdentity[a] = "whitelisted" THEN [oldIdentity EXCEPT ![a] = "none"]
    ELSE oldIdentity

\* What _removeWhitelisted leaves behind, with status s.  Counting down below
\* 0 would revert.
Removed(a, s) ==
    /\ ~paused
    /\ IF InList(a)
       THEN /\ whitelistedCount > 0 /\ whitelistedCount' = whitelistedCount - 1
            /\ whitelistedContracts' =
                   IF a \in Contracts /\ whitelistedContracts > 0
                   THEN whitelistedContracts - 1 ELSE whitelistedContracts
            /\ didHashToAddress' = [didHashToAddress EXCEPT ![identities[a].did] = NoOne]
            /\ identities' = [identities EXCEPT ![a] = [NoIdentity EXCEPT !.status = s]]
       ELSE /\ UNCHANGED <<counts, didHashToAddress>>
            /\ identities' = [identities EXCEPT ![a].status = IF s = 255 THEN s ELSE @]
    /\ UNCHANGED <<now, paused, reverifyDaysOptions, connectedAccounts>>

removeWhitelisted(a) == Removed(a, 0) /\ oldIdentity' = OldRemoved(a)

renounceWhitelisted(sender) ==
    /\ Known(sender) /\ isWhitelisted(sender)
    /\ removeWhitelisted(sender)

removeContract(a) ==
    /\ Removed(a, 0)
    /\ oldIdentity' = IF oldIdentity[a] = "contract"
                      THEN [oldIdentity EXCEPT ![a] = "none"] ELSE OldRemoved(a)

addBlacklisted(a) == Removed(a, 255) /\ oldIdentity' = OldRemoved(a)

\* Whoever a is, it loses its status, but keeps its id and its date.
removeBlacklisted(a) ==
    /\ ~paused
    /\ identities' = [identities EXCEPT ![a].status = 0]
    /\ oldIdentity' = IF oldIdentity[a] = "blacklisted"
                      THEN [oldIdentity EXCEPT ![a] = "none"] ELSE oldIdentity
    /\ UNCHANGED <<now, paused, reverifyDaysOptions, didHashToAddress,
                   connectedAccounts, counts>>

-----------------------------------------------------------------------------
(* Accounts and ids of a person *)

connectAccount(sender, a) ==
    /\ Known(sender) /\ isWhitelisted(sender)
    /\ Known(a) /\ ~isWhitelisted(a) /\ ~isBlacklisted(a)
    /\ connectedAccounts[a] = NoOne
    /\ connectedAccounts' = [connectedAccounts EXCEPT ![a] = sender]
    /\ UNCHANGED <<now, paused, reverifyDaysOptions, identities, didHashToAddress,
                   counts, oldIdentity>>

disconnectAccount(sender, a) ==
    /\ sender \in {a, connectedAccounts[a]}
    /\ connectedAccounts' = [connectedAccounts EXCEPT ![a] = NoOne]
    /\ UNCHANGED <<now, paused, reverifyDaysOptions, identities, didHashToAddress,
                   counts, oldIdentity>>

\* The owner in the old identity has to be the account, or to have moved on.
FreeInOld(a, did) ==
    LET owner == OldDIDOwner[did] IN
    owner \in Account \ {a} => identities[owner].did # NoDid

setDID(a, did) ==
    /\ Known(a) /\ isWhitelisted(a)
    /\ Unregistered(did) /\ FreeInOld(a, did)
    /\ identities' = [identities EXCEPT ![a].did = did]
    /\ didHashToAddress' = [didHashToAddress EXCEPT ![identities[a].did] = NoOne,
                                                    ![did] = a]
    /\ UNCHANGED <<now, paused, reverifyDaysOptions, connectedAccounts, counts,
                   oldIdentity>>

pause(toPause) ==
    /\ paused # toPause /\ paused' = toPause
    /\ UNCHANGED <<now, reverifyDaysOptions, identities, didHashToAddress,
                   connectedAccounts, counts, oldIdentity>>

Tick ==
    /\ now < MaxTime /\ now' = now + 1
    /\ UNCHANGED <<paused, reverifyDaysOptions, identities, didHashToAddress,
                   connectedAccounts, counts, oldIdentity>>

-----------------------------------------------------------------------------
Administer == \E a \in Account :
    \/ authenticate(a)
    \/ \E t \in Timestamps : authenticateWithTimestamp(a, t)
    \/ addWhitelisted(a) \/ addContract(a)
    \/ \E did \in Did : \/ addWhitelistedWithDID(a, did)
                        \/ \E t \in Timestamps : addWhitelistedWithDIDAndChain(a, did, t)
    \/ removeWhitelisted(a) \/ removeContract(a)
    \/ addBlacklisted(a) \/ removeBlacklisted(a)

Use == \E a \in Account :
    \/ renounceWhitelisted(a)
    \/ \E b \in Account : connectAccount(a, b) \/ disconnectAccount(a, b)
    \/ \E did \in Did : setDID(a, did)

Next ==
    \/ Administer
    \/ Use
    \/ \E list \in OptionLists : setReverifyDaysOptions(list)
    \/ \E b \in BOOLEAN : pause(b)
    \/ Tick

Spec == Init /\ [][Next]_vars
-----------------------------------------------------------------------------
\* A person's id is no one else's: whichever way ids are given, changed and
\* taken away, the registry leads from an account's id back to the account.
DidsAreUnique == \A a \in Account :
    identities[a].did # NoDid => didHashToAddress[identities[a].did] = a

\* "the longest time (in days) that can pass before an authentication needs to
\* be renewed": nobody this contract whitelists goes longer, whatever step of
\* whatever schedule counts for it.
WhitelistExpires == \A a \in Account :
    status(a) = 1 /\ isWhitelisted(a)
        => now - identities[a].dateAuthenticated < authenticationPeriod

\* Who has just been authenticated is whitelisted, at every step of the
\* schedule, unless the schedule begins with 0 days.
AuthenticationCounts == [][\A a \in Account :
    (/\ identities'[a].dateAuthenticated = now
     /\ identities'[a].dateAuthenticated # identities[a].dateAuthenticated
     /\ identities'[a].status = 1)
        => isWhitelisted(a)' \/ reverifyDaysOptions[1] = 0]_vars

\* The count may run ahead of the whitelist (removeBlacklisted does not count)
\* but never behind it: removing and blacklisting are never refused for it.
CountCoversWhitelist ==
    whitelistedCount >= Cardinality({a \in Account : status(a) \in Listed})

\* "This ensures we won't index out of bounds and allows repeated cycles
\* through the reverify schedule" (authenticateWithTimestamp).
StepsStayInSchedule == \A a \in Account : status(a) = 1 => InSchedule(a)
=============================================================================
