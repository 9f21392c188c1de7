---------------------------- MODULE People_proofs ----------------------------
(***************************************************************************)
(* The identity contract.  For every set of accounts and ids and every     *)
(* schedule: ids are unique, the whitelist is counted, and authentications *)
(* count, but not for ever.  The invariant is the type invariant with      *)
(* DidsAreUnique: an id is registered for an account when it is given to   *)
(* it, is given only when it is not registered, and its registration is    *)
(* only deleted together with the id of the account it leads to.  What is  *)
(* about the schedule rests on its being ascending, and so its last step   *)
(* the longest.                                                            *)
(*                                                                         *)
(* The invites.  Invitees are pending exactly once and bounties count      *)
(* exactly once, for any people, codes and levels, and whatever identity   *)
(* and the basic income answer.                                            *)
(***************************************************************************)
EXTENDS IdentityV4, InvitesV2, Lemmas

Inv == TypeOK /\ DidsAreUnique

OldStates == {"none", "whitelisted", "blacklisted", "contract"}

LEMMA LastStepType == ASSUME TypeOK PROVE LastStep \in Nat
<1>1. Len(reverifyDaysOptions) \in Nat /\ Len(reverifyDaysOptions) > 0
  BY DEF TypeOK
<1> QED
  BY <1>1 DEF LastStep

LEMMA StepType ==
    ASSUME TypeOK, NEW a \in Account
    PROVE  stepOf(a) \in Nat /\ NextStep(stepOf(a)) \in Nat
<1>1. identities[a].authCount \in Nat
  BY DEF TypeOK, Identity
<1>2. stepOf(a) \in Nat
  BY <1>1, LastStepType DEF stepOf
<1> QED
  BY <1>2 DEF NextStep

LEMMA InitInv == ASSUME IdentityAssumption, Init PROVE Inv
<1>1. NoIdentity \in Identity
  BY DEF NoIdentity, Identity, Status, Listed
<1>2. TypeOK
  BY <1>1 DEF Init, TypeOK, IdentityAssumption
<1>3. DidsAreUnique
  BY DEF Init, DidsAreUnique, NoIdentity
<1> QED
  BY <1>2, <1>3 DEF Inv

\* A step that keeps every id and every registration.
LEMMA IdsKept ==
    ASSUME Inv, TypeOK', UNCHANGED didHashToAddress,
           \A a \in Account : identities'[a].did = identities[a].did
    PROVE  Inv'
BY DEF Inv, DidsAreUnique

LEMMA AuthenticateInv ==
    ASSUME Inv, NEW a \in Account, NEW t \in Nat, authenticateWithTimestamp(a, t)
    PROVE  Inv'
<1> DEFINE n == IF shouldReverify(a, t - identities[a].dateAuthenticated)
                THEN NextStep(stepOf(a)) ELSE stepOf(a)
<1>1. n \in Nat
  BY StepType DEF Inv
<1>2. identities' = [identities EXCEPT ![a].authCount = n, ![a].dateAuthenticated = t]
  BY DEF authenticateWithTimestamp
<1> HIDE DEF n
<1>3. identities' \in [Account -> Identity]
      /\ \A b \in Account : identities'[b].did = identities[b].did
  BY ZenonT(60), <1>1, <1>2 DEF Inv, TypeOK, Identity
<1>4. TypeOK'
  BY <1>3 DEF authenticateWithTimestamp, Inv, TypeOK, counts
<1> QED
  BY <1>3, <1>4, IdsKept DEF authenticateWithTimestamp

LEMMA WhitelistTypes ==
    ASSUME IdentityAssumption, Inv, NEW a \in Account, NEW s \in {1, 2},
           NEW did \in Did \union {NoDid}, NEW t \in Nat, Whitelist(a, s, did, t),
           didHashToAddress' \in [Did \union {NoDid} -> Account \union {NoOne}]
    PROVE  /\ TypeOK'
           /\ identities'[a].did = did
           /\ \A b \in Account \ {a} : identities'[b] = identities[b]
<1>1. [dateAuthenticated |-> t, did |-> did, status |-> s, authCount |-> 0] \in Identity
  BY DEF Identity, Status, Listed
<1>2. /\ identities' \in [Account -> Identity]
      /\ identities'[a].did = did
      /\ \A b \in Account \ {a} : identities'[b] = identities[b]
  BY <1>1 DEF Whitelist, Inv, TypeOK
<1>3. whitelistedCount' \in Nat /\ whitelistedContracts' \in Nat
  BY DEF Whitelist, Inv, TypeOK
<1>4. TypeOK'
  BY <1>2, <1>3 DEF Whitelist, Inv, TypeOK
<1> QED
  BY <1>2, <1>4

LEMMA WhitelistInv ==
    ASSUME IdentityAssumption, Inv, NEW a \in Account, NEW s \in {1, 2},
           Whitelist(a, s, identities[a].did, now), UNCHANGED didHashToAddress
    PROVE  Inv'
<1>1. identities[a].did \in Did \union {NoDid} /\ now \in Nat
  BY DEF Inv, TypeOK, Identity
<1>2. didHashToAddress' \in [Did \union {NoDid} -> Account \union {NoOne}]
  BY DEF Inv, TypeOK
<1>3. /\ TypeOK'
      /\ identities'[a].did = identities[a].did
      /\ \A b \in Account \ {a} : identities'[b] = identities[b]
  BY <1>1, <1>2, WhitelistTypes
<1>4. \A b \in Account : identities'[b].did = identities[b].did
  BY <1>3
<1> QED
  BY <1>3, <1>4, IdsKept

LEMMA WhitelistWithDIDInv ==
    ASSUME IdentityAssumption, Inv, NEW a \in Account, NEW did \in Did, NEW t \in Nat,
           addWhitelistedWithDIDAndChain(a, did, t)
    PROVE  Inv'
<1> DEFINE date == IF t > 0 THEN t ELSE now
<1>0. date \in Nat
  BY DEF Inv, TypeOK
<1>1. /\ didHashToAddress' = [didHashToAddress EXCEPT ![did] = a]
      /\ didHashToAddress[did] = NoOne
      /\ Whitelist(a, 1, did, date)
  BY DEF addWhitelistedWithDIDAndChain, Unregistered
<1>2. didHashToAddress' \in [Did \union {NoDid} -> Account \union {NoOne}]
  BY <1>1 DEF Inv, TypeOK
<1> HIDE DEF date
<1>3. /\ TypeOK'
      /\ identities'[a].did = did
      /\ \A b \in Account \ {a} : identities'[b] = identities[b]
  BY <1>0, <1>1, <1>2, WhitelistTypes
<1>4. ASSUME NEW b \in Account, identities'[b].did # NoDid
      PROVE  didHashToAddress'[identities'[b].did] = b
  <2>1. CASE b = a
    BY <2>1, <1>1, <1>3 DEF Inv, TypeOK
  <2>2. CASE b # a
    <3>1. didHashToAddress[identities[b].did] = b /\ identities'[b] = identities[b]
      BY <2>2, <1>3, <1>4 DEF Inv, DidsAreUnique
    <3>2. identities[b].did # did
      BY <3>1, <1>1 DEF IdentityAssumption
    <3> QED
      BY <3>1, <3>2, <1>1 DEF Inv, TypeOK
  <2> QED
    BY <2>1, <2>2
<1> QED
  BY <1>3, <1>4 DEF Inv, DidsAreUnique

LEMMA StatusSet ==
    ASSUME TypeOK, NEW a \in Account, NEW s \in Status
    PROVE  /\ [identities[a] EXCEPT !.status = s] \in Identity
           /\ [identities[a] EXCEPT !.status = s].did = identities[a].did
<1>1. identities[a] \in Identity
  BY DEF TypeOK
<1> QED
  BY <1>1 DEF Identity

LEMMA RemovedInv ==
    ASSUME IdentityAssumption, Inv, NEW a \in Account, NEW s \in {0, 255},
           Removed(a, s), oldIdentity' \in [Account -> OldStates]
    PROVE  Inv'
<1>1. CASE InList(a)
  <2>1. /\ identities' = [identities EXCEPT ![a] = [NoIdentity EXCEPT !.status = s]]
        /\ didHashToAddress' = [didHashToAddress EXCEPT ![identities[a].did] = NoOne]
    BY <1>1 DEF Removed
  <2>2. [NoIdentity EXCEPT !.status = s] \in Identity
        /\ [NoIdentity EXCEPT !.status = s].did = NoDid
    BY DEF NoIdentity, Identity, Status, Listed
  <2>3. /\ identities' \in [Account -> Identity]
        /\ identities'[a].did = NoDid
        /\ \A b \in Account \ {a} : identities'[b] = identities[b]
    BY <2>1, <2>2 DEF Inv, TypeOK
  <2>4. didHashToAddress' \in [Did \union {NoDid} -> Account \union {NoOne}]
    BY <2>1 DEF Inv, TypeOK
  <2>5. whitelistedCount' \in Nat /\ whitelistedContracts' \in Nat
    BY <1>1 DEF Removed, Inv, TypeOK
  <2>6. TypeOK'
    BY <2>3, <2>4, <2>5 DEF Removed, Inv, TypeOK, OldStates
  <2>7. ASSUME NEW b \in Account, identities'[b].did # NoDid
        PROVE  didHashToAddress'[identities'[b].did] = b
    <3>1. b # a /\ identities'[b] = identities[b]
      BY <2>3, <2>7
    <3>2. didHashToAddress[identities[b].did] = b /\ identities[b].did # NoDid
      BY <3>1, <2>7 DEF Inv, DidsAreUnique
    <3>3. identities[b].did # identities[a].did
      BY <3>1, <3>2 DEF Inv, DidsAreUnique
    <3> QED
      BY <3>1, <3>2, <3>3, <2>1, <2>3 DEF Inv, TypeOK, Identity
  <2> QED
    BY <2>6, <2>7 DEF Inv, DidsAreUnique
<1>2. CASE ~InList(a)
  <2>1. /\ identities' = [identities EXCEPT ![a].status = IF s = 255 THEN s ELSE @]
        /\ UNCHANGED <<counts, didHashToAddress>>
    BY <1>2 DEF Removed
  <2>2. identities' \in [Account -> Identity]
        /\ \A b \in Account : identities'[b].did = identities[b].did
    <3> DEFINE v == IF s = 255 THEN s ELSE identities[a].status
    <3>1. v \in Status
      BY DEF Inv, TypeOK, Identity, Status
    <3>2. identities' = [identities EXCEPT ![a] = [identities[a] EXCEPT !.status = v]]
      BY <2>1 DEF Inv, TypeOK
    <3>3. [identities[a] EXCEPT !.status = v] \in Identity
          /\ [identities[a] EXCEPT !.status = v].did = identities[a].did
      BY <3>1, StatusSet DEF Inv
    <3> HIDE DEF v
    <3> QED
      BY <3>2, <3>3 DEF Inv, TypeOK
  <2>3. TypeOK'
    BY <2>1, <2>2 DEF Removed, Inv, TypeOK, OldStates, counts
  <2> QED
    BY <2>1, <2>2, <2>3, IdsKept
<1> QED
  BY <1>1, <1>2

LEMMA OldRemovedType ==
    ASSUME TypeOK, NEW a \in Account
    PROVE  /\ OldRemoved(a) \in [Account -> OldStates]
           /\ [oldIdentity EXCEPT ![a] = "none"] \in [Account -> OldStates]
           /\ oldIdentity \in [Account -> OldStates]
BY DEF TypeOK, OldRemoved, OldStates

LEMMA RemoveInv ==
    ASSUME IdentityAssumption, Inv, NEW a \in Account,
           removeWhitelisted(a) \/ removeContract(a) \/ addBlacklisted(a)
    PROVE  Inv'
<1>1. oldIdentity' \in [Account -> OldStates]
  BY OldRemovedType DEF removeWhitelisted, removeContract, addBlacklisted, Inv
<1>2. Removed(a, 0) \/ Removed(a, 255)
  BY DEF removeWhitelisted, removeContract, addBlacklisted
<1> QED
  BY <1>1, <1>2, RemovedInv

LEMMA UnblacklistInv ==
    ASSUME IdentityAssumption, Inv, NEW a \in Account, removeBlacklisted(a)
    PROVE  Inv'
<1>1. identities' \in [Account -> Identity]
      /\ \A b \in Account : identities'[b].did = identities[b].did
  BY ZenonT(60), StatusSet DEF removeBlacklisted, Inv, TypeOK, Status
<1>2. oldIdentity' \in [Account -> OldStates]
  BY OldRemovedType DEF removeBlacklisted, Inv
<1>3. TypeOK'
  BY <1>1, <1>2 DEF removeBlacklisted, Inv, TypeOK, OldStates, counts
<1> QED
  BY <1>1, <1>3, IdsKept DEF removeBlacklisted

\* The id an account had is free again, and the new one was free.
LEMMA SetDIDInv ==
    ASSUME IdentityAssumption, Inv, NEW a \in Account, NEW did \in Did, setDID(a, did)
    PROVE  Inv'
<1> DEFINE old == identities[a].did
<1>1. /\ identities' = [identities EXCEPT ![a].did = did]
      /\ didHashToAddress' = [didHashToAddress EXCEPT ![old] = NoOne, ![did] = a]
      /\ didHashToAddress[did] = NoOne
  BY DEF setDID, Unregistered
<1>2. /\ identities' \in [Account -> Identity]
      /\ identities'[a].did = did
      /\ \A b \in Account \ {a} : identities'[b] = identities[b]
  <2>1. [identities[a] EXCEPT !.did = did] \in Identity
        /\ [identities[a] EXCEPT !.did = did].did = did
    <3>1. identities[a] \in Identity
      BY DEF Inv, TypeOK
    <3> QED
      BY <3>1 DEF Identity
  <2> QED
    BY <1>1, <2>1 DEF Inv, TypeOK
<1>3. old \in Did \union {NoDid}
  BY DEF Inv, TypeOK, Identity
<1> HIDE DEF old
<1>4. /\ didHashToAddress' \in [Did \union {NoDid} -> Account \union {NoOne}]
      /\ didHashToAddress'[did] = a
      /\ \A d \in Did \union {NoDid} :
            d \notin {old, did} => didHashToAddress'[d] = didHashToAddress[d]
  BY <1>1, <1>3 DEF Inv, TypeOK
<1>5. TypeOK'
  BY <1>2, <1>4 DEF setDID, Inv, TypeOK, counts
<1>6. ASSUME NEW b \in Account, identities'[b].did # NoDid
      PROVE  didHashToAddress'[identities'[b].did] = b
  <2>1. CASE b = a
    BY <2>1, <1>2, <1>4
  <2>2. CASE b # a
    <3>1. identities'[b] = identities[b] /\ didHashToAddress[identities[b].did] = b
      BY <2>2, <1>2, <1>6 DEF Inv, DidsAreUnique
    <3>2. identities[b].did # did
      BY <3>1, <1>1 DEF IdentityAssumption
    <3>3. identities[b].did # old
      BY <3>1, <2>2, <1>2, <1>6 DEF Inv, DidsAreUnique, old
    <3>4. identities[b].did \in Did \union {NoDid}
      BY DEF Inv, TypeOK, Identity
    <3> QED
      BY <3>1, <3>2, <3>3, <3>4, <1>4
  <2> QED
    BY <2>1, <2>2
<1> QED
  BY <1>5, <1>6 DEF Inv, DidsAreUnique

LEMMA ConnectInv ==
    ASSUME Inv, NEW a \in Account, NEW b \in Account,
           connectAccount(a, b) \/ disconnectAccount(a, b)
    PROVE  Inv'
<1>1. connectedAccounts' \in [Account -> Account \union {NoOne}]
      /\ UNCHANGED <<now, paused, reverifyDaysOptions, identities, didHashToAddress,
                     counts, oldIdentity>>
  BY DEF connectAccount, disconnectAccount, Inv, TypeOK
<1>2. TypeOK'
  BY <1>1 DEF Inv, TypeOK, counts
<1> QED
  BY <1>1, <1>2, IdsKept

-----------------------------------------------------------------------------
LEMMA NextInv == ASSUME IdentityAssumption, Inv, [Next]_vars PROVE Inv'
<1>1. CASE Administer
  <2>1. PICK a \in Account :
          \/ authenticate(a)
          \/ \E t \in Timestamps : authenticateWithTimestamp(a, t)
          \/ addWhitelisted(a) \/ addContract(a)
          \/ \E did \in Did : \/ addWhitelistedWithDID(a, did)
                              \/ \E t \in Timestamps : addWhitelistedWithDIDAndChain(a, did, t)
          \/ removeWhitelisted(a) \/ removeContract(a)
          \/ addBlacklisted(a) \/ removeBlacklisted(a)
    BY <1>1 DEF Administer
  <2>2. now \in Nat /\ Timestamps \subseteq Nat
    BY DEF Inv, TypeOK, IdentityAssumption
  <2>3. CASE authenticate(a) \/ \E t \in Timestamps : authenticateWithTimestamp(a, t)
    BY <2>2, <2>3, AuthenticateInv DEF authenticate
  <2>4. CASE addWhitelisted(a) \/ addContract(a)
    BY <2>4, WhitelistInv DEF addWhitelisted, addContract
  <2>5. ASSUME NEW did \in Did,
               \/ addWhitelistedWithDID(a, did)
               \/ \E t \in Timestamps : addWhitelistedWithDIDAndChain(a, did, t)
        PROVE  Inv'
    BY <2>2, <2>5, WhitelistWithDIDInv DEF addWhitelistedWithDID
  <2>6. CASE removeWhitelisted(a) \/ removeContract(a) \/ addBlacklisted(a)
    BY <2>6, RemoveInv
  <2>7. CASE removeBlacklisted(a)
    BY <2>7, UnblacklistInv
  <2> QED
    BY <2>1, <2>3, <2>4, <2>5, <2>6, <2>7
<1>2. CASE Use
  <2>1. ASSUME NEW a \in Account, renounceWhitelisted(a) PROVE Inv'
    BY <2>1, RemoveInv DEF renounceWhitelisted
  <2>2. ASSUME NEW a \in Account, NEW b \in Account,
               connectAccount(a, b) \/ disconnectAccount(a, b)
        PROVE  Inv'
    BY <2>2, ConnectInv
  <2>3. ASSUME NEW a \in Account, NEW did \in Did, setDID(a, did) PROVE Inv'
    BY <2>3, SetDIDInv
  <2> QED
    BY <1>2, <2>1, <2>2, <2>3 DEF Use
<1>3. ASSUME NEW list \in OptionLists, setReverifyDaysOptions(list) PROVE Inv'
  <2>1. list \in Seq(Nat) /\ Len(list) > 0
    BY <1>3 DEF setReverifyDaysOptions, NonEmpty, IdentityAssumption
  <2>2. TypeOK'
    BY <1>3, <2>1 DEF setReverifyDaysOptions, Inv, TypeOK, counts
  <2> QED
    BY <1>3, <2>2, IdsKept DEF setReverifyDaysOptions
<1>4. ASSUME NEW b \in BOOLEAN, pause(b) PROVE Inv'
  <2>1. TypeOK'
    BY <1>4 DEF pause, Inv, TypeOK, counts
  <2> QED
    BY <1>4, <2>1, IdsKept DEF pause
<1>5. CASE Tick
  <2>1. TypeOK'
    BY <1>5 DEF Tick, Inv, TypeOK, counts
  <2> QED
    BY <1>5, <2>1, IdsKept DEF Tick
<1>6. CASE UNCHANGED vars
  <2>1. TypeOK'
    BY <1>6 DEF vars, Inv, TypeOK, counts
  <2> QED
    BY <1>6, <2>1, IdsKept DEF vars
<1> QED
  BY <1>1, <1>2, <1>3, <1>4, <1>5, <1>6 DEF Next

\* No two accounts ever share an id, and the registry knows whose each is.
THEOREM IdsAreUnique == Spec => [](TypeOK /\ DidsAreUnique)
<1>1. Init => Inv
  BY InitInv, IdentityAssumption
<1>2. Inv /\ [Next]_vars => Inv'
  BY NextInv, IdentityAssumption
<1> QED
  BY <1>1, <1>2, PTL DEF Spec, Inv
-----------------------------------------------------------------------------
(* Schedules *)

Scheduled == TypeOK /\ Ascending(reverifyDaysOptions)

LEMMA NextScheduled ==
    ASSUME IdentityAssumption, Inv, Ascending(reverifyDaysOptions), [Next]_vars
    PROVE  Ascending(reverifyDaysOptions')
<1>1. CASE \E list \in OptionLists : setReverifyDaysOptions(list)
  BY <1>1 DEF setReverifyDaysOptions, InOrder
<1>2. CASE UNCHANGED reverifyDaysOptions
  BY <1>2
<1>3. ASSUME Administer PROVE UNCHANGED reverifyDaysOptions
  BY ZenonT(60), <1>3 DEF Administer, authenticate, authenticateWithTimestamp, addWhitelisted,
              addContract, addWhitelistedWithDID, addWhitelistedWithDIDAndChain,
              Whitelist, removeWhitelisted, removeContract, addBlacklisted, Removed,
              removeBlacklisted
<1>4. ASSUME Use PROVE UNCHANGED reverifyDaysOptions
  BY <1>4 DEF Use, renounceWhitelisted, removeWhitelisted, Removed, connectAccount,
              disconnectAccount, setDID
<1> QED
  BY <1>1, <1>2, <1>3, <1>4 DEF Next, pause, Tick, vars

LEMMA AlwaysScheduled == Spec => [](Inv /\ Scheduled)
<1>1. Init => Inv /\ Ascending(reverifyDaysOptions)
  BY InitInv, IdentityAssumption DEF Init, IdentityAssumption
<1>2. Inv /\ Ascending(reverifyDaysOptions) /\ [Next]_vars
        => (Inv /\ Ascending(reverifyDaysOptions))'
  BY NextInv, NextScheduled, IdentityAssumption DEF Ascending
<1>3. Inv /\ Ascending(reverifyDaysOptions) => Inv /\ Scheduled
  BY DEF Inv, Scheduled
<1> QED
  BY <1>1, <1>2, <1>3, PTL DEF Spec

\* The last step of a schedule is its longest.
LEMMA LastIsLongest ==
    ASSUME NEW list \in Seq(Nat), Ascending(list), NEW i \in 1..Len(list)
    PROVE  list[i] <= list[Len(list)]
<1> DEFINE n == Len(list)
           Longer == {j \in 1..n : list[j] > list[n]}
<1>1. n \in Nat /\ \A j \in 1..n : list[j] \in Nat
  OBVIOUS
<1>2. ASSUME Longer # {} PROVE FALSE
  <2>1. PICK x \in Longer : \A y \in Longer : y <= x
    BY <1>1, <1>2, GreatestNumber
  <2>2. x \in 1..n /\ list[x] > list[n] /\ x # n
    BY <1>1, <2>1
  <2>3. x + 1 \in 2..n /\ x + 1 \in 1..n /\ (x + 1) - 1 = x
    BY <1>1, <2>2
  <2>4. list[x + 1] > list[x]
    BY <2>3 DEF Ascending
  <2>5. list[x + 1] > list[n]
    BY <1>1, <2>2, <2>3, <2>4
  <2>6. x + 1 \in Longer
    BY <2>3, <2>5
  <2>7. x + 1 <= x
    BY <2>1, <2>6
  <2> QED
    BY <2>2, <2>7, <1>1
<1> QED
  BY <1>1, <1>2

\* Every step but the first has some days.
LEMMA StepsTakeDays ==
    ASSUME NEW list \in Seq(Nat), Ascending(list), NEW i \in 1..Len(list), list[i] = 0
    PROVE  list[1] = 0
<1>1. CASE i = 1
  BY <1>1
<1>2. CASE i # 1
  <2>1. i \in 2..Len(list) /\ i - 1 \in 1..Len(list)
    BY <1>2
  <2>2. list[i] > list[i - 1] /\ list[i - 1] \in Nat
    BY <2>1 DEF Ascending
  <2> QED
    BY <2>2
<1> QED
  BY <1>1, <1>2

\* Nobody is whitelisted for longer than the last step of the schedule.
THEOREM WhitelistingsExpire == Spec => []WhitelistExpires
<1>1. ASSUME Scheduled PROVE WhitelistExpires
  <2> SUFFICES ASSUME NEW a \in Account, status(a) = 1, isWhitelisted(a)
               PROVE  now - identities[a].dateAuthenticated < authenticationPeriod
    BY DEF WhitelistExpires
  <2>1. /\ reverifyDaysOptions \in Seq(Nat) /\ Ascending(reverifyDaysOptions)
        /\ now \in Nat /\ identities[a].dateAuthenticated \in Nat
    BY <1>1 DEF Scheduled, TypeOK, Identity
  <2>2. stepOf(a) \in Nat /\ stepOf(a) <= Len(reverifyDaysOptions) - 1
    BY <1>1, StepType DEF isWhitelisted, InSchedule, LastStep, Scheduled
  <2>3. stepOf(a) + 1 \in 1..Len(reverifyDaysOptions)
    BY <2>1, <2>2
  <2>4. reverifyDaysOptions[stepOf(a) + 1]
           <= reverifyDaysOptions[Len(reverifyDaysOptions)]
    BY <2>1, <2>3, LastIsLongest
  <2>5. /\ reverifyDaysOptions[stepOf(a) + 1] \in Nat
        /\ reverifyDaysOptions[Len(reverifyDaysOptions)] \in Nat
    BY <2>1, <2>3
  <2>6. ~(now - identities[a].dateAuthenticated >= reverifyDaysOptions[stepOf(a) + 1])
    BY DEF isWhitelisted, shouldReverify
  <2> QED
    BY <2>1, <2>4, <2>5, <2>6 DEF authenticationPeriod
<1> QED
  BY <1>1, AlwaysScheduled, PTL

-----------------------------------------------------------------------------
(* Authentications count *)

\* A person authenticated just now, at a step there is, is whitelisted.
LEMMA FreshCounts ==
    ASSUME TypeOK, Ascending(reverifyDaysOptions), NEW a \in Account, status(a) = 1,
           identities[a].dateAuthenticated = now, identities[a].authCount <= LastStep,
           reverifyDaysOptions[1] # 0
    PROVE  isWhitelisted(a)
<1>1. /\ reverifyDaysOptions \in Seq(Nat) /\ Len(reverifyDaysOptions) > 0
      /\ now \in Nat /\ identities[a].authCount \in Nat
  BY DEF TypeOK, Identity
<1>2. LastStep \in Nat /\ stepOf(a) \in Nat /\ stepOf(a) <= LastStep
  BY <1>1, LastStepType DEF stepOf
<1>3. stepOf(a) + 1 \in 1..Len(reverifyDaysOptions)
  BY <1>1, <1>2 DEF LastStep
<1>4. reverifyDaysOptions[stepOf(a) + 1] \in Nat
      /\ reverifyDaysOptions[stepOf(a) + 1] # 0
  BY <1>1, <1>3, StepsTakeDays
<1>5. ~shouldReverify(a, now - identities[a].dateAuthenticated)
  BY <1>1, <1>4 DEF shouldReverify
<1> QED
  BY <1>1, <1>2, <1>5 DEF isWhitelisted, Dated, InSchedule

\* Either way the step that counts from now on is one of the schedule.
LEMMA AuthenticatedStep ==
    ASSUME Inv, NEW a \in Account, NEW t \in Nat, authenticateWithTimestamp(a, t)
    PROVE  /\ identities'[a].authCount <= LastStep
           /\ \A b \in Account \ {a} : identities'[b] = identities[b]
<1> DEFINE n == IF shouldReverify(a, t - identities[a].dateAuthenticated)
                THEN NextStep(stepOf(a)) ELSE stepOf(a)
<1>1. LastStep \in Nat /\ stepOf(a) \in Nat /\ stepOf(a) <= LastStep
  BY LastStepType, StepType DEF Inv, authenticateWithTimestamp, InSchedule
<1>2. n <= LastStep /\ n \in Nat
  BY <1>1 DEF NextStep
<1>3. identities' = [identities EXCEPT ![a].authCount = n, ![a].dateAuthenticated = t]
  BY DEF authenticateWithTimestamp
<1> HIDE DEF n
<1> QED
  BY <1>2, <1>3 DEF Inv, TypeOK, Identity

LEMMA WhitelistedStep ==
    ASSUME Inv, NEW a \in Account, NEW s, NEW did, NEW t, Whitelist(a, s, did, t)
    PROVE  /\ identities'[a].authCount = 0
           /\ \A b \in Account \ {a} : identities'[b] = identities[b]
BY DEF Whitelist, Inv, TypeOK

\* Who is in the list has just been put there, or was not touched.
LEMMA FreshSteps ==
    ASSUME IdentityAssumption, Inv, [Next]_vars, NEW a \in Account,
           identities'[a].dateAuthenticated = now,
           identities'[a].dateAuthenticated # identities[a].dateAuthenticated,
           identities'[a].status = 1
    PROVE  /\ identities'[a].authCount <= LastStep
           /\ UNCHANGED <<now, reverifyDaysOptions>>
<1>1. now \in Nat /\ Timestamps \subseteq Nat /\ LastStep \in Nat
  BY LastStepType DEF Inv, TypeOK, IdentityAssumption
<1>2. ASSUME NEW b \in Account, NEW t \in Nat, authenticateWithTimestamp(b, t)
      PROVE  identities'[a].authCount <= LastStep /\ UNCHANGED <<now, reverifyDaysOptions>>
  <2>1. b = a
    BY <1>2, AuthenticatedStep
  <2> QED
    BY <1>2, <2>1, AuthenticatedStep DEF authenticateWithTimestamp
<1>3. ASSUME NEW b \in Account, NEW s, NEW did, NEW t, Whitelist(b, s, did, t)
      PROVE  identities'[a].authCount <= LastStep /\ UNCHANGED <<now, reverifyDaysOptions>>
  <2>1. b = a
    BY <1>3, WhitelistedStep
  <2>2. identities'[a].authCount = 0
    BY <1>3, <2>1, WhitelistedStep
  <2> QED
    BY <1>1, <1>3, <2>2 DEF Whitelist
<1>4. ASSUME NEW b \in Account, NEW s \in {0, 255}, Removed(b, s) PROVE FALSE
  <2>1. CASE InList(b)
    <3>1. identities' = [identities EXCEPT ![b] = [NoIdentity EXCEPT !.status = s]]
      BY <1>4, <2>1 DEF Removed
    <3> QED
      BY <3>1 DEF Inv, TypeOK, NoIdentity
  <2>2. CASE ~InList(b)
    <3>1. \E v : identities' = [identities EXCEPT ![b].status = v]
      BY <1>4, <2>2 DEF Removed
    <3> QED
      BY <3>1 DEF Inv, TypeOK, Identity
  <2> QED
    BY <2>1, <2>2
<1>5. ASSUME NEW b \in Account, removeBlacklisted(b) PROVE FALSE
  BY <1>5 DEF removeBlacklisted, Inv, TypeOK, Identity
<1>6. ASSUME NEW b \in Account, NEW did \in Did, setDID(b, did) PROVE FALSE
  BY <1>6 DEF setDID, Inv, TypeOK, Identity
<1>7. CASE Administer
  <2>1. PICK b \in Account :
          \/ authenticate(b)
          \/ \E t \in Timestamps : authenticateWithTimestamp(b, t)
          \/ addWhitelisted(b) \/ addContract(b)
          \/ \E did \in Did : \/ addWhitelistedWithDID(b, did)
                              \/ \E t \in Timestamps : addWhitelistedWithDIDAndChain(b, did, t)
          \/ removeWhitelisted(b) \/ removeContract(b)
          \/ addBlacklisted(b) \/ removeBlacklisted(b)
    BY <1>7 DEF Administer
  <2>2. CASE authenticate(b) \/ \E t \in Timestamps : authenticateWithTimestamp(b, t)
    BY <1>1, <1>2, <2>2 DEF authenticate
  <2>3. CASE addWhitelisted(b) \/ addContract(b)
    BY <1>3, <2>3 DEF addWhitelisted, addContract
  <2>4. CASE \E did \in Did :
                \/ addWhitelistedWithDID(b, did)
                \/ \E t \in Timestamps : addWhitelistedWithDIDAndChain(b, did, t)
    BY <1>3, <2>4 DEF addWhitelistedWithDID, addWhitelistedWithDIDAndChain
  <2>5. CASE removeWhitelisted(b) \/ removeContract(b) \/ addBlacklisted(b)
    BY <1>4, <2>5 DEF removeWhitelisted, removeContract, addBlacklisted
  <2> QED
    BY <2>1, <2>2, <2>3, <2>4, <2>5, <1>5
<1>8. CASE Use
  <2>1. ASSUME NEW b \in Account, renounceWhitelisted(b) PROVE FALSE
    BY <1>4, <2>1 DEF renounceWhitelisted, removeWhitelisted
  <2>2. ASSUME NEW b \in Account, NEW c \in Account,
               connectAccount(b, c) \/ disconnectAccount(b, c)
        PROVE  FALSE
    BY <2>2 DEF connectAccount, disconnectAccount
  <2> QED
    BY <1>6, <1>8, <2>1, <2>2 DEF Use
<1>9. ASSUME UNCHANGED identities PROVE FALSE
  BY <1>9
<1> QED
  BY <1>7, <1>8, <1>9 DEF Next, setReverifyDaysOptions, pause, Tick, vars

FreshAreWhitelisted == \A a \in Account :
    (/\ TypeOK /\ Ascending(reverifyDaysOptions)
     /\ status(a) = 1 /\ identities[a].dateAuthenticated = now
     /\ identities[a].authCount <= LastStep /\ reverifyDaysOptions[1] # 0)
        => isWhitelisted(a)

\* Whoever has just been authenticated is whitelisted, whatever the schedule
\* and however it was changed, unless it begins with no days at all.
THEOREM AuthenticationsCount == Spec => AuthenticationCounts
<1> DEFINE Fresh(a) == /\ identities'[a].dateAuthenticated = now
                       /\ identities'[a].dateAuthenticated # identities[a].dateAuthenticated
                       /\ identities'[a].status = 1
<1>1. FreshAreWhitelisted
  BY FreshCounts DEF FreshAreWhitelisted
<1>2. FreshAreWhitelisted'
  BY <1>1, PTL
<1>3. ASSUME Inv /\ Scheduled, (Inv /\ Scheduled)', [Next]_vars, NEW a \in Account, Fresh(a)
      PROVE  isWhitelisted(a)' \/ reverifyDaysOptions[1] = 0
  <2>1. /\ identities'[a].authCount <= LastStep
        /\ now' = now /\ reverifyDaysOptions' = reverifyDaysOptions
    BY <1>3, FreshSteps, IdentityAssumption
  <2>2. (identities[a].authCount <= LastStep)'
    BY <2>1 DEF LastStep
  <2>3. TypeOK' /\ Ascending(reverifyDaysOptions)'
    BY <1>3 DEF Scheduled
  <2>4. status(a)' = 1 /\ (identities[a].dateAuthenticated)' = now'
    BY <1>3, <2>1 DEF status
  <2> QED
    BY <1>2, <2>1, <2>2, <2>3, <2>4 DEF FreshAreWhitelisted
<1>4. (Inv /\ Scheduled) /\ (Inv /\ Scheduled)' /\ [Next]_vars
        => [\A a \in Account : Fresh(a)
              => isWhitelisted(a)' \/ reverifyDaysOptions[1] = 0]_vars
  BY <1>3
<1>5. Spec => [][Next]_vars
  BY DEF Spec
<1> QED
  BY <1>4, <1>5, AlwaysScheduled, PTL DEF AuthenticationCounts
-----------------------------------------------------------------------------
(* The count of the whitelist *)

InWhitelist == {a \in Account : status(a) \in Listed}

CountInv == Inv /\ CountCoversWhitelist

LEMMA WhitelistIsFinite ==
    ASSUME IdentityAssumption
    PROVE  /\ IsFiniteSet(InWhitelist) /\ Cardinality(InWhitelist) \in Nat
           /\ IsFiniteSet(InWhitelist') /\ Cardinality(InWhitelist') \in Nat
<1>1. InWhitelist \subseteq Account /\ InWhitelist' \subseteq Account
      /\ IsFiniteSet(Account)
  BY DEF InWhitelist, IdentityAssumption
<1> QED
  BY <1>1, FS_Subset, FS_CardinalityType

LEMMA CountCovers ==
    /\ CountCoversWhitelist <=> whitelistedCount >= Cardinality(InWhitelist)
    /\ CountCoversWhitelist' <=> whitelistedCount' >= Cardinality(InWhitelist')
BY DEF CountCoversWhitelist, InWhitelist

\* A step that adds nobody and keeps the count.
LEMMA CountKept ==
    ASSUME IdentityAssumption, CountInv, UNCHANGED whitelistedCount,
           \A a \in Account : status(a)' \in Listed => status(a) \in Listed
    PROVE  CountCoversWhitelist'
<1>1. InWhitelist' \subseteq InWhitelist
  BY DEF InWhitelist
<1>2. Cardinality(InWhitelist') <= Cardinality(InWhitelist)
  BY <1>1, WhitelistIsFinite, FS_Subset
<1>3. whitelistedCount >= Cardinality(InWhitelist) /\ whitelistedCount \in Nat
  BY CountCovers DEF CountInv, Inv, TypeOK
<1> QED
  BY <1>2, <1>3, WhitelistIsFinite, CountCovers

LEMMA WhitelistCounts ==
    ASSUME IdentityAssumption, CountInv, NEW a \in Account, NEW s, NEW did, NEW t,
           Whitelist(a, s, did, t)
    PROVE  CountCoversWhitelist'
<1>1. /\ whitelistedCount' = whitelistedCount + 1 /\ whitelistedCount \in Nat
      /\ \A b \in Account \ {a} : identities'[b] = identities[b]
  BY WhitelistedStep DEF CountInv, Inv, TypeOK, Whitelist
<1>2. InWhitelist' \subseteq InWhitelist \union {a}
  BY <1>1 DEF InWhitelist, status
<1>3. /\ IsFiniteSet(InWhitelist \union {a})
      /\ Cardinality(InWhitelist \union {a}) <= Cardinality(InWhitelist) + 1
      /\ Cardinality(InWhitelist \union {a}) \in Nat
  <2>1. /\ IsFiniteSet(InWhitelist \union {a})
        /\ \/ Cardinality(InWhitelist \union {a}) = Cardinality(InWhitelist)
           \/ Cardinality(InWhitelist \union {a}) = Cardinality(InWhitelist) + 1
    BY WhitelistIsFinite, FS_AddElement
  <2>2. Cardinality(InWhitelist \union {a}) \in Nat
    BY <2>1, FS_CardinalityType
  <2> QED
    BY <2>1, <2>2, WhitelistIsFinite
<1>4. Cardinality(InWhitelist') <= Cardinality(InWhitelist \union {a})
  BY <1>2, <1>3, FS_Subset
<1>5. whitelistedCount >= Cardinality(InWhitelist)
  BY CountCovers DEF CountInv
<1> QED
  BY <1>1, <1>3, <1>4, <1>5, WhitelistIsFinite, CountCovers

LEMMA RemovedCounts ==
    ASSUME IdentityAssumption, CountInv, NEW a \in Account, NEW s \in {0, 255}, Removed(a, s)
    PROVE  CountCoversWhitelist'
<1>1. CASE InList(a)
  <2>1. /\ whitelistedCount' = whitelistedCount - 1 /\ whitelistedCount \in Nat
        /\ identities' = [identities EXCEPT ![a] = [NoIdentity EXCEPT !.status = s]]
    BY <1>1 DEF Removed, CountInv, Inv, TypeOK
  <2>2. /\ identities'[a].status = s
        /\ \A b \in Account \ {a} : identities'[b] = identities[b]
    BY <2>1 DEF CountInv, Inv, TypeOK, NoIdentity
  <2>3. a \in InWhitelist
    BY <1>1 DEF InWhitelist, InList
  <2>4. InWhitelist' = InWhitelist \ {a}
    BY <2>2 DEF InWhitelist, status, Listed
  <2>5. Cardinality(InWhitelist \ {a}) = Cardinality(InWhitelist) - 1
    BY <2>3, WhitelistIsFinite, FS_RemoveElement
  <2>6. whitelistedCount >= Cardinality(InWhitelist)
    BY CountCovers DEF CountInv
  <2> QED
    BY <2>1, <2>4, <2>5, <2>6, WhitelistIsFinite, CountCovers
<1>2. CASE ~InList(a)
  <2>1. /\ whitelistedCount' = whitelistedCount
        /\ identities' = [identities EXCEPT ![a].status = IF s = 255 THEN s ELSE @]
    BY <1>2 DEF Removed, counts
  <2>2. \A b \in Account \ {a} : identities'[b] = identities[b]
    BY <2>1 DEF CountInv, Inv, TypeOK
  <2>3. identities'[a].status \notin Listed
    <3>1. identities[a].status \notin Listed /\ 255 \notin Listed
      BY <1>2 DEF InList, status, Listed
    <3>2. identities'[a].status = 255 \/ identities'[a].status = identities[a].status
      BY <2>1 DEF CountInv, Inv, TypeOK, Identity
    <3> QED
      BY <3>1, <3>2
  <2>4. \A b \in Account : status(b)' \in Listed => status(b) \in Listed
    BY <2>2, <2>3 DEF status
  <2> QED
    BY <2>1, <2>4, CountKept
<1> QED
  BY <1>1, <1>2

LEMMA NextCounts ==
    ASSUME IdentityAssumption, CountInv, [Next]_vars PROVE CountCoversWhitelist'
<1>1. now \in Nat /\ Timestamps \subseteq Nat
  BY DEF CountInv, Inv, TypeOK, IdentityAssumption
<1>2. ASSUME NEW b \in Account, NEW t \in Nat, authenticateWithTimestamp(b, t)
      PROVE  CountCoversWhitelist'
  <2>1. \A c \in Account : identities'[c].status = identities[c].status
    BY SMTT(30), <1>2 DEF authenticateWithTimestamp, CountInv, Inv, TypeOK, Identity
  <2> QED
    BY <1>2, <2>1, CountKept DEF authenticateWithTimestamp, status, counts
<1>3. ASSUME NEW b \in Account, removeBlacklisted(b) PROVE CountCoversWhitelist'
  <2>1. /\ identities'[b].status = 0
        /\ \A c \in Account \ {b} : identities'[c] = identities[c]
    BY <1>3 DEF removeBlacklisted, CountInv, Inv, TypeOK, Identity
  <2>2. \A c \in Account : status(c)' \in Listed => status(c) \in Listed
    BY <2>1 DEF status, Listed
  <2> QED
    BY <1>3, <2>2, CountKept DEF removeBlacklisted, counts
<1>4. ASSUME NEW b \in Account, NEW did \in Did, setDID(b, did) PROVE CountCoversWhitelist'
  <2>1. \A c \in Account : identities'[c].status = identities[c].status
    BY <1>4 DEF setDID, CountInv, Inv, TypeOK, Identity
  <2> QED
    BY <1>4, <2>1, CountKept DEF setDID, status, counts
<1>5. CASE Administer
  <2>1. PICK b \in Account :
          \/ authenticate(b)
          \/ \E t \in Timestamps : authenticateWithTimestamp(b, t)
          \/ addWhitelisted(b) \/ addContract(b)
          \/ \E did \in Did : \/ addWhitelistedWithDID(b, did)
                              \/ \E t \in Timestamps : addWhitelistedWithDIDAndChain(b, did, t)
          \/ removeWhitelisted(b) \/ removeContract(b)
          \/ addBlacklisted(b) \/ removeBlacklisted(b)
    BY <1>5 DEF Administer
  <2>2. CASE authenticate(b) \/ \E t \in Timestamps : authenticateWithTimestamp(b, t)
    BY <1>1, <1>2, <2>2 DEF authenticate
  <2>3. CASE addWhitelisted(b) \/ addContract(b)
    BY <2>3, WhitelistCounts DEF addWhitelisted, addContract
  <2>4. CASE \E did \in Did :
                \/ addWhitelistedWithDID(b, did)
                \/ \E t \in Timestamps : addWhitelistedWithDIDAndChain(b, did, t)
    BY <2>4, WhitelistCounts DEF addWhitelistedWithDID, addWhitelistedWithDIDAndChain
  <2>5. CASE removeWhitelisted(b) \/ removeContract(b) \/ addBlacklisted(b)
    BY <2>5, RemovedCounts DEF removeWhitelisted, removeContract, addBlacklisted
  <2> QED
    BY <2>1, <2>2, <2>3, <2>4, <2>5, <1>3
<1>6. CASE Use
  <2>1. ASSUME NEW b \in Account, renounceWhitelisted(b) PROVE CountCoversWhitelist'
    BY <2>1, RemovedCounts DEF renounceWhitelisted, removeWhitelisted
  <2>2. ASSUME NEW b \in Account, NEW c \in Account,
               connectAccount(b, c) \/ disconnectAccount(b, c)
        PROVE  CountCoversWhitelist'
    BY <2>2, CountKept DEF connectAccount, disconnectAccount, status, counts
  <2> QED
    BY <1>4, <1>6, <2>1, <2>2 DEF Use
<1>7. ASSUME UNCHANGED <<identities, whitelistedCount>> PROVE CountCoversWhitelist'
  BY <1>7, CountKept DEF status
<1> QED
  BY <1>5, <1>6, <1>7 DEF Next, setReverifyDaysOptions, pause, Tick, vars, counts

\* The whitelist never has more people and contracts than are counted, so that
\* taking one of them off it is never refused for the count.
THEOREM WhitelistIsCounted == Spec => []CountCoversWhitelist
<1>1. ASSUME Init PROVE CountInv
  <2>1. InWhitelist = {}
    BY <1>1 DEF Init, InWhitelist, status, NoIdentity, Listed
  <2>2. Cardinality(InWhitelist) = 0 /\ whitelistedCount = 0
    BY <1>1, <2>1, FS_EmptySet DEF Init
  <2>3. Inv
    BY <1>1, InitInv, IdentityAssumption
  <2> QED
    BY <2>2, <2>3, CountCovers DEF CountInv
<1>2. CountInv /\ [Next]_vars => CountInv'
  BY NextInv, NextCounts, IdentityAssumption DEF CountInv
<1>3. CountInv => CountCoversWhitelist
  BY DEF CountInv
<1> QED
  BY <1>1, <1>2, <1>3, PTL DEF Spec

-----------------------------------------------------------------------------
(* InvitesV2 *)

-----------------------------------------------------------------------------
(* Entries of a list *)

Places(a, list) == {i \in DOMAIN list : list[i] = a}

LEMMA PlacesAreFinite ==
    ASSUME NEW list \in Seq(Accounts), NEW a
    PROVE  IsFiniteSet(Places(a, list)) /\ Entries(a, list) = Cardinality(Places(a, list))
           /\ Entries(a, list) \in Nat
<1>1. Len(list) \in Nat /\ DOMAIN list = 1..Len(list)
  OBVIOUS
<1>2. IsFiniteSet(1..Len(list))
  BY <1>1, FS_Interval
<1>3. Places(a, list) \subseteq 1..Len(list)
  BY <1>1 DEF Places
<1>4. IsFiniteSet(Places(a, list))
  BY <1>2, <1>3, FS_Subset
<1>5. Cardinality(Places(a, list)) \in Nat
  BY <1>4, FS_CardinalityType
<1> QED
  BY <1>4, <1>5 DEF Entries, Places

LEMMA NoEntries == ASSUME NEW a PROVE Entries(a, << >>) = 0
<1>1. {i \in DOMAIN << >> : << >>[i] = a} = {}
  OBVIOUS
<1> QED
  BY <1>1, FS_EmptySet DEF Entries

LEMMA EntriesOfAppend ==
    ASSUME NEW list \in Seq(Accounts), NEW x \in Accounts, NEW a
    PROVE  Entries(a, Append(list, x)) = Entries(a, list) + (IF a = x THEN 1 ELSE 0)
<1> DEFINE n == Len(list)
           longer == Append(list, x)
<1>1. /\ n \in Nat /\ DOMAIN list = 1..n /\ longer \in Seq(Accounts)
      /\ DOMAIN longer = 1..(n + 1) /\ longer[n + 1] = x
      /\ \A i \in 1..n : longer[i] = list[i]
  OBVIOUS
<1> HIDE DEF longer
<1>2. CASE a = x
  <2>1. Places(a, longer) = Places(a, list) \union {n + 1} /\ n + 1 \notin Places(a, list)
    BY <1>1, <1>2 DEF Places
  <2>2. Cardinality(Places(a, longer)) = Cardinality(Places(a, list)) + 1
    BY <2>1, PlacesAreFinite, FS_AddElement
  <2> QED
    BY <1>1, <1>2, <2>2, PlacesAreFinite DEF longer
<1>3. CASE a # x
  <2>1. Places(a, longer) = Places(a, list)
    BY <1>1, <1>3 DEF Places
  <2>2. Entries(a, longer) = Entries(a, list) /\ Entries(a, list) \in Nat
    BY <1>1, <2>1, PlacesAreFinite
  <2> QED
    BY <1>3, <2>2 DEF longer
<1> QED
  BY <1>2, <1>3

\* What is dropped at i is one entry of the account there, and what comes
\* before i stays.
LEMMA DroppedList ==
    ASSUME NEW list \in Seq(Accounts), NEW i \in 1..Len(list)
    PROVE  /\ Dropped(list, i) \in Seq(Accounts)
           /\ Len(Dropped(list, i)) = Len(list) - 1
           /\ \A j \in 1..(Len(list) - 1) :
                  Dropped(list, i)[j] = IF j = i THEN list[Len(list)] ELSE list[j]
<1> DEFINE n == Len(list)
           moved == [list EXCEPT ![i] = list[n]]
<1>1. n \in Nat /\ n > 0 /\ list[n] \in Accounts
  OBVIOUS
<1>2. /\ moved \in Seq(Accounts) /\ Len(moved) = n
      /\ \A j \in 1..n : moved[j] = IF j = i THEN list[n] ELSE list[j]
  BY <1>1
<1>3. Dropped(list, i) = SubSeq(moved, 1, n - 1)
  BY <1>2 DEF Dropped, Front, Last
<1> HIDE DEF moved
<1> QED
  BY <1>1, <1>2, <1>3

LEMMA EntriesOfDropped ==
    ASSUME NEW list \in Seq(Accounts), NEW i \in 1..Len(list), NEW a
    PROVE  Entries(a, Dropped(list, i)) = Entries(a, list) - (IF a = list[i] THEN 1 ELSE 0)
<1> DEFINE n == Len(list)
           rest == Dropped(list, i)
           P == Places(a, list)
           Q == Places(a, rest)
<1>1. /\ n \in Nat /\ DOMAIN list = 1..n /\ n \in 1..n /\ i \in 1..n
      /\ rest \in Seq(Accounts) /\ DOMAIN rest = 1..(n - 1)
      /\ \A j \in 1..(n - 1) : rest[j] = IF j = i THEN list[n] ELSE list[j]
  <2>1. n \in Nat /\ DOMAIN list = 1..n /\ n \in 1..n /\ i \in 1..n
    OBVIOUS
  <2>2. rest \in Seq(Accounts) /\ Len(rest) = n - 1
    BY DroppedList
  <2>3. \A j \in 1..(n - 1) : rest[j] = IF j = i THEN list[n] ELSE list[j]
    BY DroppedList
  <2> HIDE DEF rest
  <2>4. DOMAIN rest = 1..(n - 1)
    BY <2>2
  <2> QED
    BY <2>1, <2>2, <2>3, <2>4
<1> HIDE DEF n, rest
<1>2. /\ IsFiniteSet(P) /\ Cardinality(P) = Entries(a, list) /\ Cardinality(P) \in Nat
      /\ IsFiniteSet(Q) /\ Cardinality(Q) = Entries(a, rest) /\ Cardinality(Q) \in Nat
  BY <1>1, PlacesAreFinite
<1>3. CASE a = list[i] /\ a = list[n]
  <2>1. \A j : j \in Q <=> j \in P \ {n}
    <3>1. \A j \in 1..(n - 1) : rest[j] = a <=> list[j] = a
      BY <1>1, <1>3
    <3>2. \A j : j \in 1..(n - 1) <=> j \in 1..n /\ j # n
      BY <1>1
    <3> QED
      BY <1>1, <3>1, <3>2 DEF Places
  <2>2. Q = P \ {n}
    BY <2>1
  <2>3. n \in P
    BY <1>1, <1>3 DEF Places
  <2> QED
    BY <1>2, <1>3, <2>2, <2>3, FS_RemoveElement DEF rest
<1>4. CASE a = list[i] /\ a # list[n]
  <2>1. Q = P \ {i} /\ i \in P
    BY <1>1, <1>4 DEF Places
  <2> QED
    BY <1>2, <1>4, <2>1, FS_RemoveElement DEF rest
<1>5. CASE a # list[i] /\ a = list[n]
  <2>1. Q = (P \ {n}) \union {i} /\ n \in P /\ i \notin P /\ i # n
    BY <1>1, <1>5 DEF Places
  <2>2. IsFiniteSet(P \ {n}) /\ Cardinality(P \ {n}) = Cardinality(P) - 1
    BY <1>2, <2>1, FS_RemoveElement
  <2>3. Cardinality(Q) = Cardinality(P \ {n}) + 1
    BY <2>1, <2>2, FS_AddElement
  <2> QED
    BY <1>2, <1>5, <2>2, <2>3 DEF rest
<1>6. CASE a # list[i] /\ a # list[n]
  <2>1. Q = P
    BY <1>1, <1>6 DEF Places
  <2> QED
    BY <1>2, <1>6, <2>1 DEF rest
<1> QED
  BY <1>3, <1>4, <1>5, <1>6

-----------------------------------------------------------------------------
(* Paying a bounty *)

Led == [users : [Accounts -> User], stats : Stats, balance : Int,
        received : [Accounts -> Nat]]

LEMMA LedgerType == ASSUME InvitesTypeOK PROVE Ledger \in Led
BY DEF InvitesTypeOK, Ledger, Led

LEMMA LevelType == ASSUME InvitesTypeOK, NEW u \in User PROVE LevelOf(u) \in Level
BY DEF InvitesTypeOK, LevelOf, Level, User

\* What an approval leaves of a user.
SameJoin(u, v) == /\ v.invitedBy = u.invitedBy /\ v.inviteCode = u.inviteCode
                  /\ v.pending = u.pending

LEMMA ApprovedUser ==
    ASSUME InvitesTypeOK, NEW u \in User, NEW bounty \in Nat, NEW joinedAt
    PROVE  LET v == Approved(u, bounty, joinedAt)
           IN  /\ v \in User /\ SameJoin(u, v) /\ v.bountyPaid = u.bountyPaid
               /\ v.totalApprovedInvites = u.totalApprovedInvites + 1
               /\ v.totalEarned = u.totalEarned + bounty
<1> DEFINE n == u.totalApprovedInvites + 1
           e == u.totalEarned + bounty
           counted == [u EXCEPT !.totalApprovedInvites = n, !.totalEarned = e]
           l == u.level + 1
           raised == [counted EXCEPT !.level = l, !.levelStarted = time]
<1>1. n \in Nat /\ e \in Nat /\ l \in Nat /\ time \in Nat
  BY DEF User, InvitesTypeOK
<1>2. Approved(u, bounty, joinedAt) \in {counted, raised}
  <2>1. counted.level = u.level
    BY DEF User
  <2> QED
    BY <2>1 DEF Approved
<1> HIDE DEF n, e, l
<1>3. /\ counted \in User /\ SameJoin(u, counted) /\ counted.bountyPaid = u.bountyPaid
      /\ counted.totalApprovedInvites = n /\ counted.totalEarned = e
  BY <1>1 DEF User, SameJoin
<1>4. /\ raised \in User /\ SameJoin(u, raised) /\ raised.bountyPaid = u.bountyPaid
      /\ raised.totalApprovedInvites = n /\ raised.totalEarned = e
  <2> HIDE DEF counted
  <2> QED
    BY <1>1, <1>3 DEF User, SameJoin
<1> HIDE DEF counted, raised
<1> QED
  BY <1>2, <1>3, <1>4 DEF n, e

LEMMA PaidToLedger ==
    ASSUME NEW s \in Led, NEW a \in Accounts, NEW amount \in Nat
    PROVE  LET t == PaidTo(s, a, amount)
           IN  /\ t \in Led /\ t.users = s.users /\ t.stats = s.stats
               /\ t.received[a] = s.received[a] + amount
               /\ \A x \in Accounts \ {a} : t.received[x] = s.received[x]
<1> DEFINE b == s.balance - amount
           n == s.received[a] + amount
           r == [s.received EXCEPT ![a] = n]
           t == [s EXCEPT !.balance = b, !.received = r]
<1>1. b \in Int /\ n \in Nat
  BY DEF Led
<1>2. PaidTo(s, a, amount) = t
  BY DEF PaidTo, Led
<1> HIDE DEF b, n
<1>3. /\ r \in [Accounts -> Nat] /\ r[a] = n
      /\ \A x \in Accounts \ {a} : r[x] = s.received[x]
  BY <1>1 DEF Led
<1> HIDE DEF r
<1>4. t \in Led /\ t.users = s.users /\ t.stats = s.stats /\ t.received = r
  BY <1>1, <1>3 DEF Led
<1> HIDE DEF t
<1> QED
  BY <1>2, <1>3, <1>4 DEF n

LEMMA BountyType ==
    ASSUME InvitesTypeOK, NEW s \in Led, NEW a \in Accounts PROVE BountyOf(s, a) \in Nat
<1>1. s.users[a] \in User /\ \A b \in Accounts : s.users[b] \in User
  BY DEF Led
<1>2. s.users[a].bountyAtJoin \in Nat
  BY <1>1 DEF User
<1>3. \A b \in Accounts : LevelOf(s.users[b]).bounty \in Nat
  BY <1>1, LevelType DEF Level
<1> QED
  BY <1>2, <1>3 DEF BountyOf

\* What the inviter is credited with.
Shared(s, b, bounty, joinedAt) == [s EXCEPT !.users[b] = Approved(@, bounty, joinedAt)]

LEMMA SharedLedger ==
    ASSUME InvitesTypeOK, NEW s \in Led, NEW b \in Accounts, NEW bounty \in Nat, NEW joinedAt
    PROVE  LET t == Shared(s, b, bounty, joinedAt)
           IN  /\ t \in Led /\ t.stats = s.stats /\ t.received = s.received
               /\ \A x \in Accounts : /\ SameJoin(s.users[x], t.users[x])
                                      /\ t.users[x].bountyPaid = s.users[x].bountyPaid
               /\ t.users[b].totalApprovedInvites = s.users[b].totalApprovedInvites + 1
               /\ t.users[b].totalEarned = s.users[b].totalEarned + bounty
               /\ \A x \in Accounts \ {b} : t.users[x] = s.users[x]
<1> DEFINE v == Approved(s.users[b], bounty, joinedAt)
           us == [s.users EXCEPT ![b] = v]
           t == [s EXCEPT !.users = us]
<1>1. s.users \in [Accounts -> User] /\ s.users[b] \in User
  BY DEF Led
<1>2. /\ v \in User /\ SameJoin(s.users[b], v) /\ v.bountyPaid = s.users[b].bountyPaid
      /\ v.totalApprovedInvites = s.users[b].totalApprovedInvites + 1
      /\ v.totalEarned = s.users[b].totalEarned + bounty
  BY <1>1, ApprovedUser
<1>3. Shared(s, b, bounty, joinedAt) = t
  BY <1>1 DEF Led, Shared
<1> HIDE DEF v
<1>4. us \in [Accounts -> User] /\ us[b] = v /\ \A x \in Accounts \ {b} : us[x] = s.users[x]
  BY <1>1, <1>2
<1> HIDE DEF us
<1>5. t \in Led /\ t.stats = s.stats /\ t.received = s.received /\ t.users = us
  BY <1>4 DEF Led
<1>6. \A x \in Accounts : SameJoin(s.users[x], us[x]) /\ us[x].bountyPaid = s.users[x].bountyPaid
  BY <1>2, <1>4 DEF SameJoin
<1> HIDE DEF t
<1> QED
  BY <1>2, <1>3, <1>4, <1>5, <1>6

\* What is noted of the invitee.
Noted(s, a, bounty) == [s EXCEPT !.users[a].bountyPaid = TRUE,
                                 !.stats.totalApprovedInvites = @ + 1,
                                 !.stats.totalBountiesPaid = @ + bounty,
                                 !.balance = @ - bounty \div 2]

\* t is s with a marked as paid a bounty.
Marked(s, t, a, bounty) ==
    /\ t \in Led /\ t.received = s.received
    /\ t.stats.totalApprovedInvites = s.stats.totalApprovedInvites + 1
    /\ t.stats.totalBountiesPaid = s.stats.totalBountiesPaid + bounty
    /\ \A x \in Accounts :
          /\ SameJoin(s.users[x], t.users[x])
          /\ t.users[x].totalApprovedInvites = s.users[x].totalApprovedInvites
          /\ t.users[x].totalEarned = s.users[x].totalEarned
    /\ t.users[a].bountyPaid
    /\ \A x \in Accounts \ {a} : t.users[x] = s.users[x]

\* Noting the bounty keeps the types, and changes what it names and nothing else.
LEMMA NotedLedger ==
    ASSUME NEW s \in Led, NEW a \in Accounts, NEW bounty \in Nat
    PROVE  Marked(s, Noted(s, a, bounty), a, bounty)
<1> DEFINE v == [s.users[a] EXCEPT !.bountyPaid = TRUE]
           us == [s.users EXCEPT ![a] = v]
           n == s.stats.totalApprovedInvites + 1
           p == s.stats.totalBountiesPaid + bounty
           st == [s.stats EXCEPT !.totalApprovedInvites = n, !.totalBountiesPaid = p]
           b == s.balance - bounty \div 2
           t == [s EXCEPT !.users = us, !.stats = st, !.balance = b]
           w == Noted(s, a, bounty)
<1>1. /\ s.users \in [Accounts -> User] /\ s.users[a] \in User /\ s.stats \in Stats
      /\ s.balance \in Int
  BY DEF Led
<1>2. /\ v \in User /\ SameJoin(s.users[a], v) /\ v.bountyPaid
      /\ v.totalApprovedInvites = s.users[a].totalApprovedInvites
      /\ v.totalEarned = s.users[a].totalEarned
  BY <1>1 DEF User, SameJoin
<1>3. n \in Nat /\ p \in Nat /\ b \in Int
  BY <1>1 DEF Stats
<1>4. w = t
  BY <1>1 DEF Led, Stats, Noted
<1> HIDE DEF n, p, b, v, w
<1>5. us \in [Accounts -> User] /\ us[a] = v /\ \A x \in Accounts \ {a} : us[x] = s.users[x]
  BY <1>1, <1>2
<1>6. st \in Stats /\ st.totalApprovedInvites = n /\ st.totalBountiesPaid = p
  BY <1>1, <1>3 DEF Stats
<1> HIDE DEF us, st
<1>7. t \in Led /\ t.stats = st /\ t.received = s.received /\ t.users = us
  BY <1>3, <1>5, <1>6 DEF Led
<1>8. \A x \in Accounts : /\ SameJoin(s.users[x], us[x])
                          /\ us[x].totalApprovedInvites = s.users[x].totalApprovedInvites
                          /\ us[x].totalEarned = s.users[x].totalEarned
  BY <1>2, <1>5 DEF SameJoin
<1>9. w \in Led /\ w.stats = st /\ w.received = s.received /\ w.users = us
  BY <1>4, <1>7
<1>10. us[a].bountyPaid
  BY <1>2, <1>5
<1> HIDE DEF t
<1> QED
  BY <1>5, <1>6, <1>8, <1>9, <1>10 DEF w, n, p, Marked

If(c, n) == IF c THEN n ELSE 0

\* t is s with the bounty of a paid, or what of it is paid at once.
Payment(s, t, a, bounty, isSingleBounty) ==
    /\ t \in Led
    /\ t.stats.totalApprovedInvites = s.stats.totalApprovedInvites + 1
    /\ t.stats.totalBountiesPaid = s.stats.totalBountiesPaid + bounty
    /\ t.users[a].bountyPaid
    /\ \A x \in Accounts \ {a} : t.users[x].bountyPaid = s.users[x].bountyPaid
    /\ \A x \in Accounts :
          /\ SameJoin(s.users[x], t.users[x])
          /\ t.users[x].totalApprovedInvites
                = s.users[x].totalApprovedInvites + If(s.users[a].invitedBy = x, 1)
          /\ t.users[x].totalEarned
                = s.users[x].totalEarned + If(s.users[a].invitedBy = x, bounty)
          /\ t.received[x]
                = s.received[x] + If(isSingleBounty /\ s.users[a].invitedBy = x, bounty)

LEMMA BountyFor ==
    ASSUME InvitesTypeOK, NEW s \in Led, NEW a \in Accounts, NEW single \in BOOLEAN
    PROVE  BountyOf(s, a) \in Nat
           /\ Payment(s, _bountyFor(s, a, single), a, BountyOf(s, a), single)
<1> DEFINE inviter == s.users[a].invitedBy
           bounty == BountyOf(s, a)
           shared == IF inviter \in Accounts
                     THEN Shared(s, inviter, bounty, s.users[a].joinedAt) ELSE s
           paid == IF inviter \in Accounts /\ single
                   THEN PaidTo(shared, inviter, bounty) ELSE shared
           t == Noted(paid, a, bounty)
<1>1. bounty \in Nat
  BY BountyType
<1>2. _bountyFor(s, a, single) = t
  BY DEF _bountyFor, Shared, Noted
<1>3. \A x \in Accounts : /\ s.users[x].totalApprovedInvites \in Nat
                          /\ s.users[x].totalEarned \in Nat /\ s.received[x] \in Nat
  BY DEF Led, User
<1> HIDE DEF bounty
<1>4. /\ shared \in Led /\ shared.stats = s.stats /\ shared.received = s.received
      /\ \A x \in Accounts :
            /\ SameJoin(s.users[x], shared.users[x])
            /\ shared.users[x].bountyPaid = s.users[x].bountyPaid
            /\ shared.users[x].totalApprovedInvites
                  = s.users[x].totalApprovedInvites + If(inviter = x, 1)
            /\ shared.users[x].totalEarned = s.users[x].totalEarned + If(inviter = x, bounty)
  <2>1. CASE inviter \in Accounts
    <3>1. /\ shared \in Led /\ shared.stats = s.stats /\ shared.received = s.received
          /\ \A x \in Accounts : /\ SameJoin(s.users[x], shared.users[x])
                                 /\ shared.users[x].bountyPaid = s.users[x].bountyPaid
          /\ shared.users[inviter].totalApprovedInvites
                = s.users[inviter].totalApprovedInvites + 1
          /\ shared.users[inviter].totalEarned = s.users[inviter].totalEarned + bounty
          /\ \A x \in Accounts \ {inviter} : shared.users[x] = s.users[x]
      <4>1. shared = Shared(s, inviter, bounty, s.users[a].joinedAt)
        BY <2>1
      <4> HIDE DEF inviter, shared
      <4> QED
        BY <1>1, <2>1, <4>1, SharedLedger
    <3> HIDE DEF shared, inviter
    <3>2. \A x \in Accounts :
            /\ shared.users[x].totalApprovedInvites
                  = s.users[x].totalApprovedInvites + If(inviter = x, 1)
            /\ shared.users[x].totalEarned = s.users[x].totalEarned + If(inviter = x, bounty)
      BY <1>1, <1>3, <2>1, <3>1 DEF If
    <3> QED
      BY <3>1, <3>2
  <2>2. CASE inviter \notin Accounts
    <3>1. shared = s
      BY <2>2
    <3> HIDE DEF shared, inviter
    <3> QED
      BY <1>3, <2>2, <3>1 DEF If, SameJoin
  <2> QED
    BY <2>1, <2>2
<1> HIDE DEF shared
<1>5. /\ paid \in Led /\ paid.stats = s.stats /\ paid.users = shared.users
      /\ \A x \in Accounts : paid.received[x] = s.received[x] + If(single /\ inviter = x, bounty)
  <2>1. CASE inviter \in Accounts /\ single
    <3>1. /\ paid \in Led /\ paid.users = shared.users /\ paid.stats = shared.stats
          /\ paid.received[inviter] = shared.received[inviter] + bounty
          /\ \A x \in Accounts \ {inviter} : paid.received[x] = shared.received[x]
      <4>1. paid = PaidTo(shared, inviter, bounty)
        BY <2>1
      <4> HIDE DEF inviter, paid
      <4> QED
        BY ZenonT(60), <1>1, <1>4, <2>1, <4>1, PaidToLedger
    <3> HIDE DEF paid, inviter
    <3> QED
      BY <1>1, <1>3, <1>4, <2>1, <3>1 DEF If
  <2>2. CASE ~(inviter \in Accounts /\ single)
    <3>1. paid = shared
      BY <2>2
    <3> HIDE DEF paid, inviter
    <3> QED
      BY <1>3, <1>4, <2>2, <3>1 DEF If
  <2> QED
    BY <2>1, <2>2
<1> HIDE DEF paid
<1>6. Marked(paid, t, a, bounty)
  <2>1. paid \in Led /\ bounty \in Nat
    BY <1>1, <1>5
  <2>2. t = Noted(paid, a, bounty)
    OBVIOUS
  <2> HIDE DEF t, inviter
  <2>3. Marked(paid, Noted(paid, a, bounty), a, bounty)
    BY <2>1, NotedLedger
  <2> QED
    BY <2>2, <2>3
<1> HIDE DEF t
<1>7. Payment(s, t, a, bounty, single)
  <2>1. \A x \in Accounts : SameJoin(s.users[x], t.users[x])
    BY <1>4, <1>5, <1>6 DEF Marked, SameJoin
  <2>2. \A x \in Accounts \ {a} : t.users[x].bountyPaid = s.users[x].bountyPaid
    BY <1>4, <1>5, <1>6 DEF Marked
  <2> QED
    BY <1>4, <1>5, <1>6, <2>1, <2>2 DEF Marked, Payment
<1> QED
  BY <1>1, <1>2, <1>7 DEF bounty

-----------------------------------------------------------------------------
(* Who is pending, and what is counted *)

PaidOf(us) == {a \in Accounts : us[a].bountyPaid}
PaidBy(us, b) == {a \in Accounts : us[a].bountyPaid /\ us[a].invitedBy = b}

Totals(s) ==
    /\ s.stats.totalApprovedInvites = Cardinality(PaidOf(s.users))
    /\ \A b \in Accounts :
          s.users[b].totalApprovedInvites = Cardinality(PaidBy(s.users, b))

\* How often a may be in the list of b.
Allowed(us, a, b, n) ==
    IF us[a].invitedBy # b THEN n = 0 ELSE n = 1 \/ (us[a].bountyPaid /\ n = 0)

Exact(us, x) == \A a \in Accounts \ {x}, b \in Accounts :
    Allowed(us, a, b, Entries(a, us[b].pending))

LEMMA ExactIs == PendingIsExact <=> Exact(users, codeToUser[NoCode])
BY DEF PendingIsExact, Exact, Allowed

\* Everyone was sent what they are said to have earned.
Even(us, rs) == \A b \in Accounts : rs[b] = us[b].totalEarned

LEMMA CountsAre ==
    BountiesCountOnce <=> /\ Totals(Ledger)
                          /\ codeToUser[NoCode] = Nobody => Even(users, received)
BY DEF BountiesCountOnce, Totals, Ledger, PaidOf, PaidBy, Even

LEMMA PaidIsFinite ==
    ASSUME InvitesAssumption, NEW us, NEW b
    PROVE  /\ IsFiniteSet(PaidOf(us)) /\ Cardinality(PaidOf(us)) \in Nat
           /\ IsFiniteSet(PaidBy(us, b)) /\ Cardinality(PaidBy(us, b)) \in Nat
<1>1. PaidOf(us) \subseteq Accounts /\ PaidBy(us, b) \subseteq Accounts
      /\ IsFiniteSet(Accounts)
  BY DEF PaidOf, PaidBy, InvitesAssumption
<1> QED
  BY <1>1, FS_Subset, FS_CardinalityType

LEMMA PaymentCounts ==
    ASSUME InvitesAssumption, NEW s \in Led, Totals(s), NEW t, NEW a \in Accounts,
           NEW bounty, NEW single, Payment(s, t, a, bounty, single), Unpaid(s.users[a])
    PROVE  Totals(t)
<1>1. PaidOf(t.users) = PaidOf(s.users) \union {a} /\ a \notin PaidOf(s.users)
  <2>1. t.users[a].bountyPaid /\ ~s.users[a].bountyPaid
    BY DEF Payment, Unpaid
  <2>2. \A c \in Accounts \ {a} : t.users[c].bountyPaid = s.users[c].bountyPaid
    BY DEF Payment
  <2>3. \A c : c \in PaidOf(t.users) <=> c \in PaidOf(s.users) \union {a}
    <3> TAKE c
    <3>1. CASE c = a
      BY <2>1, <3>1 DEF PaidOf
    <3>2. CASE c # a /\ c \in Accounts
      BY <2>2, <3>2 DEF PaidOf
    <3>3. CASE c \notin Accounts
      BY <3>3 DEF PaidOf
    <3> QED
      BY <3>1, <3>2, <3>3
  <2>4. a \notin PaidOf(s.users)
    BY <2>1 DEF PaidOf
  <2> QED
    BY <2>3, <2>4
<1>2. t.stats.totalApprovedInvites = Cardinality(PaidOf(t.users))
  <2>1. Cardinality(PaidOf(t.users)) = Cardinality(PaidOf(s.users)) + 1
    BY <1>1, PaidIsFinite, FS_AddElement
  <2>2. s.stats.totalApprovedInvites = Cardinality(PaidOf(s.users))
    BY DEF Totals
  <2>3. t.stats.totalApprovedInvites = s.stats.totalApprovedInvites + 1
    BY DEF Payment
  <2> QED
    BY <2>1, <2>2, <2>3
<1>3. ASSUME NEW b \in Accounts
      PROVE  t.users[b].totalApprovedInvites = Cardinality(PaidBy(t.users, b))
  <2>1. /\ t.users[b].totalApprovedInvites
              = s.users[b].totalApprovedInvites + If(s.users[a].invitedBy = b, 1)
        /\ \A x \in Accounts : t.users[x].invitedBy = s.users[x].invitedBy
    BY DEF Payment, SameJoin
  <2>2. s.users[b].totalApprovedInvites = Cardinality(PaidBy(s.users, b))
    BY DEF Totals
  <2>3. CASE s.users[a].invitedBy = b
    <3>1. PaidBy(t.users, b) = PaidBy(s.users, b) \union {a} /\ a \notin PaidBy(s.users, b)
      BY <2>1, <2>3 DEF PaidBy, Payment, Unpaid
    <3>2. Cardinality(PaidBy(t.users, b)) = Cardinality(PaidBy(s.users, b)) + 1
      BY <3>1, PaidIsFinite, FS_AddElement
    <3> QED
      BY <2>1, <2>2, <2>3, <3>2 DEF If
  <2>4. CASE s.users[a].invitedBy # b
    <3>1. PaidBy(t.users, b) = PaidBy(s.users, b)
      BY <2>1, <2>4 DEF PaidBy, Payment
    <3>2. Cardinality(PaidBy(s.users, b)) \in Nat
      BY PaidIsFinite
    <3> QED
      BY <2>1, <2>2, <2>4, <3>1, <3>2 DEF If
  <2> QED
    BY <2>3, <2>4
<1> QED
  BY <1>2, <1>3 DEF Totals

LEMMA PaymentExact ==
    ASSUME NEW s \in Led, NEW x, Exact(s.users, x), NEW t, NEW a \in Accounts,
           NEW bounty, NEW single, Payment(s, t, a, bounty, single)
    PROVE  Exact(t.users, x)
<1> SUFFICES ASSUME NEW c \in Accounts \ {x}, NEW b \in Accounts
             PROVE  Allowed(t.users, c, b, Entries(c, t.users[b].pending))
  BY DEF Exact
<1>1. /\ t.users[b].pending = s.users[b].pending
      /\ t.users[c].invitedBy = s.users[c].invitedBy
      /\ s.users[c].bountyPaid => t.users[c].bountyPaid
  BY DEF Payment, SameJoin
<1>2. Allowed(s.users, c, b, Entries(c, s.users[b].pending))
  BY DEF Exact
<1> QED
  BY <1>1, <1>2 DEF Allowed

-----------------------------------------------------------------------------
(* Collecting bounties *)

TakenOff(s, b, i) == [s EXCEPT !.users[b].pending = Dropped(@, i)]

LEMMA TakenOffLedger ==
    ASSUME NEW s \in Led, NEW b \in Accounts, NEW i \in 1..Len(s.users[b].pending)
    PROVE  LET t == TakenOff(s, b, i)
           IN  /\ t \in Led /\ t.stats = s.stats /\ t.received = s.received
               /\ t.users[b].pending = Dropped(s.users[b].pending, i)
               /\ \A x \in Accounts \ {b} : t.users[x] = s.users[x]
               /\ \A x \in Accounts :
                     /\ t.users[x].invitedBy = s.users[x].invitedBy
                     /\ t.users[x].inviteCode = s.users[x].inviteCode
                     /\ t.users[x].bountyPaid = s.users[x].bountyPaid
                     /\ t.users[x].totalApprovedInvites = s.users[x].totalApprovedInvites
                     /\ t.users[x].totalEarned = s.users[x].totalEarned
<1> DEFINE u == s.users[b]
           rest == Dropped(u.pending, i)
           v == [u EXCEPT !.pending = rest]
           us == [s.users EXCEPT ![b] = v]
           t == [s EXCEPT !.users = us]
<1>1. s.users \in [Accounts -> User] /\ u \in User
  BY DEF Led
<1>2. rest \in Seq(Accounts)
  <2>1. u.pending \in Seq(Accounts)
    BY <1>1 DEF User
  <2> QED
    BY <2>1, DroppedList
<1>3. TakenOff(s, b, i) = t
  BY <1>1 DEF TakenOff, Led, User
<1> HIDE DEF rest
<1>4. /\ v \in User /\ v.pending = rest /\ v.invitedBy = u.invitedBy
      /\ v.inviteCode = u.inviteCode /\ v.bountyPaid = u.bountyPaid
      /\ v.totalApprovedInvites = u.totalApprovedInvites /\ v.totalEarned = u.totalEarned
  BY <1>1, <1>2 DEF User
<1> HIDE DEF v
<1>5. us \in [Accounts -> User] /\ us[b] = v /\ \A x \in Accounts \ {b} : us[x] = s.users[x]
  BY <1>1, <1>4
<1> HIDE DEF us
<1>6. t \in Led /\ t.stats = s.stats /\ t.received = s.received /\ t.users = us
  BY <1>5 DEF Led
<1>7. \A x \in Accounts :
         /\ us[x].invitedBy = s.users[x].invitedBy
         /\ us[x].inviteCode = s.users[x].inviteCode
         /\ us[x].bountyPaid = s.users[x].bountyPaid
         /\ us[x].totalApprovedInvites = s.users[x].totalApprovedInvites
         /\ us[x].totalEarned = s.users[x].totalEarned
  BY <1>4, <1>5
<1> HIDE DEF t
<1> QED
  BY <1>3, <1>4, <1>5, <1>6, <1>7 DEF rest

\* t is s after some turns of the loop for sender; x is who has the code 0x0.
Collecting(s, t, sender, x) ==
    /\ t \in Led /\ Totals(t) /\ Exact(t.users, x)
    /\ \A y \in Accounts : /\ t.users[y].invitedBy = s.users[y].invitedBy
                           /\ t.users[y].inviteCode = s.users[y].inviteCode
                           /\ t.received[y] = s.received[y]
    /\ t.stats.totalBountiesPaid >= s.stats.totalBountiesPaid
    /\ x \notin Accounts =>
          /\ \A y \in Accounts \ {sender} : t.users[y].totalEarned = s.users[y].totalEarned
          /\ t.users[sender].totalEarned = s.users[sender].totalEarned
                + (t.stats.totalBountiesPaid - s.stats.totalBountiesPaid)

LEMMA CollectingNone ==
    ASSUME NEW s \in Led, NEW sender \in Accounts, NEW x, Totals(s), Exact(s.users, x)
    PROVE  Collecting(s, s, sender, x)
<1>1. s.stats.totalBountiesPaid \in Nat /\ s.users[sender].totalEarned \in Nat
  BY DEF Led, Stats, User
<1> QED
  BY <1>1 DEF Collecting

LEMMA CollectingMore ==
    ASSUME NEW s \in Led, NEW t, NEW u, NEW sender \in Accounts, NEW x,
           Collecting(s, t, sender, x), Collecting(t, u, sender, x)
    PROVE  Collecting(s, u, sender, x)
<1>1. t \in Led /\ u \in Led
  BY DEF Collecting
<1>2. /\ s.stats.totalBountiesPaid \in Nat /\ s.users[sender].totalEarned \in Nat
      /\ t.stats.totalBountiesPaid \in Nat /\ t.users[sender].totalEarned \in Nat
      /\ u.stats.totalBountiesPaid \in Nat /\ u.users[sender].totalEarned \in Nat
  BY <1>1 DEF Led, Stats, User
<1> QED
  BY <1>2 DEF Collecting

LEMMA CollectedTurn ==
    ASSUME InvitesAssumption, InvitesTypeOK, NEW s \in Led, NEW sender \in Accounts, NEW x,
           Totals(s), Exact(s.users, x), NEW is,
           NEW i \in 1..Len(s.users[sender].pending)
    PROVE  LET t == Collected(s, sender, i, is)
           IN  /\ Collecting(s, t, sender, x)
               /\ Len(t.users[sender].pending) \in Nat
               /\ Len(t.users[sender].pending) >= Len(s.users[sender].pending) - 1
<1> DEFINE list == s.users[sender].pending
           a == list[i]
           p == _bountyFor(s, a, FALSE)
           t == TakenOff(p, sender, i)
<1>1. list \in Seq(Accounts) /\ a \in Accounts /\ Len(list) \in Nat
  <2>1. s.users[sender] \in User
    BY DEF Led
  <2>2. list \in Seq(Accounts)
    BY <2>1 DEF User
  <2>3. i \in 1..Len(list)
    OBVIOUS
  <2> HIDE DEF list
  <2> QED
    BY <2>2, <2>3
<1>2. CASE ~canCollectBountyFor(s, a, is)
  <2>1. Collected(s, sender, i, is) = s
    BY <1>2 DEF Collected
  <2>2. Collecting(s, s, sender, x)
    BY CollectingNone
  <2> QED
    BY SMTT(30), <1>1, <2>1, <2>2
<1>3. CASE canCollectBountyFor(s, a, is)
  <2>1. Collected(s, sender, i, is) = t
    BY <1>3 DEF Collected, TakenOff
  <2>2. Unpaid(s.users[a])
    BY <1>3 DEF canCollectBountyFor
  <2>3. BountyOf(s, a) \in Nat /\ Payment(s, p, a, BountyOf(s, a), FALSE)
    BY <1>1, BountyFor
  <2> DEFINE bounty == BountyOf(s, a)
  <2> HIDE DEF p, bounty, a
  <2>4. Totals(p) /\ Exact(p.users, x)
    BY <1>1, <2>2, <2>3, PaymentCounts, PaymentExact DEF bounty
  <2>5. p \in Led /\ p.users[sender].pending = list /\ p.users[a].bountyPaid
    BY <2>3 DEF Payment, SameJoin
  <2>6. /\ t \in Led /\ t.stats = p.stats /\ t.received = p.received
        /\ t.users[sender].pending = Dropped(list, i)
        /\ \A y \in Accounts \ {sender} : t.users[y] = p.users[y]
        /\ \A y \in Accounts :
              /\ t.users[y].invitedBy = p.users[y].invitedBy
              /\ t.users[y].inviteCode = p.users[y].inviteCode
              /\ t.users[y].bountyPaid = p.users[y].bountyPaid
              /\ t.users[y].totalApprovedInvites = p.users[y].totalApprovedInvites
              /\ t.users[y].totalEarned = p.users[y].totalEarned
    BY <2>5, TakenOffLedger
  <2> HIDE DEF t
  <2>7. Totals(t)
    <3>1. PaidOf(t.users) = PaidOf(p.users)
      BY <2>6 DEF PaidOf
    <3>2. \A b \in Accounts : PaidBy(t.users, b) = PaidBy(p.users, b)
      BY <2>6 DEF PaidBy
    <3> QED
      BY <2>4, <2>6, <3>1, <3>2 DEF Totals
  <2>8. Exact(t.users, x)
    <3> SUFFICES ASSUME NEW c \in Accounts \ {x}, NEW b \in Accounts
                 PROVE  Allowed(t.users, c, b, Entries(c, t.users[b].pending))
      BY DEF Exact
    <3>1. Allowed(p.users, c, b, Entries(c, p.users[b].pending))
      BY <2>4 DEF Exact
    <3>2. CASE b # sender
      <4>1. t.users[b].pending = p.users[b].pending
        BY <2>6, <3>2
      <4> QED
        BY <2>6, <3>1, <4>1 DEF Allowed
    <3>3. CASE b = sender
      <4>1. /\ Entries(c, t.users[b].pending)
                  = Entries(c, list) - (IF c = a THEN 1 ELSE 0)
            /\ Entries(c, list) \in Nat /\ Entries(c, t.users[b].pending) \in Nat
        <5>1. Dropped(list, i) \in Seq(Accounts)
          BY <1>1, DroppedList
        <5> QED
          BY <1>1, <2>6, <3>3, <5>1, EntriesOfDropped, PlacesAreFinite DEF a
      <4>2. p.users[b].pending = list
        BY <2>5, <3>3
      <4>3. CASE c = a
        <5>1. Entries(c, list) = 1
          BY <3>1, <4>1, <4>2, <4>3 DEF Allowed
        <5>2. p.users[c].invitedBy = b
          BY <3>1, <4>2, <5>1 DEF Allowed
        <5> QED
          BY <2>5, <2>6, <4>1, <4>3, <5>1, <5>2 DEF Allowed
      <4>4. CASE c # a
        <5>1. Entries(c, t.users[b].pending) = Entries(c, list)
          BY <4>1, <4>4
        <5> QED
          BY <2>6, <3>1, <4>2, <5>1 DEF Allowed
      <4> QED
        BY <4>3, <4>4
    <3> QED
      BY <3>2, <3>3
  <2>9. \A y \in Accounts : /\ t.users[y].invitedBy = s.users[y].invitedBy
                            /\ t.users[y].inviteCode = s.users[y].inviteCode
                            /\ t.received[y] = s.received[y]
    <3>1. \A y \in Accounts : s.received[y] \in Nat
      BY DEF Led
    <3> QED
      BY <2>3, <2>6, <3>1 DEF Payment, SameJoin, If
  <2>10. /\ s.stats.totalBountiesPaid \in Nat /\ bounty \in Nat
         /\ t.stats.totalBountiesPaid = s.stats.totalBountiesPaid + bounty
    BY <2>3, <2>6 DEF Payment, Led, Stats, bounty
  <2>11. ASSUME x \notin Accounts
         PROVE  /\ \A y \in Accounts \ {sender} :
                      t.users[y].totalEarned = s.users[y].totalEarned
                /\ t.users[sender].totalEarned = s.users[sender].totalEarned
                      + (t.stats.totalBountiesPaid - s.stats.totalBountiesPaid)
    <3>1. s.users[a].invitedBy = sender
      <4>1. Allowed(s.users, a, sender, Entries(a, list))
        BY <1>1, <2>11 DEF Exact, a
      <4>2. Entries(a, Dropped(list, i)) = Entries(a, list) - 1
        BY <1>1, EntriesOfDropped DEF a
      <4>3. Entries(a, Dropped(list, i)) \in Nat /\ Entries(a, list) \in Nat
        BY <1>1, DroppedList, PlacesAreFinite
      <4> QED
        BY <4>1, <4>2, <4>3 DEF Allowed
    <3>2. \A y \in Accounts : /\ s.users[y].totalEarned \in Nat
                              /\ p.users[y].totalEarned
                                   = s.users[y].totalEarned + If(sender = y, bounty)
      BY <2>3, <3>1 DEF Payment, Led, User, bounty
    <3> QED
      BY <2>6, <2>10, <3>2 DEF If
  <2>12. Len(t.users[sender].pending) = Len(list) - 1
    BY <1>1, <2>6, DroppedList
  <2>13. Len(list) - 1 \in Nat
    BY <1>1
  <2>14. t.stats.totalBountiesPaid >= s.stats.totalBountiesPaid
    BY <2>10
  <2>15. Collecting(s, t, sender, x)
    BY <2>6, <2>7, <2>8, <2>9, <2>11, <2>14 DEF Collecting
  <2> HIDE DEF list
  <2> QED
    BY <1>1, <2>1, <2>12, <2>13, <2>15 DEF list
<1> QED
  BY <1>2, <1>3

Loop(f, turns, sender, is) ==
    f = [n \in 0..turns |->
            IF n = 0 THEN Ledger ELSE Collected(f[n - 1], sender, turns + 1 - n, is)]

LEMMA LoopRuns ==
    ASSUME NEW turns \in Nat, NEW sender, NEW is
    PROVE  \E f : Loop(f, turns, sender, is)
<1> DEFINE Turn(f, d) ==
               IF d = 0 THEN Ledger ELSE Collected(f[d - 1], sender, turns + 1 - d, is)
           Good(f, k) == \A d \in 0..k : f[d] = Turn(f, d)
           T == {k \in Nat : \E f : Good(f, k)}
<1>1. 0 \in T
  <2> DEFINE f == [d \in 0..0 |-> Ledger]
  <2>1. Good(f, 0)
    OBVIOUS
  <2> QED
    BY <2>1
<1>2. ASSUME NEW k \in Nat, k \in T PROVE k + 1 \in T
  <2>1. PICK f : Good(f, k)
    BY <1>2
  <2> DEFINE next == Collected(f[k], sender, turns + 1 - (k + 1), is)
             g == [d \in 0..(k + 1) |-> IF d = k + 1 THEN next ELSE f[d]]
  <2>2. ASSUME NEW d \in 0..(k + 1) PROVE g[d] = Turn(g, d)
    <3>1. CASE d = k + 1
      <4>1. g[d] = next /\ d # 0 /\ d - 1 = k /\ g[d - 1] = f[k]
        <5> HIDE DEF next
        <5> QED
          BY <3>1
      <4>2. Turn(g, d) = Collected(g[d - 1], sender, turns + 1 - d, is)
        BY <4>1
      <4> HIDE DEF g
      <4> QED
        BY <3>1, <4>1, <4>2
    <3>2. CASE d # k + 1
      <4>1. d \in 0..k /\ g[d] = f[d]
        BY <3>2
      <4>2. f[d] = Turn(f, d)
        BY <2>1, <4>1
      <4>3. d # 0 => g[d - 1] = f[d - 1]
        BY <4>1
      <4> HIDE DEF g
      <4> QED
        BY <4>1, <4>2, <4>3
    <3> QED
      BY <3>1, <3>2
  <2>3. Good(g, k + 1)
    BY <2>2
  <2> HIDE DEF g, Good
  <2> QED
    BY <2>3
<1>3. turns \in T
  <2> HIDE DEF T
  <2> QED
    BY <1>1, <1>2, Induction
<1>4. PICK f : Good(f, turns)
  BY <1>3
<1> DEFINE h == [d \in 0..turns |-> f[d]]
<1>5. ASSUME NEW d \in 0..turns PROVE Turn(f, d) = Turn(h, d) /\ f[d] = Turn(f, d)
  <2>1. d # 0 => h[d - 1] = f[d - 1]
    OBVIOUS
  <2> HIDE DEF h
  <2> QED
    BY <1>4, <2>1
<1>6. h = [d \in 0..turns |-> Turn(h, d)]
  <2>1. \A d \in 0..turns : f[d] = Turn(h, d)
    BY <1>5
  <2> HIDE DEF Turn
  <2> QED
    BY <2>1
<1>7. Loop(h, turns, sender, is)
  BY <1>6 DEF Loop
<1> QED
  BY <1>7

\* After any number of turns every list is exact, and the indices still to
\* come are in the sender's list.
LEMMA LoopIsExact ==
    ASSUME InvitesAssumption, InvitesTypeOK, NEW sender \in Accounts, NEW x, NEW is,
           Totals(Ledger), Exact(users, x), NEW f,
           Loop(f, Len(users[sender].pending), sender, is)
    PROVE  Collecting(Ledger, f[Len(users[sender].pending)], sender, x)
<1> DEFINE turns == Len(users[sender].pending)
           Fits(k) == /\ Collecting(Ledger, f[k], sender, x)
                      /\ Len(f[k].users[sender].pending) \in Nat
                      /\ Len(f[k].users[sender].pending) >= turns - k
           T == {k \in Nat : k <= turns => Fits(k)}
<1>1. Ledger \in Led /\ Ledger.users = users
  BY LedgerType DEF Ledger
<1>2. turns \in Nat
  <2>1. users[sender].pending \in Seq(Accounts)
    BY DEF InvitesTypeOK, User
  <2> QED
    BY <2>1
<1>3. f[0] = Ledger
  BY <1>2 DEF Loop
<1>4. Fits(0)
  <2>1. Collecting(Ledger, Ledger, sender, x)
    BY <1>1, CollectingNone
  <2> QED
    BY <1>1, <1>2, <1>3, <2>1
<1>5. ASSUME NEW k \in Nat, k + 1 <= turns, Fits(k) PROVE Fits(k + 1)
  <2> DEFINE i == turns + 1 - (k + 1)
             s == f[k]
             t == Collected(s, sender, i, is)
  <2>1. f[k + 1] = t
    <3>1. k + 1 \in 0..turns /\ k + 1 # 0 /\ (k + 1) - 1 = k
      BY <1>2, <1>5
    <3> DEFINE n == k + 1
    <3>2. f[n] = IF n = 0 THEN Ledger ELSE Collected(f[n - 1], sender, turns + 1 - n, is)
      <4> HIDE DEF n
      <4> QED
        BY <3>1 DEF Loop, n
    <3> QED
      BY <3>1, <3>2
  <2>2. /\ s \in Led /\ Totals(s) /\ Exact(s.users, x)
        /\ Collecting(Ledger, s, sender, x)
    BY <1>5 DEF Collecting
  <2> DEFINE left == Len(s.users[sender].pending)
  <2>3. left \in Nat /\ left >= turns - k
    BY <1>5
  <2>4. i \in 1..left
    <3> HIDE DEF turns, left
    <3> QED
      BY <1>2, <1>5, <2>3
  <2> HIDE DEF s, i
  <2>5. /\ Collecting(s, t, sender, x)
        /\ Len(t.users[sender].pending) \in Nat
        /\ Len(t.users[sender].pending) >= Len(s.users[sender].pending) - 1
    BY <2>2, <2>4, CollectedTurn
  <2> HIDE DEF t
  <2>6. Collecting(Ledger, t, sender, x)
    BY <1>1, <2>2, <2>5, CollectingMore
  <2>7. Len(t.users[sender].pending) >= turns - (k + 1)
    <3> DEFINE unpaid == Len(t.users[sender].pending)
    <3>1. unpaid \in Nat /\ unpaid >= left - 1
      BY <2>5
    <3> HIDE DEF unpaid, left, turns
    <3>2. unpaid >= turns - (k + 1)
      BY <1>2, <2>3, <3>1
    <3> QED
      BY <3>2 DEF unpaid
  <2> QED
    BY <2>1, <2>5, <2>6, <2>7
<1>6. Nat \subseteq T
  <2> HIDE DEF Fits
  <2>1. 0 \in T
    BY <1>4
  <2>2. ASSUME NEW k \in Nat, k \in T PROVE k + 1 \in T
    BY <1>2, <1>5, <2>2
  <2> HIDE DEF T
  <2> QED
    BY <2>1, <2>2, Induction
<1>7. Fits(turns)
  <2> HIDE DEF Fits
  <2> QED
    BY <1>2, <1>6
<1> QED
  BY <1>7

\* The sender is sent what the loop added up.
LEMMA AllCollectedExact ==
    ASSUME InvitesAssumption, InvitesTypeOK, NEW sender \in Accounts, NEW x, NEW is,
           Totals(Ledger), Exact(users, x)
    PROVE  LET t == AllCollected(sender, is)
           IN  /\ t \in Led /\ Totals(t) /\ Exact(t.users, x)
               /\ \A y \in Accounts : /\ t.users[y].invitedBy = users[y].invitedBy
                                      /\ t.users[y].inviteCode = users[y].inviteCode
               /\ x \notin Accounts /\ Even(users, received) => Even(t.users, t.received)
<1> DEFINE turns == Len(users[sender].pending)
           f == CHOOSE g : Loop(g, turns, sender, is)
           s == f[turns]
           sum == s.stats.totalBountiesPaid - stats.totalBountiesPaid
           t == PaidTo(s, sender, sum)
<1>1. AllCollected(sender, is) = t
  BY DEF AllCollected, Loop
<1>2. turns \in Nat
  <2>1. users[sender].pending \in Seq(Accounts)
    BY DEF InvitesTypeOK, User
  <2> QED
    BY <2>1
<1>3. Loop(f, turns, sender, is)
  BY <1>2, LoopRuns
<1> HIDE DEF f
<1>4. Collecting(Ledger, s, sender, x)
  BY <1>3, LoopIsExact
<1> HIDE DEF s
<1>5. /\ s \in Led /\ Totals(s) /\ Exact(s.users, x)
      /\ \A y \in Accounts : /\ s.users[y].invitedBy = users[y].invitedBy
                             /\ s.users[y].inviteCode = users[y].inviteCode
                             /\ s.received[y] = received[y]
      /\ s.stats.totalBountiesPaid >= stats.totalBountiesPaid
      /\ x \notin Accounts =>
            /\ \A y \in Accounts \ {sender} : s.users[y].totalEarned = users[y].totalEarned
            /\ s.users[sender].totalEarned = users[sender].totalEarned + sum
  BY <1>4 DEF Collecting, Ledger
<1>6. sum \in Nat
  <2>1. s.stats.totalBountiesPaid \in Nat /\ stats.totalBountiesPaid \in Nat
    BY <1>5 DEF Led, Stats, InvitesTypeOK
  <2> QED
    BY <1>5, <2>1
<1> HIDE DEF sum
<1>7. /\ t \in Led /\ t.users = s.users /\ t.stats = s.stats
      /\ t.received[sender] = s.received[sender] + sum
      /\ \A y \in Accounts \ {sender} : t.received[y] = s.received[y]
  BY <1>5, <1>6, PaidToLedger
<1> HIDE DEF t
<1>8. Totals(t)
  BY <1>5, <1>7 DEF Totals
<1>9. x \notin Accounts /\ Even(users, received) => Even(t.users, t.received)
  BY <1>5, <1>7 DEF Even
<1> QED
  BY <1>1, <1>5, <1>7, <1>8, <1>9

-----------------------------------------------------------------------------
(* The invariant *)

\* Who has no code has not joined, but for whoever took the code 0x0.
NoCodeNoInviter(us, x) == \A a \in Accounts \ {x} :
    us[a].inviteCode = NoCode => us[a].invitedBy = Nobody

Sound(s, x) ==
    /\ s \in Led /\ Totals(s) /\ Exact(s.users, x) /\ NoCodeNoInviter(s.users, x)
    /\ x = Nobody => Even(s.users, s.received)

InvitesInv == InvitesTypeOK /\ Sound(Ledger, codeToUser[NoCode])

LEMMA InvSaysMore == ASSUME InvitesInv PROVE PendingIsExact /\ BountiesCountOnce
BY ExactIs, CountsAre DEF InvitesInv, Sound, Ledger

LEMMA InitIsSound == ASSUME InvitesAssumption, InvitesInit PROVE InvitesInv
<1>1. NewUser \in User /\ NewUser.pending = << >> /\ NewUser.invitedBy = Nobody
      /\ NewUser.bountyPaid = FALSE /\ NewUser.totalApprovedInvites = 0
      /\ NewUser.totalEarned = 0
  BY DEF NewUser, User, Inviter, InvitesAssumption
<1>2. /\ users \in [Accounts -> User] /\ codeToUser \in [Codes -> Inviter]
      /\ \A a \in Accounts : users[a] = NewUser
  BY <1>1 DEF InvitesInit, Inviter
<1>3. InvitesTypeOK
  BY <1>2 DEF InvitesTypeOK, InvitesInit, InvitesAssumption, Stats
<1>4. Totals(Ledger)
  <2>1. PaidOf(users) = {} /\ \A b : PaidBy(users, b) = {}
    BY <1>1, <1>2 DEF PaidOf, PaidBy
  <2>2. stats.totalApprovedInvites = 0
        /\ \A b \in Accounts : users[b].totalApprovedInvites = 0
    BY <1>1, <1>2 DEF InvitesInit
  <2> QED
    BY <2>1, <2>2, FS_EmptySet DEF Totals, Ledger
<1>5. Exact(users, codeToUser[NoCode])
  BY <1>1, <1>2, NoEntries DEF Exact, Allowed, InvitesAssumption
<1>6. NoCodeNoInviter(users, codeToUser[NoCode])
  BY <1>1, <1>2 DEF NoCodeNoInviter
<1>7. Even(users, received)
  BY <1>1, <1>2 DEF Even, InvitesInit
<1> QED
  BY <1>3, <1>4, <1>5, <1>6, <1>7, LedgerType DEF InvitesInv, Sound, Ledger

\* What a transaction leaves is as sound as the ledger it ends with.
LEMMA SoundStays ==
    ASSUME InvitesTypeOK, NEW s, Becomes(s), Sound(s, codeToUser'[NoCode]),
           time' = time, settings' = settings, decisions' = decisions,
           codeToUser' \in [Codes -> Inviter]
    PROVE  InvitesInv'
<1>1. /\ s.users \in [Accounts -> User] /\ s.stats \in Stats /\ s.balance \in Int
      /\ s.received \in [Accounts -> Nat]
  BY DEF Sound, Led
<1>2. /\ users' = s.users /\ stats' = s.stats /\ received' = s.received
      /\ balance' = s.balance /\ s.balance >= 0
  BY DEF Becomes
<1>3. InvitesTypeOK'
  BY <1>1, <1>2 DEF InvitesTypeOK, settings
<1>4. (Ledger \in Led)'
  <2>1. (InvitesTypeOK => Ledger \in Led)'
    BY LedgerType, PTL
  <2> QED
    BY <1>3, <2>1
<1>5. Totals(s) /\ Exact(s.users, codeToUser'[NoCode])
      /\ NoCodeNoInviter(s.users, codeToUser'[NoCode])
      /\ (codeToUser'[NoCode] = Nobody => Even(s.users, s.received))
  BY DEF Sound
<1>6. Totals(Ledger)'
  BY <1>2, <1>5 DEF Totals, Ledger, PaidOf, PaidBy
<1>7. Exact(users, codeToUser[NoCode])'
  BY <1>2, <1>5 DEF Exact, Allowed, Entries
<1>8. NoCodeNoInviter(users, codeToUser[NoCode])'
  BY <1>2, <1>5 DEF NoCodeNoInviter
<1>9. (codeToUser[NoCode] = Nobody => Even(users, received))'
  BY <1>2, <1>5 DEF Even
<1> QED
  BY <1>3, <1>4, <1>6, <1>7, <1>8, <1>9 DEF InvitesInv, Sound, Ledger

LEMMA PaymentSound ==
    ASSUME InvitesAssumption, InvitesTypeOK, NEW s, NEW x, Sound(s, x), NEW a \in Accounts,
           Unpaid(s.users[a])
    PROVE  Sound(_bountyFor(s, a, TRUE), x)
<1> DEFINE t == _bountyFor(s, a, TRUE)
           bounty == BountyOf(s, a)
<1>1. s \in Led /\ Totals(s) /\ Exact(s.users, x) /\ NoCodeNoInviter(s.users, x)
      /\ (x = Nobody => Even(s.users, s.received))
  BY DEF Sound
<1>2. bounty \in Nat /\ Payment(s, t, a, bounty, TRUE)
  BY <1>1, BountyFor
<1> HIDE DEF t, bounty
<1>3. t \in Led /\ Totals(t) /\ Exact(t.users, x)
  <2>1. t \in Led
    BY <1>2 DEF Payment
  <2>2. Totals(t)
    BY <1>1, <1>2, PaymentCounts
  <2>3. Exact(t.users, x)
    BY <1>1, <1>2, PaymentExact
  <2> QED
    BY <2>1, <2>2, <2>3
<1>4. NoCodeNoInviter(t.users, x)
  BY <1>1, <1>2 DEF NoCodeNoInviter, Payment, SameJoin
<1>5. x = Nobody => Even(t.users, t.received)
  BY <1>1, <1>2 DEF Even, Payment, If
<1> QED
  BY <1>3, <1>4, <1>5 DEF Sound, t

LEMMA CollectionSound ==
    ASSUME InvitesAssumption, InvitesTypeOK, NEW x, Sound(Ledger, x), NEW sender \in Accounts, NEW is
    PROVE  Sound(AllCollected(sender, is), x)
<1>1. Totals(Ledger) /\ Exact(users, x) /\ NoCodeNoInviter(users, x)
      /\ (x = Nobody => x \notin Accounts /\ Even(users, received))
  BY DEF Sound, Ledger, InvitesAssumption
<1> DEFINE t == AllCollected(sender, is)
<1>2. /\ t \in Led /\ Totals(t) /\ Exact(t.users, x)
      /\ \A y \in Accounts : /\ t.users[y].invitedBy = users[y].invitedBy
                             /\ t.users[y].inviteCode = users[y].inviteCode
      /\ x \notin Accounts /\ Even(users, received) => Even(t.users, t.received)
  BY <1>1, AllCollectedExact
<1> HIDE DEF t
<1>3. NoCodeNoInviter(t.users, x)
  BY <1>1, <1>2 DEF NoCodeNoInviter
<1> QED
  BY <1>1, <1>2, <1>3 DEF Sound, t

-----------------------------------------------------------------------------
(* Joining *)

Entered(sender, myCode, inviter) ==
    [Ledger EXCEPT !.users = [a \in Accounts |->
        CASE a = sender -> Joined(users[sender], myCode, inviter)
          [] a = inviter -> [users[a] EXCEPT !.pending = Append(@, sender)]
          [] OTHER -> users[a]]]

LEMMA JoinedUser ==
    ASSUME InvitesAssumption, InvitesTypeOK, NEW u \in User, NEW myCode \in Codes, NEW inviter \in Inviter
    PROVE  LET v == Joined(u, myCode, inviter)
           IN  /\ v \in User /\ v.pending = u.pending /\ v.bountyPaid = u.bountyPaid
               /\ v.totalApprovedInvites = u.totalApprovedInvites
               /\ v.totalEarned = u.totalEarned
               /\ v.inviteCode = IF u.inviteCode = NoCode THEN myCode ELSE u.inviteCode
               /\ v.invitedBy = IF inviter = Nobody THEN u.invitedBy ELSE inviter
<1> DEFINE coded == IF u.inviteCode = NoCode
                    THEN [u EXCEPT !.inviteCode = myCode, !.levelStarted = time, !.joinedAt = time]
                    ELSE u
           Like(v) == /\ v \in User /\ v.pending = u.pending /\ v.bountyPaid = u.bountyPaid
                      /\ v.totalApprovedInvites = u.totalApprovedInvites
                      /\ v.totalEarned = u.totalEarned
                      /\ v.inviteCode = IF u.inviteCode = NoCode THEN myCode ELSE u.inviteCode
           invited(n) == [coded EXCEPT !.invitedBy = inviter, !.bountyAtJoin = n]
<1>1. Like(coded) /\ coded.invitedBy = u.invitedBy
  <2>1. time \in Nat
    BY DEF InvitesTypeOK
  <2> QED
    BY <2>1 DEF User
<1>2. ASSUME NEW n \in Nat
      PROVE  Like(invited(n)) /\ invited(n).invitedBy = inviter
  <2> HIDE DEF coded
  <2> QED
    BY <1>1 DEF User
<1>3. CASE inviter = Nobody
  <2>1. Joined(u, myCode, inviter) = coded
    BY <1>3 DEF Joined, InvitesAssumption
  <2> HIDE DEF coded
  <2> QED
    BY <1>1, <1>3, <2>1
<1>4. CASE inviter = This
  <2>1. inviter # Nobody
    BY <1>4 DEF InvitesAssumption
  <2> DEFINE n == levels[0].bounty
  <2>2. n \in Nat
    BY DEF InvitesTypeOK, Level
  <2>3. Joined(u, myCode, inviter) = invited(n)
    BY <1>4, <2>1 DEF Joined
  <2> HIDE DEF n, coded
  <2>4. Like(invited(n)) /\ invited(n).invitedBy = inviter
    BY <1>2, <2>2
  <2> HIDE DEF invited
  <2> QED
    BY <2>1, <2>3, <2>4
<1>5. CASE inviter # Nobody /\ inviter # This
  <2> DEFINE n == LevelOf(users[inviter]).bounty
  <2>1. n \in Nat
    <3>1. users[inviter] \in User
      BY <1>5 DEF InvitesTypeOK, Inviter
    <3> QED
      BY <3>1, LevelType DEF Level
  <2>2. Joined(u, myCode, inviter) = invited(n)
    BY <1>5 DEF Joined
  <2> HIDE DEF n, coded
  <2>3. Like(invited(n)) /\ invited(n).invitedBy = inviter
    BY <1>2, <2>1
  <2> HIDE DEF invited
  <2> QED
    BY <1>5, <2>2, <2>3
<1> QED
  BY <1>3, <1>4, <1>5

\* Who joins is new in the lists and enters that of the inviter.
LEMMA EnteredLedger ==
    ASSUME InvitesAssumption, InvitesTypeOK, NEW sender \in Accounts, NEW myCode \in Codes,
           NEW inviter \in Inviter, inviter # sender
    PROVE  LET t == Entered(sender, myCode, inviter)
               v == Joined(users[sender], myCode, inviter)
           IN  /\ t \in Led /\ t.stats = stats /\ t.received = received
               /\ t.users[sender] = v
               /\ \A a \in Accounts \ {sender} :
                     /\ t.users[a].invitedBy = users[a].invitedBy
                     /\ t.users[a].inviteCode = users[a].inviteCode
                     /\ t.users[a].bountyPaid = users[a].bountyPaid
                     /\ t.users[a].totalApprovedInvites = users[a].totalApprovedInvites
                     /\ t.users[a].totalEarned = users[a].totalEarned
                     /\ t.users[a].pending = IF a = inviter THEN Append(users[a].pending, sender)
                                             ELSE users[a].pending
<1> DEFINE v == Joined(users[sender], myCode, inviter)
           more(a) == [users[a] EXCEPT !.pending = Append(@, sender)]
           us == [a \in Accounts |-> CASE a = sender -> v
                                       [] a = inviter -> more(a)
                                       [] OTHER -> users[a]]
           t == [Ledger EXCEPT !.users = us]
<1>1. v \in User
  <2>1. users[sender] \in User
    BY DEF InvitesTypeOK
  <2> QED
    BY <2>1, JoinedUser
<1>2. ASSUME NEW a \in Accounts
      PROVE  LET m == more(a)
             IN  /\ m \in User /\ m.pending = Append(users[a].pending, sender)
                 /\ m.invitedBy = users[a].invitedBy /\ m.inviteCode = users[a].inviteCode
                 /\ m.bountyPaid = users[a].bountyPaid
                 /\ m.totalApprovedInvites = users[a].totalApprovedInvites
                 /\ m.totalEarned = users[a].totalEarned
  <2> DEFINE u == users[a]
             list == Append(u.pending, sender)
             m == [u EXCEPT !.pending = list]
  <2>1. u \in User
    BY DEF InvitesTypeOK
  <2>2. u.pending \in Seq(Accounts)
    BY <2>1 DEF User
  <2>3. list \in Seq(Accounts)
    <3> DEFINE p == u.pending
    <3> HIDE DEF p
    <3>1. p \in Seq(Accounts)
      BY <2>2 DEF p
    <3>2. Append(p, sender) \in Seq(Accounts)
      BY <3>1
    <3> QED
      BY <3>2 DEF p
  <2>4. more(a) = m
    BY <2>1 DEF User
  <2> HIDE DEF u, list
  <2>5. /\ m \in User /\ m.pending = list
        /\ m.invitedBy = u.invitedBy /\ m.inviteCode = u.inviteCode
        /\ m.bountyPaid = u.bountyPaid
        /\ m.totalApprovedInvites = u.totalApprovedInvites
        /\ m.totalEarned = u.totalEarned
    BY <2>1, <2>3 DEF User
  <2> HIDE DEF m, more
  <2> QED
    BY <2>4, <2>5 DEF u, list
<1>3. Entered(sender, myCode, inviter) = t
  BY DEF Entered
<1> HIDE DEF v, more
<1>4. /\ \A a \in Accounts \ {sender} : us[a] = IF a = inviter THEN more(a) ELSE users[a]
      /\ us[sender] = v
      /\ DOMAIN us = Accounts /\ us = [a \in Accounts |-> us[a]]
  OBVIOUS
<1> HIDE DEF us
<1>5. us \in [Accounts -> User]
  <2>1. \A a \in Accounts : us[a] \in User
    BY <1>1, <1>2, <1>4 DEF InvitesTypeOK
  <2> QED
    BY <1>4, <2>1
<1>6. t \in Led /\ t.users = us /\ t.stats = stats /\ t.received = received
  BY <1>5, LedgerType DEF Led, Ledger
<1> HIDE DEF t
<1>7. \A a \in Accounts \ {sender} :
         /\ us[a].invitedBy = users[a].invitedBy
         /\ us[a].inviteCode = users[a].inviteCode
         /\ us[a].bountyPaid = users[a].bountyPaid
         /\ us[a].totalApprovedInvites = users[a].totalApprovedInvites
         /\ us[a].totalEarned = users[a].totalEarned
         /\ us[a].pending = IF a = inviter THEN Append(users[a].pending, sender)
                            ELSE users[a].pending
  <2> TAKE a \in Accounts \ {sender}
  <2>1. CASE a = inviter
    <3>1. us[a] = more(a)
      BY <1>4, <2>1
    <3> QED
      BY <1>2, <2>1, <3>1
  <2>2. CASE a # inviter
    <3>1. us[a] = users[a]
      BY <1>4, <2>2
    <3> QED
      BY <2>2, <3>1
  <2> QED
    BY <2>1, <2>2
<1> QED
  BY <1>3, <1>4, <1>6, <1>7 DEF v

LEMMA EnteredSound ==
    ASSUME InvitesAssumption, InvitesTypeOK, NEW sender \in Accounts, NEW myCode \in Codes,
           NEW inviter \in Inviter, inviter # sender, NEW x, NEW y, Sound(Ledger, x),
           Unpaid(users[sender]),
           users[sender].inviteCode = NoCode
              \/ (users[sender].invitedBy = Nobody /\ inviter # Nobody),
           y = x \/ (y = sender /\ x \in {Nobody, sender}),
           users[sender].inviteCode = NoCode /\ myCode = NoCode => y = sender
    PROVE  Sound(Entered(sender, myCode, inviter), y)
<1> DEFINE u == users[sender]
           v == Joined(u, myCode, inviter)
           t == Entered(sender, myCode, inviter)
<1>1. /\ u \in User /\ u.pending \in Seq(Accounts)
      /\ \A b \in Accounts : users[b].pending \in Seq(Accounts)
  BY DEF InvitesTypeOK, User
<1>2. /\ v.pending = u.pending /\ v.bountyPaid = u.bountyPaid
      /\ v.totalApprovedInvites = u.totalApprovedInvites
      /\ v.totalEarned = u.totalEarned
      /\ v.inviteCode = IF u.inviteCode = NoCode THEN myCode ELSE u.inviteCode
      /\ v.invitedBy = IF inviter = Nobody THEN u.invitedBy ELSE inviter
  BY <1>1, JoinedUser
<1>3. /\ t \in Led /\ t.stats = stats /\ t.received = received /\ t.users[sender] = v
      /\ \A a \in Accounts \ {sender} :
            /\ t.users[a].invitedBy = users[a].invitedBy
            /\ t.users[a].inviteCode = users[a].inviteCode
            /\ t.users[a].bountyPaid = users[a].bountyPaid
            /\ t.users[a].totalApprovedInvites = users[a].totalApprovedInvites
            /\ t.users[a].totalEarned = users[a].totalEarned
            /\ t.users[a].pending = IF a = inviter THEN Append(users[a].pending, sender)
                                    ELSE users[a].pending
  BY EnteredLedger
<1>4. /\ Totals(Ledger) /\ Exact(users, x) /\ NoCodeNoInviter(users, x)
      /\ x = Nobody => Even(users, received)
  BY DEF Sound, Ledger
<1>5. ~u.bountyPaid /\ Nobody \notin Accounts /\ This \notin Accounts
  BY DEF Unpaid, InvitesAssumption
<1>6. Accounts \ {y} \subseteq Accounts \ {x} /\ (y = Nobody => x = Nobody)
  BY <1>5
<1> HIDE DEF v, t
<1>7. \A a \in Accounts : /\ t.users[a].bountyPaid = users[a].bountyPaid
                          /\ t.users[a].totalApprovedInvites = users[a].totalApprovedInvites
                          /\ t.users[a].totalEarned = users[a].totalEarned
  BY <1>2, <1>3
<1>8. Totals(t)
  <2>1. PaidOf(t.users) = PaidOf(users)
    BY <1>7 DEF PaidOf
  <2>2. \A b \in Accounts : PaidBy(t.users, b) = PaidBy(users, b)
    BY <1>3, <1>5, <1>7 DEF PaidBy
  <2> QED
    BY <1>3, <1>4, <1>7, <2>1, <2>2 DEF Totals, Ledger
<1>9. y = Nobody => Even(t.users, t.received)
  BY <1>3, <1>4, <1>6, <1>7 DEF Even
<1>10. NoCodeNoInviter(t.users, y)
  <2> SUFFICES ASSUME NEW a \in Accounts \ {y}, t.users[a].inviteCode = NoCode
               PROVE  t.users[a].invitedBy = Nobody
    BY DEF NoCodeNoInviter
  <2>1. CASE a # sender
    BY <1>3, <1>4, <1>6, <2>1 DEF NoCodeNoInviter
  <2>2. CASE a = sender
    BY <1>2, <1>3, <2>2
  <2> QED
    BY <2>1, <2>2
<1>11. Exact(t.users, y)
  <2> SUFFICES ASSUME NEW a \in Accounts \ {y}, NEW b \in Accounts
               PROVE  Allowed(t.users, a, b, Entries(a, t.users[b].pending))
    BY DEF Exact
  <2>1. Allowed(users, a, b, Entries(a, users[b].pending))
    BY <1>4, <1>6 DEF Exact
  <2>2. Entries(a, t.users[b].pending)
           = Entries(a, users[b].pending) + (IF a = sender /\ b = inviter THEN 1 ELSE 0)
        /\ Entries(a, users[b].pending) \in Nat
    <3>1. Entries(a, users[b].pending) \in Nat
      BY <1>1, PlacesAreFinite
    <3>2. CASE b = inviter
      <4>1. t.users[b].pending = Append(users[b].pending, sender)
        BY <1>3, <3>2
      <4> QED
        BY <1>1, <3>1, <3>2, <4>1, EntriesOfAppend
    <3>3. CASE b # inviter
      <4>1. t.users[b].pending = users[b].pending
        BY <1>2, <1>3, <3>3
      <4> QED
        BY <3>1, <3>3, <4>1
    <3> QED
      BY <3>2, <3>3
  <2>3. CASE a # sender
    <3>1. Entries(a, t.users[b].pending) = Entries(a, users[b].pending)
      BY <2>2, <2>3
    <3> QED
      BY <1>3, <2>1, <2>3, <3>1 DEF Allowed
  <2>4. CASE a = sender
    <3>1. users[a].invitedBy = Nobody
      BY <1>4, <1>6, <2>4 DEF NoCodeNoInviter
    <3>2. Entries(a, users[b].pending) = 0
      BY <1>5, <2>1, <3>1 DEF Allowed
    <3>3. t.users[a].invitedBy = inviter
      BY <1>2, <1>3, <2>4, <3>1
    <3> QED
      BY <2>2, <2>4, <3>2, <3>3 DEF Allowed
  <2> QED
    BY <2>3, <2>4
<1> QED
  BY <1>3, <1>8, <1>9, <1>10, <1>11 DEF Sound, t

LEMMA JoinIsSound ==
    ASSUME InvitesAssumption, InvitesInv, NEW sender \in Accounts, NEW myCode \in Codes,
           NEW inviterCode \in Codes, join(sender, myCode, inviterCode)
    PROVE  InvitesInv'
<1> DEFINE inviter == codeToUser[inviterCode]
           x == codeToUser[NoCode]
           y == codeToUser'[NoCode]
           t == Entered(sender, myCode, inviter)
<1>1. InvitesTypeOK /\ Sound(Ledger, x) /\ inviter \in Inviter /\ Nobody \notin Accounts
  BY DEF InvitesInv, InvitesTypeOK, InvitesAssumption
<1>2. /\ IsFree(myCode, sender) /\ Unpaid(users[sender]) /\ inviter # sender
      /\ users[sender].inviteCode = NoCode
            \/ (users[sender].invitedBy = Nobody /\ inviter # Nobody)
      /\ codeToUser' = IF users[sender].inviteCode = NoCode
                       THEN [codeToUser EXCEPT ![myCode] = sender] ELSE codeToUser
      /\ UNCHANGED <<time, settings, decisions>>
  BY DEF join
<1>3. PICK is : Becomes(IF canCollectBountyFor(t, sender, is)
                        THEN _bountyFor(t, sender, TRUE) ELSE t)
  BY DEF join, Entered
<1>4. codeToUser \in [Codes -> Inviter] /\ sender \in Inviter /\ NoCode \in Codes
  BY DEF InvitesInv, InvitesTypeOK, Inviter, InvitesAssumption
<1>5. codeToUser' \in [Codes -> Inviter]
  BY <1>2, <1>4
<1>6. y = x \/ (y = sender /\ x \in {Nobody, sender})
  <2>1. CASE users[sender].inviteCode = NoCode /\ myCode = NoCode
    <3>1. y = sender
      BY <1>2, <1>4, <2>1
    <3>2. x \in {Nobody, sender}
      BY <1>2, <2>1 DEF IsFree, InvitesAssumption
    <3> QED
      BY <3>1, <3>2
  <2>2. CASE users[sender].inviteCode # NoCode \/ myCode # NoCode
    BY <1>2, <1>4, <2>2
  <2> QED
    BY <2>1, <2>2
<1>7. users[sender].inviteCode = NoCode /\ myCode = NoCode => y = sender
  BY <1>2, <1>4
<1> HIDE DEF inviter, x, y
<1>8. Sound(t, y)
  BY <1>1, <1>2, <1>6, <1>7, EnteredSound
<1>9. Unpaid(t.users[sender])
  <2>1. t.users[sender] = Joined(users[sender], myCode, inviter)
    BY <1>1, <1>2, EnteredLedger
  <2>2. users[sender] \in User
    BY <1>1 DEF InvitesTypeOK
  <2>3. Joined(users[sender], myCode, inviter).bountyPaid = users[sender].bountyPaid
    BY <1>1, <2>2, JoinedUser
  <2> QED
    BY <1>2, <2>1, <2>3 DEF Unpaid
<1> HIDE DEF t
<1> DEFINE s == IF canCollectBountyFor(t, sender, is) THEN _bountyFor(t, sender, TRUE) ELSE t
<1>10. Sound(s, y)
  <2>1. Sound(_bountyFor(t, sender, TRUE), y)
    BY <1>1, <1>8, <1>9, PaymentSound
  <2> QED
    BY <1>8, <2>1
<1>11. Becomes(s)
  BY <1>3
<1> HIDE DEF s
<1> QED
  BY <1>1, <1>2, <1>5, <1>10, <1>11, SoundStays DEF y

LEMMA BountyForIsSound ==
    ASSUME InvitesAssumption, InvitesInv, NEW a \in Accounts, bountyFor(a)
    PROVE  InvitesInv'
<1> DEFINE x == codeToUser[NoCode]
           s == _bountyFor(Ledger, a, TRUE)
<1>1. InvitesTypeOK /\ Sound(Ledger, x) /\ codeToUser \in [Codes -> Inviter]
  BY DEF InvitesInv, InvitesTypeOK
<1>2. /\ Becomes(s) /\ codeToUser' = codeToUser
      /\ UNCHANGED <<time, settings, decisions>>
  BY DEF bountyFor
<1>3. Unpaid(Ledger.users[a])
  BY DEF bountyFor, canCollectBountyFor
<1>4. Sound(s, x)
  BY <1>1, <1>3, PaymentSound
<1> HIDE DEF s
<1> QED
  BY <1>1, <1>2, <1>4, SoundStays

LEMMA CollectIsSound ==
    ASSUME InvitesAssumption, InvitesInv, NEW sender \in Accounts, collectBounties(sender)
    PROVE  InvitesInv'
<1> DEFINE x == codeToUser[NoCode]
<1>1. InvitesTypeOK /\ Sound(Ledger, x) /\ codeToUser \in [Codes -> Inviter]
  BY DEF InvitesInv, InvitesTypeOK
<1>2. PICK is : Becomes(AllCollected(sender, is))
  BY DEF collectBounties
<1>3. codeToUser' = codeToUser /\ UNCHANGED <<time, settings, decisions>>
  BY DEF collectBounties
<1> DEFINE s == AllCollected(sender, is)
<1>4. Sound(s, x)
  BY <1>1, CollectionSound
<1>5. Becomes(s)
  BY <1>2
<1> HIDE DEF s
<1> QED
  BY <1>1, <1>3, <1>4, <1>5, SoundStays

\* A step that leaves the people alone, and who has the code 0x0.
LEMMA OtherStepIsSound ==
    ASSUME InvitesInv, InvitesTypeOK', users' = users, stats' = stats, received' = received,
           codeToUser'[NoCode] = codeToUser[NoCode]
    PROVE  InvitesInv'
<1>1. /\ Totals(Ledger) /\ Exact(users, codeToUser[NoCode])
      /\ NoCodeNoInviter(users, codeToUser[NoCode])
      /\ (codeToUser[NoCode] = Nobody => Even(users, received))
  BY DEF InvitesInv, Sound, Ledger
<1>2. (Ledger \in Led)'
  <2>1. (InvitesTypeOK => Ledger \in Led)'
    BY LedgerType, PTL
  <2> QED
    BY <2>1
<1>3. Totals(Ledger)'
  BY <1>1 DEF Totals, Ledger, PaidOf, PaidBy
<1>4. Exact(users, codeToUser[NoCode])'
  BY <1>1 DEF Exact, Allowed, Entries
<1>5. NoCodeNoInviter(users, codeToUser[NoCode])'
  BY <1>1 DEF NoCodeNoInviter
<1>6. (codeToUser[NoCode] = Nobody => Even(users, received))'
  BY <1>1 DEF Even
<1> QED
  BY <1>2, <1>3, <1>4, <1>5, <1>6 DEF InvitesInv, Sound, Ledger

LEMMA DecisionCounts == ASSUME InvitesTypeOK, InvitesAssumption, Decide PROVE decisions' \in 0..MaxDecisions
BY DEF InvitesTypeOK, InvitesAssumption, Decide

LEMMA OwnIsSound == ASSUME InvitesAssumption, InvitesInv, Own PROVE InvitesInv'
<1>1. InvitesTypeOK
  BY DEF InvitesInv
<1>2. CASE \E c \in LevelChanges : setLevel(c[1], c[2])
  <2>1. PICK c \in LevelChanges : setLevel(c[1], c[2])
    BY <1>2
  <2> DEFINE n == c[1]
             level == c[2]
             D == DOMAIN levels \union {n}
  <2>2. level \in Level
    BY DEF InvitesAssumption
  <2>3. /\ Decide /\ levels' = [m \in D |-> IF m = n THEN level ELSE levels[m]]
        /\ UNCHANGED <<time, active, minimumDays, codeToUser, ledger>>
    BY <2>1 DEF setLevel
  <2> HIDE DEF n, level
  <2>4. DOMAIN levels' = D /\ levels' \in [D -> Level] /\ 0 \in D
    BY <1>1, <2>2, <2>3 DEF InvitesTypeOK
  <2>5. InvitesTypeOK'
    <3> HIDE DEF D
    <3> QED
      BY <1>1, <2>3, <2>4, DecisionCounts DEF InvitesTypeOK, ledger
  <2> QED
    BY <2>3, <2>5, OtherStepIsSound DEF ledger
<1>3. CASE \E b \in BOOLEAN : setActive(b)
  <2>1. InvitesTypeOK'
    BY <1>1, <1>3, DecisionCounts DEF setActive, InvitesTypeOK, ledger
  <2> QED
    BY <1>3, <2>1, OtherStepIsSound DEF setActive, ledger
<1>4. CASE \E code \in CampaignCodes : setCampaignCode(code)
  <2>1. PICK code \in CampaignCodes : setCampaignCode(code)
    BY <1>4
  <2>2. code \in Codes /\ code # NoCode /\ NoCode \in Codes
    BY DEF InvitesAssumption
  <2>3. /\ Decide /\ codeToUser' = [codeToUser EXCEPT ![code] = This]
        /\ UNCHANGED <<time, settings, ledger>>
    BY <2>1 DEF setCampaignCode
  <2>4. codeToUser' \in [Codes -> Inviter] /\ codeToUser'[NoCode] = codeToUser[NoCode]
    BY <1>1, <2>2, <2>3 DEF InvitesTypeOK, Inviter
  <2>5. InvitesTypeOK'
    BY <1>1, <2>3, <2>4, DecisionCounts DEF InvitesTypeOK, ledger, settings
  <2> QED
    BY <2>3, <2>4, <2>5, OtherStepIsSound DEF ledger
<1>5. CASE \E days \in Minimums : setMinimums(days)
  <2>1. InvitesTypeOK'
    BY <1>1, <1>5, DecisionCounts DEF setMinimums, InvitesTypeOK, ledger, InvitesAssumption
  <2> QED
    BY <1>5, <2>1, OtherStepIsSound DEF setMinimums, ledger
<1>6. CASE end
  <2>1. InvitesTypeOK'
    BY <1>1, <1>6, DecisionCounts DEF end, InvitesTypeOK
  <2> QED
    BY <1>6, <2>1, OtherStepIsSound DEF end
<1> QED
  BY <1>2, <1>3, <1>4, <1>5, <1>6 DEF Own

LEMMA StepIsSound == ASSUME InvitesAssumption, InvitesInv, [InvitesNext]_invite_vars PROVE InvitesInv'
<1>1. CASE Invite
  BY <1>1, JoinIsSound, BountyForIsSound, CollectIsSound DEF Invite
<1>2. CASE Own
  BY <1>2, OwnIsSound
<1>3. CASE Later
  <2>1. InvitesTypeOK'
    BY <1>3 DEF InvitesInv, Later, InvitesTypeOK, settings, ledger, InvitesAssumption
  <2> QED
    BY <1>3, <2>1, OtherStepIsSound DEF Later, ledger
<1>4. CASE UNCHANGED invite_vars
  <2>1. InvitesTypeOK'
    BY <1>4 DEF InvitesInv, InvitesTypeOK, invite_vars, settings, ledger
  <2> QED
    BY <1>4, <2>1, OtherStepIsSound DEF invite_vars, ledger
<1> QED
  BY <1>1, <1>2, <1>3, <1>4 DEF InvitesNext

LEMMA InvHolds == InvitesAssumption => (InvitesSpec => []InvitesInv)
<1> SUFFICES ASSUME InvitesAssumption PROVE InvitesSpec => []InvitesInv
  OBVIOUS
<1>1. InvitesInit => InvitesInv
  BY InitIsSound
<1>2. InvitesInv /\ [InvitesNext]_invite_vars => InvitesInv'
  BY StepIsSound
<1> QED
  BY <1>1, <1>2, PTL DEF InvitesSpec

\* Every variable keeps its type: no list of pending invitees names what is no
\* account, and the contract's G$ never falls below zero.
THEOREM LedgerKeepsItsType == InvitesAssumption => (InvitesSpec => []InvitesTypeOK)
<1>1. InvitesInv => InvitesTypeOK
  BY DEF InvitesInv
<1> QED
  BY <1>1, InvHolds, PTL

\* Whatever is joined, paid singly and collected in whatever order, an unpaid
\* invitee is once in its inviter's list and in nobody else's.
THEOREM InviteesArePendingOnce == InvitesAssumption => (InvitesSpec => []PendingIsExact)
<1>1. InvitesInv => PendingIsExact
  BY InvSaysMore
<1> QED
  BY <1>1, InvHolds, PTL

\* An inviter has as many approvals as paid invitees and, while nobody took the
\* code 0x0, was sent what it is said to have earned.
THEOREM BountiesAreCountedOnce == InvitesAssumption => (InvitesSpec => []BountiesCountOnce)
<1>1. InvitesInv => BountiesCountOnce
  BY InvSaysMore
<1> QED
  BY <1>1, InvHolds, PTL
=============================================================================
