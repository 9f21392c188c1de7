------------------------------ MODULE InvitesV2 ------------------------------
(***************************************************************************)
(* InvitesV2 (contracts/invite/InvitesV2.sol): people join with a code of   *)
(* their own and that of who invited them; once an invitee is a person in   *)
(* the identity contract, a bounty is paid to the inviter and half of it to *)
(* the invitee, one by one or for all that are pending.                     *)
(*                                                                         *)
(* Time is in days.  What the identity contract and the basic income answer *)
(* may change between any two transactions, so it is chosen anew in each.   *)
(***************************************************************************)
EXTENDS Integers, SequencesExt

CONSTANTS
    Accounts, This,         \* This is the contract itself
    Nobody,                  \* address 0
    Codes, NoCode,          \* NoCode is 0x0, which is a code like any other
    CampaignCodes,          \* the arguments of setCampaignCode
    Address,                \* the code that reads as the account's own address
    InitLevels,             \* [toNext, bounty, daysToComplete] from level 0 on
    LevelChanges,           \* what setLevel may make of a level
    Minimums,               \* days setMinimums may ask for
    InitBalance,            \* G$ the contract was sent before
    Times, MaxDecisions,    \* bounds: the days, and the transactions of the owner
    MaxPending              \* bound: of entries in all lists of pending invitees

\* The owner makes no campaign of 0x0, and no account's address reads as it.
Level == [toNext : Nat, bounty : Nat, daysToComplete : Nat]
InvitesAssumption ==
    /\ IsFiniteSet(Accounts) /\ Nobody \notin Accounts /\ This \notin Accounts
    /\ Nobody # This
    /\ NoCode \in Codes /\ CampaignCodes \subseteq Codes \ {NoCode}
    /\ \A a \in Accounts : Address[a] # NoCode
    /\ InitLevels \in [DOMAIN InitLevels -> Level] /\ 0 \in DOMAIN InitLevels
    /\ \A c \in LevelChanges : c[2] \in Level
    /\ Minimums \subseteq Nat /\ Times \subseteq Nat
    /\ InitBalance \in Nat /\ MaxDecisions \in Nat

VARIABLES
    time, active, minimumDays,
    codeToUser, users, levels, stats,
    balance,        \* G$ the contract holds
    received,       \* G$ each account was sent as an inviter
    decisions       \* how often the owner acted

ledger == <<users, stats, balance, received>>
settings == <<active, minimumDays, levels>>
invite_vars == <<time, settings, codeToUser, ledger, decisions>>

NewUser == [invitedBy |-> Nobody, inviteCode |-> NoCode, bountyPaid |-> FALSE,
            pending |-> << >>, level |-> 0, levelStarted |-> 0,
            totalApprovedInvites |-> 0, totalEarned |-> 0,
            joinedAt |-> 0, bountyAtJoin |-> 0]

Inviter == Accounts \union {Nobody, This}
User == [invitedBy : Inviter, inviteCode : Codes, bountyPaid : BOOLEAN,
         pending : Seq(Accounts), level : Nat, levelStarted : Nat,
         totalApprovedInvites : Nat, totalEarned : Nat,
         joinedAt : Nat, bountyAtJoin : Nat]
Stats == [totalApprovedInvites : Nat, totalBountiesPaid : Nat]

\* Types.  Level 0 is always there.
InvitesTypeOK ==
    /\ time \in Nat /\ active \in BOOLEAN /\ minimumDays \in Nat
    /\ codeToUser \in [Codes -> Inviter]
    /\ users \in [Accounts -> User]
    /\ levels \in [DOMAIN levels -> Level] /\ 0 \in DOMAIN levels
    /\ stats \in Stats /\ balance \in Nat /\ received \in [Accounts -> Nat]
    /\ decisions \in 0..MaxDecisions

InvitesInit ==
    /\ time = 0 /\ active = TRUE /\ minimumDays = 0
    /\ codeToUser = [c \in Codes |-> Nobody]
    /\ users = [a \in Accounts |-> NewUser]
    /\ levels = InitLevels
    /\ stats = [totalApprovedInvites |-> 0, totalBountiesPaid |-> 0]
    /\ balance = InitBalance /\ received = [a \in Accounts |-> 0]
    /\ decisions = 0

-----------------------------------------------------------------------------
(* What a transaction makes of the ledger *)

Ledger == [users |-> users, stats |-> stats, balance |-> balance, received |-> received]

\* A transfer of more than there is reverts the transaction.
Becomes(s) ==
    /\ s.balance >= 0
    /\ users' = s.users /\ stats' = s.stats /\ balance' = s.balance /\ received' = s.received

PaidTo(s, a, amount) == [s EXCEPT !.balance = @ - amount, !.received[a] = @ + amount]

\* A level nobody set is all zeros.
LevelOf(user) ==
    IF user.level \in DOMAIN levels THEN levels[user.level]
    ELSE [toNext |-> 0, bounty |-> 0, daysToComplete |-> 0]

\* What an account may be to the two contracts: not whitelisted; whitelisted, but on another
\* chain or with fewer claims than minimumClaims; whitelisted here with enough claims, or
\* the call for its claims fails.
Answer == {"nobody", "person", "claimer"}

\* What the contracts may answer about the accounts asked for and their inviters.
Answers(s, asked) ==
    [asked \union ({s.users[a].invitedBy : a \in asked} \intersect Accounts) -> Answer]

Whatever(user) == TRUE                                      \* faulty variant
Unpaid(user) == ~user.bountyPaid

canCollectBountyFor(s, a, is) ==
    LET user == s.users[a] IN
    /\ time >= user.joinedAt + minimumDays
    /\ is[a] = "claimer"
    /\ user.bountyAtJoin > 0
    /\ Unpaid(user)
    /\ user.invitedBy \in Accounts => is[user.invitedBy] # "nobody"

IsLevelExpired(inviter, level, joinedAt) ==
    /\ level.daysToComplete > 0
    /\ level.daysToComplete < joinedAt - inviter.levelStarted

\* One more invitee of the inviter is approved, with a bounty.
Approved(inviter, bounty, joinedAt) ==
    LET level == LevelOf(inviter)
        approved == inviter.totalApprovedInvites + 1
        counted == [inviter EXCEPT !.totalApprovedInvites = approved, !.totalEarned = @ + bounty] IN
    IF level.toNext > 0 /\ approved >= level.toNext /\ ~IsLevelExpired(inviter, level, joinedAt)
    THEN [counted EXCEPT !.level = @ + 1, !.levelStarted = time]
    ELSE counted

BountyOf(s, a) ==
    LET user == s.users[a] IN
    IF user.invitedBy \in Accounts /\ LevelOf(s.users[user.invitedBy]).bounty > user.bountyAtJoin
    THEN LevelOf(s.users[user.invitedBy]).bounty
    ELSE user.bountyAtJoin

_bountyFor(s, a, isSingleBounty) ==
    LET inviter == s.users[a].invitedBy
        bounty == BountyOf(s, a)
        shared == IF inviter \in Accounts
                  THEN [s EXCEPT !.users[inviter] = Approved(@, bounty, s.users[a].joinedAt)]
                  ELSE s
        paid == IF inviter \in Accounts /\ isSingleBounty
                THEN PaidTo(shared, inviter, bounty) ELSE shared IN
    [paid EXCEPT !.users[a].bountyPaid = TRUE,
                 !.stats.totalApprovedInvites = @ + 1,
                 !.stats.totalBountiesPaid = @ + bounty,
                 !.balance = @ - bounty \div 2]

-----------------------------------------------------------------------------
(* Operations *)

IsFree(code, sender) == codeToUser[code] \in {Nobody, sender} \/ code = Address[sender]

\* The account's part of joining; an inviter may be set later, once.
Joined(user, myCode, inviter) ==
    LET coded == IF user.inviteCode = NoCode
                 THEN [user EXCEPT !.inviteCode = myCode, !.levelStarted = time, !.joinedAt = time]
                 ELSE user IN
    CASE inviter = Nobody -> coded
      [] inviter = This -> [coded EXCEPT !.invitedBy = This, !.bountyAtJoin = levels[0].bounty]
      [] OTHER -> [coded EXCEPT !.invitedBy = inviter,
                                !.bountyAtJoin = LevelOf(users[inviter]).bounty]

EntriesInAll == Cardinality(UNION {{a} \X DOMAIN users[a].pending : a \in Accounts})

join(sender, myCode, inviterCode) ==
    LET user == users[sender]
        inviter == codeToUser[inviterCode]
        joined == [Ledger EXCEPT !.users = [a \in Accounts |->
            CASE a = sender -> Joined(user, myCode, inviter)
              [] a = inviter -> [users[a] EXCEPT !.pending = Append(@, sender)]
              [] OTHER -> users[a]]] IN
    /\ active
    /\ IsFree(myCode, sender) /\ myCode # inviterCode
    /\ Unpaid(user)
    /\ user.inviteCode = NoCode \/ (user.invitedBy = Nobody /\ inviter # Nobody)
    /\ inviter # sender
    /\ inviter \in Accounts => EntriesInAll < MaxPending
    /\ codeToUser' = IF user.inviteCode = NoCode
                     THEN [codeToUser EXCEPT ![myCode] = sender] ELSE codeToUser
    /\ \E is \in Answers(joined, {sender}) :
           Becomes(IF canCollectBountyFor(joined, sender, is)
                   THEN _bountyFor(joined, sender, TRUE) ELSE joined)
    /\ UNCHANGED <<time, settings, decisions>>

\* Anyone may ask; the invitee stays in the list of pending ones.
bountyFor(a) ==
    /\ active
    /\ \E is \in Answers(Ledger, {a}) : canCollectBountyFor(Ledger, a, is)
    /\ Becomes(_bountyFor(Ledger, a, TRUE))
    /\ UNCHANGED <<time, settings, codeToUser, decisions>>

LastDropped(list, i) == Front(list)                          \* faulty variant
Dropped(list, i) == Front([list EXCEPT ![i] = Last(list)])

\* One turn of the loop, for the i-th pending invitee.
Collected(s, sender, i, is) ==
    LET a == s.users[sender].pending[i]
        paid == _bountyFor(s, a, FALSE) IN
    IF canCollectBountyFor(s, a, is)
    THEN [paid EXCEPT !.users[sender].pending = Dropped(@, i)]
    ELSE s

\* The loop runs from the end of the list, and the sender is sent the sum at its end.  Where
\* it stops short of gas, the invitees left over are as if they were not whitelisted yet.
AllCollected(sender, is) ==
    LET turns == Len(users[sender].pending)
        after[n \in 0..turns] ==
            IF n = 0 THEN Ledger ELSE Collected(after[n - 1], sender, turns + 1 - n, is)
        s == after[turns]
    IN PaidTo(s, sender, s.stats.totalBountiesPaid - stats.totalBountiesPaid)

collectBounties(sender) ==
    /\ active
    /\ \E is \in Answers(Ledger, ToSet(users[sender].pending)) : Becomes(AllCollected(sender, is))
    /\ UNCHANGED <<time, settings, codeToUser, decisions>>

Decide == decisions < MaxDecisions /\ decisions' = decisions + 1

setLevel(n, level) ==
    /\ Decide
    /\ levels' = [m \in DOMAIN levels \union {n} |-> IF m = n THEN level ELSE levels[m]]
    /\ UNCHANGED <<time, active, minimumDays, codeToUser, ledger>>

setActive(to) ==
    /\ to # active          \* anything else changes nothing
    /\ Decide /\ active' = to
    /\ UNCHANGED <<time, minimumDays, levels, codeToUser, ledger>>

\* Whoever had the code loses it.
setCampaignCode(code) ==
    /\ Decide /\ codeToUser' = [codeToUser EXCEPT ![code] = This]
    /\ UNCHANGED <<time, settings, ledger>>

\* Raising the claims asked for changes who the basic income calls a claimer.
setMinimums(days) ==
    /\ Decide /\ minimumDays' = days
    /\ UNCHANGED <<time, active, levels, codeToUser, ledger>>

end ==
    /\ Decide /\ active
    /\ balance' = 0 /\ active' = FALSE
    /\ UNCHANGED <<time, minimumDays, levels, codeToUser, users, stats, received>>

Later ==
    /\ time' \in {t \in Times : t > time}
    /\ UNCHANGED <<settings, codeToUser, ledger, decisions>>

-----------------------------------------------------------------------------
Invite == \E a \in Accounts :
    \/ \E myCode, inviterCode \in Codes : join(a, myCode, inviterCode)
    \/ bountyFor(a)
    \/ collectBounties(a)

Own ==
    \/ \E c \in LevelChanges : setLevel(c[1], c[2])
    \/ \E b \in BOOLEAN : setActive(b)
    \/ \E code \in CampaignCodes : setCampaignCode(code)
    \/ \E days \in Minimums : setMinimums(days)
    \/ end

InvitesNext == Invite \/ Own \/ Later

InvitesSpec == InvitesInit /\ [][InvitesNext]_invite_vars
-----------------------------------------------------------------------------
Entries(a, list) == Cardinality({i \in DOMAIN list : list[i] = a})

\* No invitee is lost from the lists of pending ones, entered twice or left with somebody
\* else, whatever is joined, paid singly and collected in whatever order, and wherever the
\* loop of collectBounties stops: who is still unpaid is once in its inviter's list.
\* Whoever has taken the code 0x0 may join again (line 135) and is excepted.
PendingIsExact == \A a \in Accounts \ {codeToUser[NoCode]}, b \in Accounts :
    IF users[a].invitedBy # b THEN Entries(a, users[b].pending) = 0
    ELSE \/ Entries(a, users[b].pending) = 1
         \/ users[a].bountyPaid /\ Entries(a, users[b].pending) = 0

\* A bounty counts once, though bountyFor leaves the invitee pending and a level may rise
\* amid the loop: an inviter has as many approvals as paid invitees, and was sent what it
\* is said to have earned, unless somebody joined with 0x0 and then for another inviter.
BountiesCountOnce ==
    /\ stats.totalApprovedInvites = Cardinality({a \in Accounts : users[a].bountyPaid})
    /\ \A b \in Accounts :
        /\ users[b].totalApprovedInvites =
               Cardinality({a \in Accounts : users[a].bountyPaid /\ users[a].invitedBy = b})
        /\ codeToUser[NoCode] = Nobody => received[b] = users[b].totalEarned
=============================================================================
