-------------------------------- MODULE Setup --------------------------------
(***************************************************************************)
(* Gardens made and left (internal/http/setup.go, setup_signed_in.go,      *)
(* close_account.go, delete_garden.go, internal/auth/setup_link.go): with  *)
(* sign-up off a garden is made with a setup link, or as the first account *)
(* of the install.  A request checks that its route is open, and claims it *)
(* again as the first statement of the transaction that writes.  The only  *)
(* owner of a garden is who made it: no page gives that role.              *)
(***************************************************************************)
EXTENDS Integers, FiniteSets

CONSTANTS
    Users,           \* accounts, most not created yet
    Gardens,
    Links,           \* setup_link ids; an id is used once
    NoLink,
    Requests,        \* requests in flight
    enabled,         \* SPRIG_SIGNUP_ENABLED
    InviteLifetime, linkGrace,
    MaxTime          \* bound on the clock

NoTime == -1
NoRow == [state |-> "none"]

SetupAssumption ==
    /\ NoLink \notin Links /\ enabled \in BOOLEAN
    /\ InviteLifetime \in Nat \ {0} /\ linkGrace \in Nat /\ MaxTime \in Nat

VARIABLES
    now,
    account,  \* app_user: "none", "open" or "closed"
    garden,   \* garden: "none", "open" or "deleted"
    owner,    \* the owner memberships, <<garden, account>>
    link,     \* setup_link rows
    made,     \* how many gardens each link made
    firsts,   \* how many accounts were made with neither a link nor sign-up
    req,      \* where each request is
    met,      \* set-ups signed in, under way with a closing of their account
    risked    \* gardens set up so

rows == <<account, garden, owner, link, made, firsts>>
vars == <<now, rows, req, met, risked>>

Idle == [at |-> "idle"]
Begin(r, state) == req[r] = Idle /\ req' = [req EXCEPT ![r] = state]
Go(r, at) == req' = [req EXCEPT ![r].at = at]
End(r) == req' = [req EXCEPT ![r] = Idle]

AnyUsers == \E u \in Users : account[u] # "none"

\* A request that is closing the account of u; one that sets up, u signed in.
Closing(q, u) == req[q].at \in {"close", "closing"} /\ req[q].u = u
SettingUp(q, u) == req[q].at \in {"claim", "write"} /\ req[q].what = "signed-in" /\ req[q].u = u

\* Bare: neither a link nor sign-up lets the request in.
Bare(r) == req[r].l = NoLink /\ ~enabled

\* A transaction holds the row of the link it uses, or the account table.
HeldLink(l) == \E r \in Requests : req[r].at = "write" /\ req[r].l = l
UsersLocked(r) == \E q \in Requests \ {r} : req[q].at = "write" /\ Bare(q)

-----------------------------------------------------------------------------
(* Setup links.                                                            *)

SetupLinkOpen(l) ==
    link[l].state = "row" /\ link[l].used = NoTime /\ link[l].expires > now

IssueSetupLink(l) ==
    /\ link[l] = NoRow
    /\ link' = [link EXCEPT ![l] = [state |-> "row", used |-> NoTime, expires |-> now + InviteLifetime]]
    /\ UNCHANGED <<now, account, garden, owner, made, firsts, req, met, risked>>

DeleteUsedAndExpiredSetupLinks ==
    LET before == now - linkGrace
        spent == {l \in Links : /\ link[l].state = "row"
                                /\ IF link[l].used # NoTime THEN link[l].used <= before
                                   ELSE link[l].expires <= before}
    IN  /\ spent # {} /\ \A l \in spent : ~HeldLink(l)
        /\ link' = [l \in Links |-> IF l \in spent THEN [link[l] EXCEPT !.state = "deleted"] ELSE link[l]]
        /\ UNCHANGED <<now, account, garden, owner, made, firsts, req, met, risked>>

-----------------------------------------------------------------------------
(* A garden set up, with a new account or by one that is signed in.        *)

open(l) == IF l # NoLink THEN SetupLinkOpen(l) ELSE enabled \/ ~AnyUsers
signedInOpen(l) == IF l # NoLink THEN SetupLinkOpen(l) ELSE enabled

Post(r, l, u, what) ==
    /\ IF what = "create" THEN open(l) ELSE signedInOpen(l)
    /\ account[u] = (IF what = "create" THEN "none" ELSE "open")
    /\ Begin(r, [at |-> "claim", l |-> l, u |-> u, what |-> what])
    /\ met' = IF what = "signed-in" /\ \E q \in Requests : Closing(q, u) THEN met \cup {r} ELSE met \ {r}
    /\ UNCHANGED <<now, rows, risked>>

\* Fault: the account table is not locked.
LockUsers_Not(r) == TRUE

\* LockUsers waits for another transaction that holds the table.
LockUsers(r) == ~UsersLocked(r)

\* Fault: a link that is used already is used again.
UseSetupLink_Again(l) == link[l].state = "row"

UseSetupLink(l) == SetupLinkOpen(l)

claim(r) ==
    /\ req[r].at = "claim"
    /\ LET l == req[r].l
           claimed == IF l # NoLink THEN UseSetupLink(l) ELSE enabled \/ ~AnyUsers IN
          /\ l # NoLink => ~HeldLink(l)
          /\ Bare(r) => LockUsers(r)
          /\ IF claimed THEN Go(r, "write") ELSE End(r)
    /\ UNCHANGED <<now, rows, met, risked>>

\* The garden, its care types and the owner's membership.
createGardenOwnedBy(g, u) ==
    /\ garden[g] = "none"
    /\ garden' = [garden EXCEPT ![g] = "open"]
    /\ owner' = owner \cup {<<g, u>>}

\* The rest of the transaction: a used link stays used, and the lock ends.
Commit(r) ==
    /\ LET l == req[r].l IN
          /\ link' = IF l = NoLink THEN link ELSE [link EXCEPT ![l].used = now]
          /\ made' = IF l = NoLink THEN made ELSE [made EXCEPT ![l] = @ + 1]
    /\ firsts' = IF Bare(r) THEN firsts + 1 ELSE firsts
    /\ End(r)
    /\ UNCHANGED <<now, met>>

\* A new account, which waits for the table, with its passkey.
create(r, g) ==
    /\ req[r].at = "write" /\ req[r].what = "create"
    /\ account[req[r].u] = "none" /\ LockUsers(r)
    /\ account' = [account EXCEPT ![req[r].u] = "open"]
    /\ createGardenOwnedBy(g, req[r].u)
    /\ Commit(r)
    /\ UNCHANGED risked

createSignedIn(r, g) ==
    /\ req[r].at = "write" /\ req[r].what = "signed-in"
    /\ createGardenOwnedBy(g, req[r].u)
    /\ Commit(r)
    /\ risked' = IF r \in met THEN risked \cup {g} ELSE risked
    /\ UNCHANGED account

\* The handle is taken, the passkey refused, or the database fails.
Refuse(r) == req[r] # Idle /\ End(r) /\ UNCHANGED <<now, rows, met, risked>>

-----------------------------------------------------------------------------
(* A garden deleted, an account closed.                                    *)

deleteGarden(g) ==
    /\ garden[g] = "open"
    /\ \E u \in Users : <<g, u>> \in owner
    /\ garden' = [garden EXCEPT ![g] = "deleted"]
    /\ owner' = {x \in owner : x[1] # g}
    /\ UNCHANGED <<now, account, link, made, firsts, req, met, risked>>

\* Fault: who owns a garden alone may leave.
ListGardensOnlyThisUserOwns_None(u) == {}

ListGardensOnlyThisUserOwns(u) ==
    {g \in Gardens : <<g, u>> \in owner /\ \A x \in owner : x[1] = g => x[2] = u}

\* closeUserAccount: the check, the deletes, each on the rows it sees, and the
\* account's own row.
CheckSoleOwner(r, u) ==
    /\ account[u] = "open"
    /\ ListGardensOnlyThisUserOwns(u) = {}
    /\ Begin(r, [at |-> "close", l |-> NoLink, u |-> u, saw |-> {}])
    /\ met' = met \cup {q \in Requests : SettingUp(q, u)}
    /\ UNCHANGED <<now, rows, risked>>

DeleteUserMemberships(r) ==
    /\ req[r].at = "close"
    /\ req' = [req EXCEPT ![r].at = "closing", ![r].saw = {x \in owner : x[2] = req[r].u}]
    /\ UNCHANGED <<now, rows, met, risked>>

CloseAccount(r) ==
    /\ req[r].at = "closing"
    /\ account[req[r].u] = "open"
    /\ ~UsersLocked(r)
    /\ owner' = owner \ req[r].saw
    /\ account' = [account EXCEPT ![req[r].u] = "closed"]
    /\ End(r)
    /\ UNCHANGED <<now, garden, link, made, firsts, met, risked>>

Clock == now < MaxTime /\ now' = now + 1 /\ UNCHANGED <<rows, req, met, risked>>

\* A new install, or one where an account has no garden.
Init ==
    /\ now = 0
    /\ \E first \in {{}} \cup {{u} : u \in Users} :
          /\ account = [u \in Users |-> IF u \in first THEN "open" ELSE "none"]
          /\ firsts = Cardinality(first)
    /\ garden = [g \in Gardens |-> "none"]
    /\ owner = {}
    /\ link = [l \in Links |-> NoRow]
    /\ made = [l \in Links |-> 0]
    /\ req = [r \in Requests |-> Idle]
    /\ met = {} /\ risked = {}

Request(r) ==
    \/ \E l \in Links \cup {NoLink}, u \in Users, what \in {"create", "signed-in"} : Post(r, l, u, what)
    \/ claim(r) \/ Refuse(r)
    \/ \E g \in Gardens : create(r, g) \/ createSignedIn(r, g)
    \/ \E u \in Users : CheckSoleOwner(r, u)
    \/ DeleteUserMemberships(r) \/ CloseAccount(r)

Next ==
    \/ \E r \in Requests : Request(r)
    \/ \E l \in Links : IssueSetupLink(l)
    \/ DeleteUsedAndExpiredSetupLinks
    \/ \E g \in Gardens : deleteGarden(g)
    \/ Clock

Spec == Init /\ [][Next]_vars

-----------------------------------------------------------------------------

TypeOK ==
    /\ account \in [Users -> {"none", "open", "closed"}]
    /\ garden \in [Gardens -> {"none", "open", "deleted"}]
    /\ \A x \in owner : garden[x[1]] = "open" /\ account[x[2]] # "none"
    /\ \A l \in Links : link[l] # NoRow => (link[l].used # NoTime) = (made[l] > 0)

(* "It works once": of any number of posts with one setup link, one makes a *)
(* garden (UseSetupLink, setup_link.sql.go:64).                             *)
SetupLinkOnce == \A l \in Links : made[l] <= 1

(* With sign-up off, one account of the install was made without a link,    *)
(* however many posts arrive while there is none (claim, setup.go:249).     *)
FirstAccountOnce == ~enabled => firsts <= 1

\* What lets a garden be set up does so once.
UsedOnce == SetupLinkOnce /\ FirstAccountOnce

Owned(g) == \E x \in owner : x[1] = g /\ account[x[2]] = "open"

(* "Closing it would leave that garden with nobody who can manage it": a    *)
(* garden always has an owner whose account is open (closeUserAccount,      *)
(* close_account.go:20).                                                    *)
GardenHasOwner == \A g \in Gardens : garden[g] = "open" => Owned(g)

(* What the check does give: a garden has an owner whose account is open    *)
(* unless it was set up by an account while a closing of that account was   *)
(* under way, from its check to its commit (createGardenSignedIn,           *)
(* setup_signed_in.go, against closeUserAccount, close_account.go:20).      *)
OwnerStays == \A g \in Gardens : garden[g] = "open" => Owned(g) \/ g \in risked
==============================================================================
