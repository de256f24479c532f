------------------------------- MODULE Invites -------------------------------
(***************************************************************************)
(* Getting into a garden (internal/http/invite.go, invited.go, accept.go,  *)
(* people.go, internal/auth/signin_link.go): an owner makes an invite, a   *)
(* new account joins or an existing one accepts; an admin makes a sign-in  *)
(* link that adds a device.  A request reads the invite and the membership *)
(* first, each in a statement of its own, and writes in a transaction whose *)
(* first statement takes the invite's row.  Owners are not in Users: no    *)
(* page gives or takes their role, and they write what the pages offer.    *)
(***************************************************************************)
EXTENDS Integers, FiniteSets

CONSTANTS
    Gardens,         \* numbered in the order an account joins them
    Users,           \* accounts, and those not created yet
    Invites,         \* invite ids; an id is used once
    Requests,        \* requests in flight
    offeredRoles,    \* the roles an owner gives
    Lives,           \* how long the access an invite gives lasts
    InviteLifetime, linkGrace,
    MaxChanges,      \* bound on the saves and removals on People
    MaxTime          \* bound on the clock

NoTime == -1
NoAccount == "no user"
NoGarden == 0
NotMember == [role |-> "none"]
NoInvite == [state |-> "none"]

InvitesAssumption ==
    /\ Gardens \subseteq Nat \ {NoGarden} /\ NoAccount \notin Users
    /\ Lives \subseteq Nat \ {0}
    /\ InviteLifetime \in Nat \ {0} /\ linkGrace \in Nat
    /\ MaxChanges \in Nat /\ MaxTime \in Nat

VARIABLES
    now,
    account,   \* the accounts that exist
    member,    \* membership by garden and account
    last,      \* app_user.last_garden_id
    invite,    \* invite rows
    admits,    \* how often each invite let somebody in
    req,       \* where each request is
    changes

rows == <<account, member, last, invite, admits>>
vars == <<now, rows, req, changes>>

Idle == [at |-> "idle"]
Ends == {NoTime} \cup {now + d : d \in Lives}

MembershipEnded(m, t) == m.ends # NoTime /\ t >= m.ends
Live(m, t) == m # NotMember /\ ~MembershipEnded(m, t)

Row(i) == invite[i].state = "row"
Reenrols(i) == invite[i].user # NoAccount

Begin(r, state) == req[r] = Idle /\ req' = [req EXCEPT ![r] = state]
Go(r, state) == req' = [req EXCEPT ![r] = state]
End(r) == Go(r, Idle)

\* A transaction holds the row of the invite it redeems.
Held(i) == \E r \in Requests : req[r].at = "write" /\ req[r].i = i

-----------------------------------------------------------------------------
(* Invites and sign-in links made, revoked and swept.                      *)

createInvite(i, g, role) ==
    /\ invite[i] = NoInvite
    /\ \E e \in Ends :
          invite' = [invite EXCEPT ![i] = [state |-> "row", garden |-> g, role |-> role,
              user |-> NoAccount, ends |-> e, expires |-> now + InviteLifetime, redeemed |-> NoTime]]
    /\ UNCHANGED <<now, account, member, last, admits, req, changes>>

\* Fault: the delete does not wait for a redemption.
DeletePendingInvite_NoWait(i) ==
    /\ Row(i) /\ ~Reenrols(i)
    /\ invite[i].redeemed = NoTime
    /\ invite' = [invite EXCEPT ![i].state = "deleted"]
    /\ UNCHANGED <<now, account, member, last, admits, req, changes>>

\* revokeInvite: DeletePendingInvite waits for a redemption and then finds the
\* row redeemed.
DeletePendingInvite(i) ==
    /\ Row(i) /\ ~Reenrols(i) /\ ~Held(i)
    /\ invite[i].redeemed = NoTime
    /\ invite' = [invite EXCEPT ![i].state = "deleted"]
    /\ UNCHANGED <<now, account, member, last, admits, req, changes>>

\* The first live membership, the garden last opened before the oldest.
firstLiveMembership(u) ==
    LET live == {g \in Gardens : Live(member[<<g, u>>], now)}
    IN  CASE live = {}        -> NoGarden
          [] last[u] \in live -> last[u]
          [] OTHER            -> CHOOSE g \in live : \A h \in live : g <= h

\* IssueSignInLink: the delete works on the links it sees.
DeleteReenrolmentInvites(r, u) ==
    /\ u \in account
    /\ LET g == firstLiveMembership(u) IN
          /\ g # NoGarden
          /\ Begin(r, [at |-> "issue", u |-> u, garden |-> g,
                       saw |-> {i \in Invites : Row(i) /\ invite[i].user = u
                                   /\ invite[i].garden = g /\ invite[i].redeemed = NoTime}])
    /\ UNCHANGED <<now, rows, changes>>

IssueSignInLink(r, i) ==
    /\ req[r].at = "issue"
    /\ invite[i] = NoInvite
    /\ \A j \in req[r].saw : ~Held(j)
    /\ invite' = [j \in Invites |->
          CASE j = i -> [state |-> "row", garden |-> req[r].garden, role |-> "member",
                         user |-> req[r].u, ends |-> NoTime,
                         expires |-> now + InviteLifetime, redeemed |-> NoTime]
            [] j \in req[r].saw /\ invite[j].redeemed = NoTime -> [invite[j] EXCEPT !.state = "deleted"]
            [] OTHER -> invite[j]]
    /\ End(r)
    /\ UNCHANGED <<now, account, member, last, admits, changes>>

\* The sweep; a row is kept for linkGrace.
Spent(i) ==
    LET before == now - linkGrace IN
    Row(i) /\ IF invite[i].redeemed # NoTime THEN invite[i].redeemed <= before
              ELSE Reenrols(i) /\ invite[i].expires <= before

DeleteRedeemedAndExpiredInvites ==
    /\ \E i \in Invites : Spent(i)
    /\ \A i \in Invites : Spent(i) => ~Held(i)
    /\ invite' = [i \in Invites |-> IF Spent(i) THEN [invite[i] EXCEPT !.state = "deleted"] ELSE invite[i]]
    /\ UNCHANGED <<now, account, member, last, admits, req, changes>>

-----------------------------------------------------------------------------
(* An invite opened and redeemed.                                          *)

\* openInviteToken.
Usable(i) ==
    /\ Row(i)
    /\ invite[i].redeemed = NoTime /\ now < invite[i].expires
    /\ IF Reenrols(i) THEN Live(member[<<invite[i].garden, invite[i].user>>], now)
       ELSE invite[i].ends = NoTime \/ now < invite[i].ends

\* join is posted by somebody with no account, accept by one signed in,
\* addDevice for the account the link names.
Open(r, i, u, what) ==
    /\ Usable(i)
    /\ CASE what = "join"   -> ~Reenrols(i) /\ u \notin account
         [] what = "accept" -> ~Reenrols(i) /\ u \in account
         [] OTHER           -> invite[i].user = u
    /\ Begin(r, [at |-> IF what = "accept" THEN "existing" ELSE "redeem",
                 what |-> what, i |-> i, u |-> u, existing |-> NotMember])
    /\ UNCHANGED <<now, rows, changes>>

\* Fault: somebody already in is let through.
existingMembership_Live(r) ==
    /\ req[r].at = "existing"
    /\ Go(r, [req[r] EXCEPT !.at = "redeem",
              !.existing = member[<<invite[req[r].i].garden, req[r].u>>]])
    /\ UNCHANGED <<now, rows, changes>>

\* Somebody already in is told so.
existingMembership(r) ==
    /\ req[r].at = "existing"
    /\ LET m == member[<<invite[req[r].i].garden, req[r].u>>] IN
          IF Live(m, now) THEN End(r)
          ELSE Go(r, [req[r] EXCEPT !.at = "redeem", !.existing = m])
    /\ UNCHANGED <<now, rows, changes>>

\* Fault: a row that is redeemed already is taken again.
RedeemInvite_Used(r) ==
    /\ req[r].at = "redeem"
    /\ ~Held(req[r].i)
    /\ IF Row(req[r].i) THEN Go(r, [req[r] EXCEPT !.at = "write"]) ELSE End(r)
    /\ UNCHANGED <<now, rows, changes>>

\* markRedeemed: the update takes the row, or finds it used, run out or gone.
RedeemInvite(r) ==
    /\ req[r].at = "redeem"
    /\ ~Held(req[r].i)
    /\ LET i == req[r].i IN
          IF Row(i) /\ invite[i].redeemed = NoTime /\ invite[i].expires > now
          THEN Go(r, [req[r] EXCEPT !.at = "write"])
          ELSE End(r)
    /\ UNCHANGED <<now, rows, changes>>

Marked(i) == [invite EXCEPT ![i].redeemed = now]

\* The rest of the transaction.  createMembership needs that there is no row,
\* renewMembership that there is one.
Admit(r) ==
    /\ req[r].at = "write"
    /\ LET i == req[r].i
           u == req[r].u
           g == invite[i].garden IN
          /\ invite' = Marked(i)
          /\ admits' = [admits EXCEPT ![i] = @ + 1]
          /\ IF req[r].what = "device" THEN UNCHANGED <<account, member, last>>
             ELSE /\ (member[<<g, u>>] # NotMember) = (req[r].existing # NotMember)
                  /\ req[r].what = "join" => u \notin account
                  /\ account' = account \cup {u}
                  /\ member' = [member EXCEPT ![<<g, u>>] = [role |-> invite[i].role, ends |-> invite[i].ends]]
                  /\ last' = IF req[r].what = "accept" THEN [last EXCEPT ![u] = g] ELSE last
    /\ End(r)
    /\ UNCHANGED <<now, changes>>

\* The handle is taken, the passkey is refused, the membership is not as it
\* was read, or the database fails: nothing was written.
Refuse(r) == req[r] # Idle /\ End(r) /\ UNCHANGED <<now, rows, changes>>

-----------------------------------------------------------------------------
(* People.                                                                 *)

Change == changes < MaxChanges /\ changes' = changes + 1

\* Fault: a date is taken for a membership that has no end.
EndPosted_Any(m, e) == TRUE

EndPosted(m, e) == m.ends = NoTime => e = NoTime

\* ListMembers and postedChanges: a role for one whose access has not ended, an
\* end for one whose access has an end.
postedChanges(r, g, u) ==
    /\ Change
    /\ member[<<g, u>>] # NotMember
    /\ \E role \in {"same"} \cup (offeredRoles \ {member[<<g, u>>].role}), e \in Ends \cup {now} :
          /\ MembershipEnded(member[<<g, u>>], now) => role = "same"
          /\ EndPosted(member[<<g, u>>], e)
          /\ role # "same" \/ e # NoTime
          /\ Begin(r, [at |-> "save", g |-> g, u |-> u, role |-> role, ends |-> e,
                       existing |-> member[<<g, u>>]])
    /\ UNCHANGED <<now, rows>>

\* SetMemberRole and SetMembershipEnd; NoTime leaves the end alone.
saveMembers(r) ==
    /\ req[r].at = "save"
    /\ LET g == req[r].g
           u == req[r].u
           m == member[<<g, u>>] IN
          member' = IF m = NotMember THEN member
                    ELSE [member EXCEPT ![<<g, u>>] =
                        [role |-> IF req[r].role = "same" THEN m.role ELSE req[r].role,
                         ends |-> IF req[r].ends = NoTime THEN m.ends ELSE req[r].ends]]
    /\ End(r)
    /\ UNCHANGED <<now, account, last, invite, admits, changes>>

removeMember(g, u) ==
    /\ Change
    /\ member[<<g, u>>] # NotMember
    /\ member' = [member EXCEPT ![<<g, u>>] = NotMember]
    /\ UNCHANGED <<now, account, last, invite, admits, req>>

\* The account opens another of its gardens.
switchGarden(g, u) ==
    /\ Change
    /\ Live(member[<<g, u>>], now) /\ last[u] # g
    /\ last' = [last EXCEPT ![u] = g]
    /\ UNCHANGED <<now, account, member, invite, admits, req>>

Clock == now < MaxTime /\ now' = now + 1 /\ UNCHANGED <<rows, req, changes>>

\* Some accounts have joined already, and may have left or run out.
Init ==
    /\ now = 0
    /\ account \in SUBSET Users
    /\ member \in [Gardens \X Users -> {NotMember}
          \cup [role : offeredRoles, ends : {NoTime, 0} \cup Lives]]
    /\ \A x \in Gardens \X Users : member[x] # NotMember => x[2] \in account
    /\ last = [u \in Users |-> NoGarden]
    /\ invite = [i \in Invites |-> NoInvite]
    /\ admits = [i \in Invites |-> 0]
    /\ req = [r \in Requests |-> Idle]
    /\ changes = 0

Redeeming(r) ==
    \/ \E i \in Invites, u \in Users, what \in {"join", "accept", "device"} : Open(r, i, u, what)
    \/ existingMembership(r) \/ RedeemInvite(r) \/ Admit(r) \/ Refuse(r)

Issuing(r) ==
    \/ \E u \in Users : DeleteReenrolmentInvites(r, u)
    \/ \E i \in Invites : IssueSignInLink(r, i)

People(r) ==
    \/ \E g \in Gardens, u \in Users : postedChanges(r, g, u)
    \/ saveMembers(r)

Next ==
    \/ \E r \in Requests : Redeeming(r) \/ Issuing(r) \/ People(r)
    \/ \E i \in Invites :
          \/ DeletePendingInvite(i)
          \/ \E g \in Gardens, role \in offeredRoles : createInvite(i, g, role)
    \/ DeleteRedeemedAndExpiredInvites
    \/ \E g \in Gardens, u \in Users : removeMember(g, u) \/ switchGarden(g, u)
    \/ Clock

Spec == Init /\ [][Next]_vars

-----------------------------------------------------------------------------

\* Memberships are of accounts, and a row that was redeemed let somebody in.
TypeOK ==
    /\ \A x \in Gardens \X Users : member[x] # NotMember => x[2] \in account
    /\ \A i \in Invites : invite[i] # NoInvite => (invite[i].redeemed # NoTime) = (admits[i] > 0)

(* "An invite is single use": two requests that both opened it, joining,    *)
(* accepting or adding a device, let in at most one (markRedeemed,          *)
(* invited.go:479).                                                         *)
InviteOnce == \A i \in Invites : admits[i] <= 1

(* A transaction that lets somebody in does so on an invite that was not    *)
(* revoked or swept meanwhile: "Revoking deletes the row.  That is what     *)
(* makes the link stop working" (invite.sql.go:78).                         *)
RevokedLetsNobodyIn == \A i \in Invites : admits'[i] # admits[i] => Row(i)

(* An invite that ran out after it was opened is not taken (markRedeemed:   *)
(* "ran out before the row lock was taken", accept.go:171).                 *)
ExpiredLetsNobodyIn ==
    \A r \in Requests :
        req[r].at = "redeem" /\ req'[r].at = "write" => invite[req[r].i].expires > now

(* An invite lets in at most one, only while its row is there, and only one *)
(* who took it before it ran out.                                           *)
InvitesAdmit == InviteOnce' /\ RevokedLetsNobodyIn /\ ExpiredLetsNobodyIn

\* The request whose step this is had read membership x as something else: it
\* was changed between its read and its write.
ReadAnother(x) ==
    \E r \in Requests :
        req[r].at \in {"write", "save"} /\ req'[r] # req[r] /\ req[r].existing # member[x]

(* A renewal updates a membership that has ended (RenewMembership,          *)
(* membership.sql.go:562: "an account whose membership of the garden has    *)
(* ended updates that row").  One that works is rewritten only when another *)
(* request changed it after the accepting one read it, since the update     *)
(* does not look again.                                                     *)
RenewsEnded ==
    \A i \in Invites, x \in Gardens \X Users :
        admits'[i] # admits[i] /\ member'[x] # member[x] /\ Live(member[x], now) => ReadAnother(x)

(* "A membership with no end date has no date field, so a date posted for   *)
(* one is ignored" (postedChanges, people.go:279): no step but an admission *)
(* gives it an end, unless the membership was given none after People was   *)
(* read.                                                                    *)
PermanentStays ==
    \A x \in Gardens \X Users :
        /\ member[x] # NotMember /\ member[x].ends = NoTime
        /\ member'[x] # NotMember /\ member'[x].ends # NoTime
        /\ admits' = admits
      => ReadAnother(x)

\* What holds of memberships, however many requests there are.
MembershipStays == RenewsEnded /\ PermanentStays
==============================================================================
