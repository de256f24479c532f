------------------------------- MODULE MCPeople -------------------------------
(***************************************************************************)
(* Whose devices are told of a garden and who is invited to it, side by    *)
(* side: part says which of the models a behaviour is of.  The constants   *)
(* and variables of Notifications are its own, and rest in its initial     *)
(* state in the other parts; the variables of Invites are Off in           *)
(* "notifications".  "memberships" has one account, whose membership       *)
(* changes while its requests are under way.                               *)
(***************************************************************************)
EXTENDS Notifications, TLC

CONSTANTS Off, NoUser, u0, i0, s1, r1, r2, u1, u2, b1, b2

VARIABLES
    part,
    now, req, account, member, invite, last, admits, changes   \* Invites

inviteVars == <<now, req, account, member, invite, last, admits, changes>>
partVars == <<part, inviteVars, vars>>

Both == {r1, r2}
People == {u1, u2}
Bs == {b1, b2}
Symmetry == Permutations(Both) \cup Permutations(People) \cup Permutations(Bs)

Garden == {1}
OnePerson == {u0}
OneInvite == {i0}
MemberRole == {"member"}
OfferedRoles == {"member", "sitter"}

Inv == INSTANCE Invites WITH
    Gardens <- Garden, Users <- People, Invites <- Bs, Requests <- Both,
    offeredRoles <- MemberRole, Lives <- Garden, InviteLifetime <- 1, linkGrace <- 0,
    MaxChanges <- 0, MaxTime <- 1
InvMember == INSTANCE Invites WITH
    Gardens <- Garden, Users <- OnePerson, Invites <- OneInvite, Requests <- Both,
    offeredRoles <- OfferedRoles, Lives <- Garden, InviteLifetime <- 2, linkGrace <- 0,
    MaxChanges <- 2, MaxTime <- 2

ASSUME Inv!InvitesAssumption /\ InvMember!InvitesAssumption
ASSUME NotificationsAssumption

-----------------------------------------------------------------------------

NoInvites ==
    /\ now = Off /\ req = Off /\ account = Off /\ member = Off /\ invite = Off /\ last = Off
    /\ admits = Off /\ changes = Off

InitParts ==
    /\ Init
    /\ \/ part = "invites" /\ Inv!Init
       \/ part = "memberships" /\ InvMember!Init
       \/ part = "notifications" /\ NoInvites

NextParts ==
    /\ UNCHANGED part
    /\ \/ part = "invites" /\ Inv!Next /\ UNCHANGED vars
       \/ part = "memberships" /\ InvMember!Next /\ UNCHANGED vars
       \/ part = "notifications" /\ Next /\ UNCHANGED inviteVars

SideBySide == InitParts /\ [][NextParts]_partVars

-----------------------------------------------------------------------------
(* What holds of the parts besides BrowsersAgree and OthersBrowserStays,    *)
(* which are of Notifications.                                              *)

(* Invites: the rows have their types; an invite lets in at most one, and   *)
(* one revoked, swept or run out lets nobody in, whatever requests had it   *)
(* open (RedeemInvite).                                                     *)
InvitesAdmit ==
    /\ [](part = "invites" => Inv!TypeOK)
    /\ [][part = "invites" => Inv!InvitesAdmit]_partVars

(* Invites: accepting rewrites a membership only when it has ended, and a   *)
(* save on People leaves a membership with no end without one, unless the   *)
(* membership was changed after the request had read it                     *)
(* (existingMembership, postedChanges).                                     *)
MembershipStays ==
    /\ [](part = "memberships" => InvMember!TypeOK)
    /\ [][part = "memberships" => InvMember!MembershipStays]_partVars
=============================================================================
