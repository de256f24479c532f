------------------------------ MODULE Sessions ------------------------------
(***************************************************************************)
(* Sessions of one account and the requests that resolve them              *)
(* (internal/auth/session.go, principal.go, internal/http/authn.go): the   *)
(* row is read, deleted or touched, and its garden checked and moved, each *)
(* in a statement of its own, at the time the request read when it         *)
(* arrived.  Meanwhile memberships come, end and go, the sweep runs, and   *)
(* the person switches gardens, signs out or signs in again.               *)
(***************************************************************************)
EXTENDS Integers, FiniteSets

CONSTANTS
    Tokens,         \* session tokens; a token is used once
    Gardens,        \* numbered in the order the account joined them
    Requests,       \* requests in flight
    ttl, touchInterval,
    EndTimes,       \* end dates a membership is given
    MaxChanges,     \* bound on what is done to the memberships
    Times           \* bound on the clock: the times it shows after 0

NoRow == [row |-> FALSE]
NoCookie == "none"
NoGarden == 0
NoTime == -1

SessionsAssumption ==
    /\ ttl \in Nat \ {0} /\ touchInterval \in Nat
    /\ Gardens \subseteq Nat \ {NoGarden}
    /\ EndTimes \subseteq Nat
    /\ MaxChanges \in Nat /\ Times \subseteq Nat

touchAfter == IF touchInterval < ttl \div 10 THEN touchInterval ELSE ttl \div 10

VARIABLES
    now,
    session,   \* session rows by token
    spent,     \* tokens handed out so far
    cookie,    \* the token the browser holds
    member,    \* membership of each garden: NotMember, its end, or NoTime
    last,      \* app_user.last_garden_id
    req,       \* where each request is
    used,      \* the latest arrival of a request the session answered
    dated,     \* when the session's date was written, however old the date
    changes

vars == <<now, session, spent, cookie, member, last, req, used, dated, changes>>

Idle == [at |-> "idle"]
NotMember == -2

SessionDeadline(seen) == seen + ttl
SessionExpired(seen, t) == t >= SessionDeadline(seen)

MembershipEnded(g, t) == member[g] # NoTime /\ t >= member[g]
Live(g, t) == member[g] # NotMember /\ ~MembershipEnded(g, t)

\* ListMembershipsForUser, and the first row that has not ended.
firstLiveMembership(t) ==
    LET live == {g \in Gardens : Live(g, t)}
    IN  IF live = {} THEN NoGarden
        ELSE IF last \in live THEN last
        ELSE CHOOSE g \in live : \A h \in live : g <= h

Go(r, state) == req' = [req EXCEPT ![r] = state]
To(r, at) == req' = [req EXCEPT ![r].at = at]
End(r) == Go(r, Idle)
Row(r) == session[req[r].token]

-----------------------------------------------------------------------------
(* Authenticate: Lookup and then Resolve.                                  *)

Arrive(r) ==
    /\ req[r] = Idle
    /\ cookie \in spent
    /\ Go(r, [at |-> "lookup", now |-> now, token |-> cookie, garden |-> NoGarden])
    /\ UNCHANGED <<now, session, spent, cookie, member, last, used, dated, changes>>

\* Fault: a row exactly touchAfter old is left.
Fresh_Late(r) == req[r].now - Row(r).seen <= touchAfter

Fresh(r) == req[r].now - Row(r).seen < touchAfter

Lookup(r) ==
    /\ req[r].at = "lookup"
    /\ IF Row(r) = NoRow THEN End(r)
       ELSE IF SessionExpired(Row(r).seen, req[r].now) THEN To(r, "expire")
       ELSE IF Fresh(r) THEN Go(r, [req[r] EXCEPT !.at = "garden", !.garden = Row(r).garden])
       ELSE To(r, "touch")
    /\ UNCHANGED <<now, session, spent, cookie, member, last, used, dated, changes>>

\* DeleteSession, by the token alone; the browser's cookie is cleared.
DeleteExpired(r) ==
    /\ req[r].at = "expire"
    /\ session' = [session EXCEPT ![req[r].token] = NoRow]
    /\ End(r)
    /\ UNCHANGED <<now, spent, cookie, member, last, used, dated, changes>>

\* Fault: the update writes a row that is gone.
TouchSession_Upsert(r) ==
    /\ req[r].at = "touch"
    /\ session' = [session EXCEPT ![req[r].token] =
                      [row |-> TRUE, garden |-> NoGarden, seen |-> req[r].now]]
    /\ dated' = [dated EXCEPT ![req[r].token] = now]
    /\ To(r, "garden")
    /\ UNCHANGED <<now, spent, cookie, member, last, used, changes>>

\* The row may have been deleted since it was read.
TouchSession(r) ==
    /\ req[r].at = "touch"
    /\ IF Row(r) = NoRow
       THEN End(r) /\ UNCHANGED <<session, dated>>
       ELSE /\ session' = [session EXCEPT ![req[r].token].seen = req[r].now]
            /\ dated' = [dated EXCEPT ![req[r].token] = now]
            /\ Go(r, [req[r] EXCEPT !.at = "garden", !.garden = Row(r).garden])
    /\ UNCHANGED <<now, spent, cookie, member, last, used, changes>>

\* The request goes on to its handler as a member of g, or of no garden.
Resolved(r, g) ==
    /\ Go(r, [req[r] EXCEPT !.at = "handler", !.garden = g])
    /\ used' = [used EXCEPT ![req[r].token] = IF @ > req[r].now THEN @ ELSE req[r].now]

\* Resolve: the session keeps its garden while the membership is live.
KeepGarden(r) ==
    /\ req[r].at = "garden"
    /\ IF req[r].garden # NoGarden /\ Live(req[r].garden, req[r].now)
       THEN Resolved(r, req[r].garden)
       ELSE To(r, "start") /\ UNCHANGED used
    /\ UNCHANGED <<now, session, spent, cookie, member, last, dated, changes>>

\* startingMembership.
PickGarden(r) ==
    /\ req[r].at = "start"
    /\ LET g == firstLiveMembership(req[r].now) IN
          IF g = NoGarden /\ req[r].garden = NoGarden
          THEN Resolved(r, NoGarden)
          ELSE /\ Go(r, [req[r] EXCEPT !.at = "move", !.garden = g])
               /\ UNCHANGED used
    /\ UNCHANGED <<now, session, spent, cookie, member, last, dated, changes>>

\* SetSessionGarden: the foreign key refuses a garden the account is not in.
MoveSession(r) ==
    /\ req[r].at = "move"
    /\ LET g == req[r].garden IN
          IF Row(r) # NoRow /\ g # NoGarden /\ member[g] = NotMember
          THEN End(r) /\ UNCHANGED <<session, used>>
          ELSE /\ session' = IF Row(r) = NoRow THEN session
                             ELSE [session EXCEPT ![req[r].token].garden = g]
               /\ IF g = NoGarden THEN Resolved(r, g) ELSE To(r, "read") /\ UNCHANGED used
    /\ UNCHANGED <<now, spent, cookie, member, last, dated, changes>>

\* Fault: the membership that was listed is used.
ReadMembership_Skipped(r) ==
    /\ req[r].at = "read"
    /\ Resolved(r, req[r].garden)
    /\ UNCHANGED <<now, session, spent, cookie, member, last, dated, changes>>

\* The membership is read with its garden and capabilities; gone is an error.
ReadMembership(r) ==
    /\ req[r].at = "read"
    /\ IF member[req[r].garden] = NotMember
       THEN End(r) /\ UNCHANGED used
       ELSE Resolved(r, req[r].garden)
    /\ UNCHANGED <<now, session, spent, cookie, member, last, dated, changes>>

-----------------------------------------------------------------------------
(* Handlers.                                                               *)

Answer(r) ==
    /\ req[r].at = "handler"
    /\ End(r)
    /\ UNCHANGED <<now, session, spent, cookie, member, last, used, dated, changes>>

\* The sheet lists the live gardens; the posted one is checked again.
switchGarden(r, g) ==
    /\ req[r].at = "handler" /\ req[r].garden # NoGarden
    /\ Live(g, now)
    /\ session' = IF Row(r) = NoRow THEN session
                  ELSE [session EXCEPT ![req[r].token].garden = g]
    /\ last' = g
    /\ End(r)
    /\ UNCHANGED <<now, spent, cookie, member, used, dated, changes>>

signOut(r) ==
    /\ req[r].at = "handler"
    /\ session' = [session EXCEPT ![req[r].token] = NoRow]
    /\ End(r)
    /\ UNCHANGED <<now, spent, cookie, member, last, used, dated, changes>>

\* A sign-in: the session the browser came with is deleted, and one created.
Create(tok) ==
    /\ tok \notin spent
    /\ spent' = spent \cup {tok}
    /\ session' = [t \in Tokens |->
          IF t = tok THEN [row |-> TRUE, garden |-> NoGarden, seen |-> now]
          ELSE IF t = cookie THEN NoRow ELSE session[t]]
    /\ cookie' = tok
    /\ used' = [used EXCEPT ![tok] = now]
    /\ dated' = [dated EXCEPT ![tok] = now]
    /\ UNCHANGED <<now, member, last, req, changes>>

\* Fault: a tick too early.
DeleteExpiredSessions_Early ==
    /\ session' = [t \in Tokens |->
          IF session[t] # NoRow /\ session[t].seen < now - ttl + 2 THEN NoRow ELSE session[t]]
    /\ UNCHANGED <<now, spent, cookie, member, last, req, used, dated, changes>>

\* The sweep, once a day and at start.
DeleteExpiredSessions ==
    /\ session' = [t \in Tokens |->
          IF session[t] # NoRow /\ session[t].seen <= now - ttl THEN NoRow ELSE session[t]]
    /\ UNCHANGED <<now, spent, cookie, member, last, req, used, dated, changes>>

-----------------------------------------------------------------------------
(* The memberships, as others change them.                                 *)

Join(g) ==
    /\ changes < MaxChanges /\ changes' = changes + 1
    /\ member[g] = NotMember \/ MembershipEnded(g, now)
    /\ \E e \in {x \in EndTimes : x > now} \cup {NoTime} : member' = [member EXCEPT ![g] = e]
    /\ UNCHANGED <<now, session, spent, cookie, last, req, used, dated>>

\* Deleting a membership empties garden_id on its sessions.
RemoveMember(g) ==
    /\ changes < MaxChanges /\ changes' = changes + 1
    /\ member[g] # NotMember
    /\ member' = [member EXCEPT ![g] = NotMember]
    /\ session' = [t \in Tokens |->
          IF session[t] # NoRow /\ session[t].garden = g
          THEN [session[t] EXCEPT !.garden = NoGarden] ELSE session[t]]
    /\ UNCHANGED <<now, spent, cookie, last, req, used, dated>>

Clock == now' \in {n \in Times : n > now}
         /\ UNCHANGED <<session, spent, cookie, member, last, req, used, dated, changes>>

Init ==
    /\ now = 0
    /\ session = [t \in Tokens |-> NoRow]
    /\ spent = {} /\ cookie = NoCookie
    /\ member \in [Gardens -> {NotMember, NoTime}]
    /\ last \in {NoGarden} \cup {g \in Gardens : member[g] = NoTime}
    /\ req = [r \in Requests |-> Idle]
    /\ used = [t \in Tokens |-> 0]
    /\ dated = [t \in Tokens |-> 0]
    /\ changes = 0

Resolve(r) ==
    \/ Lookup(r) \/ DeleteExpired(r) \/ TouchSession(r)
    \/ KeepGarden(r) \/ PickGarden(r) \/ MoveSession(r) \/ ReadMembership(r)

Next ==
    \/ \E r \in Requests :
          \/ Arrive(r) \/ Resolve(r) \/ Answer(r) \/ signOut(r)
          \/ \E g \in Gardens : switchGarden(r, g)
    \/ \E t \in Tokens : Create(t)
    \/ \E g \in Gardens : Join(g) \/ RemoveMember(g)
    \/ DeleteExpiredSessions
    \/ Clock

Spec == Init /\ [][Next]_vars

-----------------------------------------------------------------------------

\* A session is on a garden only while the account has a membership of it.
TypeOK ==
    /\ \A t \in Tokens :
          session[t] # NoRow => /\ t \in spent
                                /\ session[t].seen \in 0 .. now
                                /\ session[t].garden \in Gardens \cup {NoGarden}
                                /\ session[t].garden # NoGarden => member[session[t].garden] # NotMember
    /\ last \in Gardens \cup {NoGarden}

(* A session that was deleted - signed out, replaced, expired - never works *)
(* again, whatever a request that had read it goes on to write              *)
(* (TouchSession and its refusal in Lookup, session.go:171).                *)
SignedOutStaysOut == \A t \in spent : session[t] = NoRow => session'[t] = NoRow

(* A request that is let into a garden finds the account a member of it,    *)
(* also when the member is removed while the request moves its session      *)
(* there (Resolve, principal.go:115).                                       *)
RemovedIsNotLetIn ==
    \A r \in Requests :
        req[r].at # "handler" /\ req'[r].at = "handler" /\ req'[r].garden # NoGarden
            => member[req'[r].garden] # NotMember

\* Nobody comes back in.
OutStaysOut == SignedOutStaysOut /\ RemovedIsNotLetIn

(* "A session in use therefore expires up to this much earlier than its     *)
(* last request plus the TTL" (touchInterval, session.go:29): a row's date  *)
(* is less than touchAfter behind the latest request the session answered,  *)
(* unless that request had come by the time the date was written.  A        *)
(* request writes the time it came, so two at once may set a date back, but *)
(* never for a request that came after.                                     *)
UsedSessionLasts ==
    \A t \in Tokens :
        session[t] # NoRow => used[t] - session[t].seen < touchAfter \/ used[t] <= dated[t]

\* A request is about to delete the session on purpose.
Leaving(t) == \E r \in Requests : req[r].at = "handler" /\ req[r].token = t

\* A request deletes as expired a row that another dated after it had come.
DatedMeanwhile(t) ==
    \E r \in Requests :
        req[r].at = "expire" /\ req[r].token = t /\ req'[r] = Idle /\ req[r].now <= dated[t]

(* "An expired row is deleted here": looking a session up, and the sweep,   *)
(* delete only one that has passed its deadline (Lookup, session.go:144),   *)
(* but for one another request touches between the read and the delete.     *)
OnlyExpiredDeleted ==
    \A t \in Tokens :
        session[t] # NoRow /\ session'[t] = NoRow /\ cookie' = cookie /\ ~Leaving(t)
            => SessionExpired(session[t].seen, now) \/ DatedMeanwhile(t)

\* A session lasts until its time is up.
SessionsLast == UsedSessionLasts' /\ OnlyExpiredDeleted
=============================================================================
