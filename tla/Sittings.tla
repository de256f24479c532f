------------------------------- MODULE Sittings -------------------------------
(***************************************************************************)
(* The end dates of memberships: set with an invite, changed on People     *)
(* (internal/http/people.go) from a page that may be old, and marked on    *)
(* the calendar as the days the member has access (sittings in             *)
(* calendar.go).  A date posted on People is read in the member's zone and *)
(* one posted with an invite in the inviter's.  What lies between the read *)
(* and the write of a save is in module Invites.                           *)
(***************************************************************************)
EXTENDS Dates, FiniteSets

CONSTANTS
    None,
    Members,
    Zones,         \* the zones a member's account may be in
    InviteZones,   \* the zones of those who invite
    Pages,         \* People pages open in browsers
    MaxTime        \* bound on the clock

SittingsAssumption ==
    /\ DatesAssumption
    /\ MaxTime \in Nat /\ DayUnits <= MaxTime
    /\ Zones \cup InviteZones \subseteq Int /\ None \notin Int

VARIABLES
    now,
    zone,      \* the timezone of each member's account
    access,    \* each membership: [created, expires], None when there is none
    shown      \* the date each page was rendered with for each member, or None

vars == <<now, zone, access, shown>>

Here == {m \in Members : access[m] # None}
Limited == {m \in Here : access[m].expires # None}

\* Bound: the dates a form posts.
Dates0 == 0 .. DateOf(MaxTime, 0) + 1

\* The date field of a member's row.
accessEndValue(m) == DateOf(access[m].expires, zone[m])

\* The start of that day.
parseAccessEnd(date, z) == midnightOn(date, z)

-----------------------------------------------------------------------------

\* Taking up an invite whose end, when it has one, is still to come
\* (createInviteLink, and joinable when the link is opened).
createMembership(m, date, inviter) ==
    /\ access[m] = None
    /\ LET ends == IF date = None THEN None ELSE parseAccessEnd(date, inviter) IN
       /\ (ends # None => ends > now)
       /\ access' = [access EXCEPT ![m] = [created |-> now, expires |-> ends]]
    /\ UNCHANGED <<now, zone, shown>>

\* The dates a page rendered of these rows has.
Rendered(rows) ==
    [m \in Members |-> IF rows[m] # None /\ rows[m].expires # None
                       THEN DateOf(rows[m].expires, zone[m]) ELSE None]

\* GET /more/people.
showPeople(p) ==
    /\ shown' = [shown EXCEPT ![p] = Rendered(access)]
    /\ UNCHANGED <<now, zone, access>>

\* postedChanges: no date field, an empty one and the row's own date are left.
Posts(m, until) == until # None /\ m \in Limited /\ until # accessEndValue(m)

\* POST /more/people: the date of one row edited, the others as rendered; the
\* page is rendered again.
saveMembers(p, edited, date) ==
    LET until(m) == IF m = edited THEN date ELSE shown[p][m] IN
    /\ \A m \in Members : until(m) \in Dates0 \cup {None}
    /\ access' = [m \in Members |->
          IF access[m] # None /\ Posts(m, until(m))
          THEN [access[m] EXCEPT !.expires = parseAccessEnd(until(m), zone[m])] ELSE access[m]]
    /\ shown' = [shown EXCEPT ![p] = Rendered(access')]
    /\ UNCHANGED <<now, zone>>

removeMember(m) ==
    /\ access[m] # None
    /\ access' = [access EXCEPT ![m] = None]
    /\ UNCHANGED <<now, zone, shown>>

\* A member saves another timezone on their account.
SetTimezone(m, z) ==
    /\ zone' = [zone EXCEPT ![m] = z]
    /\ UNCHANGED <<now, access, shown>>

Tick == now < MaxTime /\ now' = now + 1 /\ UNCHANGED <<zone, access, shown>>

-----------------------------------------------------------------------------
(* The calendar.                                                           *)

\* Fault: the day the end falls on always counts.
LastDay_Whole(m) == DateOf(access[m].expires, zone[m])

\* An end at midnight takes the whole day; any other instant leaves it.
LastDay(m) ==
    LET ends == access[m].expires
        last == DateOf(ends, zone[m]) IN
    IF midnightOn(last, zone[m]) = ends THEN last - 1 ELSE last

\* sittings: the first and the last day marked, for those that have one.
Sitting(m) == [first |-> DateOf(access[m].created, zone[m]), last |-> LastDay(m)]
sittings == {m \in Limited : ~(Sitting(m).last < Sitting(m).first)}

covers(m, date) == m \in sittings /\ Sitting(m).first <= date /\ date <= Sitting(m).last

-----------------------------------------------------------------------------

Init ==
    /\ now = DayUnits
    /\ zone \in [Members -> Zones]
    /\ access = [m \in Members |-> None]
    /\ shown = [p \in Pages |-> [m \in Members |-> None]]

Next ==
    \/ Tick
    \/ \E m \in Members :
          \/ \E date \in Dates0 \cup {None}, z \in InviteZones : createMembership(m, date, z)
          \/ removeMember(m)
          \/ \E z \in Zones : SetTimezone(m, z)
    \/ \E p \in Pages :
          \/ showPeople(p)
          \/ \E m \in Members : \E date \in Dates0 \cup {shown[p][m]} : saveMembers(p, m, date)

Spec == Init /\ [][Next]_vars

-----------------------------------------------------------------------------

TypeOK ==
    /\ now \in 0 .. MaxTime /\ zone \in [Members -> Zones]
    /\ \A m \in Here : access[m].created \in 0 .. now
    /\ \A m \in Limited : \E z \in Zones \cup InviteZones :
          midnightOn(DateOf(access[m].expires, z), z) = access[m].expires
    /\ \A p \in Pages, m \in Members : shown[p][m] \in Int \cup {None}

HasAccess(m, date) ==
    \E t \in midnightOn(date, zone[m]) .. midnightOn(date + 1, zone[m]) - 1 :
        access[m].created <= t /\ t < access[m].expires

(* The days marked for a member are those on which the membership lets them *)
(* in, "from the one the membership was made on to the last one with any    *)
(* access" (sitting, calendar.go:235-236), in the member's own zone and     *)
(* whichever zone its end was set in; for a membership that let them in at  *)
(* all.                                                                     *)
MarksAccess ==
    \A m \in Limited : access[m].created < access[m].expires =>
        \A date \in -1 .. DateOf(MaxTime, 0) + 3 : covers(m, date) <=> HasAccess(m, date)
================================================================================
