----------------------------- MODULE DigestClock -----------------------------
(***************************************************************************)
(* One member's digests under a clock, a timezone with a clock change and  *)
(* a punctual job: the calendar arithmetic of Hour, driven by the only     *)
(* inputs it has.  The member may move to another timezone at any time.    *)
(***************************************************************************)
EXTENDS Hour

CONSTANTS
    Hours,    \* the hours a member may choose for the digest
    MaxTicks  \* bound on the clock

ClockBounds == Hours \subseteq 0 .. DayHours - 1 /\ MaxTicks \in Nat

VARIABLES
    t,            \* the clock
    zone,         \* app_user.timezone
    hour,         \* membership.digest_hour
    sentThrough,  \* the latest digest key in the ledger
    moved         \* the timezone changed since the last digest

vars == <<t, zone, hour, sentThrough, moved>>

Key == nextDay(hour, zone, sentThrough, t)
At == nextDigest(hour, zone, sentThrough, t)

Init ==
    /\ t = DayTicks  \* so that no local day is negative
    /\ zone \in Zones
    /\ hour \in Hours
    /\ sentThrough = NoDay
    /\ moved = FALSE

\* The job sleeps to the next instant, so the clock does not pass a digest that
\* is due.
Tick ==
    /\ t < MaxTicks
    /\ At > t
    /\ t' = t + 1
    /\ UNCHANGED <<zone, hour, sentThrough, moved>>

SendDigest ==
    /\ At <= t
    /\ sentThrough' = Key
    /\ moved' = FALSE
    /\ UNCHANGED <<t, zone, hour>>

\* saveAccount
Move ==
    /\ zone' \in Zones \ {zone}
    /\ moved' = TRUE
    /\ UNCHANGED <<t, hour, sentThrough>>

Next == Tick \/ SendDigest \/ Move

Spec == Init /\ [][Next]_vars

-----------------------------------------------------------------------------
Days == 0 .. (MaxTicks + 2 * DayTicks) \div DayTicks

(* The two candidates and the search of instantOf find the first instant    *)
(* at which the local clock has reached hour:00 of the day: the earlier one *)
(* when the hour happens twice, the instant of the jump when it does not    *)
(* happen at all (instantOf, hour.go:19).                                   *)
InstantIsFirst ==
    \A day \in Days :
        LET at == instantOf(zone, day, hour)
        IN /\ at + Offset(zone, at) >= Wall(day, hour)
           /\ \A u \in at - 2 * DayTicks .. at - 1 : u + Offset(zone, u) < Wall(day, hour)

(* nextDigest stops at the earliest day after the last one sent, and not    *)
(* before today, whose hour is less than maxLate past (hour.go:76).         *)
NextDigestIsLeast ==
    LET open == {day \in Days : /\ day > sentThrough
                                /\ day >= LocalDay(zone, t)
                                /\ t - instantOf(zone, day, hour) < maxLate}
    IN open # {} => Key \in open /\ \A day \in open : Key <= day

(* A punctual job sends one digest for every local day: none is passed over *)
(* and none repeated on the days the clocks change.  Only a change of       *)
(* timezone can skip a day, and it never repeats one.                       *)
OneDigestADay ==
    sentThrough' # sentThrough /\ sentThrough # NoDay =>
        IF moved THEN sentThrough' > sentThrough ELSE sentThrough' = sentThrough + 1
=============================================================================
