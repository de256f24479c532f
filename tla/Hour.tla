-------------------------------- MODULE Hour --------------------------------
(***************************************************************************)
(* When a member's daily digest is due: internal/push/hour.go.             *)
(*                                                                         *)
(* Time is counted in ticks.  A zone is a pair of UTC offsets and the      *)
(* instant the clocks change from the first to the second; a zone without  *)
(* a clock change has the same offset twice.  A calendar day is the number *)
(* of local days since the epoch, as the code's ISO date keys sort.        *)
(***************************************************************************)
EXTENDS Integers, FiniteSets

CONSTANTS
    HourTicks,  \* ticks in an hour
    DayHours,   \* hours in a day
    Zones       \* the timezones an account may choose

DayTicks == DayHours * HourTicks

\* How far past its hour a digest may still be sent (hour.go:17).
maxLate == HourTicks

ASSUME HourAssumption ==
    /\ HourTicks \in Nat \ {0}
    /\ DayHours \in Nat \ {0}

Zone == [before : Int, at : Nat, after : Int]

\* No clock is a day or more from UTC, a clock change moves it by less than a
\* day, and clocks put back do not return to a date that has already ended.
ASSUME ZonesAssumption ==
    /\ Zones \subseteq Zone
    /\ \A z \in Zones :
        /\ {z.before, z.after} \subseteq 1 - DayTicks .. DayTicks - 1
        /\ z.before - z.after < DayTicks
        /\ z.after - z.before < DayTicks
        /\ (z.at + z.before - 1) \div DayTicks <= (z.at + z.after) \div DayTicks

\* The offset from UTC in force at instant t (time.Time.In and Zone).
Offset(z, t) == IF t < z.at THEN z.before ELSE z.after

\* The calendar day at instant t, and the wall-clock time an hour of a day is.
LocalDay(z, t) == (t + Offset(z, t)) \div DayTicks

Wall(day, hour) == day * DayTicks + hour * HourTicks

\* What the clock reads when it shows hour:00 on the day.
Reads(z, t, day, hour) == t + Offset(z, t) = Wall(day, hour)

\* The candidates: the wall time under each offset in force within a day of it.
Candidates(z, day, hour) ==
    LET wall == Wall(day, hour)
    IN {wall - Offset(z, probe) : probe \in {wall - DayTicks, wall, wall + DayTicks}}

Earliest(S) == CHOOSE t \in S : \A u \in S : t <= u
Latest(S) == CHOOSE t \in S : \A u \in S : u <= t

\* The instant a search between lo and hi narrows to: the first one after the
\* offset has become the one in force at hi.
OffsetChange(z, lo, hi) ==
    CHOOSE t \in lo + 1 .. hi :
        /\ Offset(z, t) = Offset(z, hi)
        /\ Offset(z, t - 1) # Offset(z, hi)

\* Fault: an hour that happens twice is taken the second time.
instantOf_Later(z, day, hour) ==
    LET candidates == Candidates(z, day, hour)
        valid == {t \in candidates : Reads(z, t, day, hour)}
    IN IF valid # {}
       THEN Latest(valid)
       ELSE OffsetChange(z, Earliest(candidates), Latest(candidates))

instantOf(z, day, hour) ==
    LET candidates == Candidates(z, day, hour)
        valid == {t \in candidates : Reads(z, t, day, hour)}
    IN IF valid # {}
       THEN Earliest(valid)
       ELSE OffsetChange(z, Earliest(candidates), Latest(candidates))

-----------------------------------------------------------------------------
\* The send key of a membership no digest has gone out for.
NoDay == -1

\* Fault: the search starts from today whatever has been sent.
FirstDay_Today(z, sentThrough, t) == LocalDay(z, t)

\* Fault: a digest sent today does not move the search on.
FirstDay_SameDay(z, sentThrough, t) ==
    IF sentThrough > LocalDay(z, t) THEN sentThrough + 1 ELSE LocalDay(z, t)

\* The day the search for the next digest starts from: today, or the day after
\* the last one sent when that is today or later.
FirstDay(z, sentThrough, t) ==
    IF sentThrough >= LocalDay(z, t) THEN sentThrough + 1 ELSE LocalDay(z, t)

\* The hour of the day is not maxLate or more in the past.
NotTooLate(z, day, hour, t) == t - instantOf(z, day, hour) < maxLate

\* How many days past the first the loop can go before it stops.
LookAhead == 2

\* The day of the next digest, which is its send key, and its instant.
nextDay(hour, z, sentThrough, t) ==
    LET first == FirstDay(z, sentThrough, t)
    IN CHOOSE day \in first .. first + LookAhead :
        /\ NotTooLate(z, day, hour, t)
        /\ \A earlier \in first .. day - 1 : ~NotTooLate(z, earlier, hour, t)

nextDigest(hour, z, sentThrough, t) ==
    instantOf(z, nextDay(hour, z, sentThrough, t), hour)
=============================================================================
