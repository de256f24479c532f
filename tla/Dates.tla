--------------------------------- MODULE Dates ---------------------------------
(***************************************************************************)
(* Calendar dates and months as the pages read them from instants          *)
(* (internal/http/calendar.go).  An instant is a number of ticks, a zone   *)
(* the ticks its clock is ahead; dates and months are counted from one     *)
(* midnight, and every month has MonthDays days.                           *)
(***************************************************************************)
EXTENDS Integers

CONSTANTS
    DayUnits,    \* ticks in a day
    MonthDays    \* days in a month

DatesAssumption == DayUnits \in Nat \ {0} /\ MonthDays \in Nat \ {0}

\* The date of t on the zone's clock, t.In(zone).
DateOf(t, zone) == (t + zone) \div DayUnits

\* midnightOn: the instant the date begins in the zone.
midnightOn(date, zone) == date * DayUnits - zone

startOfMonth(date) == (date \div MonthDays) * MonthDays

\* AddDate(0, n, 0) of the first of a month.
AddMonths(first, n) == first + n * MonthDays
================================================================================
