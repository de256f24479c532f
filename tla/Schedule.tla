------------------------------ MODULE Schedule ------------------------------
(***************************************************************************)
(* When a schedule falls due (internal/schedule).  The calendar is a       *)
(* parameter: the lengths of the months of each year of a cycle, and how   *)
(* many days a week has, so that month ends, leap years and seasons that   *)
(* wrap meet within a few days.  A day is a number; an instant is a part of *)
(* a day.  Months are numbered through the years from 0.                   *)
(*                                                                         *)
(* A schedule has count = 0 for a one-off and anchor = None for a cadence; *)
(* an event is [at, done, again], again = None without an override.        *)
(***************************************************************************)
EXTENDS Integers, Sequences, FiniteSets, FiniteSetsExt

CONSTANTS
    MonthLengths,   \* a cycle of years, each the lengths of its months
    WeekDays,       \* 7
    DayParts,       \* instants in a day
    LastMonth,      \* bound on the months the calendar goes to
    MaxSteps,       \* bound on the search of shape
    comingUpDays,
    FirstDay,       \* the day each month begins on
    MonthAt         \* the month each day is in

Year == Len(MonthLengths[1])   \* 12

None == -1
NoEvent == [at |-> None]
NoSeason == <<>>
NoDue == [at |-> None, precision |-> "day"]

-----------------------------------------------------------------------------
(* The calendar: time.Date, AddDate and Month.                             *)

MonthNumber(i) == (i % Year) + 1
MonthDays(i) == MonthLengths[((i \div Year) % Len(MonthLengths)) + 1][MonthNumber(i)]

ScheduleAssumption ==
    /\ MonthLengths \in Seq(Seq(Nat \ {0})) /\ MonthLengths # <<>> /\ Year > 0
    /\ \A y \in DOMAIN MonthLengths : Len(MonthLengths[y]) = Year
    /\ WeekDays \in Nat \ {0} /\ DayParts \in Nat \ {0}
    /\ LastMonth \in Nat /\ MaxSteps \in Nat \ {0} /\ comingUpDays \in Nat
    /\ FirstDay[0] = 0 /\ \A i \in 0 .. LastMonth : FirstDay[i + 1] = FirstDay[i] + MonthDays(i)
    /\ \A i \in 0 .. LastMonth, d \in 0 .. FirstDay[LastMonth + 1] - 1 :
          FirstDay[i] <= d /\ d < FirstDay[i + 1] => MonthAt[d] = i

MonthOf(d) == MonthAt[d]

dayOf(t) == t \div DayParts
firstOfMonth(d) == FirstDay[MonthOf(d)]
monthsBetween(from, to) == MonthOf(to) - MonthOf(from)

\* time.AddDate(0, n, 0): a day past the end of the month rolls into the next.
AddDate(d, n) == FirstDay[MonthOf(d) + n] + (d - firstOfMonth(d))

\* The day is clamped to the last of the target month.
addMonths(d, n) ==
    LET i == MonthOf(d) + n
    IN  FirstDay[i] + Min({d - firstOfMonth(d), MonthDays(i) - 1})

\* n intervals of count units after day d; the time of day stays.
advance(d, count, unit, n) ==
    CASE unit = "day"   -> d + count * n
      [] unit = "week"  -> d + WeekDays * count * n
      [] unit = "month" -> addMonths(d, count * n)
      [] unit = "year"  -> addMonths(d, Year * count * n)

-----------------------------------------------------------------------------
(* Seasons.                                                                *)

inSeason(i, season) ==
    IF season[1] <= season[2]
    THEN MonthNumber(i) >= season[1] /\ MonthNumber(i) <= season[2]
    ELSE MonthNumber(i) >= season[1] \/ MonthNumber(i) <= season[2]

\* The opening month in the year of month i.
OpeningIn(i, season) == i - (i % Year) + season[1] - 1

\* Fault: the opening of this year, which may be still to come.
lastOpening_ThisYear(d, season) == FirstDay[OpeningIn(MonthOf(d), season)]

lastOpening(d, season) ==
    LET i == OpeningIn(MonthOf(d), season)
    IN  FirstDay[IF FirstDay[i] > d THEN i - Year ELSE i]

nextOpening(d, season) ==
    LET i == OpeningIn(MonthOf(d), season)
    IN  FirstDay[IF FirstDay[i] > d THEN i ELSE i + Year]

inSeasonOrNextOpening(s, d) ==
    IF s.season = NoSeason \/ inSeason(MonthOf(d), s.season) THEN d ELSE nextOpening(d, s.season)

-----------------------------------------------------------------------------
(* Next.  Only the day of an occurrence is kept: every reader takes dayOf. *)

\* Fault: the search starts one step too far.
firstStep_Late(anchor, since, count, unit) ==
    LET elapsed == IF unit \in {"day", "week"} THEN since - anchor ELSE monthsBetween(anchor, since)
        per == CASE unit = "week" -> WeekDays * count
                 [] unit = "year" -> Year * count
                 [] OTHER         -> count
    IN  IF elapsed <= 0 THEN 0 ELSE (elapsed \div per) + 1

\* Where the search starts: every step before it falls before since.
firstStep(anchor, since, count, unit) ==
    LET elapsed == IF unit \in {"day", "week"} THEN since - anchor ELSE monthsBetween(anchor, since)
        per == CASE unit = "week" -> WeekDays * count
                 [] unit = "year" -> Year * count
                 [] OTHER         -> count
    IN  IF elapsed <= 0 THEN 0 ELSE elapsed \div per

\* The first step from firstStep on that falls after the day since.
anchoredAfter(s, since) ==
    LET from == firstStep(s.anchor, since, s.count, s.unit)
        At(k) == advance(s.anchor, s.count, s.unit, k)
    IN  At(CHOOSE k \in from .. from + MaxSteps : At(k) > since /\ \A j \in from .. k - 1 : At(j) <= since)

\* Fault: care does not complete a one-off.
completes_Never(s, last) == FALSE

\* Care given after the schedule was set completes a one-off; a skip does not.
completes(s, last) == last # NoEvent /\ last.done /\ last.at > s.setAt

\* The occurrence before the season is applied.
shape(s, last) ==
    LET since == dayOf(IF last = NoEvent THEN s.setAt ELSE last.at) IN
    CASE last # NoEvent /\ last.again # None ->
            [at |-> since + last.again, precision |-> "day"]
      [] (last = NoEvent \/ last.again = None) /\ s.anchor = None ->
            [at |-> advance(since, s.count, s.unit, 1), precision |-> "day"]
      [] (last = NoEvent \/ last.again = None) /\ s.anchor # None /\ s.count = 0 ->
            IF completes(s, last) THEN NoDue ELSE [at |-> s.anchor, precision |-> s.precision]
      [] OTHER ->
            [at |-> anchoredAfter(s, since), precision |-> s.precision]

\* NoDue when the schedule has nothing more to produce, or its season is closed.
NextDue(s, last, t) ==
    LET o == shape(s, last)
        today == dayOf(t) IN
    IF o = NoDue \/ s.season = NoSeason THEN o
    ELSE IF ~inSeason(MonthOf(today), s.season) THEN NoDue
    ELSE IF o.at < lastOpening(today, s.season) THEN [o EXCEPT !.at = lastOpening(today, s.season)]
    ELSE [o EXCEPT !.at = inSeasonOrNextOpening(s, @)]

-----------------------------------------------------------------------------
(* Resolve: a schedule against the reader's day.                           *)

\* Fault: a month is late after its first day.
StateOf_Daily(today, due, precision) ==
    CASE today < due -> "upcoming" [] today = due -> "due today" [] OTHER -> "overdue"

StateOf(today, due, precision) ==
    LET end == IF precision = "month" THEN AddDate(due, 1) ELSE due + 1
    IN  CASE today < due                  -> "upcoming"
          [] today >= due /\ today < end  -> "due today"
          [] OTHER                        -> "overdue"

Line(s, last, t) ==
    LET o == NextDue(s, last, t) IN
    IF o # NoDue
    THEN [state |-> StateOf(dayOf(t), o.at, o.precision), due |-> o.at, days |-> o.at - dayOf(t)]
    ELSE [state |-> IF s.season # NoSeason THEN "dormant" ELSE "spent", due |-> None, days |-> 0]

Rank(state) ==
    CASE state = "overdue" -> 0 [] state = "due today" -> 1 [] state = "upcoming" -> 2
      [] state = "dormant" -> 3 [] state = "spent" -> 4

\* How far off a line is; one due today sorts at zero.
soon(l) == IF l.state = "due today" THEN 0 ELSE l.days

ComingUp(l) == l.state = "upcoming" /\ l.days <= comingUpDays

\* compareLines(a, b) < 0.
Before(a, b) ==
    \/ Rank(a.state) < Rank(b.state)
    \/ Rank(a.state) = Rank(b.state) /\ soon(a) < soon(b)

\* The most pressing of a plant's lines, the earlier of two that are equal.
Nearest(lines) ==
    lines[CHOOSE i \in DOMAIN lines :
             /\ \A j \in DOMAIN lines : ~Before(lines[j], lines[i])
             /\ \A j \in 1 .. i - 1 : Before(lines[i], lines[j])]

-----------------------------------------------------------------------------
(* InMonth: the dates of a month.                                          *)

\* What fell due before the season opened is due as it opens.
Opened(s, at, today) ==
    IF s.season # NoSeason /\ inSeason(MonthOf(today), s.season) /\ at < lastOpening(today, s.season)
    THEN lastOpening(today, s.season) ELSE at

\* The date of what fell due on day at; what was due before day from is overdue.
Placed(s, at, from) ==
    LET day == Max({at, from})
        open == inSeasonOrNextOpening(s, day)
    IN  [at |-> open, overdue |-> at < from /\ open = day]

\* Fault: a month-precise care is overdue from the second day of its month.
FirstProjected_Daily(s, last, t) ==
    Placed(s, Opened(s, shape(s, last).at, dayOf(t)), dayOf(t))

\* The first date: what is overdue is listed today, or in the current month.
FirstProjected(s, last, t) ==
    LET o == shape(s, last)
    IN  Placed(s, Opened(s, o.at, dayOf(t)),
               IF o.precision = "month" THEN firstOfMonth(dayOf(t)) ELSE dayOf(t))

\* Fault: an anchored series counts from the date before.
following_Drifts(s, d) ==
    IF s.count = 0 THEN None
    ELSE inSeasonOrNextOpening(s, advance(d, s.count, s.unit, 1))

\* The date after care done on day d, or None for a one-off.
following(s, d) ==
    CASE s.count = 0                      -> None
      [] s.count # 0 /\ s.anchor = None   -> inSeasonOrNextOpening(s, advance(d, s.count, s.unit, 1))
      [] OTHER                            -> anchoredAfter(s, d)

\* The dates of month i in the series that starts with first.
DatesIn(s, first, i) ==
    LET end == FirstDay[i + 1]
        From[d \in -1 .. end] ==
            IF d = None \/ d >= end THEN {}
            ELSE {[at |-> d, overdue |-> d = first.at /\ first.overdue]}
                 \cup From[Min({end, following(s, d)})]
    IN  {p \in From[Min({end, first.at})] : p.at >= FirstDay[i]}

InMonth(s, last, i, t) ==
    IF shape(s, last) = NoDue THEN {} ELSE DatesIn(s, FirstProjected(s, last, t), i)

-----------------------------------------------------------------------------
(* The editor: a draft of a schedule, read from a stored one or from the   *)
(* form, and the schedule it saves.  The day and month of an anchor are    *)
(* picked apart; AnyDay asks for no day.                                   *)

AnyDay == 0

newScheduleDraft(month) ==
    [shape |-> "cadence", every |-> 1, unit |-> "week", seasonal |-> FALSE,
     season |-> <<1, 1>>, day |-> AnyDay, month |-> month]

\* Fault: a month-precise anchor is opened on its first day.
scheduleDraftOf_FirstDay(s, month) ==
    LET f == newScheduleDraft(month)
        anchored == s.anchor # None
    IN  [shape |-> IF ~anchored THEN "cadence" ELSE IF s.count = 0 THEN "once" ELSE "date",
         every |-> IF s.count # 0 THEN s.count ELSE f.every,
         unit |-> IF s.count # 0 THEN s.unit ELSE f.unit,
         seasonal |-> s.season # NoSeason,
         season |-> IF s.season # NoSeason THEN s.season ELSE f.season,
         day |-> IF anchored THEN s.anchor - firstOfMonth(s.anchor) + 1 ELSE f.day,
         month |-> IF anchored THEN MonthOf(s.anchor) ELSE f.month]

\* The editor opens on what is stored, and on the defaults for the rest.
scheduleDraftOf(s, month) ==
    LET f == newScheduleDraft(month)
        anchored == s.anchor # None
    IN  [shape |-> IF ~anchored THEN "cadence" ELSE IF s.count = 0 THEN "once" ELSE "date",
         every |-> IF s.count # 0 THEN s.count ELSE f.every,
         unit |-> IF s.count # 0 THEN s.unit ELSE f.unit,
         seasonal |-> s.season # NoSeason,
         season |-> IF s.season # NoSeason THEN s.season ELSE f.season,
         day |-> CASE ~anchored                              -> f.day
                   [] anchored /\ s.precision = "month"      -> AnyDay
                   [] OTHER                                  -> s.anchor - firstOfMonth(s.anchor) + 1,
         month |-> IF anchored THEN MonthOf(s.anchor) ELSE f.month]

\* "Invalid date." for a day the month does not have.
Accepted(f) == f.shape # "cadence" => f.day <= MonthDays(f.month)

\* Any day is stored as the first, with month precision.
params(f) ==
    LET anchored == f.shape # "cadence" IN
    [count |-> IF f.shape = "once" THEN 0 ELSE f.every,
     unit |-> IF f.shape = "once" THEN "none" ELSE f.unit,
     season |-> IF f.seasonal /\ ~anchored THEN f.season ELSE NoSeason,
     anchor |-> CASE ~anchored -> None
                  [] anchored /\ f.day = AnyDay -> FirstDay[f.month]
                  [] OTHER -> FirstDay[f.month] + f.day - 1,
     precision |-> IF anchored /\ f.day = AnyDay THEN "month" ELSE "day"]
==============================================================================
