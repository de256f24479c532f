---------------------------- MODULE ScheduleClock ----------------------------
(***************************************************************************)
(* One plant's schedule over time: the days pass, care is logged or        *)
(* skipped, perhaps backdated, and the schedule is saved again.  Every     *)
(* state is an input of Next, Resolve and InMonth, and the properties      *)
(* compare their answers with what the calendar itself says.               *)
(***************************************************************************)
EXTENDS Schedule

CONSTANTS
    Schedules,   \* what the editor may save, without setAt
    Agains,      \* the reminders a skip may ask for, in days
    FirstTime,   \* when the schedule is first saved
    Past,        \* bound on how far back care is dated
    MaxTime,     \* bound on the clock
    MaxSets      \* bound on how often the schedule is saved again

Days == 0 .. FirstDay[LastMonth] - 1

\* What the table accepts and the editor gives back: a rule, a season only on
\* a cadence, a month by its first day.
WellFormed(s) ==
    /\ s.count \in Nat /\ s.unit \in {"none", "day", "week", "month", "year"}
    /\ (s.count = 0) = (s.unit = "none")
    /\ s.anchor \in {None} \cup Days /\ s.precision \in {"day", "month"}
    /\ s.anchor # None \/ s.count > 0
    /\ s.season # NoSeason => s.anchor = None /\ s.season \in (1 .. Year) \X (1 .. Year)
    /\ s.precision = "month" => s.anchor # None /\ s.anchor = firstOfMonth(s.anchor)

\* The days behaviours get to, before the search for the next date, and the
\* counts of the rules.
Near == {dayOf(MaxTime)} \cup {s.anchor : s \in Schedules}
Counts == {1} \cup {s.count : s \in Schedules}

\* The calendar goes an interval and two years past them, and begins a year
\* before the clock.
CalendarReaches ==
    /\ \A d \in Near \ {None} :
          /\ \A n \in {WeekDays * c : c \in Counts} \cup Agains :
                d + n \in Days /\ MonthOf(d + n) + 2 * Year < LastMonth
          /\ \A c \in Counts : MonthOf(d) + Year * c + 2 * Year < LastMonth
    /\ MonthOf(dayOf(FirstTime)) >= Year

ScheduleClockAssumption ==
    /\ Agains \subseteq Nat \ {0}
    /\ MaxTime \in Nat /\ FirstTime \in 0 .. MaxTime /\ Past \in 0 .. FirstTime /\ MaxSets \in Nat
    /\ \A s \in Schedules : WellFormed(s)
    /\ CalendarReaches

VARIABLES now, sched, last, sets

vars == <<now, sched, last, sets>>

Saved(s, t) == [unit |-> s.unit, count |-> s.count, anchor |-> s.anchor,
                precision |-> s.precision, season |-> s.season, setAt |-> t]

Clock == now < MaxTime /\ now' = now + 1 /\ UNCHANGED <<sched, last, sets>>

\* ListLatestCareEvents returns the event with the latest performed_at.
Latest(e) == IF last # NoEvent /\ last.at > e.at THEN last ELSE e

Log(at) ==
    /\ last' = Latest([at |-> at, done |-> TRUE, again |-> None])
    /\ UNCHANGED <<now, sched, sets>>

Skip(at, days) ==
    /\ last' = Latest([at |-> at, done |-> FALSE, again |-> days])
    /\ UNCHANGED <<now, sched, sets>>

Rule == [unit |-> sched.unit, count |-> sched.count, anchor |-> sched.anchor,
         precision |-> sched.precision, season |-> sched.season]

\* The editor as it opens; a one-off that is done opens on the defaults.
scheduleDraftFor ==
    IF Line(sched, last, now).state = "spent" THEN newScheduleDraft(MonthOf(dayOf(now)))
    ELSE scheduleDraftOf(Rule, MonthOf(dayOf(now)))

\* saveSchedule, with the shape that is picked; every edit sets set_at.
SaveSchedule(picked) ==
    /\ sets < MaxSets
    /\ sets' = sets + 1
    /\ LET f == [scheduleDraftFor EXCEPT !.shape = picked] IN
          /\ Accepted(f)
          /\ sched' = Saved(params(f), now)
    /\ UNCHANGED <<now, last>>

Init ==
    /\ now = FirstTime
    /\ sched \in {Saved(s, FirstTime) : s \in Schedules}
    /\ last = NoEvent
    /\ sets = 0

Next ==
    \/ Clock
    \/ \E at \in FirstTime - Past .. now : Log(at) \/ \E days \in Agains : Skip(at, days)
    \/ \E picked \in {"cadence", "date", "once"} : SaveSchedule(picked)

Spec == Init /\ [][Next]_vars

-----------------------------------------------------------------------------

Today == dayOf(now)
Due == NextDue(sched, last, now)
TheLine == Line(sched, last, now)
Overridden == last # NoEvent /\ last.again # None
Since == dayOf(IF last = NoEvent THEN sched.setAt ELSE last.at)
\* The dates of an anchored schedule, from the calendar alone: those whose
\* distance from the anchor is a whole number of intervals, the day of the
\* month being the anchor's or the month's last.
Series ==
    LET months == IF sched.unit = "year" THEN Year * sched.count ELSE sched.count
        days == IF sched.unit = "week" THEN WeekDays * sched.count ELSE sched.count
        DayNo(d) == d - firstOfMonth(d)
    IN  IF sched.unit \in {"day", "week"}
        THEN {d \in Days : d >= sched.anchor /\ (d - sched.anchor) % days = 0}
        ELSE {d \in Days :
                /\ MonthOf(d) >= MonthOf(sched.anchor)
                /\ (MonthOf(d) - MonthOf(sched.anchor)) % months = 0
                /\ \/ DayNo(d) = DayNo(sched.anchor)
                   \/ DayNo(d) < DayNo(sched.anchor) /\ DayNo(d) = MonthDays(MonthOf(d)) - 1}

TypeOK ==
    /\ now \in FirstTime .. MaxTime
    /\ last = NoEvent \/ last.at \in FirstTime - Past .. now
    /\ sched.setAt \in FirstTime .. now
    /\ sched.count \in Nat /\ (sched.count = 0) = (sched.unit = "none")
    /\ Due = NoDue \/ Due.at \in Days
    /\ Due # NoDue /\ ~Overridden => Due.at > Since \/ sched.count = 0

(* An anchored schedule falls due on the first date of its series after the *)
(* day of the last care, whatever was missed and however far the search     *)
(* skips ahead (Next and firstStep, next.go:38, 145).                       *)
AnchoredIsLeast ==
    sched.anchor # None /\ sched.count > 0 /\ ~Overridden =>
        Due.at = Min({d \in Series : d > Since})

(* While the season is open, a cadence falls due on the first open day from *)
(* its own date or the season's opening on, whichever is later, and while   *)
(* it is closed on none (Next, next.go:43-47).                              *)
SeasonIsLeast ==
    sched.season # NoSeason =>
        LET open == {d \in Days : inSeason(MonthOf(d), sched.season)}
            opening == Max({d \in open : /\ d <= Today /\ d = firstOfMonth(d)
                                         /\ MonthNumber(MonthOf(d)) = sched.season[1]})
        IN  IF Today \notin open THEN Due = NoDue
            ELSE Due.at = Min({d \in open : d >= Max({shape(sched, last).at, opening})})

(* Today's page and the calendar agree on the current month: what is        *)
(* overdue is listed as overdue, what is due today is listed and is not,    *)
(* and the next date is the one Next returns (InMonth, month.go:26-31).     *)
CalendarAgrees ==
    \A due \in {Due}, state \in {TheLine.state} : due # NoDue =>
        LET month == MonthOf(Today)
            place == IF state = "upcoming" THEN due.at
                     ELSE IF due.precision = "month" THEN firstOfMonth(Today) ELSE Today
            first == [at |-> place, overdue |-> state = "overdue"]
        IN  \A dates \in {InMonth(sched, last, month, now)} :
                IF MonthOf(place) # month THEN dates = {}
                ELSE first \in dates /\ \A p \in dates : p.at >= place /\ (p.overdue => p = first)

(* A later month of the calendar lists exactly the dates of an anchored     *)
(* series in that month (following, month.go:81).                           *)
SeriesInMonth ==
    sched.anchor # None /\ sched.count > 0 /\ ~Overridden =>
        LET later == {d \in Series : d > Since} IN
        \A i \in MonthOf(Today) + 1 .. MonthOf(Today) + Year :
            {p.at : p \in InMonth(sched, last, i, now)} = {d \in later : MonthOf(d) = i}

(* "A month-precise occurrence is DueToday for the whole of its month"      *)
(* (State, today.go:22) and "overdue only once its month has ended", for a  *)
(* one-off and for a series that steps by months or years: those stay on    *)
(* the first of the month (state, today.go:102).                            *)
MonthsDueWhole ==
    sched.unit \notin {"day", "week"} /\ Due # NoDue /\ Due.precision = "month" =>
        TheLine.state = CASE MonthOf(Due.at) < MonthOf(Today) -> "overdue"
                          [] MonthOf(Due.at) = MonthOf(Today) -> "due today"
                          [] OTHER                            -> "upcoming"

(* What the editor saves the table accepts: a rule, and a season only on a  *)
(* cadence (care_schedule_season_bounds_a_cadence); and saving the editor   *)
(* as it opens keeps the rule (scheduleDraftOf and params,                  *)
(* schedule_field.go:157, 202).                                             *)
EditorKeepsRule ==
    /\ sched.anchor # None \/ sched.count > 0
    /\ sched.season # NoSeason => sched.anchor = None
    /\ params(scheduleDraftOf(Rule, MonthOf(Today))) = Rule

(* Care logged as done just now, after the schedule was saved, leaves       *)
(* nothing due: the plant does not come back to Today the same day          *)
(* (shape, next.go:84).                                                     *)
DoneIsNotDue ==
    last' = [at |-> now, done |-> TRUE, again |-> None] /\ UNCHANGED <<now, sched>> /\ now > sched.setAt
        => TheLine'.state \notin {"due today", "overdue"}
==============================================================================
