----------------------------- MODULE MCSchedules -----------------------------
(***************************************************************************)
(* One plant's schedule over time and the readers of a garden's schedules, *)
(* side by side: part says which of the models a behaviour is of, and the  *)
(* variables of the others are Off.                                        *)
(*                                                                         *)
(* Years of three months and weeks of two days.  "schedule" and "editor"   *)
(* have a second year with a shorter second month, and their clock starts  *)
(* in it; "page" and "changes" have two plants, of which the first by name *)
(* is the second by room, and their clock starts with the second year.     *)
(***************************************************************************)
EXTENDS Integers, Sequences, SequencesExt, TLC

CONSTANT Off

VARIABLES
    part, now, sched,
    last, sets,                      \* ScheduleClock
    events, archived, off, changes   \* TodayPage

vars == <<part, now, sched, last, sets, events, archived, off, changes>>

None == -1
Months == 20

TwoYears == <<<<3, 2, 3>>, <<3, 1, 3>>>>
TwoYearsFirst[i \in 0 .. Months + 1] ==
    IF i = 0 THEN 0 ELSE TwoYearsFirst[i - 1] + TwoYears[(((i - 1) \div 3) % 2) + 1][((i - 1) % 3) + 1]
OneYear == <<<<3, 2, 3>>>>
OneYearFirst[i \in 0 .. Months + 1] ==
    IF i = 0 THEN 0 ELSE OneYearFirst[i - 1] + OneYear[1][((i - 1) % 3) + 1]

\* The month of each day.
MonthsOf(first) ==
    [d \in 0 .. first[Months + 1] - 1 |-> CHOOSE i \in 0 .. Months : first[i] <= d /\ d < first[i + 1]]
TwoYearsAt == MonthsOf(TwoYearsFirst)
OneYearAt == MonthsOf(OneYearFirst)

Shape(unit, count, anchor, precision, season) ==
    [unit |-> unit, count |-> count, anchor |-> anchor, precision |-> precision, season |-> season]

Units == {"day", "week", "month", "year"}
AnchorDays == 4 .. 14
FirstDays == {d \in AnchorDays : d = TwoYearsFirst[TwoYearsAt[d]]}
Cadences == {Shape(u, n, None, "day", s) : u \in Units, n \in 1 .. 2,
                s \in {<<>>, <<1, 1>>, <<1, 2>>, <<3, 1>>, <<3, 2>>}}
Anchored == {Shape(u, n, a, "day", <<>>) : u \in Units, n \in 1 .. 2, a \in AnchorDays}
Monthly == {Shape(u, n, a, "month", <<>>) : u \in {"month", "year"}, n \in 1 .. 2, a \in FirstDays}
OneOffs == {Shape("none", 0, a, "day", <<>>) : a \in AnchorDays}
    \cup {Shape("none", 0, a, "month", <<>>) : a \in FirstDays}
AllSchedules == Cadences \cup Anchored \cup Monthly \cup OneOffs
EditedSchedules ==
    {s \in OneOffs \cup Monthly : s.anchor >= 8} \cup {s \in Cadences : s.unit = "week" /\ s.count = 1}

PageSchedules == {
    Shape("day", 1, None, "day", <<>>), Shape("day", 3, None, "day", <<1, 2>>),
    Shape("month", 1, 8, "month", <<>>), Shape("none", 0, 12, "day", <<>>)}
ChangedSchedules == {Shape("day", 1, None, "day", <<>>), Shape("none", 0, 10, "day", <<>>)}

OneOrThree == {1, 3}
Four == {4}
OneTwo == {1, 2}
Rooms == <<1, 0>>
Listed == <<<<2, 1>>, <<2, 2>>, <<1, 1>>, <<1, 2>>>>

Sched == INSTANCE ScheduleClock WITH
    MonthLengths <- TwoYears, FirstDay <- TwoYearsFirst, MonthAt <- TwoYearsAt, LastMonth <- Months,
    WeekDays <- 2, DayParts <- 2, MaxSteps <- 4, comingUpDays <- 2, Agains <- OneOrThree,
    FirstTime <- 16, Past <- 2, Schedules <- AllSchedules, MaxTime <- 29, MaxSets <- 0
Editor == INSTANCE ScheduleClock WITH
    MonthLengths <- TwoYears, FirstDay <- TwoYearsFirst, MonthAt <- TwoYearsAt, LastMonth <- Months,
    WeekDays <- 2, DayParts <- 2, MaxSteps <- 4, comingUpDays <- 2, Agains <- OneOrThree,
    FirstTime <- 16, Past <- 2, Schedules <- EditedSchedules, MaxTime <- 21, MaxSets <- 1
Page == INSTANCE TodayPage WITH
    MonthLengths <- OneYear, FirstDay <- OneYearFirst, MonthAt <- OneYearAt, LastMonth <- Months,
    WeekDays <- 2, DayParts <- 1, MaxSteps <- 4, comingUpDays <- 2, Agains <- Four, FirstTime <- 8,
    Plants <- OneTwo, Cares <- OneTwo, Room <- Rooms, Listing <- Listed,
    Schedules <- PageSchedules, MaxTime <- 11, MaxEvents <- 1, MaxChanges <- 0
Changes == INSTANCE TodayPage WITH
    MonthLengths <- OneYear, FirstDay <- OneYearFirst, MonthAt <- OneYearAt, LastMonth <- Months,
    WeekDays <- 2, DayParts <- 1, MaxSteps <- 4, comingUpDays <- 2, Agains <- Four, FirstTime <- 8,
    Plants <- OneTwo, Cares <- OneTwo, Room <- Rooms, Listing <- Listed,
    Schedules <- ChangedSchedules, MaxTime <- 12, MaxEvents <- 1, MaxChanges <- 1

ASSUME Sched!ScheduleAssumption /\ Sched!ScheduleClockAssumption /\ Editor!ScheduleClockAssumption
ASSUME Page!ScheduleAssumption /\ Page!TodayPageAssumption /\ Changes!TodayPageAssumption

-----------------------------------------------------------------------------

NoClock == last = Off /\ sets = Off
NoPage == events = Off /\ archived = Off /\ off = Off /\ changes = Off

Init ==
    \/ part = "schedule" /\ Sched!Init /\ NoPage
    \/ part = "editor" /\ Editor!Init /\ NoPage
    \/ part = "page" /\ Page!Init /\ NoClock
    \/ part = "changes" /\ Changes!Init /\ NoClock

KeepClock == UNCHANGED <<last, sets>>
KeepPage == UNCHANGED <<events, archived, off, changes>>

Next ==
    /\ UNCHANGED part
    /\ \/ part = "schedule" /\ Sched!Next /\ KeepPage
       \/ part = "editor" /\ Editor!Next /\ KeepPage
       \/ part = "page" /\ Page!Next /\ KeepClock
       \/ part = "changes" /\ Changes!Next /\ KeepClock

Spec == Init /\ [][Next]_vars

-----------------------------------------------------------------------------
(* What holds of the whole, from the properties of the modules.             *)

(* The rows of each model have their types, and a stored rule is one its    *)
(* editor gives back: saved as it opens it stays the same, and what is due  *)
(* in a month is due for the whole of it (scheduleDraftOf, params, state).  *)
EditorKeepsRule ==
    /\ part = "schedule" => Sched!TypeOK
    /\ part = "editor" => Editor!EditorKeepsRule /\ Editor!MonthsDueWhole
    /\ part = "changes" => Changes!TypeOK

(* ScheduleClock: an anchored schedule falls due on the first date of its   *)
(* series after the last care, a cadence on the first open day of its       *)
(* season, worked out from the calendar alone (Next).                       *)
NextIsLeast == part = "schedule" => Sched!AnchoredIsLeast /\ Sched!SeasonIsLeast

(* ScheduleClock: Today's page and the calendar's month agree, and a later  *)
(* month lists the dates the series has in it (InMonth).                    *)
CalendarAgrees == part = "schedule" => Sched!CalendarAgrees /\ Sched!SeriesInMonth

(* ScheduleClock: care logged as done just now leaves nothing due (shape,   *)
(* Resolve).                                                                *)
DoneIsNotDue == [][part = "editor" => Editor!DoneIsNotDue]_vars

(* TodayPage: every care due within the week is in one list of Today; the   *)
(* API names the same cares, the digest counts them and the Plants page     *)
(* calls the same plants overdue; an empty page names the soonest (rows,    *)
(* caresOf, newChoresResponse, digestOf, mostOverdue).                      *)
ReadersAgree ==
    /\ part = "page" => Page!ListedOnce /\ Page!ChoresAgree /\ Page!NextIsSoonest /\ Page!StandingAgrees
    /\ part = "changes" => Changes!DigestAgrees /\ Changes!StandingAgrees
=============================================================================
