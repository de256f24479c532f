----------------------------- MODULE PagesProofs -----------------------------
(***************************************************************************)
(* The calendar, for every number of readers, notes, events and members,   *)
(* and every zone: what is on a page is on its own day there, and a member *)
(* is marked on the days they can come in on.  And a schedule, in every    *)
(* calendar: the day Next answers is the least the rule and the season     *)
(* allow after the last care.                                              *)
(***************************************************************************)
EXTENDS Calendar, Sequences, TLAPS, WellFoundedInduction

CONSTANTS
    Members, InviteZones, Pages,               \* of Sittings
    MonthLengths, WeekDays, DayParts, LastMonth, MaxSteps, comingUpDays, FirstDay, MonthAt,
    Schedules, Agains, FirstTime, Past, MaxSets   \* of ScheduleClock

VARIABLES
    access, shown,       \* of Sittings
    sched, last, sets    \* of ScheduleClock

Sit == INSTANCE Sittings
Sched == INSTANCE ScheduleClock

-----------------------------------------------------------------------------
(* Dates and instants.                                                     *)

(* Products with a positive number keep the order.                          *)
LEMMA TimesOrder ==
    ASSUME NEW n \in Nat \ {0}, NEW a \in Int, NEW b \in Int
    PROVE  a < b <=> a * n + n <= b * n
<1>1. \A x \in Nat, k \in Nat : k * x \in Nat OBVIOUS
<1>2. CASE a < b
  <2>1. (b - a - 1) * n \in Nat BY <1>1, <1>2
  <2>2. (b - a - 1) * n = b * n - a * n - n OBVIOUS
  <2>3. a * n \in Int /\ b * n \in Int OBVIOUS
  <2> QED BY <1>2, <2>1, <2>2, <2>3
<1>3. CASE ~ (a < b)
  <2>1. (a - b) * n \in Nat BY <1>1, <1>3
  <2>2. (a - b) * n = a * n - b * n OBVIOUS
  <2>3. a * n \in Int /\ b * n \in Int OBVIOUS
  <2> QED BY <1>3, <2>1, <2>2, <2>3
<1> QED BY <1>2, <1>3

(* A quotient is the number of whole parts.                                 *)
LEMMA QuotientIs ==
    ASSUME NEW n \in Nat \ {0}, NEW x \in Int
    PROVE  /\ x \div n \in Int
           /\ (x \div n) * n <= x /\ x < (x \div n) * n + n
           /\ x % n = x - (x \div n) * n
OBVIOUS

(* A date is before another if and only if the instant is before midnight.  *)
LEMMA DateIs ==
    ASSUME DatesAssumption, NEW t \in Int, NEW z \in Int, NEW date \in Int
    PROVE  /\ DateOf(t, z) \in Int /\ midnightOn(date, z) \in Int
           /\ DateOf(t, z) < date <=> t < midnightOn(date, z)
<1>1. PICK q \in Int : q = DateOf(t, z) /\ q * DayUnits <= t + z /\ t + z < q * DayUnits + DayUnits
  BY QuotientIs DEF DateOf, DatesAssumption
<1>2. q * DayUnits \in Int /\ date * DayUnits \in Int BY DEF DatesAssumption
<1>3. q < date <=> q * DayUnits + DayUnits <= date * DayUnits
  BY <1>1, TimesOrder DEF DatesAssumption
<1>4. date < q + 1 <=> date * DayUnits + DayUnits <= q * DayUnits + DayUnits
  <2>1. (q + 1) * DayUnits = q * DayUnits + DayUnits BY <1>1 DEF DatesAssumption
  <2> QED BY <1>1, <2>1, TimesOrder DEF DatesAssumption
<1> QED BY <1>1, <1>2, <1>3, <1>4 DEF midnightOn, DatesAssumption

(* Midnights are in the order of their dates.                               *)
LEMMA MidnightOrder ==
    ASSUME DatesAssumption, NEW a \in Int, NEW b \in Int, NEW z \in Int
    PROVE  a < b <=> midnightOn(a, z) < midnightOn(b, z)
<1>1. a < b <=> a * DayUnits + DayUnits <= b * DayUnits BY TimesOrder DEF DatesAssumption
<1>2. b < a + 1 <=> b * DayUnits + DayUnits <= a * DayUnits + DayUnits
  <2>1. (a + 1) * DayUnits = a * DayUnits + DayUnits BY DEF DatesAssumption
  <2> QED BY <2>1, TimesOrder DEF DatesAssumption
<1>3. a * DayUnits \in Int /\ b * DayUnits \in Int BY DEF DatesAssumption
<1> QED BY <1>1, <1>2, <1>3 DEF midnightOn, DatesAssumption

(* A date of a clock moves on with the instant and with the clock.          *)
LEMMA DateOrder ==
    ASSUME DatesAssumption, NEW t \in Int, NEW u \in Int, NEW y \in Int, NEW z \in Int,
           t + y <= u + z
    PROVE  DateOf(t, y) <= DateOf(u, z)
<1>1. PICK d \in Int : d = DateOf(u, z) /\ u < midnightOn(d + 1, z)
  <2>1. DateOf(u, z) \in Int BY DateIs
  <2> QED BY <2>1, DateIs
<1>2. t < midnightOn(d + 1, y)
  <2>1. (d + 1) * DayUnits \in Int BY DEF DatesAssumption
  <2> QED BY <1>1, <2>1 DEF midnightOn
<1>3. DateOf(t, y) \in Int /\ DateOf(t, y) < d + 1 BY <1>2, DateIs
<1> QED BY <1>1, <1>3

-----------------------------------------------------------------------------
(* Months.                                                                 *)

(* A date is in the month that begins on startOfMonth.                      *)
LEMMA MonthIs ==
    ASSUME DatesAssumption, NEW d \in Int
    PROVE  /\ startOfMonth(d) \in Int
           /\ startOfMonth(d) <= d /\ d < startOfMonth(d) + MonthDays
           /\ DayOfMonth(d) = d - startOfMonth(d) + 1
<1>1. d \div MonthDays \in Int /\ (d \div MonthDays) * MonthDays <= d
      /\ d < (d \div MonthDays) * MonthDays + MonthDays
      /\ d % MonthDays = d - (d \div MonthDays) * MonthDays
  BY QuotientIs DEF DatesAssumption
<1>2. (d \div MonthDays) * MonthDays \in Int BY <1>1 DEF DatesAssumption
<1> QED BY <1>1, <1>2 DEF startOfMonth, DayOfMonth

(* A date within MonthDays of the first of a month is in it.                *)
LEMMA MonthOf ==
    ASSUME DatesAssumption, NEW d \in Int, NEW k \in Int,
           k * MonthDays <= d, d < k * MonthDays + MonthDays
    PROVE  startOfMonth(d) = k * MonthDays
<1>1. PICK q \in Int : q = d \div MonthDays /\ q * MonthDays <= d /\ d < q * MonthDays + MonthDays
  BY QuotientIs DEF DatesAssumption
<1>2. q * MonthDays \in Int /\ k * MonthDays \in Int BY DEF DatesAssumption
<1>3. ~ (q < k)
  <2>1. q < k => q * MonthDays + MonthDays <= k * MonthDays BY TimesOrder DEF DatesAssumption
  <2> QED BY <1>1, <1>2, <2>1 DEF DatesAssumption
<1>4. ~ (k < q)
  <2>1. k < q => k * MonthDays + MonthDays <= q * MonthDays BY TimesOrder DEF DatesAssumption
  <2> QED BY <1>1, <1>2, <2>1 DEF DatesAssumption
<1>5. q = k BY <1>3, <1>4
<1> QED BY <1>1, <1>5 DEF startOfMonth

\* The firsts of the months.
Firsts == {d \in Int : startOfMonth(d) = d}

(* What begins a month, and begins one some months later.                   *)
LEMMA FirstsAre ==
    ASSUME DatesAssumption, NEW d \in Int, NEW n \in Int
    PROVE  startOfMonth(d) \in Firsts /\ AddMonths(startOfMonth(d), n) \in Firsts
<1>1. PICK q \in Int : q = d \div MonthDays BY QuotientIs DEF DatesAssumption
<1>2. q * MonthDays \in Int /\ (q + n) * MonthDays \in Int /\ n * MonthDays \in Int
      /\ (q + n) * MonthDays = q * MonthDays + n * MonthDays
  BY DEF DatesAssumption
<1>3. startOfMonth(q * MonthDays) = q * MonthDays
  BY <1>2, MonthOf DEF DatesAssumption
<1>4. startOfMonth((q + n) * MonthDays) = (q + n) * MonthDays
  <2>1. PICK k \in Int : k = q + n OBVIOUS
  <2>2. k * MonthDays \in Int BY DEF DatesAssumption
  <2>3. startOfMonth(k * MonthDays) = k * MonthDays BY <2>2, MonthOf DEF DatesAssumption
  <2> QED BY <2>1, <2>3
<1>5. startOfMonth(d) = q * MonthDays /\ AddMonths(startOfMonth(d), n) = (q + n) * MonthDays
  BY <1>1, <1>2 DEF startOfMonth, AddMonths
<1> QED BY <1>2, <1>3, <1>4, <1>5 DEF Firsts

(* The month a date is in, among the firsts.                                *)
LEMMA OneMonth ==
    ASSUME DatesAssumption, NEW m \in Firsts, NEW d \in Int
    PROVE  m <= d /\ d < m + MonthDays <=> startOfMonth(d) = m
<1>1. PICK k \in Int : m = k * MonthDays
  <2>1. m \in Int /\ m = (m \div MonthDays) * MonthDays BY DEF Firsts, startOfMonth
  <2>2. m \div MonthDays \in Int BY <2>1, QuotientIs DEF DatesAssumption
  <2> QED BY <2>1, <2>2
<1>2. k * MonthDays <= d /\ d < k * MonthDays + MonthDays => startOfMonth(d) = k * MonthDays
  BY MonthOf
<1> QED BY <1>1, <1>2, MonthIs

(* The month of a date is no later than a first that is not before it.      *)
LEMMA MonthOrder ==
    ASSUME DatesAssumption, NEW m \in Firsts, NEW d \in Int, d < m + MonthDays
    PROVE  startOfMonth(d) <= m
<1>1. m \in Int BY DEF Firsts
<1>2. CASE m <= d BY <1>2, OneMonth, <1>1
<1>3. CASE d < m BY <1>1, <1>3, MonthIs
<1> QED BY <1>1, <1>2, <1>3

(* The month of an instant moves on with the instant and with the clock.    *)
LEMMA InstantMonthOrder ==
    ASSUME DatesAssumption, NEW t \in Int, NEW u \in Int, NEW y \in Int, NEW z \in Int,
           t + y <= u + z
    PROVE  startOfMonth(DateOf(t, y)) <= startOfMonth(DateOf(u, z))
<1>1. PICK a \in Int, b \in Int : a = DateOf(t, y) /\ b = DateOf(u, z) /\ a <= b
  BY DateIs, DateOrder
<1>2. startOfMonth(b) \in Firsts /\ startOfMonth(b) \in Int /\ b < startOfMonth(b) + MonthDays
  BY MonthIs, FirstsAre
<1>3. a < startOfMonth(b) + MonthDays BY <1>1, <1>2 DEF DatesAssumption
<1> QED BY <1>1, <1>2, <1>3, MonthOrder

-----------------------------------------------------------------------------
(* The pages of the calendar.                                              *)

(* The months a reader may turn to.                                         *)
LEMMA MonthsAre ==
    ASSUME CalendarAssumption, now \in Int, NEW z \in Int
    PROVE  /\ lastCalendarMonth(z) \in Firsts
           /\ Months(z) \subseteq Firsts
           /\ \A m \in Months(z) : m <= lastCalendarMonth(z)
           /\ \A date \in Dates0 :
                 startOfMonth(date) <= lastCalendarMonth(z) => startOfMonth(date) \in Months(z)
<1>1. DatesAssumption /\ CalendarMonths \in Nat BY DEF CalendarAssumption
<1>2. PICK today \in Int : today = DateOf(now, z) BY <1>1, DateIs
<1>3. startOfMonth(today) \in Firsts /\ lastCalendarMonth(z) \in Firsts
  BY <1>1, <1>2, FirstsAre DEF lastCalendarMonth
<1>4. startOfMonth(today) <= lastCalendarMonth(z)
  <2>1. CalendarMonths * MonthDays \in Nat BY <1>1 DEF DatesAssumption
  <2>2. startOfMonth(today) \in Int BY <1>3 DEF Firsts
  <2> QED BY <1>2, <2>1, <2>2 DEF lastCalendarMonth, AddMonths
<1>5. Dates0 \subseteq Int BY DEF Dates0
<1>6. ASSUME NEW date \in Dates0
      PROVE  /\ parseCalendarQuery(startOfMonth(date), z) \in Firsts
             /\ parseCalendarQuery(startOfMonth(date), z) <= lastCalendarMonth(z)
  BY <1>1, <1>2, <1>3, <1>4, <1>5, FirstsAre DEF parseCalendarQuery
<1>7. ASSUME NEW date \in Dates0, startOfMonth(date) <= lastCalendarMonth(z)
      PROVE  startOfMonth(date) \in Months(z)
  BY <1>7 DEF Months, parseCalendarQuery
<1> QED BY <1>3, <1>6, <1>7 DEF Months

(* The last day a note may begin on ends a month, and is later for a clock  *)
(* that is ahead.                                                           *)
LEMMA NoteDays ==
    ASSUME CalendarAssumption, now \in Int, NEW y \in Int, NEW z \in Int
    PROVE  /\ lastNoteDay(z) \in Int
           /\ lastNoteDay(z) = lastCalendarMonth(z) + MonthDays - 1
           /\ y <= z => lastNoteDay(y) <= lastNoteDay(z)
<1>1. DatesAssumption /\ CalendarMonths \in Nat BY DEF CalendarAssumption
<1>2. PICK a \in Int, b \in Int : a = DateOf(now, z) /\ b = DateOf(now, y) BY <1>1, DateIs
<1>3. startOfMonth(a) \in Int /\ startOfMonth(b) \in Int BY <1>1, MonthIs
<1>4. y <= z => startOfMonth(b) <= startOfMonth(a) BY <1>1, <1>2, InstantMonthOrder
<1>5. CalendarMonths * MonthDays \in Int /\ 1 * MonthDays = MonthDays /\ MonthDays \in Int
  BY <1>1 DEF DatesAssumption
<1> QED BY <1>2, <1>3, <1>4, <1>5 DEF lastNoteDay, lastCalendarMonth, AddMonths

(* It moves on with the clock.                                              *)
LEMMA LastNoteDayOrder ==
    ASSUME CalendarAssumption, now \in Int, now' \in Int, now <= now', NEW z \in Int
    PROVE  lastNoteDay(z)' \in Int /\ lastNoteDay(z) <= lastNoteDay(z)'
<1>1. DatesAssumption /\ CalendarMonths \in Nat BY DEF CalendarAssumption
<1>2. PICK a \in Int, b \in Int : a = DateOf(now, z) /\ b = DateOf(now', z) BY <1>1, DateIs
<1>3. startOfMonth(a) \in Int /\ startOfMonth(b) \in Int BY <1>1, MonthIs
<1>4. startOfMonth(a) <= startOfMonth(b) BY <1>1, <1>2, InstantMonthOrder
<1>5. CalendarMonths * MonthDays \in Int /\ 1 * MonthDays = MonthDays /\ MonthDays \in Int
  BY <1>1 DEF DatesAssumption
<1> QED BY <1>2, <1>3, <1>4, <1>5 DEF lastNoteDay, lastCalendarMonth, AddMonths

-----------------------------------------------------------------------------
(* Notes and logged care: the inductive invariant.                         *)

NoteRec == [first : Dates0, last : Dates0, zone : Zones]

\* A note began, when it was saved, on a day its writer's calendar had.
NoteOK(x) == x \in NoteRec /\ x.first <= x.last /\ x.first <= lastNoteDay(x.zone)

Inv ==
    /\ now \in 0 .. MaxTime /\ zone \in [Readers -> Zones]
    /\ DOMAIN note = Notes /\ \A n \in Kept : NoteOK(note[n])
    /\ DOMAIN event = Events /\ \A e \in Logged : event[e] \in DayUnits .. now

(* The constants are numbers.                                               *)
LEMMA Numbers ==
    ASSUME CalendarAssumption
    PROVE  /\ DatesAssumption /\ CalendarMonths \in Nat /\ MaxTime \in Nat
           /\ Zones \subseteq Int /\ \A z \in Zones : -DayUnits <= z /\ z <= DayUnits
           /\ Dates0 \subseteq Nat /\ None \notin Int /\ DayUnits <= MaxTime
<1>1. DatesAssumption /\ CalendarMonths \in Nat /\ MaxTime \in Nat BY DEF CalendarAssumption
<1>2. DayUnits \in Nat /\ MonthDays \in Nat BY <1>1 DEF DatesAssumption
<1>3. Zones \subseteq Int /\ \A z \in Zones : -DayUnits <= z /\ z <= DayUnits
  BY <1>2 DEF CalendarAssumption
<1>4. Dates0 \subseteq Nat BY DEF Dates0
<1>5. DayUnits <= MaxTime
  <2>1. DayUnits <= MonthDays * DayUnits
    <3>1. (MonthDays - 1) * DayUnits \in Nat BY <1>1 DEF DatesAssumption
    <3>2. (MonthDays - 1) * DayUnits = MonthDays * DayUnits - DayUnits BY <1>2
    <3>3. MonthDays * DayUnits \in Int BY <1>2
    <3> QED BY <1>2, <3>1, <3>2, <3>3
  <2>2. MonthDays * DayUnits \in Int BY <1>2
  <2> QED BY <1>1, <1>2, <2>1, <2>2 DEF CalendarAssumption
<1> QED BY <1>1, <1>3, <1>4, <1>5 DEF CalendarAssumption

(* The first state.                                                         *)
LEMMA CalendarInit == ASSUME CalendarAssumption, Init PROVE Inv
<1>1. now \in 0 .. MaxTime
  <2>1. MonthDays * DayUnits \in Nat BY Numbers DEF DatesAssumption
  <2> QED BY <2>1 DEF Init, CalendarAssumption
<1>2. Kept = {} /\ Logged = {} BY DEF Init, Kept, Logged
<1> QED BY <1>1, <1>2 DEF Init, Inv

(* What the fields of the sheet are read as.                                *)
LEMMA DaysAre ==
    ASSUME CalendarAssumption, Inv, NEW fields \in Fields, NEW r \in Readers,
           days(fields, zone[r]) # None
    PROVE  NoteOK(days(fields, zone[r]))
<1>1. PICK z \in Zones : z = zone[r] BY DEF Inv
<1>2. PICK until : until = IF fields.last = None THEN fields.first ELSE fields.last OBVIOUS
<1>3. fields.first \in Dates0 /\ until \in Dates0 BY <1>2 DEF Fields
<1>4. /\ fields.first <= lastNoteDay(z) /\ fields.first <= until
      /\ days(fields, z) = [first |-> fields.first, last |-> until, zone |-> z]
  BY <1>1, <1>2 DEF days
<1> QED BY <1>1, <1>3, <1>4 DEF NoteOK, NoteRec

(* Every action keeps it.                                                   *)
LEMMA CalendarNext == ASSUME CalendarAssumption, Inv, [Next]_vars PROVE Inv'
<1> USE DEF Inv
<1>1. CASE Tick
  <2>1. now' \in 0 .. MaxTime /\ now <= now' /\ now \in Int /\ now' \in Int BY <1>1, Numbers DEF Tick
  <2>2. UNCHANGED <<zone, note, event>> BY <1>1 DEF Tick
  <2>3. ASSUME NEW n \in Kept' PROVE NoteOK(note[n])'
    <3>1. n \in Kept BY <2>2 DEF Kept
    <3>2. NoteOK(note[n]) BY <3>1
    <3>3. note[n].first \in Int /\ note[n].zone \in Int BY <3>2, Numbers DEF NoteOK, NoteRec
    <3>4. lastNoteDay(note[n].zone) <= lastNoteDay(note[n].zone)'
      BY <2>1, <2>2, <3>3, LastNoteDayOrder
    <3>5. lastNoteDay(note[n].zone) \in Int /\ lastNoteDay(note[n].zone)' \in Int
      <4>1. PICK z \in Int : z = note[n].zone BY <3>3
      <4>2. lastNoteDay(z) \in Int /\ lastNoteDay(z)' \in Int
        BY <2>1, NoteDays, LastNoteDayOrder
      <4> QED BY <2>2, <4>1, <4>2
    <3> QED BY <2>2, <3>2, <3>3, <3>4, <3>5 DEF NoteOK, NoteRec
  <2>4. \A e \in Logged' : event'[e] \in DayUnits .. now'
    BY <2>1, <2>2, Numbers DEF Logged, DatesAssumption
  <2> QED BY <2>1, <2>2, <2>3, <2>4
<1>2. ASSUME NEW r \in Readers, NEW z \in Zones, SetTimezone(r, z) PROVE Inv'
  <2>1. zone' \in [Readers -> Zones] BY <1>2 DEF SetTimezone
  <2>2. UNCHANGED <<now, note, event>> BY <1>2 DEF SetTimezone
  <2> QED BY <2>1, <2>2 DEF Kept, Logged, NoteOK, NoteRec, lastNoteDay, lastCalendarMonth
<1>3. ASSUME NEW r \in Readers, NEW n \in Notes, NEW fields \in Fields,
             createNote(r, n, fields) \/ saveNote(r, n, fields)
      PROVE  Inv'
  <2>1. PICK x : x = days(fields, zone[r]) OBVIOUS
  <2>2. /\ note' = [note EXCEPT ![n] = x] /\ x # None
        /\ UNCHANGED <<now, zone, event>>
    BY <1>3, <2>1 DEF createNote, saveNote
  <2>3. NoteOK(x) BY <2>1, <2>2, DaysAre
  <2>4. \A m \in Kept' : NoteOK(note'[m]) BY <2>2, <2>3 DEF Kept
  <2>5. \A y : NoteOK(y)' <=> NoteOK(y)
    BY <2>2 DEF NoteOK, NoteRec, lastNoteDay, lastCalendarMonth
  <2> QED BY <2>2, <2>4, <2>5 DEF Logged
<1>4. ASSUME NEW n \in Notes, deleteNote(n) PROVE Inv'
  <2>1. note' = [note EXCEPT ![n] = None] /\ UNCHANGED <<now, zone, event>> BY <1>4 DEF deleteNote
  <2>2. \A m \in Kept' : m \in Kept /\ note'[m] = note[m] BY <2>1 DEF Kept
  <2>3. \A y : NoteOK(y)' <=> NoteOK(y)
    BY <2>1 DEF NoteOK, NoteRec, lastNoteDay, lastCalendarMonth
  <2> QED BY <2>1, <2>2, <2>3 DEF Logged
<1>5. ASSUME NEW e \in Events, UndoCare(e) \/ \E at \in DayUnits .. now : LogCare(e, at) PROVE Inv'
  <2>1. PICK x : event' = [event EXCEPT ![e] = x] /\ (x = None \/ x \in DayUnits .. now)
    BY <1>5 DEF UndoCare, LogCare
  <2>2. UNCHANGED <<now, zone, note>> BY <1>5 DEF UndoCare, LogCare
  <2>3. \A f \in Logged' : event'[f] \in DayUnits .. now BY <2>1 DEF Logged
  <2> QED BY <2>1, <2>2, <2>3 DEF Kept, NoteOK, NoteRec, lastNoteDay, lastCalendarMonth
<1>6. CASE UNCHANGED vars
  BY <1>6 DEF vars, Kept, Logged, NoteOK, NoteRec, lastNoteDay, lastCalendarMonth
<1> QED BY <1>1, <1>2, <1>3, <1>4, <1>5, <1>6 DEF Next

(* The cell of a date of the calendar, on the page of its month.            *)
LEMMA CellOf ==
    ASSUME CalendarAssumption, now \in Int, NEW z \in Int, NEW date \in Dates0,
           startOfMonth(date) <= lastCalendarMonth(z)
    PROVE  /\ <<startOfMonth(date), DayOfMonth(date)>> \in Cells(z)
           /\ startOfMonth(date) + DayOfMonth(date) - 1 = date
<1>1. startOfMonth(date) \in Months(z) BY MonthsAre
<1>2. date \in Int BY Numbers
<1>3. /\ startOfMonth(date) \in Int /\ startOfMonth(date) <= date
      /\ date < startOfMonth(date) + MonthDays /\ DayOfMonth(date) = date - startOfMonth(date) + 1
  BY <1>2, Numbers, MonthIs
<1>4. DayOfMonth(date) \in 1 .. MonthDays BY <1>2, <1>3, Numbers DEF DatesAssumption
<1> QED BY <1>1, <1>2, <1>3, <1>4 DEF Cells

(* The date of what was logged is one of the dates, in a month that has     *)
(* come.                                                                    *)
LEMMA EventDate ==
    ASSUME CalendarAssumption, Inv, NEW e \in Logged, NEW z \in Zones
    PROVE  /\ event[e] \in Int /\ DateOf(event[e], z) \in Dates0
           /\ startOfMonth(DateOf(event[e], z)) <= lastCalendarMonth(z)
<1>1. /\ z \in Int /\ -DayUnits <= z /\ z <= DayUnits /\ DayUnits \in Nat /\ MaxTime \in Nat
      /\ MonthDays \in Nat \ {0} /\ CalendarMonths \in Nat /\ DatesAssumption
  BY Numbers DEF DatesAssumption
<1>2. event[e] \in DayUnits .. now /\ now \in 0 .. MaxTime BY DEF Inv
<1>3. event[e] \in Int /\ DayUnits <= event[e] /\ event[e] <= now /\ now <= MaxTime /\ now \in Int
  BY <1>1, <1>2
<1>4. PICK d \in Int : d = DateOf(event[e], z) BY <1>1, <1>3, DateIs
<1>5. 0 <= d
  <2>1. midnightOn(0, z) = 0 - z BY <1>1 DEF midnightOn
  <2>2. ~ (event[e] < midnightOn(0, z)) BY <1>1, <1>3, <2>1
  <2>3. d < 0 <=> event[e] < midnightOn(0, z)
    <3>1. PICK k \in Int : k = 0 OBVIOUS
    <3>2. DateOf(event[e], z) < k <=> event[e] < midnightOn(k, z) BY <1>1, <1>3, DateIs
    <3> QED BY <1>4, <3>1, <3>2
  <2> QED BY <2>2, <2>3
<1>6. PICK w \in Int : w = DateOf(MaxTime, 0) BY <1>1, DateIs
<1>7. d <= w + 1
  <2>1. MaxTime < midnightOn(w + 1, 0) BY <1>1, <1>6, DateIs
  <2>2. midnightOn(w + 2, 0) = midnightOn(w + 1, 0) + DayUnits /\ midnightOn(w + 1, 0) \in Int
    BY <1>1 DEF midnightOn
  <2>3. midnightOn(w + 2, z) = midnightOn(w + 2, 0) - z
    <3>1. (w + 2) * DayUnits \in Int BY <1>1
    <3> QED BY <1>1, <3>1 DEF midnightOn
  <2>4. event[e] < midnightOn(w + 2, z) BY <1>1, <1>3, <2>1, <2>2, <2>3
  <2>5. d < w + 2
    <3>1. PICK k \in Int : k = w + 2 OBVIOUS
    <3>2. DateOf(event[e], z) < k <=> event[e] < midnightOn(k, z) BY <1>1, <1>3, DateIs
    <3> QED BY <1>4, <2>4, <3>1, <3>2
  <2> QED BY <2>5
<1>8. d <= AddMonths(startOfMonth(w), CalendarMonths + 2) - 1
  <2>1. startOfMonth(w) \in Int /\ w < startOfMonth(w) + MonthDays BY <1>1, MonthIs
  <2>2. /\ CalendarMonths * MonthDays \in Nat
        /\ (CalendarMonths + 2) * MonthDays = CalendarMonths * MonthDays + 2 * MonthDays
    BY <1>1
  <2> QED BY <1>1, <1>7, <2>1, <2>2 DEF AddMonths
<1>9. d \in Dates0
  <2>1. AddMonths(startOfMonth(w), CalendarMonths + 2) - 1 \in Int
    <3>1. startOfMonth(w) \in Int BY <1>1, MonthIs
    <3>2. (CalendarMonths + 2) * MonthDays \in Int BY <1>1
    <3> QED BY <3>1, <3>2 DEF AddMonths
  <2> QED BY <1>5, <1>6, <1>8, <2>1 DEF Dates0
<1>10. startOfMonth(d) <= lastCalendarMonth(z)
  <2>1. startOfMonth(d) <= startOfMonth(DateOf(now, z))
    BY <1>1, <1>3, <1>4, InstantMonthOrder
  <2>2. startOfMonth(DateOf(now, z)) \in Int /\ startOfMonth(d) \in Int
    <3>1. DateOf(now, z) \in Int BY <1>1, <1>3, DateIs
    <3> QED BY <1>1, <3>1, MonthIs
  <2>3. CalendarMonths * MonthDays \in Nat BY <1>1
  <2> QED BY <2>1, <2>2, <2>3 DEF lastCalendarMonth, AddMonths
<1> QED BY <1>3, <1>4, <1>9, <1>10

(* What was logged is in the cell of its date alone.                        *)
LEMMA EventsHold == ASSUME CalendarAssumption, Inv PROVE EventOnItsDay
<1> SUFFICES
      ASSUME NEW e \in Logged, NEW r \in Readers
      PROVE  {c \in Cells(zone[r]) : e \in LoggedOn(c[1], c[2], zone[r])}
               = {<<startOfMonth(DateOf(event[e], zone[r])), DayOfMonth(DateOf(event[e], zone[r]))>>}
  BY DEF EventOnItsDay
<1>1. PICK z \in Zones : z = zone[r] BY DEF Inv
<1>2. z \in Int /\ DatesAssumption /\ MonthDays \in Int /\ now \in Int
  BY Numbers DEF DatesAssumption, Inv
<1>3. PICK date \in Dates0 : date = DateOf(event[e], z) BY EventDate
<1>4. event[e] \in Int /\ startOfMonth(date) <= lastCalendarMonth(z) BY <1>3, EventDate
<1>5. date \in Int BY Numbers
<1>6. <<startOfMonth(date), DayOfMonth(date)>> \in Cells(z) BY <1>2, <1>4, CellOf
<1>7. ASSUME NEW m \in Firsts, NEW d
      PROVE  e \in LoggedOn(m, d, z) <=> startOfMonth(date) = m /\ DayOfMonth(date) = d
  <2>1. m \in Int /\ AddMonths(m, 1) = m + MonthDays /\ m + MonthDays \in Int
    BY <1>2 DEF Firsts, AddMonths
  <2>2. midnightOn(m, z) <= event[e] <=> m <= date
    <3>1. date < m <=> event[e] < midnightOn(m, z) BY <1>2, <1>3, <1>4, <2>1, DateIs
    <3>2. midnightOn(m, z) \in Int BY <1>2, <1>4, <2>1, DateIs
    <3> QED BY <1>4, <1>5, <2>1, <3>1, <3>2
  <2>3. event[e] < midnightOn(AddMonths(m, 1), z) <=> date < m + MonthDays
    BY <1>2, <1>3, <1>4, <2>1, DateIs
  <2>4. m <= date /\ date < m + MonthDays <=> startOfMonth(date) = m BY <1>2, <1>5, OneMonth
  <2> QED BY <1>3, <2>2, <2>3, <2>4 DEF LoggedOn, ListCareEventsBetween
<1>8. \A c \in Cells(z) : c[1] \in Firsts /\ c = <<c[1], c[2]>>
  BY <1>2, MonthsAre DEF Cells
<1>9. \A c \in Cells(z) :
          e \in LoggedOn(c[1], c[2], z) <=> c = <<startOfMonth(date), DayOfMonth(date)>>
  BY <1>7, <1>8
<1> QED BY <1>1, <1>3, <1>6, <1>9

(* A note is in the cells of its days alone.                                *)
LEMMA NoteCell ==
    ASSUME CalendarAssumption, Inv, NEW n \in Kept, NEW z \in Int, NEW c \in Cells(z)
    PROVE  n \in NotesOn(c[1], c[2], z) <=> c[1] + c[2] - 1 \in note[n].first .. note[n].last
<1>2. PICK m \in Int, d \in 1 .. MonthDays : c[1] = m /\ c[2] = d
  <2>1. Months(z) \subseteq Int BY MonthsAre DEF Firsts, Inv
  <2> QED BY <2>1 DEF Cells
<1>3. note[n].first \in Int /\ note[n].last \in Int BY Numbers DEF Inv, NoteOK, NoteRec
<1>4. DatesAssumption /\ MonthDays \in Nat /\ d \in Int BY <1>2, Numbers DEF DatesAssumption
<1>5. covers(n, m + d - 1, z) <=> note[n].first <= m + d - 1 /\ m + d - 1 <= note[n].last
  <2>1. PICK date \in Int : date = m + d - 1 BY <1>4
  <2>2. date < note[n].first <=> midnightOn(date, z) < midnightOn(note[n].first, z)
    BY <1>3, <1>4, MidnightOrder
  <2>3. note[n].last < date <=> midnightOn(note[n].last, z) < midnightOn(date, z)
    BY <1>3, <1>4, MidnightOrder
  <2>4. /\ midnightOn(date, z) \in Int /\ midnightOn(note[n].first, z) \in Int
        /\ midnightOn(note[n].last, z) \in Int
    BY <1>3, <1>4, DateIs
  <2> QED BY <1>3, <2>1, <2>2, <2>3, <2>4 DEF covers
<1>6. AddMonths(m, 1) - 1 = m + MonthDays - 1 BY <1>2, <1>4 DEF AddMonths
<1> QED BY <1>2, <1>3, <1>4, <1>5, <1>6 DEF NotesOn, ListCalendarNotesBetween

LEMMA NotesHold == ASSUME CalendarAssumption, Inv PROVE NoteOnItsDays
<1>1. \A r \in Readers : zone[r] \in Int BY Numbers DEF Inv
<1> QED BY <1>1, NoteCell DEF NoteOnItsDays

(* A note that was saved is on the page of the month of its first day.      *)
LEMMA NotesReached == ASSUME CalendarAssumption, Inv PROVE NoteReachable
<1> SUFFICES
      ASSUME NEW n \in Kept, NEW z \in Zones, z >= note[n].zone
      PROVE  \E c \in Cells(z) : n \in NotesOn(c[1], c[2], z)
  BY DEF NoteReachable
<1>1. NoteOK(note[n]) /\ now \in Int BY DEF Inv
<1>2. /\ note[n].first \in Dates0 /\ note[n].last \in Int /\ note[n].first <= note[n].last
      /\ note[n].zone \in Int /\ note[n].first \in Int /\ z \in Int
  BY <1>1, Numbers DEF NoteOK, NoteRec
<1>3. PICK first \in Dates0 : first = note[n].first BY <1>2
<1>4. first <= lastCalendarMonth(z) + MonthDays - 1
  <2>1. first <= lastNoteDay(note[n].zone) BY <1>1, <1>3 DEF NoteOK
  <2>2. /\ lastNoteDay(note[n].zone) \in Int /\ lastNoteDay(note[n].zone) <= lastNoteDay(z)
        /\ lastNoteDay(z) \in Int /\ lastNoteDay(z) = lastCalendarMonth(z) + MonthDays - 1
    <3>1. PICK y \in Int : y = note[n].zone BY <1>2
    <3>2. y <= z BY <1>2, <3>1
    <3>3. lastNoteDay(y) \in Int /\ lastNoteDay(z) \in Int /\ lastNoteDay(y) <= lastNoteDay(z)
          /\ lastNoteDay(z) = lastCalendarMonth(z) + MonthDays - 1
      BY <1>1, <1>2, <3>2, NoteDays
    <3> QED BY <3>1, <3>3
  <2> QED BY <1>2, <1>3, <2>1, <2>2
<1>5. startOfMonth(first) <= lastCalendarMonth(z)
  <2>1. lastCalendarMonth(z) \in Firsts /\ lastCalendarMonth(z) \in Int
    BY <1>1, <1>2, MonthsAre DEF Firsts
  <2>2. first < lastCalendarMonth(z) + MonthDays
    BY <1>2, <1>3, <1>4, <2>1, Numbers DEF DatesAssumption
  <2> QED BY <1>2, <1>3, <2>1, <2>2, Numbers, MonthOrder
<1>6. PICK c : c = <<startOfMonth(first), DayOfMonth(first)>> OBVIOUS
<1>7. c \in Cells(z) /\ c[1] + c[2] - 1 = first BY <1>1, <1>2, <1>5, <1>6, CellOf
<1>8. n \in NotesOn(c[1], c[2], z) <=> c[1] + c[2] - 1 \in note[n].first .. note[n].last
  BY <1>2, <1>7, NoteCell
<1> QED BY <1>2, <1>3, <1>7, <1>8

(* A note a reader can open keeps its days when saved untouched.            *)
LEMMA NotesKept == ASSUME CalendarAssumption, Inv PROVE UntouchedKeepsDays
<1> SUFFICES
      ASSUME NEW n \in Kept, NEW r \in Readers, NEW c \in Cells(zone[r]),
             n \in NotesOn(c[1], c[2], zone[r])
      PROVE  /\ days(editNoteSheet(n), zone[r]) # None
             /\ days(editNoteSheet(n), zone[r]).first = note[n].first
             /\ days(editNoteSheet(n), zone[r]).last = note[n].last
  BY DEF UntouchedKeepsDays
<1>1. PICK z \in Zones : z = zone[r] BY DEF Inv
<1>2. z \in Int /\ now \in Int /\ MonthDays \in Nat BY Numbers DEF Inv, DatesAssumption
<1>3. /\ note[n].first \in Int /\ note[n].last \in Int /\ note[n].first <= note[n].last
      /\ note[n].last # None
  BY Numbers DEF Inv, NoteOK, NoteRec
<1>4. PICK m \in Firsts : c[1] = m /\ m <= lastCalendarMonth(z)
  BY <1>1, <1>2, MonthsAre DEF Cells
<1>5. m \in Int /\ lastCalendarMonth(z) \in Int BY <1>2, <1>4, MonthsAre DEF Firsts
<1>6. note[n].first <= m + MonthDays - 1
  <2>1. n \in ListCalendarNotesBetween(m, AddMonths(m, 1) - 1) BY <1>4 DEF NotesOn
  <2> QED BY <1>2, <1>5, <2>1 DEF ListCalendarNotesBetween, AddMonths
<1>7. note[n].first <= lastNoteDay(z)
  <2>1. lastNoteDay(z) = lastCalendarMonth(z) + MonthDays - 1 BY <1>2, NoteDays
  <2> QED BY <1>2, <1>3, <1>4, <1>5, <1>6, <2>1
<1>8. PICK x : x = [first |-> note[n].first, last |-> note[n].last, zone |-> z] OBVIOUS
<1>9. days(editNoteSheet(n), z) = x
  <2>1. CASE note[n].last = note[n].first BY <1>3, <1>7, <1>8, <2>1 DEF days, editNoteSheet
  <2>2. CASE note[n].last # note[n].first BY <1>3, <1>7, <1>8, <2>2 DEF days, editNoteSheet
  <2> QED BY <2>1, <2>2
<1>10. x # None
  <2>1. x \in [first : Int, last : Int, zone : Zones] BY <1>3, <1>8
  <2> QED BY <2>1 DEF CalendarAssumption
<1> QED BY <1>1, <1>8, <1>9, <1>10

(* The notes have their types, are on a page from the moment they are saved *)
(* and keep their days when saved untouched (createNote, saveNote,          *)
(* lastNoteDay, editNoteSheet).                                             *)
THEOREM NotesStay ==
    ASSUME CalendarAssumption
    PROVE  Spec => []NotesAgree
<1>1. Init => Inv BY CalendarInit
<1>2. Inv /\ [Next]_vars => Inv' BY CalendarNext
<1>3. Inv => NotesAgree
  <2>1. ASSUME Inv PROVE TypeOK
    <3>1. \A e \in Logged : event[e] \in 0 .. now BY <2>1, Numbers DEF Inv, DatesAssumption
    <3> QED BY <2>1, <3>1 DEF Inv, TypeOK, NoteOK, NoteRec
  <2> QED BY <2>1, NotesReached, NotesKept DEF NotesAgree
<1> QED BY <1>1, <1>2, <1>3, PTL DEF Spec

(* In every reader's timezone each care event is on one day of one page,    *)
(* its own, and a note on each of its days and on no other                  *)
(* (ListCareEventsBetween, ListCalendarNotesBetween, newCalendarPage).      *)
THEOREM EachOnItsDay ==
    ASSUME CalendarAssumption
    PROVE  Spec => []OnItsDay
<1>1. Init => Inv BY CalendarInit
<1>2. Inv /\ [Next]_vars => Inv' BY CalendarNext
<1>3. Inv => OnItsDay BY EventsHold, NotesHold DEF OnItsDay
<1> QED BY <1>1, <1>2, <1>3, PTL DEF Spec

-----------------------------------------------------------------------------
(* The days a member has access: the inductive invariant.                  *)

Ends == Int \cup {None}
AccessRec == [created : 0 .. now, expires : Ends]

\* An end is a midnight of the zone it was posted in.
EndOK(ends) == \E z \in Zones \cup InviteZones, d \in Int : ends = midnightOn(d, z)

AccessInv ==
    /\ now \in 0 .. MaxTime /\ zone \in [Members -> Zones]
    /\ access \in [Members -> {None} \cup AccessRec]
    /\ \A m \in Sit!Limited : EndOK(access[m].expires)
    /\ shown \in [Pages -> [Members -> Ends]]

(* The dates of Sittings are those of Calendar.                             *)
LEMMA SitDates ==
    /\ \A t, z : Sit!DateOf(t, z) = DateOf(t, z)
    /\ \A d, z : Sit!midnightOn(d, z) = midnightOn(d, z)
    /\ Sit!DatesAssumption <=> DatesAssumption
BY DEF Sit!DateOf, DateOf, Sit!midnightOn, midnightOn, Sit!DatesAssumption, DatesAssumption

(* The constants of Sittings are numbers.                                   *)
LEMMA SitNumbers ==
    ASSUME Sit!SittingsAssumption
    PROVE  /\ DatesAssumption /\ MaxTime \in Nat /\ DayUnits \in Nat /\ DayUnits <= MaxTime
           /\ Zones \subseteq Int /\ InviteZones \subseteq Int /\ None \notin Int
           /\ Sit!Dates0 \subseteq Int
<1>1. DatesAssumption BY SitDates DEF Sit!SittingsAssumption
<1> QED BY <1>1 DEF Sit!SittingsAssumption, DatesAssumption, Sit!Dates0

(* The start of a day is an end a membership may have.                      *)
LEMMA EndIs ==
    ASSUME Sit!SittingsAssumption, NEW d \in Int, NEW z \in Zones \cup InviteZones
    PROVE  /\ Sit!parseAccessEnd(d, z) \in Int /\ EndOK(Sit!parseAccessEnd(d, z))
<1>1. z \in Int BY SitNumbers
<1>2. midnightOn(d, z) \in Int
  <2>1. d * DayUnits \in Int BY SitNumbers
  <2> QED BY <1>1, <2>1 DEF midnightOn
<1>3. Sit!parseAccessEnd(d, z) = midnightOn(d, z) BY SitDates DEF Sit!parseAccessEnd
<1> QED BY <1>2, <1>3 DEF EndOK

(* The dates a page renders are dates.                                      *)
LEMMA RenderedDates ==
    ASSUME Sit!SittingsAssumption, zone \in [Members -> Zones],
           NEW rows \in [Members -> {None} \cup [created : Int, expires : Ends]]
    PROVE  Sit!Rendered(rows) \in [Members -> Ends]
<1>1. ASSUME NEW m \in Members, rows[m] # None, rows[m].expires # None
      PROVE  Sit!DateOf(rows[m].expires, zone[m]) \in Int
  <2>1. PICK t \in Int : t = rows[m].expires BY <1>1 DEF Ends
  <2>2. PICK z \in Int : z = zone[m] BY SitNumbers
  <2>3. DateOf(t, z) \in Int BY SitNumbers, DateIs
  <2> QED BY <2>1, <2>2, <2>3, SitDates
<1> QED BY <1>1 DEF Sit!Rendered, Ends

(* The first state.                                                         *)
LEMMA SittingsInit == ASSUME Sit!SittingsAssumption, Sit!Init PROVE AccessInv
<1>1. Sit!Limited = {} BY DEF Sit!Init, Sit!Limited, Sit!Here
<1>2. now \in 0 .. MaxTime BY SitNumbers DEF Sit!Init
<1> QED BY <1>1, <1>2 DEF Sit!Init, AccessInv, Ends

(* Every action keeps it.                                                   *)
LEMMA SittingsNext ==
    ASSUME Sit!SittingsAssumption, AccessInv, [Sit!Next]_(Sit!vars)
    PROVE  AccessInv'
<1> USE DEF AccessInv
<1>1. now \in Int BY SitNumbers
<1>2. CASE Sit!Tick
  <2>1. now' \in 0 .. MaxTime /\ 0 .. now \subseteq 0 .. now' BY <1>1, <1>2, SitNumbers DEF Sit!Tick
  <2>2. UNCHANGED <<zone, access, shown>> BY <1>2 DEF Sit!Tick
  <2>3. access' \in [Members -> {None} \cup AccessRec'] BY <2>1, <2>2 DEF AccessRec
  <2>4. Sit!Limited' = Sit!Limited BY <2>2 DEF Sit!Limited, Sit!Here
  <2> QED BY <2>1, <2>2, <2>3, <2>4 DEF EndOK
<1>3. ASSUME NEW m \in Members, NEW date \in Sit!Dates0 \cup {None}, NEW z \in InviteZones,
             Sit!createMembership(m, date, z)
      PROVE  AccessInv'
  <2>1. PICK ends : ends = IF date = None THEN None ELSE Sit!parseAccessEnd(date, z) OBVIOUS
  <2>2. /\ access' = [access EXCEPT ![m] = [created |-> now, expires |-> ends]]
        /\ UNCHANGED <<now, zone, shown>>
    BY <1>3, <2>1 DEF Sit!createMembership
  <2>3. ends \in Ends /\ (ends # None => EndOK(ends)) BY <2>1, EndIs, SitNumbers DEF Ends
  <2>4. now \in 0 .. now BY <1>1
  <2>5. access' \in [Members -> {None} \cup AccessRec'] BY <2>2, <2>3, <2>4 DEF AccessRec
  <2>6. \A k \in Sit!Limited' : EndOK(access'[k].expires)
    BY <2>2, <2>3 DEF Sit!Limited, Sit!Here
  <2> QED BY <2>2, <2>5, <2>6 DEF EndOK
<1>4. ASSUME NEW m \in Members, Sit!removeMember(m) PROVE AccessInv'
  <2>1. access' = [access EXCEPT ![m] = None] /\ UNCHANGED <<now, zone, shown>>
    BY <1>4 DEF Sit!removeMember
  <2>2. \A k \in Sit!Limited' : k \in Sit!Limited /\ access'[k] = access[k]
    BY <2>1 DEF Sit!Limited, Sit!Here
  <2> QED BY <2>1, <2>2 DEF EndOK, AccessRec
<1>5. ASSUME NEW m \in Members, NEW z \in Zones, Sit!SetTimezone(m, z) PROVE AccessInv'
  <2>1. zone' = [zone EXCEPT ![m] = z] /\ UNCHANGED <<now, access, shown>>
    BY <1>5 DEF Sit!SetTimezone
  <2>2. Sit!Limited' = Sit!Limited BY <2>1 DEF Sit!Limited, Sit!Here
  <2> QED BY <2>1, <2>2 DEF EndOK, AccessRec
<1>6. AccessRec \subseteq [created : Int, expires : Ends] BY <1>1 DEF AccessRec
<1>7. ASSUME NEW p \in Pages, Sit!showPeople(p) PROVE AccessInv'
  <2>1. /\ shown' = [shown EXCEPT ![p] = Sit!Rendered(access)]
        /\ UNCHANGED <<now, zone, access>>
    BY <1>7 DEF Sit!showPeople
  <2>2. Sit!Rendered(access) \in [Members -> Ends] BY <1>6, RenderedDates
  <2>3. Sit!Limited' = Sit!Limited BY <2>1 DEF Sit!Limited, Sit!Here
  <2> QED BY <2>1, <2>2, <2>3 DEF EndOK, AccessRec
<1>8. ASSUME NEW p \in Pages, NEW m \in Members, NEW date, Sit!saveMembers(p, m, date)
      PROVE  AccessInv'
  <2>1. PICK until : until = [k \in Members |-> IF k = m THEN date ELSE shown[p][k]] OBVIOUS
  <2>2. /\ \A k \in Members : until[k] \in Sit!Dates0 \cup {None}
        /\ access' = [k \in Members |->
              IF access[k] # None /\ Sit!Posts(k, until[k])
              THEN [access[k] EXCEPT !.expires = Sit!parseAccessEnd(until[k], zone[k])]
              ELSE access[k]]
        /\ shown' = [shown EXCEPT ![p] = Sit!Rendered(access')]
        /\ UNCHANGED <<now, zone>>
    BY <1>8, <2>1 DEF Sit!saveMembers
  <2>3. ASSUME NEW k \in Members, access[k] # None, Sit!Posts(k, until[k])
        PROVE  /\ access'[k] \in AccessRec /\ EndOK(access'[k].expires)
    <3>1. until[k] \in Int BY <2>2, <2>3, SitNumbers DEF Sit!Posts
    <3>2. PICK ends \in Int : ends = Sit!parseAccessEnd(until[k], zone[k]) /\ EndOK(ends)
      BY <3>1, EndIs
    <3>3. access'[k] = [access[k] EXCEPT !.expires = ends] BY <2>2, <2>3, <3>2
    <3>4. access[k] \in AccessRec BY <2>3
    <3> QED BY <3>2, <3>3, <3>4 DEF AccessRec, Ends
  <2>4. ASSUME NEW k \in Members, ~ (access[k] # None /\ Sit!Posts(k, until[k]))
        PROVE  access'[k] = access[k]
    BY <2>2, <2>4
  <2>5. access' \in [Members -> {None} \cup AccessRec] BY <2>2, <2>3, <2>4
  <2>6. \A k \in Sit!Limited' : EndOK(access'[k].expires)
    BY <2>3, <2>4 DEF Sit!Limited, Sit!Here
  <2>7. Sit!Rendered(access') \in [Members -> Ends] BY <1>6, <2>5, RenderedDates
  <2> QED BY <2>2, <2>5, <2>6, <2>7 DEF EndOK, AccessRec
<1>9. CASE UNCHANGED Sit!vars
  BY <1>9 DEF Sit!vars, Sit!Limited, Sit!Here, EndOK, AccessRec
<1> QED BY <1>2, <1>3, <1>4, <1>5, <1>7, <1>8, <1>9 DEF Sit!Next

(* An end a membership has is the midnight of a date in some zone.          *)
LEMMA AccessTypes == ASSUME Sit!SittingsAssumption, AccessInv PROVE Sit!TypeOK
<1>1. ASSUME NEW m \in Sit!Limited
      PROVE  \E z \in Zones \cup InviteZones :
                Sit!midnightOn(Sit!DateOf(access[m].expires, z), z) = access[m].expires
  <2>1. PICK z \in Zones \cup InviteZones, d \in Int : access[m].expires = midnightOn(d, z)
    BY DEF AccessInv, EndOK
  <2>2. z \in Int /\ DatesAssumption BY SitNumbers
  <2>3. PICK t \in Int : t = access[m].expires
    <3>1. d * DayUnits \in Int BY <2>2 DEF DatesAssumption
    <3> QED BY <2>1, <2>2, <3>1 DEF midnightOn
  <2>4. DateOf(t, z) = d
    <3>1. PICK e \in Int : e = DateOf(t, z) BY <2>2, DateIs
    <3>2. e < d <=> t < midnightOn(d, z) BY <2>2, <3>1, DateIs
    <3>3. PICK f \in Int : f = d + 1 OBVIOUS
    <3>4. e < f <=> t < midnightOn(f, z) BY <2>2, <3>1, DateIs
    <3>5. midnightOn(d, z) < midnightOn(f, z) BY <2>2, <3>3, MidnightOrder
    <3> QED BY <2>1, <2>3, <3>1, <3>2, <3>3, <3>4, <3>5
  <2> QED BY <2>1, <2>3, <2>4, SitDates
<1>2. \A m \in Sit!Here : access[m].created \in 0 .. now
  BY DEF Sit!Here, AccessInv, AccessRec
<1> QED BY <1>1, <1>2 DEF Sit!TypeOK, AccessInv, Ends

(* The days marked are the days with access, whatever zone the end was      *)
(* posted in and whatever zone the member has moved to.                     *)
LEMMA MarkedHold == ASSUME Sit!SittingsAssumption, AccessInv PROVE Sit!MarksAccess
<1> SUFFICES
      ASSUME NEW m \in Sit!Limited, access[m].created < access[m].expires, NEW date \in Int
      PROVE  Sit!covers(m, date) <=> Sit!HasAccess(m, date)
  BY DEF Sit!MarksAccess
<1>1. DatesAssumption /\ DayUnits \in Int BY SitNumbers
<1>2. PICK z \in Int : z = zone[m] BY SitNumbers DEF AccessInv, Sit!Limited, Sit!Here
<1>3. PICK made \in Int, ends \in Int : access[m].created = made /\ access[m].expires = ends
  BY DEF AccessInv, Sit!Limited, Sit!Here, AccessRec, Ends
<1>4. made < ends BY <1>3
<1>5. PICK first \in Int, d \in Int : first = DateOf(made, z) /\ d = DateOf(ends, z)
  BY <1>1, DateIs
<1>6. PICK next \in Int : next = date + 1 OBVIOUS
<1>7. PICK begins \in Int, over \in Int :
          begins = midnightOn(date, z) /\ over = midnightOn(next, z) /\ begins < over
  <2>1. midnightOn(date, z) \in Int /\ midnightOn(next, z) \in Int BY <1>1, DateIs
  <2>2. date < next <=> midnightOn(date, z) < midnightOn(next, z) BY <1>1, MidnightOrder
  <2> QED BY <1>6, <2>1, <2>2
<1>8. Sit!HasAccess(m, date) <=> made < over /\ begins < ends
  <2>1. Sit!HasAccess(m, date) <=> \E t \in begins .. over - 1 : made <= t /\ t < ends
    BY <1>2, <1>3, <1>6, <1>7, SitDates DEF Sit!HasAccess
  <2>2. ASSUME made < over, begins < ends
        PROVE  \E t \in begins .. over - 1 : made <= t /\ t < ends
    <3>1. CASE made <= begins BY <1>7, <2>2, <3>1
    <3>2. CASE begins < made BY <1>4, <1>7, <2>2, <3>2
    <3> QED BY <3>1, <3>2
  <2> QED BY <1>7, <2>1, <2>2
<1>9. made < over <=> first <= date
  <2>1. first < next <=> made < over BY <1>1, <1>5, <1>7, DateIs
  <2> QED BY <1>6, <2>1
<1>10. PICK final \in Int : final = Sit!LastDay(m) /\ (begins < ends <=> date <= final)
  <2>1. PICK start \in Int : start = midnightOn(d, z) BY <1>1, DateIs
  <2>2. Sit!LastDay(m) = IF start = ends THEN d - 1 ELSE d
    BY <1>2, <1>3, <1>5, <2>1, SitDates DEF Sit!LastDay
  <2>3. d < date <=> ends < begins BY <1>1, <1>5, <1>7, DateIs
  <2>4. start <= ends
    <3>1. DateOf(ends, z) < d <=> ends < midnightOn(d, z) BY <1>1, DateIs
    <3> QED BY <1>5, <2>1, <3>1
  <2>5. date < d <=> begins < start BY <1>1, <1>7, <2>1, MidnightOrder
  <2>6. d < date <=> start < begins BY <1>1, <1>7, <2>1, MidnightOrder
  <2> QED BY <2>1, <2>2, <2>3, <2>4, <2>5, <2>6
<1>11. Sit!covers(m, date) <=> first <= date /\ date <= final
  <2>1. Sit!Sitting(m) = [first |-> first, last |-> final]
    BY <1>2, <1>3, <1>5, <1>10, SitDates DEF Sit!Sitting
  <2> QED BY <2>1 DEF Sit!covers, Sit!sittings
<1> QED BY <1>8, <1>9, <1>10, <1>11

(* The days marked for a member are those on which the membership lets them *)
(* in, "from the one the membership was made on to the last one with any    *)
(* access" (sitting, calendar.go:235-236), in the member's own zone and     *)
(* whichever zone its end was set in.                                       *)
THEOREM MarkedDaysAreDaysIn ==
    ASSUME Sit!SittingsAssumption
    PROVE  Sit!Spec => [](Sit!TypeOK /\ Sit!MarksAccess)
<1>1. Sit!Init => AccessInv BY SittingsInit
<1>2. AccessInv /\ [Sit!Next]_(Sit!vars) => AccessInv' BY SittingsNext
<1>3. AccessInv => Sit!TypeOK /\ Sit!MarksAccess BY AccessTypes, MarkedHold
<1> QED BY <1>1, <1>2, <1>3, PTL DEF Sit!Spec

-----------------------------------------------------------------------------
(* The months of the calendar.                                             *)

Year == Sched!Year
MonthNos == 0 .. LastMonth
AllDays == 0 .. FirstDay[LastMonth + 1] - 1

\* A set of natural numbers that has one has a least.
LEMMA LeastOf ==
    ASSUME NEW S, S \subseteq Nat, S # {}
    PROVE  \E m \in S : \A n \in S : m <= n
<1>1. PICK R : R = OpToRel(<, Nat) BY Zenon
<1>2. IsWellFoundedOn(R, Nat) BY <1>1, NatLessThanWellFounded, Zenon
<1>3. PICK m \in S : \A n \in S : ~ (<<n, m>> \in R) BY <1>2, WFMin
<1>4. \A n, k \in Nat : n < k => <<n, k>> \in R BY <1>1 DEF OpToRel
<1>5. ASSUME NEW n \in S PROVE m <= n
  <2>1. m \in Nat /\ n \in Nat /\ ~ (n < m) BY <1>3, <1>4
  <2> QED BY <2>1
<1> QED BY <1>5

\* The least and the greatest of a set of integers.
LEMMA LeastIs ==
    ASSUME NEW S, S \subseteq Int, NEW m \in S
    PROVE  /\ (\A n \in S : m <= n) => Sched!Min(S) = m
           /\ (\A n \in S : n <= m) => Sched!Max(S) = m
<1>1. ASSUME \A n \in S : m <= n PROVE Sched!Min(S) = m
  <2>1. Sched!Min(S) \in S /\ \A n \in S : Sched!Min(S) <= n BY <1>1 DEF Sched!Min
  <2>2. Sched!Min(S) <= m /\ m <= Sched!Min(S) /\ m \in Int /\ Sched!Min(S) \in Int BY <1>1, <2>1
  <2> QED BY <2>2
<1>2. ASSUME \A n \in S : n <= m PROVE Sched!Max(S) = m
  <2>1. \A n \in S : m >= n BY <1>2
  <2>2. Sched!Max(S) \in S /\ \A n \in S : Sched!Max(S) >= n BY <2>1 DEF Sched!Max
  <2>3. Sched!Max(S) >= m /\ m >= Sched!Max(S) /\ m \in Int /\ Sched!Max(S) \in Int BY <2>1, <2>2
  <2> QED BY <2>3
<1> QED BY <1>1, <1>2

\* The remainder of what is between two multiples.
LEMMA RemainderIs ==
    ASSUME NEW n \in Nat \ {0}, NEW k \in Int, NEW r \in 0 .. n - 1
    PROVE  (k * n + r) % n = r /\ (k * n + r) \div n = k
<1> DEFINE x == k * n + r
           q == x \div n
<1>1. x \in Int /\ q \in Int /\ q * n <= x /\ x < q * n + n /\ x % n = x - q * n BY QuotientIs
<1>2. q = k
  <2>1. CASE q < k
    <3>1. q + 1 <= k BY <1>1, <2>1
    <3>2. (q + 1) * n <= k * n BY <1>1, <3>1
    <3> QED BY <1>1, <3>2
  <2>2. CASE q > k
    <3>1. k + 1 <= q BY <1>1, <2>2
    <3>2. (k + 1) * n <= q * n BY <1>1, <3>1
    <3> QED BY <1>1, <3>2
  <2> QED BY <1>1, <2>1, <2>2
<1> QED BY <1>1, <1>2

\* A month has days.
LEMMA MonthLength ==
    ASSUME Sched!ScheduleAssumption, NEW i \in Nat PROVE Sched!MonthDays(i) \in Nat \ {0} /\ Year \in Nat \ {0}
<1>1. MonthLengths \in Seq(Seq(Nat \ {0})) /\ Len(MonthLengths) \in Nat \ {0} BY DEF Sched!ScheduleAssumption
<1>2. Year \in Nat \ {0} BY <1>1 DEF Year, Sched!Year, Sched!ScheduleAssumption
<1>3. i % Year \in 0 .. Year - 1 /\ i \div Year \in Int BY <1>2, QuotientIs
<1> DEFINE y == ((i \div Year) % Len(MonthLengths)) + 1
<1>4. y \in 1 .. Len(MonthLengths) BY <1>1, <1>3
<1>5. Len(MonthLengths[y]) = Year /\ MonthLengths[y] \in Seq(Nat \ {0})
  BY <1>1, <1>4 DEF Year, Sched!ScheduleAssumption
<1>6. MonthLengths[y][(i % Year) + 1] \in Nat \ {0} BY <1>2, <1>3, <1>5
<1> QED BY <1>2, <1>6 DEF Sched!MonthDays, Sched!MonthNumber, Year

\* The months follow each other.
LEMMA MonthStarts ==
    ASSUME Sched!ScheduleAssumption
    PROVE  /\ \A i \in 0 .. LastMonth + 1 : FirstDay[i] \in Nat
           /\ \A i, j \in 0 .. LastMonth + 1 : i < j => FirstDay[i] < FirstDay[j]
<1>1. /\ LastMonth \in Nat /\ FirstDay[0] = 0
      /\ \A i \in 0 .. LastMonth : FirstDay[i + 1] = FirstDay[i] + Sched!MonthDays(i)
  BY DEF Sched!ScheduleAssumption
<1>2. \A i \in 0 .. LastMonth : Sched!MonthDays(i) \in Nat \ {0} BY <1>1, MonthLength
<1>3. \A i \in 0 .. LastMonth + 1 : FirstDay[i] \in Nat
  <2> DEFINE S == {i \in 0 .. LastMonth + 1 : FirstDay[i] \notin Nat}
  <2> SUFFICES ASSUME S # {} PROVE FALSE OBVIOUS
  <2>1. S \subseteq Nat OBVIOUS
  <2>2. PICK m \in S : \A n \in S : m <= n BY <2>1, LeastOf
  <2>3. m # 0 BY <1>1, <2>2
  <2>4. m - 1 \in 0 .. LastMonth /\ m - 1 \notin S BY <1>1, <2>2, <2>3
  <2>5. FirstDay[m - 1] \in Nat BY <1>1, <2>4
  <2>6. FirstDay[(m - 1) + 1] = FirstDay[m - 1] + Sched!MonthDays(m - 1) BY <1>1, <2>4
  <2>7. FirstDay[m] \in Nat BY <1>2, <2>4, <2>5, <2>6
  <2> QED BY <2>2, <2>7
<1>4. ASSUME NEW i \in 0 .. LastMonth + 1 PROVE \A j \in 0 .. LastMonth + 1 : i < j => FirstDay[i] < FirstDay[j]
  <2> DEFINE S == {j \in 0 .. LastMonth + 1 : i < j /\ ~(FirstDay[i] < FirstDay[j])}
  <2> SUFFICES ASSUME S # {} PROVE FALSE OBVIOUS
  <2>1. S \subseteq Nat OBVIOUS
  <2>2. PICK m \in S : \A n \in S : m <= n BY <2>1, LeastOf
  <2>3. m - 1 \in 0 .. LastMonth /\ m - 1 \notin S /\ m \in 0 .. LastMonth + 1 /\ i < m
    BY <1>1, <2>2
  <2>4. FirstDay[(m - 1) + 1] = FirstDay[m - 1] + Sched!MonthDays(m - 1) BY <1>1, <2>3
  <2>5. FirstDay[m - 1] < FirstDay[m] BY <1>1, <1>2, <1>3, <2>3, <2>4
  <2>6. i = m - 1 \/ FirstDay[i] < FirstDay[m - 1] BY <1>1, <2>3
  <2>7. FirstDay[i] \in Nat /\ FirstDay[m - 1] \in Nat /\ FirstDay[m] \in Nat BY <1>1, <1>3, <2>3
  <2>8. FirstDay[i] < FirstDay[m] BY <2>5, <2>6, <2>7
  <2> QED BY <2>2, <2>8
<1> QED BY <1>3, <1>4

\* Each day is in its month.
LEMMA DayInMonth ==
    ASSUME Sched!ScheduleAssumption, NEW d \in AllDays
    PROVE  Sched!MonthOf(d) \in MonthNos /\ FirstDay[Sched!MonthOf(d)] <= d /\ d < FirstDay[Sched!MonthOf(d) + 1]
<1>1. /\ LastMonth \in Nat /\ FirstDay[0] = 0 /\ d \in Nat
      /\ \A i \in MonthNos, e \in AllDays : FirstDay[i] <= e /\ e < FirstDay[i + 1] => MonthAt[e] = i
  BY DEF Sched!ScheduleAssumption, MonthNos, AllDays
<1>2. \A i \in 0 .. LastMonth + 1 : FirstDay[i] \in Nat BY MonthStarts
<1> DEFINE S == {i \in MonthNos : d < FirstDay[i + 1]}
<1>3. LastMonth \in S BY <1>1, <1>2 DEF AllDays, MonthNos
<1>4. PICK m \in S : \A n \in S : m <= n
  <2>1. S \subseteq Nat BY DEF MonthNos
  <2> QED BY <1>3, <2>1, LeastOf
<1>5. FirstDay[m] <= d
  <2>1. CASE m = 0 BY <1>1, <2>1
  <2>2. CASE m # 0
    <3>1. m - 1 \in MonthNos /\ m - 1 \notin S BY <1>1, <1>4, <2>2 DEF MonthNos
    <3>2. ~(d < FirstDay[(m - 1) + 1]) BY <3>1
    <3>3. FirstDay[m] \in Nat /\ (m - 1) + 1 = m BY <1>1, <1>2, <1>4 DEF MonthNos
    <3> QED BY <1>1, <3>2, <3>3
  <2> QED BY <2>1, <2>2
<1>6. MonthAt[d] = m BY <1>1, <1>4, <1>5
<1> QED BY <1>4, <1>5, <1>6 DEF Sched!MonthOf

\* A day within a month is of that month.
LEMMA MonthOfDay ==
    ASSUME Sched!ScheduleAssumption, NEW i \in MonthNos, NEW d \in Int, FirstDay[i] <= d, d < FirstDay[i + 1]
    PROVE  d \in AllDays /\ Sched!MonthOf(d) = i
<1>1. /\ FirstDay[i] \in Nat /\ FirstDay[i + 1] \in Nat /\ FirstDay[LastMonth + 1] \in Nat
      /\ i + 1 = LastMonth + 1 \/ FirstDay[i + 1] < FirstDay[LastMonth + 1]
  BY MonthStarts DEF MonthNos, Sched!ScheduleAssumption
<1>2. d \in AllDays BY <1>1 DEF AllDays
<1> QED BY <1>2 DEF Sched!ScheduleAssumption, Sched!MonthOf, AllDays, MonthNos

\* An earlier month is over when a later one begins.
LEMMA MonthsInOrder ==
    ASSUME Sched!ScheduleAssumption, NEW d \in AllDays, NEW e \in AllDays
    PROVE  /\ d <= e => Sched!MonthOf(d) <= Sched!MonthOf(e)
           /\ Sched!MonthOf(d) < Sched!MonthOf(e) => FirstDay[Sched!MonthOf(d) + 1] <= e
<1> DEFINE m == Sched!MonthOf(d)
           n == Sched!MonthOf(e)
<1>1. /\ m \in MonthNos /\ n \in MonthNos /\ d \in Nat /\ e \in Nat /\ LastMonth \in Nat
      /\ FirstDay[m] <= d /\ d < FirstDay[m + 1] /\ FirstDay[n] <= e /\ e < FirstDay[n + 1]
  BY DayInMonth DEF AllDays, Sched!ScheduleAssumption
<1>2. \A i \in 0 .. LastMonth + 1 : FirstDay[i] \in Nat BY MonthStarts
<1>3. \A i, j \in 0 .. LastMonth + 1 : i <= j => FirstDay[i] <= FirstDay[j]
  <2> SUFFICES ASSUME NEW i \in 0 .. LastMonth + 1, NEW j \in 0 .. LastMonth + 1, i <= j
               PROVE  FirstDay[i] <= FirstDay[j]
    OBVIOUS
  <2>1. i = j \/ i < j BY <1>1
  <2> QED BY <1>2, <2>1, MonthStarts
<1>4. {m, n, m + 1, n + 1} \subseteq 0 .. LastMonth + 1 /\ m \in Nat /\ n \in Nat BY <1>1 DEF MonthNos
<1>5. ASSUME m < n PROVE FirstDay[m + 1] <= e
  <2>1. FirstDay[m + 1] <= FirstDay[n] BY <1>3, <1>4, <1>5
  <2> QED BY <1>1, <1>2, <1>4, <2>1
<1>6. ASSUME n < m PROVE FirstDay[n + 1] <= d
  <2>1. FirstDay[n + 1] <= FirstDay[m] BY <1>3, <1>4, <1>6
  <2> QED BY <1>1, <1>2, <1>4, <2>1
<1>7. d <= e => m <= n
  <2> SUFFICES ASSUME d <= e, n < m PROVE FALSE BY <1>4
  <2>1. FirstDay[n + 1] \in Nat BY <1>2, <1>4
  <2> QED BY <1>1, <1>6, <2>1
<1> QED BY <1>5, <1>7

-----------------------------------------------------------------------------
(* The dates of an anchored schedule.                                      *)

\* Multiples in order.
LEMMA Multiples ==
    ASSUME NEW n \in Nat \ {0}, NEW j \in Int, NEW k \in Int
    PROVE  (j <= k => n * j <= n * k) /\ (j < k => n * j + n <= n * k)
<1>1. ASSUME NEW i \in Nat PROVE n * j <= n * (j + i)
  <2>1. n * (j + i) = n * j + n * i BY <1>1
  <2>2. n * i >= 0 /\ n * j \in Int /\ n * i \in Int BY <1>1
  <2> QED BY <2>1, <2>2
<1>2. ASSUME j <= k PROVE n * j <= n * k
  <2>1. k - j \in Nat /\ j + (k - j) = k BY <1>2
  <2> QED BY <1>1, <2>1
<1>3. ASSUME j < k PROVE n * j + n <= n * k
  <2>1. k - (j + 1) \in Nat BY <1>3
  <2>2. n * k = n * (j + 1) + n * (k - (j + 1)) BY <2>1
  <2>3. n * (k - (j + 1)) >= 0 /\ n * (k - (j + 1)) \in Int BY <2>1
  <2>4. n * (j + 1) = n * j + n /\ n * j \in Int OBVIOUS
  <2> QED BY <2>2, <2>3, <2>4
<1> QED BY <1>2, <1>3

\* The interval a date is in, and the one before it.
Interval(e, n) == IF e <= 0 THEN 0 ELSE e \div n

LEMMA IntervalIs ==
    ASSUME NEW e \in Int, NEW n \in Nat \ {0}
    PROVE  /\ Interval(e, n) \in Nat
           /\ \A k \in 0 .. Interval(e, n) - 1 : n * k < e
           /\ n * (Interval(e, n) + 1) > e
           /\ \A k \in 0 .. Interval(e, n) + 1 : n * k \in Nat /\ (n * k <= n \/ n * k <= e + n)
<1> DEFINE q == Interval(e, n)
<1>1. /\ q \in Nat /\ (q = 0 \/ n * q <= e) /\ n * (q + 1) > e
      /\ n * (q + 1) <= n \/ n * (q + 1) <= e + n
  <2>1. CASE e <= 0
    <3>1. q = 0 /\ n * (q + 1) = n BY <2>1 DEF Interval
    <3> QED BY <2>1, <3>1
  <2>2. CASE e > 0
    <3>1. q = e \div n BY <2>2 DEF Interval
    <3>2. q \in Int /\ q * n <= e /\ e < q * n + n BY <3>1, QuotientIs
    <3>3. q >= 0
      <4> SUFFICES ASSUME q <= -1 PROVE FALSE BY <3>2
      <4>1. n * q <= n * (-1) BY <3>2, Multiples
      <4>2. n * q = q * n /\ n * (-1) = - n BY <3>2
      <4> QED BY <2>2, <3>2, <4>1, <4>2
    <3>4. n * (q + 1) = n * q + n /\ n * q = q * n /\ n * q \in Int BY <3>2
    <3> QED BY <3>2, <3>3, <3>4
  <2> QED BY <2>1, <2>2
<1>2. ASSUME NEW k \in 0 .. q - 1 PROVE n * k < e
  <2>1. n * k + n <= n * q /\ n * k \in Int /\ n * q \in Int BY <1>1, Multiples
  <2>2. n * q <= e BY <1>1
  <2> QED BY <2>1, <2>2
<1>3. ASSUME NEW k \in 0 .. q + 1 PROVE n * k \in Nat /\ (n * k <= n \/ n * k <= e + n)
  <2>1. n * k <= n * (q + 1) /\ n * k \in Nat /\ n * (q + 1) \in Int BY <1>1, Multiples
  <2> QED BY <1>1, <2>1
<1> HIDE DEF q
<1> QED BY <1>1, <1>2, <1>3 DEF q

\* The day of the month is clamped to the month's last.
LEMMA AddedMonths ==
    ASSUME Sched!ScheduleAssumption, NEW d \in AllDays, NEW n \in Nat, Sched!MonthOf(d) + n \in MonthNos
    PROVE  LET i == Sched!MonthOf(d) + n
               day == d - FirstDay[Sched!MonthOf(d)]
               to == Sched!addMonths(d, n)
           IN  /\ to \in AllDays /\ Sched!MonthOf(to) = i /\ FirstDay[i] <= to /\ to < FirstDay[i + 1]
               /\ day < Sched!MonthDays(i) => to = FirstDay[i] + day
               /\ day >= Sched!MonthDays(i) => to = FirstDay[i] + Sched!MonthDays(i) - 1
               /\ n = 0 => to = d
<1> DEFINE i == Sched!MonthOf(d) + n
           day == d - FirstDay[Sched!MonthOf(d)]
           to == Sched!addMonths(d, n)
<1>1. LastMonth \in Nat BY DEF Sched!ScheduleAssumption
<1>2. i \in MonthNos /\ Sched!MonthDays(i) \in Nat \ {0} BY MonthLength DEF MonthNos
<1>3. FirstDay[i] \in Nat /\ FirstDay[i + 1] = FirstDay[i] + Sched!MonthDays(i)
  BY <1>1, <1>2, MonthStarts DEF MonthNos, Sched!ScheduleAssumption
<1>4. /\ Sched!MonthOf(d) \in MonthNos /\ FirstDay[Sched!MonthOf(d)] <= d
      /\ d < FirstDay[Sched!MonthOf(d) + 1] /\ FirstDay[Sched!MonthOf(d)] \in Nat
  BY <1>1, DayInMonth, MonthStarts DEF MonthNos
<1>5. day \in Nat BY <1>4 DEF AllDays
<1>6. to = FirstDay[i] + Sched!Min({day, Sched!MonthDays(i) - 1})
  BY DEF Sched!addMonths, Sched!firstOfMonth
<1>7. Sched!Min({day, Sched!MonthDays(i) - 1}) = IF day < Sched!MonthDays(i) THEN day ELSE Sched!MonthDays(i) - 1
  <2> DEFINE a == Sched!MonthDays(i) - 1
  <2>1. a \in Nat BY <1>2
  <2> HIDE DEF a, day, i
  <2>2. Sched!Min({day, a}) = IF day <= a THEN day ELSE a BY <1>5, <2>1 DEF Sched!Min
  <2> QED BY <1>2, <1>5, <2>1, <2>2 DEF a
<1> HIDE DEF to, day
<1>8. /\ FirstDay[i] <= to /\ to < FirstDay[i + 1] /\ to \in Int
      /\ day < Sched!MonthDays(i) => to = FirstDay[i] + day
      /\ day >= Sched!MonthDays(i) => to = FirstDay[i] + Sched!MonthDays(i) - 1
  BY <1>2, <1>3, <1>5, <1>6, <1>7
<1>9. to \in AllDays /\ Sched!MonthOf(to) = i BY <1>2, <1>8, MonthOfDay
<1>10. ASSUME n = 0 PROVE to = d
  <2>1. i = Sched!MonthOf(d) BY <1>4, <1>10 DEF MonthNos
  <2>2. day = d - FirstDay[i] /\ d < FirstDay[i + 1] BY <1>4, <2>1 DEF day
  <2> HIDE DEF i
  <2>3. day < Sched!MonthDays(i) BY <1>2, <1>3, <1>5, <2>2 DEF AllDays
  <2> QED BY <1>3, <1>8, <2>2, <2>3 DEF AllDays
<1> QED BY <1>8, <1>9, <1>10 DEF to, day

Units == {"day", "week", "month", "year"}

\* A rule that repeats from an anchor, and the calendar it needs to see the
\* first date after a day.
Repeats ==
    /\ sched.unit \in {"day", "week", "month", "year"} /\ sched.count \in Nat \ {0}
    /\ sched.anchor \in Sched!Days

ByDays == sched.unit \in {"day", "week"}
Per ==
    CASE sched.unit = "week" -> WeekDays * sched.count
      [] sched.unit = "year" -> Year * sched.count
      [] OTHER               -> sched.count

Reaches(d) == IF ByDays THEN d + Per \in Sched!Days ELSE Sched!MonthOf(d) + Per < LastMonth

At(k) == Sched!advance(sched.anchor, sched.count, sched.unit, k)
From(since) == Sched!firstStep(sched.anchor, since, sched.count, sched.unit)

\* The days of the model end a month before the calendar does.
LEMMA DaysAreDays == ASSUME Sched!ScheduleAssumption PROVE Sched!Days \subseteq AllDays
<1>1. LastMonth \in Nat BY DEF Sched!ScheduleAssumption
<1>2. FirstDay[LastMonth] \in Nat /\ FirstDay[LastMonth + 1] \in Nat /\ FirstDay[LastMonth] < FirstDay[LastMonth + 1]
  BY <1>1, MonthStarts
<1> QED BY <1>2 DEF Sched!Days, AllDays

\* A day is in the model if its month is before the last one.
LEMMA DaysByMonth ==
    ASSUME Sched!ScheduleAssumption, NEW d \in AllDays
    PROVE  d \in Sched!Days <=> Sched!MonthOf(d) < LastMonth
<1>1. LastMonth \in Nat BY DEF Sched!ScheduleAssumption
<1>2. /\ FirstDay[LastMonth] \in Nat /\ FirstDay[LastMonth + 1] \in Nat
      /\ FirstDay[LastMonth] < FirstDay[LastMonth + 1]
  BY <1>1, MonthStarts
<1>3. /\ Sched!MonthOf(d) \in MonthNos /\ FirstDay[Sched!MonthOf(d)] <= d
      /\ d < FirstDay[Sched!MonthOf(d) + 1] /\ FirstDay[Sched!MonthOf(d) + 1] \in Nat
  BY <1>1, DayInMonth, MonthStarts DEF MonthNos
<1>4. Sched!MonthOf(d) = LastMonth => d \notin Sched!Days BY <1>2, <1>3 DEF Sched!Days
<1>5. ASSUME Sched!MonthOf(d) < LastMonth PROVE d \in Sched!Days
  <2>1. Sched!MonthOf(d) + 1 = LastMonth \/ Sched!MonthOf(d) + 1 < LastMonth BY <1>1, <1>3, <1>5 DEF MonthNos
  <2>2. FirstDay[Sched!MonthOf(d) + 1] <= FirstDay[LastMonth]
    BY <1>1, <1>2, <1>3, <2>1, MonthStarts DEF MonthNos
  <2> QED BY <1>2, <1>3, <2>2 DEF Sched!Days, AllDays
<1> QED BY <1>1, <1>3, <1>4, <1>5 DEF MonthNos

\* A rule by days: the search starts at most one interval early, and its dates
\* are the anchor's and whole intervals after it.
LEMMA DaySteps ==
    ASSUME Sched!ScheduleAssumption, Repeats, ByDays, NEW since \in Sched!Days,
           Reaches(sched.anchor), Reaches(since)
    PROVE  /\ From(since) \in Nat
           /\ \A k \in 0 .. From(since) - 1 : At(k) <= since
           /\ At(From(since) + 1) > since
           /\ \A k \in 0 .. From(since) + 1 : At(k) \in Sched!Series
           /\ \A d \in Sched!Series : \E j \in Nat :
                 d = At(j) /\ \A k \in 0 .. From(since) + 1 : k <= j => At(k) <= d
<1> DEFINE e == since - sched.anchor
<1>1. Per \in Nat \ {0}
  <2>1. WeekDays \in Nat \ {0} /\ sched.count \in Nat \ {0} /\ WeekDays * sched.count \in Nat \ {0}
    BY DEF Sched!ScheduleAssumption, Repeats
  <2> QED BY <2>1 DEF Per, ByDays
<1>2. \A k \in Nat : At(k) = sched.anchor + Per * k BY DEF At, Sched!advance, Per, ByDays
<1>3. since \in Nat /\ sched.anchor \in Nat /\ e \in Int BY DEF Sched!Days, Repeats
<1>4. From(since) = Interval(e, Per) BY DEF From, Sched!firstStep, Interval, Per, ByDays
<1> DEFINE q == From(since)
<1> HIDE DEF q
<1>5. /\ q \in Nat /\ \A k \in 0 .. q - 1 : Per * k < e
      /\ Per * (q + 1) > e
      /\ \A k \in 0 .. q + 1 : Per * k \in Nat /\ (Per * k <= Per \/ Per * k <= e + Per)
  BY <1>1, <1>3, <1>4, IntervalIs DEF q
<1>6. Sched!Series = {d \in Sched!Days : d >= sched.anchor /\ (d - sched.anchor) % Per = 0}
  BY DEF Sched!Series, Per, ByDays
<1>7. \A k \in 0 .. q - 1 : At(k) <= since BY <1>2, <1>3, <1>5
<1>8. At(q + 1) > since
  <2>1. At(q + 1) = sched.anchor + Per * (q + 1) BY <1>2, <1>5
  <2> QED BY <1>1, <1>3, <1>5, <2>1
<1>9. ASSUME NEW k \in 0 .. q + 1 PROVE At(k) \in Sched!Series
  <2>1. k \in Nat /\ Per * k \in Nat /\ (Per * k <= Per \/ Per * k <= e + Per) BY <1>5
  <2>2. At(k) = sched.anchor + Per * k BY <1>2, <2>1
  <2>3. At(k) <= sched.anchor + Per \/ At(k) <= since + Per BY <1>1, <1>3, <2>1, <2>2
  <2>4. /\ FirstDay[LastMonth] \in Nat
        /\ sched.anchor + Per < FirstDay[LastMonth] /\ since + Per < FirstDay[LastMonth]
    <3>1. LastMonth \in Nat BY DEF Sched!ScheduleAssumption
    <3>2. FirstDay[LastMonth] \in Nat BY <3>1, MonthStarts
    <3> QED BY <3>2 DEF Reaches, Sched!Days
  <2>5. At(k) \in Sched!Days /\ At(k) >= sched.anchor BY <1>1, <1>3, <2>1, <2>2, <2>3, <2>4 DEF Sched!Days
  <2>6. At(k) - sched.anchor = k * Per + 0 /\ 0 \in 0 .. Per - 1 BY <1>1, <1>3, <2>1, <2>2
  <2>7. (k * Per + 0) % Per = 0 BY <1>1, <2>1, <2>6, RemainderIs
  <2> QED BY <1>6, <2>5, <2>6, <2>7
<1>10. ASSUME NEW d \in Sched!Series
       PROVE  \E j \in Nat : d = At(j) /\ \A k \in 0 .. q + 1 : k <= j => At(k) <= d
  <2>1. d \in Nat /\ d >= sched.anchor /\ (d - sched.anchor) % Per = 0 BY <1>6 DEF Sched!Days
  <2> DEFINE j == (d - sched.anchor) \div Per
  <2>2. d - sched.anchor \in Nat BY <1>3, <2>1
  <2>3. j \in Int /\ j * Per = d - sched.anchor
    <3>1. PICK x \in Nat : x = d - sched.anchor BY <2>2
    <3>2. /\ x \div Per \in Int /\ x % Per = x - (x \div Per) * Per
          /\ x % Per = 0
      <4>1. x \in Int /\ x % Per = 0 BY <2>1, <3>1
      <4>2. x \div Per \in Int /\ x % Per = x - (x \div Per) * Per BY <1>1, <4>1, QuotientIs
      <4> QED BY <4>1, <4>2
    <3>3. (x \div Per) * Per \in Int BY <1>1, <3>2
    <3> QED BY <3>1, <3>2, <3>3
  <2> HIDE DEF j
  <2>4. j >= 0
    <3> SUFFICES ASSUME j <= -1 PROVE FALSE BY <2>3
    <3>1. Per * j <= Per * (-1) BY <1>1, <2>3, Multiples
    <3>2. Per * j = j * Per /\ Per * (-1) = - Per BY <1>1, <2>3
    <3> QED BY <1>1, <2>2, <2>3, <3>1, <3>2
  <2>5. d = At(j)
    <3>1. At(j) = sched.anchor + Per * j /\ Per * j = j * Per BY <1>1, <1>2, <2>3, <2>4
    <3> QED BY <1>3, <2>1, <2>3, <3>1
  <2>6. ASSUME NEW k \in 0 .. q + 1, k <= j PROVE At(k) <= d
    <3>1. Per * k <= Per * j /\ Per * k \in Int /\ Per * j \in Int BY <1>1, <1>5, <2>3, <2>6, Multiples
    <3>2. At(k) = sched.anchor + Per * k /\ At(j) = sched.anchor + Per * j BY <1>2, <1>5, <2>3, <2>4
    <3> QED BY <1>3, <2>5, <3>1, <3>2
  <2> QED BY <2>3, <2>4, <2>5, <2>6
<1> QED BY <1>5, <1>7, <1>8, <1>9, <1>10 DEF q

\* A rule by months: the same, each date being in its own month.
LEMMA MonthSteps ==
    ASSUME Sched!ScheduleAssumption, Repeats, ~ByDays, NEW since \in Sched!Days,
           Reaches(sched.anchor), Reaches(since)
    PROVE  /\ From(since) \in Nat
           /\ \A k \in 0 .. From(since) - 1 : At(k) <= since
           /\ At(From(since) + 1) > since
           /\ \A k \in 0 .. From(since) + 1 : At(k) \in Sched!Series
           /\ \A d \in Sched!Series : \E j \in Nat :
                 d = At(j) /\ \A k \in 0 .. From(since) + 1 : k <= j => At(k) <= d
<1> DEFINE m == Sched!MonthOf(sched.anchor)
           e == Sched!MonthOf(since) - m
           day == sched.anchor - FirstDay[m]
<1>0. Year \in Nat \ {0} /\ LastMonth \in Nat BY MonthLength DEF Sched!ScheduleAssumption
<1>1. Per \in Nat \ {0}
  <2>1. Year * sched.count \in Nat \ {0} BY <1>0 DEF Repeats
  <2> QED BY <2>1 DEF Per, ByDays, Repeats
<1>2. \A k \in Nat : At(k) = Sched!addMonths(sched.anchor, Per * k)
  BY DEF At, Sched!advance, Per, ByDays, Repeats, Year
<1>3. /\ sched.anchor \in AllDays /\ since \in AllDays /\ m \in MonthNos
      /\ Sched!MonthOf(since) \in MonthNos
  BY DaysAreDays, DayInMonth DEF Repeats
<1>4. /\ m \in Nat /\ e \in Int /\ Sched!MonthOf(since) \in Nat
      /\ m + Per < LastMonth /\ Sched!MonthOf(since) + Per < LastMonth
  BY <1>3 DEF MonthNos, Reaches
<1>5. From(since) = Interval(e, Per)
  BY DEF From, Sched!firstStep, Sched!monthsBetween, Interval, Per, ByDays, Repeats, Year
<1> DEFINE q == From(since)
<1>6. /\ q \in Nat /\ \A k \in 0 .. q - 1 : Per * k < e
      /\ Per * (q + 1) > e
      /\ \A k \in 0 .. q + 1 : Per * k \in Nat /\ (Per * k <= Per \/ Per * k <= e + Per)
  BY <1>1, <1>4, <1>5, IntervalIs
<1>7. Sched!Series = {d \in Sched!Days :
          /\ Sched!MonthOf(d) >= m /\ (Sched!MonthOf(d) - m) % Per = 0
          /\ \/ d - FirstDay[Sched!MonthOf(d)] = day
             \/ /\ d - FirstDay[Sched!MonthOf(d)] < day
                /\ d - FirstDay[Sched!MonthOf(d)] = Sched!MonthDays(Sched!MonthOf(d)) - 1}
  BY DEF Sched!Series, Sched!firstOfMonth, Per, ByDays, Repeats, Year
<1> HIDE DEF q, day
<1>8. ASSUME NEW k \in Nat, Per * k \in Nat, m + Per * k < LastMonth
      PROVE  /\ At(k) \in Sched!Days /\ Sched!MonthOf(At(k)) = m + Per * k
             /\ FirstDay[m + Per * k] <= At(k) /\ At(k) < FirstDay[m + Per * k + 1]
             /\ day < Sched!MonthDays(m + Per * k) => At(k) = FirstDay[m + Per * k] + day
             /\ day >= Sched!MonthDays(m + Per * k) =>
                   At(k) = FirstDay[m + Per * k] + Sched!MonthDays(m + Per * k) - 1
  <2>1. PICK n \in Nat : n = Per * k BY <1>8
  <2>2. m + n \in MonthNos /\ m + n < LastMonth
    <3>1. m + n < LastMonth BY <1>8, <2>1
    <3> QED BY <1>0, <1>4, <2>1, <3>1 DEF MonthNos
  <2>3. At(k) = Sched!addMonths(sched.anchor, n) BY <1>2, <2>1
  <2>4. /\ At(k) \in AllDays /\ Sched!MonthOf(At(k)) = m + n
        /\ FirstDay[m + n] <= At(k) /\ At(k) < FirstDay[m + n + 1]
        /\ day < Sched!MonthDays(m + n) => At(k) = FirstDay[m + n] + day
        /\ day >= Sched!MonthDays(m + n) => At(k) = FirstDay[m + n] + Sched!MonthDays(m + n) - 1
    BY <1>3, <2>2, <2>3, AddedMonths DEF day
  <2>5. At(k) \in Sched!Days BY <2>2, <2>4, DaysByMonth
  <2> QED BY <2>1, <2>4, <2>5
<1>9. ASSUME NEW k \in 0 .. q + 1 PROVE k \in Nat /\ Per * k \in Nat /\ m + Per * k < LastMonth
  <2>1. k \in Nat /\ Per * k \in Nat /\ (Per * k <= Per \/ Per * k <= e + Per) BY <1>6
  <2> QED BY <1>0, <1>1, <1>4, <2>1
<1>10. ASSUME NEW k \in 0 .. q - 1 PROVE At(k) <= since
  <2>1. k \in 0 .. q + 1 /\ Per * k < e BY <1>6
  <2>2. k \in Nat /\ Per * k \in Nat /\ m + Per * k < LastMonth BY <1>9, <2>1
  <2>3. Sched!MonthOf(At(k)) < Sched!MonthOf(since) BY <1>4, <1>8, <2>1, <2>2
  <2>4. At(k) \in AllDays BY <1>8, <2>2, DaysAreDays
  <2>5. since <= At(k) => Sched!MonthOf(since) <= Sched!MonthOf(At(k)) BY <1>3, <2>4, MonthsInOrder
  <2>6. At(k) \in Int /\ since \in Int BY <1>3, <2>4 DEF AllDays
  <2>7. Sched!MonthOf(At(k)) \in Int BY <1>4, <1>8, <2>2
  <2> QED BY <1>4, <2>3, <2>5, <2>6, <2>7
<1>11. At(q + 1) > since
  <2>1. q + 1 \in 0 .. q + 1 BY <1>6
  <2>2. q + 1 \in Nat /\ Per * (q + 1) \in Nat /\ m + Per * (q + 1) < LastMonth BY <1>9, <2>1
  <2>3. Sched!MonthOf(At(q + 1)) > Sched!MonthOf(since) BY <1>4, <1>6, <1>8, <2>2
  <2>4. At(q + 1) \in AllDays BY <1>8, <2>2, DaysAreDays
  <2>5. At(q + 1) <= since => Sched!MonthOf(At(q + 1)) <= Sched!MonthOf(since) BY <1>3, <2>4, MonthsInOrder
  <2>6. At(q + 1) \in Int /\ since \in Int BY <1>3, <2>4 DEF AllDays
  <2>7. Sched!MonthOf(At(q + 1)) \in Int BY <1>4, <1>8, <2>2
  <2> QED BY <1>4, <2>3, <2>5, <2>6, <2>7
<1>12. ASSUME NEW k \in 0 .. q + 1 PROVE At(k) \in Sched!Series
  <2>1. PICK n \in Nat : n = Per * k /\ m + n < LastMonth /\ k \in Nat BY <1>9
  <2>2. /\ At(k) \in Sched!Days /\ Sched!MonthOf(At(k)) = m + n
        /\ day < Sched!MonthDays(m + n) => At(k) = FirstDay[m + n] + day
        /\ day >= Sched!MonthDays(m + n) => At(k) = FirstDay[m + n] + Sched!MonthDays(m + n) - 1
    BY <1>8, <2>1
  <2>3. n % Per = 0
    <3>1. n = k * Per + 0 /\ 0 \in 0 .. Per - 1 BY <1>1, <2>1
    <3> QED BY <1>1, <2>1, <3>1, RemainderIs
  <2>4. (m + n) - m = n /\ m + n >= m BY <1>4
  <2>5. m + n \in Nat /\ m + n \in 0 .. LastMonth + 1 BY <1>0, <1>4, <2>1
  <2>6. Sched!MonthDays(m + n) \in Nat \ {0} /\ FirstDay[m + n] \in Nat BY <2>5, MonthLength, MonthStarts
  <2>7. day \in Nat
    <3>1. FirstDay[m] \in Nat /\ FirstDay[m] <= sched.anchor BY <1>0, <1>3, DayInMonth, MonthStarts DEF MonthNos
    <3> QED BY <1>3, <3>1 DEF day, AllDays
  <2>8. \/ At(k) - FirstDay[m + n] = day
        \/ At(k) - FirstDay[m + n] < day /\ At(k) - FirstDay[m + n] = Sched!MonthDays(m + n) - 1
    BY <2>2, <2>6, <2>7
  <2> QED BY <1>7, <2>2, <2>3, <2>4, <2>8
<1>13. ASSUME NEW d \in Sched!Series
       PROVE  \E j \in Nat : d = At(j) /\ \A k \in 0 .. q + 1 : k <= j => At(k) <= d
  <2> DEFINE n == Sched!MonthOf(d)
  <2>1. /\ d \in Sched!Days /\ n >= m /\ (n - m) % Per = 0
        /\ \/ d - FirstDay[n] = day
           \/ d - FirstDay[n] < day /\ d - FirstDay[n] = Sched!MonthDays(n) - 1
    BY <1>7
  <2>2. d \in AllDays /\ n \in MonthNos /\ n < LastMonth /\ FirstDay[n] <= d /\ d < FirstDay[n + 1]
    BY <2>1, DaysAreDays, DaysByMonth, DayInMonth
  <2> HIDE DEF n
  <2>3. PICK j \in Nat : Per * j = n - m
    <3>1. PICK x \in Nat : x = n - m BY <1>4, <2>1, <2>2 DEF MonthNos
    <3>2. x \in Int /\ x % Per = 0 BY <2>1, <3>1
    <3>3. x \div Per \in Int /\ x % Per = x - (x \div Per) * Per BY <1>1, <3>2, QuotientIs
    <3>4. PICK j \in Int : j = x \div Per BY <3>3
    <3>5. x = Per * j
      <4>1. j * Per \in Int /\ j * Per = Per * j BY <1>1, <3>4
      <4> QED BY <3>2, <3>3, <3>4, <4>1
    <3>6. j >= 0
      <4> SUFFICES ASSUME j <= -1 PROVE FALSE BY <3>4
      <4>1. Per * j <= Per * (-1) BY <1>1, <3>4, Multiples
      <4>2. Per * (-1) = - Per BY <1>1
      <4> QED BY <1>1, <3>1, <3>5, <4>1, <4>2
    <3> QED BY <3>1, <3>4, <3>5, <3>6
  <2>4. m + Per * j = n BY <1>4, <2>2, <2>3 DEF MonthNos
  <2>5. /\ At(j) \in Sched!Days /\ Sched!MonthOf(At(j)) = n
        /\ day < Sched!MonthDays(n) => At(j) = FirstDay[n] + day
        /\ day >= Sched!MonthDays(n) => At(j) = FirstDay[n] + Sched!MonthDays(n) - 1
    <3>1. Per * j \in Nat /\ m + Per * j < LastMonth BY <1>1, <2>2, <2>3, <2>4
    <3> QED BY <1>8, <2>4, <3>1
  <2>6. d = At(j)
    <3>1. FirstDay[n] \in Nat /\ FirstDay[n + 1] = FirstDay[n] + Sched!MonthDays(n)
      BY <1>0, <2>2, MonthStarts DEF MonthNos, Sched!ScheduleAssumption
    <3>2. Sched!MonthDays(n) \in Nat BY <2>2, MonthLength DEF MonthNos
    <3>3. day \in Int
      <4>1. FirstDay[m] \in Nat BY <1>0, <1>3, MonthStarts DEF MonthNos
      <4> QED BY <1>3, <4>1 DEF day, AllDays
    <3> QED BY <2>1, <2>2, <2>5, <3>1, <3>2, <3>3 DEF AllDays
  <2>7. ASSUME NEW k \in 0 .. q + 1, k <= j PROVE At(k) <= d
    <3>1. k \in Nat /\ Per * k \in Nat /\ m + Per * k < LastMonth BY <1>9
    <3>2. k = j \/ Per * k + Per <= Per * j
      <4>1. k = j \/ k < j BY <2>7, <3>1
      <4> QED BY <1>1, <3>1, <4>1, Multiples
    <3>3. CASE k = j BY <2>1, <2>6, <3>3 DEF Sched!Days
    <3>4. CASE Per * k + Per <= Per * j
      <4>1. Sched!MonthOf(At(k)) < n BY <1>1, <1>4, <1>8, <2>3, <2>4, <3>1, <3>4
      <4>2. At(k) \in AllDays BY <1>8, <3>1, DaysAreDays
      <4>3. d <= At(k) => n <= Sched!MonthOf(At(k)) BY <2>2, <4>2, MonthsInOrder DEF n
      <4>4. At(k) \in Int /\ d \in Int BY <2>2, <4>2 DEF AllDays
      <4>5. Sched!MonthOf(At(k)) \in Int /\ n \in Int BY <1>4, <1>8, <2>2, <3>1 DEF MonthNos
      <4> QED BY <4>1, <4>3, <4>4, <4>5
    <3> QED BY <3>2, <3>3, <3>4
  <2> QED BY <2>6, <2>7
<1> QED BY <1>6, <1>10, <1>11, <1>12, <1>13 DEF q

\* The search stops on the first date of the series after the day.
LEMMA FirstAfter ==
    ASSUME Sched!ScheduleAssumption, Repeats, NEW since \in Sched!Days,
           Reaches(sched.anchor), Reaches(since)
    PROVE  LET due == Sched!anchoredAfter(sched, since)
           IN  /\ due \in Sched!Series /\ due > since
               /\ \A d \in Sched!Series : d > since => due <= d
<1> DEFINE q == From(since)
<1>1. /\ q \in Nat
      /\ \A k \in 0 .. q - 1 : At(k) <= since
      /\ At(q + 1) > since
      /\ \A k \in 0 .. q + 1 : At(k) \in Sched!Series
      /\ \A d \in Sched!Series : \E j \in Nat :
            d = At(j) /\ \A k \in 0 .. q + 1 : k <= j => At(k) <= d
  <2>1. CASE ByDays BY <2>1, DaySteps
  <2>2. CASE ~ByDays BY <2>2, MonthSteps
  <2> QED BY <2>1, <2>2
<1>2. Sched!Series \subseteq Int /\ since \in Int BY DEF Sched!Series, Sched!Days
<1>3. MaxSteps \in Nat \ {0} BY DEF Sched!ScheduleAssumption
<1> DEFINE P(k) == At(k) > since /\ \A j \in q .. k - 1 : At(j) <= since
           found == CHOOSE k \in q .. q + MaxSteps : P(k)
<1>4. Sched!anchoredAfter(sched, since) = At(found) BY DEF Sched!anchoredAfter, At, From
<1> HIDE DEF q
<1>5. found \in q .. q + MaxSteps /\ P(found)
  <2>1. \E k \in q .. q + MaxSteps : P(k)
    <3>0. q \in 0 .. q + 1 /\ q + 1 \in 0 .. q + 1 BY <1>1
    <3>a. At(q) \in Int /\ At(q + 1) \in Int BY <1>1, <1>2, <3>0
    <3>1. CASE At(q) > since
      <4>1. q \in q .. q + MaxSteps /\ P(q) BY <1>1, <1>2, <1>3, <3>1
      <4> QED BY <4>1
    <3>2. CASE ~(At(q) > since)
      <4>1. q + 1 \in q .. q + MaxSteps /\ q .. (q + 1) - 1 = {q} BY <1>1, <1>3
      <4>2. At(q) <= since BY <1>2, <3>a, <3>2
      <4> QED BY <1>1, <4>1, <4>2
    <3> QED BY <3>1, <3>2
  <2> HIDE DEF P
  <2> QED BY <2>1
<1>6. found \in q .. q + 1
  <2>1. SUFFICES ASSUME found > q + 1 PROVE FALSE BY <1>1, <1>3, <1>5
  <2>2. q + 1 \in q .. found - 1 /\ q + 1 \in 0 .. q + 1 BY <1>1, <1>3, <1>5, <2>1
  <2>3. At(q + 1) <= since /\ At(q + 1) \in Int BY <1>1, <1>2, <1>5, <2>2
  <2> QED BY <1>1, <1>2, <2>3
<1> HIDE DEF found
<1>7. At(found) \in Sched!Series /\ At(found) > since BY <1>1, <1>5, <1>6
<1>8. ASSUME NEW d \in Sched!Series, d > since PROVE At(found) <= d
  <2>1. PICK j \in Nat : d = At(j) /\ \A k \in 0 .. q + 1 : k <= j => At(k) <= d BY <1>1
  <2>2. ~(j < q) BY <1>1, <1>2, <1>8, <2>1
  <2>3. ~(j \in q .. found - 1) BY <1>2, <1>5, <1>8, <2>1
  <2>4. found <= j BY <1>1, <1>6, <2>1, <2>2, <2>3
  <2> QED BY <1>1, <1>6, <2>1, <2>4
<1> QED BY <1>4, <1>7, <1>8

-----------------------------------------------------------------------------
(* What is stored.                                                         *)

\* The day the model's days end with.
LEMMA LastDay == ASSUME Sched!ScheduleAssumption PROVE FirstDay[LastMonth] \in Nat /\ LastMonth \in Nat
<1>1. LastMonth \in Nat BY DEF Sched!ScheduleAssumption
<1> QED BY <1>1, MonthStarts

\* A day that is not past those behaviours get to.
NotPast(d) == \E e \in Sched!Near : d <= e

\* A rule in the table: well-formed, of a count the editor can give, anchored
\* within reach; and the latest event with it.
ScheduleInv ==
    /\ now \in FirstTime .. MaxTime
    /\ Sched!WellFormed(sched)
    /\ sched.count \in {0} \cup Sched!Counts
    /\ NotPast(sched.anchor)
    /\ sched.setAt \in FirstTime .. now
    /\ \/ last = Sched!NoEvent
       \/ /\ last.at \in FirstTime - Past .. now /\ last.again \in {-1} \cup Agains
          /\ last # Sched!NoEvent

\* The day of an instant grows with it.
LEMMA DaysPass ==
    ASSUME Sched!ScheduleAssumption, NEW s \in Nat, NEW t \in Nat, s <= t
    PROVE  Sched!dayOf(s) \in Nat /\ Sched!dayOf(s) <= Sched!dayOf(t)
<1> DEFINE a == s \div DayParts
           b == t \div DayParts
<1>1. DayParts \in Nat \ {0} BY DEF Sched!ScheduleAssumption
<1>2. /\ a \in Int /\ b \in Int
      /\ a * DayParts <= s /\ s < a * DayParts + DayParts
      /\ b * DayParts <= t /\ t < b * DayParts + DayParts
  BY <1>1, QuotientIs
<1> HIDE DEF a, b
<1>3. a >= 0
  <2> SUFFICES ASSUME a <= -1 PROVE FALSE BY <1>2
  <2>1. DayParts * a <= DayParts * (-1) BY <1>1, <1>2, Multiples
  <2>2. DayParts * a = a * DayParts /\ a * DayParts \in Int /\ DayParts * (-1) = - DayParts BY <1>1, <1>2
  <2> QED BY <1>1, <1>2, <2>1, <2>2
<1>4. a <= b
  <2> SUFFICES ASSUME b < a PROVE FALSE BY <1>2
  <2>1. DayParts * b + DayParts <= DayParts * a BY <1>1, <1>2, Multiples
  <2>2. /\ DayParts * a = a * DayParts /\ a * DayParts \in Int
        /\ DayParts * b = b * DayParts /\ b * DayParts \in Int
    BY <1>1, <1>2
  <2> QED BY <1>1, <1>2, <2>1, <2>2
<1> QED BY <1>2, <1>3, <1>4 DEF a, b, Sched!dayOf

\* The calendar goes an interval, and two years more, past such a day.
LEMMA NearReaches ==
    ASSUME Sched!ScheduleAssumption, Sched!ScheduleClockAssumption, NEW d \in Nat, NotPast(d)
    PROVE  /\ d \in Sched!Days
           /\ \A c \in Sched!Counts :
                 /\ c \in Nat /\ Sched!MonthOf(d) + Year * c + 2 * Year < LastMonth
                 /\ d + WeekDays * c \in Sched!Days
                 /\ Sched!MonthOf(d + WeekDays * c) + 2 * Year < LastMonth
           /\ \A n \in Agains : /\ n \in Nat \ {0} /\ d + n \in Sched!Days
                                /\ Sched!MonthOf(d + n) + 2 * Year < LastMonth
<1>1. PICK e \in Sched!Near : d <= e BY DEF NotPast
<1>2. \A c \in Sched!Counts : c \in Nat /\ WeekDays * c \in Nat /\ Year * c \in Nat
  <2>1. Year \in Nat /\ WeekDays \in Nat BY MonthLength DEF Sched!ScheduleAssumption
  <2>2. \A c \in Sched!Counts : c \in Nat
    BY DEF Sched!ScheduleClockAssumption, Sched!WellFormed, Sched!Counts
  <2> QED BY <2>1, <2>2
<1>3. e \in Sched!Near \ {Sched!None}
  <2>1. e # -1 BY <1>1
  <2> QED BY <1>1, <2>1 DEF Sched!None
<1>4. /\ \A n \in {WeekDays * c : c \in Sched!Counts} \cup Agains :
            e + n \in Sched!Days /\ Sched!MonthOf(e + n) + 2 * Year < LastMonth
      /\ \A c \in Sched!Counts : Sched!MonthOf(e) + Year * c + 2 * Year < LastMonth
  BY <1>3 DEF Sched!ScheduleClockAssumption, Sched!CalendarReaches, Year
<1>5. e \in Nat
  <2>1. MaxTime \in Nat /\ Sched!dayOf(MaxTime) \in Nat BY DaysPass DEF Sched!ScheduleClockAssumption
  <2>2. \A s \in Schedules : s.anchor \in Nat \cup {-1}
    BY DEF Sched!ScheduleClockAssumption, Sched!WellFormed, Sched!Days, Sched!None
  <2> QED BY <1>3, <2>1, <2>2 DEF Sched!Near, Sched!None
<1>6. Year \in Nat \ {0} /\ LastMonth \in Nat /\ FirstDay[LastMonth] \in Nat BY MonthLength, LastDay
<1>7. ASSUME NEW n \in {WeekDays * c : c \in Sched!Counts} \cup Agains
      PROVE  n \in Nat /\ d + n \in Sched!Days /\ Sched!MonthOf(d + n) + 2 * Year < LastMonth
  <2>1. n \in Nat BY <1>2 DEF Sched!ScheduleClockAssumption
  <2>2. e + n \in Sched!Days /\ Sched!MonthOf(e + n) + 2 * Year < LastMonth BY <1>4
  <2>3. d + n \in Sched!Days /\ d + n <= e + n BY <1>1, <1>5, <1>6, <2>1, <2>2 DEF Sched!Days
  <2>4. d + n \in AllDays /\ e + n \in AllDays BY <2>2, <2>3, DaysAreDays
  <2>5. Sched!MonthOf(d + n) <= Sched!MonthOf(e + n) BY <2>3, <2>4, MonthsInOrder
  <2>6. Sched!MonthOf(d + n) \in Nat /\ Sched!MonthOf(e + n) \in Nat BY <2>4, DayInMonth DEF MonthNos
  <2> QED BY <1>6, <2>1, <2>2, <2>3, <2>5, <2>6
<1>8. e \in Sched!Days
  <2>1. 1 \in Sched!Counts BY DEF Sched!Counts
  <2>2. e + WeekDays * 1 \in Sched!Days /\ WeekDays * 1 \in Nat BY <1>2, <1>4, <2>1
  <2> QED BY <1>5, <1>6, <2>2 DEF Sched!Days
<1>9. d \in Sched!Days BY <1>1, <1>6, <1>8 DEF Sched!Days
<1>10. ASSUME NEW c \in Sched!Counts PROVE Sched!MonthOf(d) + Year * c + 2 * Year < LastMonth
  <2>1. d \in AllDays /\ e \in AllDays BY <1>8, <1>9, DaysAreDays
  <2>2. Sched!MonthOf(d) <= Sched!MonthOf(e) BY <1>1, <2>1, MonthsInOrder
  <2>3. Sched!MonthOf(d) \in Nat /\ Sched!MonthOf(e) \in Nat BY <2>1, DayInMonth DEF MonthNos
  <2>4. Sched!MonthOf(e) + Year * c + 2 * Year < LastMonth /\ Year * c \in Nat BY <1>2, <1>4
  <2> QED BY <1>6, <2>2, <2>3, <2>4
<1>11. Agains \subseteq Nat \ {0} BY DEF Sched!ScheduleClockAssumption
<1> QED BY <1>2, <1>7, <1>9, <1>10, <1>11

\* So it reaches the first date of a rule after such a day.
LEMMA RulesReach ==
    ASSUME Sched!ScheduleAssumption, Sched!ScheduleClockAssumption, ScheduleInv,
           sched.count \in Nat \ {0}, sched.unit \in Units
    PROVE  \A d \in Nat : NotPast(d) => Reaches(d)
<1> SUFFICES ASSUME NEW d \in Nat, NotPast(d) PROVE Reaches(d) OBVIOUS
<1>1. sched.count \in Sched!Counts BY DEF ScheduleInv
<1>2. /\ d \in Sched!Days /\ Sched!MonthOf(d) + Year * sched.count + 2 * Year < LastMonth
      /\ d + WeekDays * sched.count \in Sched!Days
  BY <1>1, NearReaches
<1>3. WeekDays \in Nat \ {0} /\ Year \in Nat \ {0} BY MonthLength DEF Sched!ScheduleAssumption
<1>4. sched.count <= WeekDays * sched.count /\ sched.count <= Year * sched.count
  <2>1. sched.count * 1 <= sched.count * WeekDays /\ sched.count * 1 <= sched.count * Year
    BY <1>3, Multiples
  <2>2. /\ sched.count * 1 = sched.count /\ sched.count * WeekDays = WeekDays * sched.count
        /\ sched.count * Year = Year * sched.count
    BY <1>3
  <2> QED BY <2>1, <2>2
<1>5. WeekDays * sched.count \in Nat /\ Year * sched.count \in Nat BY <1>3
<1>6. Sched!MonthOf(d) \in Nat
  <2>1. d \in AllDays BY <1>2, DaysAreDays
  <2> QED BY <2>1, DayInMonth DEF MonthNos
<1>7. d + sched.count \in Sched!Days BY <1>2, <1>4, <1>5, LastDay DEF Sched!Days
<1>8. /\ Sched!MonthOf(d) + sched.count < LastMonth
      /\ Sched!MonthOf(d) + Year * sched.count < LastMonth
  BY <1>2, <1>3, <1>4, <1>5, <1>6, LastDay
<1>9. CASE sched.unit = "week" BY <1>2, <1>9 DEF Reaches, ByDays, Per
<1>10. CASE sched.unit = "year" BY <1>8, <1>10 DEF Reaches, ByDays, Per
<1>11. CASE sched.unit = "day" BY <1>7, <1>11 DEF Reaches, ByDays, Per
<1>12. CASE sched.unit = "month" BY <1>8, <1>12 DEF Reaches, ByDays, Per
<1> QED BY <1>9, <1>10, <1>11, <1>12 DEF Units

\* An instant up to now is such a day.
LEMMA TimesAreNear ==
    ASSUME Sched!ScheduleAssumption, Sched!ScheduleClockAssumption, NEW t \in Nat, t <= MaxTime
    PROVE  Sched!dayOf(t) \in Nat /\ NotPast(Sched!dayOf(t)) /\ Sched!dayOf(t) \in Sched!Days
<1>1. MaxTime \in Nat BY DEF Sched!ScheduleClockAssumption
<1>2. Sched!dayOf(t) \in Nat /\ Sched!dayOf(t) <= Sched!dayOf(MaxTime) BY <1>1, DaysPass
<1>3. NotPast(Sched!dayOf(t)) BY <1>2 DEF NotPast, Sched!Near
<1> QED BY <1>2, <1>3, NearReaches

-----------------------------------------------------------------------------
(* What the editor saves.                                                  *)

\* The editor opens on the rule's own interval, unit and dates, and on week,
\* one and any day of the current month for what the rule has not.
LEMMA DraftIs ==
    ASSUME Sched!ScheduleAssumption, Sched!ScheduleClockAssumption, ScheduleInv
    PROVE  LET f == Sched!scheduleDraftFor IN
           /\ f.every \in {1, sched.count} /\ f.every \in Nat \ {0}
           /\ f.unit \in Units /\ f.season \in (1 .. Year) \X (1 .. Year)
           /\ \/ f.day = 0 /\ f.month = Sched!MonthOf(Sched!Today)
              \/ /\ sched.anchor # -1 /\ f.month = Sched!MonthOf(sched.anchor)
                 /\ \/ f.day = 0
                    \/ f.day = sched.anchor - FirstDay[f.month] + 1
<1> DEFINE a == Sched!newScheduleDraft(Sched!MonthOf(Sched!dayOf(now)))
           b == Sched!scheduleDraftOf(Sched!Rule, Sched!MonthOf(Sched!dayOf(now)))
<1>1. Sched!scheduleDraftFor = a \/ Sched!scheduleDraftFor = b
  <2>1. a = Sched!newScheduleDraft(Sched!MonthOf(Sched!dayOf(now))) OBVIOUS
  <2>2. b = Sched!scheduleDraftOf(Sched!Rule, Sched!MonthOf(Sched!dayOf(now))) OBVIOUS
  <2> HIDE DEF a, b
  <2> QED BY <2>1, <2>2 DEF Sched!scheduleDraftFor
<1>2. /\ sched.count \in Nat /\ sched.unit \in {"none"} \cup Units /\ (sched.count = 0) = (sched.unit = "none")
      /\ sched.season # Sched!NoSeason => sched.season \in (1 .. Year) \X (1 .. Year)
  BY DEF ScheduleInv, Sched!WellFormed, Units, Year
<1>0. <<1, 1>> \in (1 .. Year) \X (1 .. Year)
  <2>1. Year \in Nat \ {0} BY MonthLength
  <2> QED BY <2>1
<1>3. /\ a.every = 1 /\ a.unit = "week" /\ a.day = 0 /\ a.month = Sched!MonthOf(Sched!Today)
      /\ a.season = <<1, 1>>
  BY DEF Sched!newScheduleDraft, Sched!AnyDay, Sched!Today
<1>4. /\ b.every = IF sched.count # 0 THEN sched.count ELSE 1
      /\ b.unit = IF sched.count # 0 THEN sched.unit ELSE "week"
      /\ b.season = IF sched.season # Sched!NoSeason THEN sched.season ELSE <<1, 1>>
      /\ b.month = IF sched.anchor # -1 THEN Sched!MonthOf(sched.anchor) ELSE Sched!MonthOf(Sched!Today)
      /\ b.day = CASE sched.anchor = -1 -> 0
                   [] sched.anchor # -1 /\ sched.precision = "month" -> 0
                   [] OTHER -> sched.anchor - FirstDay[Sched!MonthOf(sched.anchor)] + 1
  BY DEF Sched!scheduleDraftOf, Sched!newScheduleDraft, Sched!Rule, Sched!None, Sched!AnyDay, Sched!Today,
         Sched!firstOfMonth
<1> HIDE DEF a, b
<1>5. b.every \in {1, sched.count} /\ b.every \in Nat \ {0} /\ b.unit \in Units BY <1>2, <1>4 DEF Units
<1>8. a.season \in (1 .. Year) \X (1 .. Year) /\ b.season \in (1 .. Year) \X (1 .. Year) BY <1>0, <1>2, <1>3, <1>4
<1>6. /\ \/ b.day = 0 /\ b.month = Sched!MonthOf(Sched!Today)
         \/ /\ sched.anchor # -1 /\ b.month = Sched!MonthOf(sched.anchor)
            /\ \/ b.day = 0
               \/ b.day = sched.anchor - FirstDay[b.month] + 1
  <2>1. CASE sched.anchor = -1 BY <1>4, <2>1
  <2>2. CASE sched.anchor # -1 /\ sched.precision = "month" BY <1>4, <2>2
  <2>3. CASE sched.anchor # -1 /\ sched.precision # "month" BY <1>4, <2>3
  <2> QED BY <2>1, <2>2, <2>3
<1>7. a.every \in {1, sched.count} /\ a.every \in Nat \ {0} /\ a.unit \in Units BY <1>3 DEF Units
<1> QED BY <1>1, <1>3, <1>5, <1>6, <1>7, <1>8

\* An anchor the editor saves is a day that was stored or is before today, the
\* first of its month if no day is picked.
LEMMA AnchorIs ==
    ASSUME Sched!ScheduleAssumption, Sched!ScheduleClockAssumption, ScheduleInv
    PROVE  LET f == Sched!scheduleDraftFor
               day == IF f.day = 0 THEN FirstDay[f.month] ELSE FirstDay[f.month] + f.day - 1
           IN  /\ day \in Nat /\ day \in Sched!Days /\ NotPast(day)
               /\ f.day = 0 => day = Sched!firstOfMonth(day)
<1> DEFINE f == Sched!scheduleDraftFor
           day == IF f.day = 0 THEN FirstDay[f.month] ELSE FirstDay[f.month] + f.day - 1
<1>1. PICK d \in Nat : /\ NotPast(d) /\ f.month = Sched!MonthOf(d)
                       /\ f.day = 0 \/ f.day = d - FirstDay[f.month] + 1
  <2>1. CASE f.day = 0 /\ f.month = Sched!MonthOf(Sched!Today)
    <3>1. now \in Nat /\ now <= MaxTime BY DEF ScheduleInv, Sched!ScheduleClockAssumption
    <3>2. Sched!Today \in Nat /\ NotPast(Sched!Today) BY <3>1, TimesAreNear DEF Sched!Today
    <3> QED BY <2>1, <3>2
  <2>2. CASE /\ sched.anchor # -1 /\ f.month = Sched!MonthOf(sched.anchor)
             /\ f.day = 0 \/ f.day = sched.anchor - FirstDay[f.month] + 1
    <3>1. sched.anchor \in Nat /\ NotPast(sched.anchor)
      BY <2>2 DEF ScheduleInv, Sched!WellFormed, Sched!Days, Sched!None
    <3> QED BY <2>2, <3>1
  <2> QED BY <2>1, <2>2, DraftIs
<1> HIDE DEF f
<1>2. d \in Sched!Days /\ d \in AllDays BY <1>1, NearReaches, DaysAreDays
<1>3. /\ f.month \in MonthNos /\ FirstDay[f.month] \in Nat
      /\ FirstDay[f.month] <= d /\ d < FirstDay[f.month + 1] /\ FirstDay[f.month + 1] \in Nat
  BY <1>1, <1>2, DayInMonth, MonthStarts DEF MonthNos, Sched!ScheduleAssumption
<1>4. day \in Nat /\ day <= d /\ FirstDay[f.month] <= day BY <1>1, <1>3
<1>5. NotPast(day)
  <2>1. PICK e \in Sched!Near : d <= e BY <1>1 DEF NotPast
  <2>2. e \in Int
    <3>1. MaxTime \in Nat /\ Sched!dayOf(MaxTime) \in Nat
      BY DaysPass DEF Sched!ScheduleClockAssumption
    <3>2. \A s \in Schedules : s.anchor \in Int
      BY DEF Sched!ScheduleClockAssumption, Sched!WellFormed, Sched!Days, Sched!None
    <3> QED BY <2>1, <3>1, <3>2 DEF Sched!Near
  <2>3. day <= e BY <1>4, <2>1, <2>2
  <2> QED BY <2>1, <2>3 DEF NotPast
<1>6. day \in Sched!Days BY <1>2, <1>4, LastDay DEF Sched!Days
<1>7. ASSUME f.day = 0 PROVE day = Sched!firstOfMonth(day)
  <2>1. day = FirstDay[f.month] BY <1>7
  <2>2. FirstDay[f.month] <= day /\ day < FirstDay[f.month + 1] BY <1>3, <1>4, <2>1
  <2>3. Sched!MonthOf(day) = f.month BY <1>3, <1>4, <2>2, MonthOfDay
  <2> QED BY <2>1, <2>3 DEF Sched!firstOfMonth
<1> QED BY <1>4, <1>5, <1>6, <1>7 DEF f

\* So what it saves is a rule the table accepts.
LEMMA SavedIs ==
    ASSUME Sched!ScheduleAssumption, Sched!ScheduleClockAssumption, ScheduleInv,
           NEW picked \in {"cadence", "date", "once"}
    PROVE  LET p == Sched!params([Sched!scheduleDraftFor EXCEPT !.shape = picked]) IN
           /\ p.count \in Nat /\ p.unit \in {"none"} \cup Units /\ (p.count = 0) = (p.unit = "none")
           /\ p.count \in {0} \cup Sched!Counts
           /\ p.anchor \in {-1} \cup Sched!Days /\ NotPast(p.anchor)
           /\ p.precision \in {"day", "month"}
           /\ p.anchor # -1 \/ p.count > 0
           /\ p.season # Sched!NoSeason => p.anchor = -1 /\ p.season \in (1 .. Year) \X (1 .. Year)
           /\ p.precision = "month" => p.anchor # -1 /\ p.anchor = Sched!firstOfMonth(p.anchor)
<1> DEFINE f == Sched!scheduleDraftFor
           g == [f EXCEPT !.shape = picked]
           p == Sched!params(g)
           day == IF f.day = 0 THEN FirstDay[f.month] ELSE FirstDay[f.month] + f.day - 1
<1>1. /\ f.every \in {1, sched.count} /\ f.every \in Nat \ {0} /\ f.unit \in Units
      /\ f.season \in (1 .. Year) \X (1 .. Year)
  BY DraftIs
<1>2. /\ day \in Nat /\ day \in Sched!Days /\ NotPast(day)
      /\ f.day = 0 => day = Sched!firstOfMonth(day)
  BY AnchorIs
<1>3. /\ g.shape = picked /\ g.every = f.every /\ g.unit = f.unit /\ g.season = f.season
      /\ g.day = f.day /\ g.month = f.month /\ g.seasonal = f.seasonal
  <2>1. f = Sched!newScheduleDraft(Sched!MonthOf(Sched!dayOf(now)))
        \/ f = Sched!scheduleDraftOf(Sched!Rule, Sched!MonthOf(Sched!dayOf(now)))
    BY DEF Sched!scheduleDraftFor
  <2>2. "shape" \in DOMAIN f BY <2>1 DEF Sched!newScheduleDraft, Sched!scheduleDraftOf
  <2> HIDE DEF f
  <2> QED BY <2>2
<1> HIDE DEF g
<1>4. /\ p.count = IF picked = "once" THEN 0 ELSE f.every
      /\ p.unit = IF picked = "once" THEN "none" ELSE f.unit
      /\ p.season = IF f.seasonal /\ picked = "cadence" THEN f.season ELSE Sched!NoSeason
      /\ p.anchor = IF picked = "cadence" THEN -1 ELSE day
      /\ p.precision = IF picked # "cadence" /\ f.day = 0 THEN "month" ELSE "day"
  <2>1. /\ p.count = IF picked = "once" THEN 0 ELSE f.every
        /\ p.unit = IF picked = "once" THEN "none" ELSE f.unit
        /\ p.season = IF f.seasonal /\ picked = "cadence" THEN f.season ELSE Sched!NoSeason
        /\ p.precision = IF picked # "cadence" /\ f.day = 0 THEN "month" ELSE "day"
    BY <1>3 DEF Sched!params, Sched!AnyDay
  <2>2. p.anchor = CASE picked = "cadence" -> -1
                     [] picked # "cadence" /\ f.day = 0 -> FirstDay[f.month]
                     [] OTHER -> FirstDay[f.month] + f.day - 1
    BY <1>3 DEF Sched!params, Sched!AnyDay, Sched!None
  <2>3. p.anchor = IF picked = "cadence" THEN -1 ELSE day
    <3>1. CASE picked = "cadence" BY <2>2, <3>1
    <3>2. CASE picked # "cadence" /\ f.day = 0 BY <2>2, <3>2
    <3>3. CASE picked # "cadence" /\ f.day # 0 BY <2>2, <3>3
    <3> QED BY <3>1, <3>2, <3>3
  <2> QED BY <2>1, <2>3
<1> HIDE DEF f, p, day
<1>5. sched.count \in {0} \cup Sched!Counts /\ 1 \in Sched!Counts BY DEF ScheduleInv, Sched!Counts
<1>6. NotPast(-1)
  <2>1. MaxTime \in Nat /\ Sched!dayOf(MaxTime) \in Nat BY DaysPass DEF Sched!ScheduleClockAssumption
  <2>2. -1 <= Sched!dayOf(MaxTime) BY <2>1
  <2> QED BY <2>2 DEF NotPast, Sched!Near
<1>7. p.count \in {0} \cup Sched!Counts BY <1>1, <1>4, <1>5
<1>8. p.count \in Nat /\ p.unit \in {"none"} \cup Units /\ (p.count = 0) = (p.unit = "none")
  BY <1>1, <1>4 DEF Units
<1>9. p.anchor \in {-1} \cup Sched!Days /\ NotPast(p.anchor) BY <1>2, <1>4, <1>6
<1>10. p.anchor # -1 \/ p.count > 0 BY <1>1, <1>2, <1>4
<1>11. p.precision = "month" => p.anchor # -1 /\ p.anchor = Sched!firstOfMonth(p.anchor) BY <1>2, <1>4
<1>12. /\ p.precision \in {"day", "month"}
       /\ p.season # Sched!NoSeason => p.anchor = -1 /\ p.season \in (1 .. Year) \X (1 .. Year)
  BY <1>1, <1>4
<1> QED BY <1>7, <1>8, <1>9, <1>10, <1>11, <1>12 DEF p, g, f

-----------------------------------------------------------------------------
(* What holds of every behaviour.                                          *)

LEMMA Stays ==
    ASSUME Sched!ScheduleAssumption, Sched!ScheduleClockAssumption
    PROVE  Sched!Spec => []ScheduleInv
<1>1. ASSUME Sched!Init PROVE ScheduleInv
  <2>1. PICK s \in Schedules : sched = Sched!Saved(s, FirstTime) BY <1>1 DEF Sched!Init
  <2>2. /\ sched.unit = s.unit /\ sched.count = s.count /\ sched.anchor = s.anchor
        /\ sched.precision = s.precision /\ sched.season = s.season /\ sched.setAt = FirstTime
    BY <2>1 DEF Sched!Saved
  <2>3. Sched!WellFormed(s) BY DEF Sched!ScheduleClockAssumption
  <2>4. Sched!WellFormed(sched) BY <2>2, <2>3 DEF Sched!WellFormed
  <2>5. NotPast(sched.anchor)
    <3>1. s.anchor \in Sched!Near /\ s.anchor \in Int
      BY <2>3 DEF Sched!Near, Sched!WellFormed, Sched!Days, Sched!None
    <3> QED BY <2>2, <3>1 DEF NotPast
  <2>6. now = FirstTime /\ FirstTime \in FirstTime .. MaxTime /\ FirstTime \in FirstTime .. now
    BY <1>1 DEF Sched!Init, Sched!ScheduleClockAssumption
  <2>7. last = Sched!NoEvent BY <1>1 DEF Sched!Init
  <2> QED BY <2>2, <2>4, <2>5, <2>6, <2>7 DEF ScheduleInv, Sched!Counts
<1>2. ASSUME ScheduleInv, [Sched!Next]_(Sched!vars) PROVE ScheduleInv'
  <2>1. /\ now \in FirstTime .. MaxTime /\ FirstTime \in Nat /\ MaxTime \in Nat /\ Past \in 0 .. FirstTime
        /\ sched.setAt \in FirstTime .. now
        /\ last = Sched!NoEvent \/ (last.at \in FirstTime - Past .. now /\ last.again \in {-1} \cup Agains /\ last # Sched!NoEvent)
    BY <1>2 DEF ScheduleInv, Sched!ScheduleClockAssumption
  <2>2. CASE Sched!Clock
    <3>1. now' = now + 1 /\ now' \in FirstTime .. MaxTime /\ sched' = sched /\ last' = last
      BY <2>1, <2>2 DEF Sched!Clock
    <3>2. Sched!WellFormed(sched)' /\ NotPast(sched.anchor)'
          /\ sched'.count \in {0} \cup Sched!Counts
      BY <1>2, <3>1 DEF ScheduleInv, Sched!WellFormed, NotPast, Sched!Near, Sched!Days, Sched!firstOfMonth,
                        Sched!MonthOf, Sched!dayOf
    <3>3. sched'.setAt \in FirstTime .. now' BY <2>1, <3>1
    <3>4. last' = Sched!NoEvent \/ (last'.at \in FirstTime - Past .. now' /\ last'.again \in {-1} \cup Agains /\ last' # Sched!NoEvent)
      BY <2>1, <3>1
    <3> QED BY <3>1, <3>2, <3>3, <3>4 DEF ScheduleInv
  <2>3. ASSUME NEW at \in FirstTime - Past .. now, NEW done \in BOOLEAN, NEW again \in {-1} \cup Agains,
               last' = Sched!Latest([at |-> at, done |-> done, again |-> again]),
               UNCHANGED <<now, sched, sets>>
        PROVE  ScheduleInv'
    <3>1. [at |-> at, done |-> done, again |-> again] # Sched!NoEvent
      <4>1. "again" \in DOMAIN [at |-> at, done |-> done, again |-> again] OBVIOUS
      <4>2. "again" \notin DOMAIN Sched!NoEvent BY DEF Sched!NoEvent
      <4> QED BY <4>1, <4>2
    <3>2. last' = Sched!NoEvent \/ (last'.at \in FirstTime - Past .. now' /\ last'.again \in {-1} \cup Agains /\ last' # Sched!NoEvent)
      <4>1. CASE last' = last BY <2>1, <2>3, <4>1
      <4>2. CASE last' = [at |-> at, done |-> done, again |-> again] BY <2>3, <3>1, <4>2
      <4> QED BY <2>3, <4>1, <4>2 DEF Sched!Latest
    <3>3. /\ Sched!WellFormed(sched)' /\ NotPast(sched.anchor)'
          /\ sched'.count \in {0} \cup Sched!Counts
      BY <1>2, <2>3 DEF ScheduleInv, Sched!WellFormed, NotPast, Sched!Near, Sched!Days, Sched!firstOfMonth,
                        Sched!MonthOf, Sched!dayOf
    <3>4. sched'.setAt \in FirstTime .. now' /\ now' \in FirstTime .. MaxTime BY <2>1, <2>3
    <3> QED BY <3>2, <3>3, <3>4 DEF ScheduleInv
  <2>4. CASE \E at \in FirstTime - Past .. now : Sched!Log(at) \/ \E again \in Agains : Sched!Skip(at, again)
    <3>1. PICK at \in FirstTime - Past .. now : Sched!Log(at) \/ \E again \in Agains : Sched!Skip(at, again)
      BY <2>4
    <3>2. CASE Sched!Log(at) BY <2>3, <3>2 DEF Sched!Log, Sched!None
    <3>3. CASE \E again \in Agains : Sched!Skip(at, again) BY <2>3, <3>3 DEF Sched!Skip
    <3> QED BY <3>1, <3>2, <3>3
  <2>5. CASE \E picked \in {"cadence", "date", "once"} : Sched!SaveSchedule(picked)
    <3>1. PICK picked \in {"cadence", "date", "once"} : Sched!SaveSchedule(picked) BY <2>5
    <3> DEFINE p == Sched!params([Sched!scheduleDraftFor EXCEPT !.shape = picked])
    <3>2. sched' = Sched!Saved(p, now) /\ UNCHANGED <<now, last>> BY <3>1 DEF Sched!SaveSchedule
    <3>3. /\ p.count \in Nat /\ p.unit \in {"none"} \cup Units /\ (p.count = 0) = (p.unit = "none")
          /\ p.count \in {0} \cup Sched!Counts
          /\ p.anchor \in {-1} \cup Sched!Days /\ NotPast(p.anchor)
          /\ p.precision \in {"day", "month"}
          /\ p.anchor # -1 \/ p.count > 0
          /\ p.season # Sched!NoSeason => p.anchor = -1 /\ p.season \in (1 .. Year) \X (1 .. Year)
          /\ p.precision = "month" => p.anchor # -1 /\ p.anchor = Sched!firstOfMonth(p.anchor)
      BY <1>2, SavedIs
    <3> HIDE DEF p
    <3>4. /\ sched'.unit = p.unit /\ sched'.count = p.count /\ sched'.anchor = p.anchor
          /\ sched'.precision = p.precision /\ sched'.season = p.season /\ sched'.setAt = now
      BY <3>2 DEF Sched!Saved
    <3>5. Sched!WellFormed(sched')
      BY <3>3, <3>4 DEF Sched!WellFormed, Sched!None, Units, Year
    <3>6. NotPast(sched'.anchor) /\ sched'.count \in {0} \cup Sched!Counts
      BY <3>3, <3>4
    <3>7. sched'.setAt \in FirstTime .. now' /\ now' \in FirstTime .. MaxTime
          /\ (last' = Sched!NoEvent \/ (last'.at \in FirstTime - Past .. now' /\ last'.again \in {-1} \cup Agains /\ last' # Sched!NoEvent))
      BY <2>1, <3>2, <3>4
    <3>8. Sched!WellFormed(sched)' /\ NotPast(sched.anchor)'
      BY <3>5, <3>6 DEF Sched!WellFormed, NotPast, Sched!Near, Sched!Days, Sched!firstOfMonth,
                        Sched!MonthOf, Sched!dayOf
    <3> QED BY <3>6, <3>7, <3>8 DEF ScheduleInv
  <2>6. CASE UNCHANGED Sched!vars
    <3>1. now' = now /\ sched' = sched /\ last' = last BY <2>6 DEF Sched!vars
    <3> QED BY <1>2, <3>1 DEF ScheduleInv, Sched!WellFormed, NotPast, Sched!Near, Sched!Days,
                              Sched!firstOfMonth, Sched!MonthOf, Sched!dayOf
  <2> QED BY <1>2, <2>2, <2>4, <2>5, <2>6 DEF Sched!Next
<1> QED BY <1>1, <1>2, PTL DEF Sched!Spec

-----------------------------------------------------------------------------
(* The occurrence before the season is applied.                            *)

\* An event a behaviour may have latest, and the day it counts from.
Fits(e) ==
    \/ e = Sched!NoEvent
    \/ e.at \in Nat /\ e.at <= MaxTime /\ e.again \in {-1} \cup Agains /\ e # Sched!NoEvent
SinceOf(e) == Sched!dayOf(IF e = Sched!NoEvent THEN sched.setAt ELSE e.at)
Override(e) == e # Sched!NoEvent /\ e.again # -1

\* A day with two more years of the calendar after it.
Roomy(d) == d \in Sched!Days /\ Sched!MonthOf(d) + 2 * Year < LastMonth

\* The latest event, and one of care given now, are such events.
LEMMA EventsFit ==
    ASSUME Sched!ScheduleClockAssumption, ScheduleInv
    PROVE  Fits(last) /\ Fits([at |-> now, done |-> TRUE, again |-> -1])
<1>1. now \in Nat /\ now <= MaxTime BY DEF ScheduleInv, Sched!ScheduleClockAssumption
<1>2. Fits(last) BY <1>1 DEF ScheduleInv, Fits, Sched!ScheduleClockAssumption
<1> DEFINE e == [at |-> now, done |-> TRUE, again |-> -1]
<1>3. "again" \in DOMAIN e /\ "again" \notin DOMAIN Sched!NoEvent BY DEF Sched!NoEvent
<1>4. e # Sched!NoEvent
  <2> HIDE DEF e
  <2> QED BY <1>3
<1>5. e.at = now /\ e.again = -1 OBVIOUS
<1> HIDE DEF e
<1>6. Fits(e) BY <1>1, <1>4, <1>5 DEF Fits
<1> QED BY <1>2, <1>6 DEF e

LEMMA SinceIs ==
    ASSUME Sched!ScheduleAssumption, Sched!ScheduleClockAssumption, ScheduleInv, NEW e, Fits(e)
    PROVE  SinceOf(e) \in Nat /\ NotPast(SinceOf(e)) /\ SinceOf(e) \in Sched!Days
<1>1. sched.setAt \in Nat /\ sched.setAt <= MaxTime BY DEF ScheduleInv, Sched!ScheduleClockAssumption
<1>2. CASE e = Sched!NoEvent BY <1>1, <1>2, TimesAreNear DEF SinceOf
<1>3. CASE e # Sched!NoEvent
  <2>1. e.at \in Nat /\ e.at <= MaxTime BY <1>3 DEF Fits
  <2> QED BY <1>3, <2>1, TimesAreNear DEF SinceOf
<1> QED BY <1>2, <1>3

\* A reminder asked for with a skip comes after it.
LEMMA OverrideIs ==
    ASSUME Sched!ScheduleAssumption, Sched!ScheduleClockAssumption, ScheduleInv, NEW e, Fits(e), Override(e)
    PROVE  \E d \in Int : /\ Sched!shape(sched, e) = [at |-> d, precision |-> "day"]
                          /\ Roomy(d) /\ d > SinceOf(e)
<1>1. e.again \in Agains /\ e # Sched!NoEvent /\ e.again # Sched!None BY DEF Fits, Override, Sched!None
<1>2. SinceOf(e) \in Nat /\ NotPast(SinceOf(e)) BY SinceIs
<1>3. /\ e.again \in Nat \ {0} /\ SinceOf(e) + e.again \in Sched!Days
      /\ Sched!MonthOf(SinceOf(e) + e.again) + 2 * Year < LastMonth
  BY <1>1, <1>2, NearReaches
<1> DEFINE d == SinceOf(e) + e.again
<1>4. Sched!shape(sched, e) = [at |-> d, precision |-> "day"]
  <2>1. d = Sched!dayOf(IF e = Sched!NoEvent THEN sched.setAt ELSE e.at) + e.again BY DEF SinceOf
  <2> HIDE DEF d
  <2> QED BY <1>1, <2>1 DEF Sched!shape
<1>5. d \in Int /\ Roomy(d) /\ d > SinceOf(e) BY <1>2, <1>3 DEF Roomy
<1> QED BY <1>4, <1>5

\* So does a cadence's next date.
LEMMA CadenceIs ==
    ASSUME Sched!ScheduleAssumption, Sched!ScheduleClockAssumption, ScheduleInv, NEW e, Fits(e),
           ~Override(e), sched.anchor = -1
    PROVE  \E d \in Int : /\ Sched!shape(sched, e) = [at |-> d, precision |-> "day"]
                          /\ Roomy(d) /\ d > SinceOf(e)
<1> DEFINE s == SinceOf(e)
           d == Sched!advance(s, sched.count, sched.unit, 1)
<1>1. sched.count \in Nat \ {0} /\ sched.unit \in Units /\ sched.count \in Sched!Counts
  BY DEF ScheduleInv, Sched!WellFormed, Sched!None, Units
<1>2. Sched!shape(sched, e) = [at |-> d, precision |-> "day"]
  <2>1. /\ ~(e # Sched!NoEvent /\ e.again # Sched!None)
        /\ (e = Sched!NoEvent \/ e.again = Sched!None) /\ sched.anchor = Sched!None
    BY DEF Override, Sched!None
  <2>2. d = Sched!advance(Sched!dayOf(IF e = Sched!NoEvent THEN sched.setAt ELSE e.at),
                          sched.count, sched.unit, 1)
    BY DEF SinceOf
  <2> HIDE DEF d
  <2> QED BY <2>1, <2>2 DEF Sched!shape
<1>3. s \in Nat /\ NotPast(s) /\ s \in Sched!Days /\ s \in AllDays BY SinceIs, DaysAreDays
<1>4. /\ Sched!MonthOf(s) + Year * sched.count + 2 * Year < LastMonth
      /\ s + WeekDays * sched.count \in Sched!Days
      /\ Sched!MonthOf(s + WeekDays * sched.count) + 2 * Year < LastMonth
  BY <1>1, <1>3, NearReaches
<1>5. /\ WeekDays \in Nat \ {0} /\ Year \in Nat \ {0} /\ LastMonth \in Nat /\ FirstDay[LastMonth] \in Nat
  BY MonthLength, LastDay DEF Sched!ScheduleAssumption
<1>6. /\ sched.count <= WeekDays * sched.count /\ sched.count <= Year * sched.count
      /\ WeekDays * sched.count \in Nat \ {0} /\ Year * sched.count \in Nat \ {0}
  <2>1. sched.count * 1 <= sched.count * WeekDays /\ sched.count * 1 <= sched.count * Year
    BY <1>1, <1>5, Multiples
  <2>2. /\ sched.count * 1 = sched.count /\ sched.count * WeekDays = WeekDays * sched.count
        /\ sched.count * Year = Year * sched.count
        /\ WeekDays * sched.count \in Nat \ {0} /\ Year * sched.count \in Nat \ {0}
    BY <1>1, <1>5
  <2> QED BY <2>1, <2>2
<1> HIDE DEF s
<1>7. Sched!MonthOf(s) \in Nat BY <1>3, DayInMonth DEF MonthNos
<1>8. ASSUME NEW n \in Nat \ {0}, n <= Year * sched.count, d = Sched!addMonths(s, n)
      PROVE  d \in Int /\ Roomy(d) /\ d > s
  <2>1. Sched!MonthOf(s) + n + 2 * Year < LastMonth BY <1>4, <1>5, <1>6, <1>7, <1>8
  <2>2. Sched!MonthOf(s) + n \in MonthNos BY <1>5, <1>7, <2>1 DEF MonthNos
  <2>3. d \in AllDays /\ Sched!MonthOf(d) = Sched!MonthOf(s) + n BY <1>3, <1>8, <2>2, AddedMonths
  <2> HIDE DEF d
  <2>4. d \in Sched!Days BY <1>5, <1>7, <2>1, <2>3, DaysByMonth
  <2>5. d <= s => Sched!MonthOf(d) <= Sched!MonthOf(s) BY <1>3, <2>3, MonthsInOrder
  <2>6. d \in Int /\ s \in Int BY <1>3, <2>3 DEF AllDays
  <2>7. d > s BY <1>7, <2>3, <2>5, <2>6
  <2> QED BY <2>1, <2>3, <2>4, <2>6, <2>7 DEF Roomy
<1>9. ASSUME NEW n \in Nat \ {0}, n <= WeekDays * sched.count, d = s + n
      PROVE  d \in Int /\ Roomy(d) /\ d > s
  <2>1. d <= s + WeekDays * sched.count BY <1>3, <1>6, <1>9
  <2>2. d \in Sched!Days BY <1>3, <1>4, <1>5, <1>6, <1>9, <2>1 DEF Sched!Days
  <2>3. d \in AllDays /\ s + WeekDays * sched.count \in AllDays BY <1>4, <2>2, DaysAreDays
  <2> HIDE DEF d
  <2>4. Sched!MonthOf(d) <= Sched!MonthOf(s + WeekDays * sched.count) BY <2>1, <2>3, MonthsInOrder
  <2>5. Sched!MonthOf(d) \in Nat /\ Sched!MonthOf(s + WeekDays * sched.count) \in Nat
    BY <2>3, DayInMonth DEF MonthNos
  <2>6. Sched!MonthOf(d) + 2 * Year < LastMonth BY <1>4, <1>5, <2>4, <2>5
  <2>7. d \in Int /\ d > s BY <1>3, <1>9
  <2> QED BY <2>2, <2>6, <2>7 DEF Roomy
<1>10. d \in Int /\ Roomy(d) /\ d > s
  <2>1. CASE sched.unit = "day"
    <3>1. d = s + sched.count * 1 BY <2>1 DEF Sched!advance
    <3>2. d = s + sched.count BY <1>1, <3>1
    <3> HIDE DEF d
    <3> QED BY <1>1, <1>6, <1>9, <3>2
  <2>2. CASE sched.unit = "week"
    <3>1. d = s + WeekDays * sched.count * 1 BY <2>2 DEF Sched!advance
    <3>2. d = s + WeekDays * sched.count BY <1>6, <3>1
    <3> HIDE DEF d
    <3> QED BY <1>6, <1>9, <3>2
  <2>3. CASE sched.unit = "month"
    <3>1. d = Sched!addMonths(s, sched.count * 1) BY <2>3 DEF Sched!advance
    <3>2. d = Sched!addMonths(s, sched.count) BY <1>1, <3>1
    <3> HIDE DEF d
    <3> QED BY <1>1, <1>6, <1>8, <3>2
  <2>4. CASE sched.unit = "year"
    <3>1. d = Sched!addMonths(s, Year * sched.count * 1) BY <2>4 DEF Sched!advance, Year
    <3>2. d = Sched!addMonths(s, Year * sched.count) BY <1>6, <3>1
    <3> HIDE DEF d
    <3> QED BY <1>6, <1>8, <3>2
  <2> HIDE DEF d
  <2> QED BY <1>1, <2>1, <2>2, <2>3, <2>4 DEF Units
<1> QED BY <1>2, <1>10 DEF s

\* An anchored rule gives the first date of its series after the day.
LEMMA AnchoredIs ==
    ASSUME Sched!ScheduleAssumption, Sched!ScheduleClockAssumption, ScheduleInv, NEW e, Fits(e),
           ~Override(e), sched.anchor # -1, sched.count > 0
    PROVE  \E d \in Sched!Series :
               /\ Sched!shape(sched, e) = [at |-> d, precision |-> sched.precision]
               /\ d > SinceOf(e) /\ \A f \in Sched!Series : f > SinceOf(e) => d <= f
<1>1. /\ sched.count \in Nat \ {0} /\ sched.unit \in Units /\ sched.anchor \in Sched!Days
  BY DEF ScheduleInv, Sched!WellFormed, Sched!None, Units
<1>2. Repeats BY <1>1 DEF Repeats, Units
<1>3. SinceOf(e) \in Nat /\ NotPast(SinceOf(e)) /\ SinceOf(e) \in Sched!Days BY SinceIs
<1>4. Reaches(sched.anchor) /\ Reaches(SinceOf(e))
  <2>1. sched.anchor \in Nat /\ NotPast(sched.anchor) BY <1>1 DEF ScheduleInv, Sched!Days
  <2> QED BY <1>1, <1>3, <2>1, RulesReach
<1> DEFINE due == Sched!anchoredAfter(sched, SinceOf(e))
<1>5. /\ due \in Sched!Series /\ due > SinceOf(e)
      /\ \A f \in Sched!Series : f > SinceOf(e) => due <= f
  BY <1>2, <1>3, <1>4, FirstAfter
<1>6. Sched!shape(sched, e) = [at |-> due, precision |-> sched.precision]
  <2>1. ~(e # Sched!NoEvent /\ e.again # Sched!None) BY DEF Override, Sched!None
  <2>2. sched.anchor # Sched!None /\ sched.count # 0 BY <1>1 DEF Sched!None
  <2>3. due = Sched!anchoredAfter(sched, Sched!dayOf(IF e = Sched!NoEvent THEN sched.setAt ELSE e.at))
    BY DEF SinceOf
  <2> HIDE DEF due
  <2> QED BY <2>1, <2>2, <2>3 DEF Sched!shape
<1> HIDE DEF due
<1> QED BY <1>5, <1>6

-----------------------------------------------------------------------------
(* Seasons.                                                                *)

\* The opening month at or before a day's, and its number.
LEMMA OpeningIs ==
    ASSUME Sched!ScheduleAssumption, NEW season \in (1 .. Year) \X (1 .. Year),
           NEW d \in AllDays, Sched!MonthOf(d) + Year <= LastMonth
    PROVE  \E j \in Int :
               /\ Sched!MonthNumber(j) = season[1] /\ Sched!MonthNumber(j + Year) = season[1]
               /\ j <= Sched!MonthOf(d) /\ Sched!MonthOf(d) < j + Year
               /\ Sched!lastOpening(d, season) = FirstDay[j]
               /\ Sched!nextOpening(d, season) = FirstDay[j + Year]
<1> DEFINE m == Sched!MonthOf(d)
           q == m \div Year
           r == m % Year
           a == season[1]
           i == Sched!OpeningIn(m, season)
<1>1. Year \in Nat \ {0} /\ LastMonth \in Nat /\ a \in 1 .. Year BY MonthLength, LastDay
<1>2. m \in Nat /\ m \in MonthNos /\ FirstDay[m] <= d /\ d < FirstDay[m + 1] /\ d \in Nat
  BY DayInMonth DEF MonthNos, AllDays
<1>3. q \in Int /\ r \in 0 .. Year - 1 /\ m = q * Year + r /\ q * Year \in Int
  <2> HIDE DEF m
  <2>1. /\ m \div Year \in Int /\ (m \div Year) * Year <= m /\ m < (m \div Year) * Year + Year
        /\ m % Year = m - (m \div Year) * Year
    <3>1. PICK x \in Int : x = m BY <1>2
    <3>2. /\ x \div Year \in Int /\ (x \div Year) * Year <= x /\ x < (x \div Year) * Year + Year
          /\ x % Year = x - (x \div Year) * Year
      BY <1>1, QuotientIs
    <3> QED BY <3>1, <3>2
  <2>2. (m \div Year) * Year \in Int BY <1>1, <2>1
  <2> QED BY <1>1, <1>2, <2>1, <2>2
<1>4. i = m - r + a - 1 BY DEF Sched!OpeningIn, Year
<1>5. /\ Sched!lastOpening(d, season) = FirstDay[IF FirstDay[i] > d THEN i - Year ELSE i]
      /\ Sched!nextOpening(d, season) = FirstDay[IF FirstDay[i] > d THEN i ELSE i + Year]
  BY DEF Sched!lastOpening, Sched!nextOpening, Year
<1> HIDE DEF m, q, r, a, i
<1>6. i = q * Year + (a - 1) /\ i \in Int /\ a - 1 \in 0 .. Year - 1 BY <1>1, <1>3, <1>4
<1>7. i <= m + Year - 1 /\ m < i + Year /\ i <= LastMonth BY <1>1, <1>2, <1>3, <1>6 DEF m
<1>8. i >= 0
  <2>1. q >= 0
    <3> SUFFICES ASSUME q <= -1 PROVE FALSE BY <1>3
    <3>1. Year * q <= Year * (-1) /\ Year * q = q * Year /\ Year * (-1) = - Year BY <1>1, <1>3, Multiples
    <3> QED BY <1>1, <1>2, <1>3, <3>1
  <2>2. Year * 0 <= Year * q /\ Year * 0 = 0 /\ Year * q = q * Year BY <1>1, <1>3, <2>1, Multiples
  <2> QED BY <1>1, <1>3, <1>6, <2>2
<1>9. i % Year = a - 1 BY <1>1, <1>3, <1>6, RemainderIs
<1>14. (i + Year) % Year = a - 1
  <2>1. i + Year = (q + 1) * Year + (a - 1)
    <3>1. (q + 1) * Year = q * Year + Year BY <1>1, <1>3
    <3> QED BY <1>1, <1>3, <1>6, <3>1
  <2>2. q + 1 \in Int BY <1>3
  <2> QED BY <1>1, <1>6, <2>1, <2>2, RemainderIs
<1>10. (i - Year) % Year = a - 1
  <2>1. i - Year = (q - 1) * Year + (a - 1)
    <3>1. (q - 1) * Year = q * Year - Year BY <1>1, <1>3
    <3> QED BY <1>1, <1>3, <1>6, <3>1
  <2>2. q - 1 \in Int BY <1>3
  <2> QED BY <1>1, <1>6, <2>1, <2>2, RemainderIs
<1>11. FirstDay[i] \in Nat /\ FirstDay[m] \in Nat /\ FirstDay[m + 1] \in Nat
       /\ (i > m => FirstDay[m + 1] <= FirstDay[i]) /\ (i <= m => FirstDay[i] <= FirstDay[m])
  <2>1. i \in 0 .. LastMonth + 1 /\ m \in 0 .. LastMonth + 1 /\ m + 1 \in 0 .. LastMonth + 1
    BY <1>1, <1>2, <1>6, <1>7, <1>8 DEF MonthNos
  <2>2. FirstDay[i] \in Nat /\ FirstDay[m] \in Nat /\ FirstDay[m + 1] \in Nat BY <2>1, MonthStarts
  <2>3. (m + 1 < i => FirstDay[m + 1] < FirstDay[i]) /\ (i < m => FirstDay[i] < FirstDay[m])
    BY <2>1, MonthStarts
  <2>4. i > m => i = m + 1 \/ m + 1 < i BY <1>2, <1>6
  <2>5. i <= m => i = m \/ i < m BY <1>2, <1>6
  <2> QED BY <2>2, <2>3, <2>4, <2>5
<1>12. CASE i > m
  <2>1. FirstDay[i] > d BY <1>2, <1>11, <1>12
  <2>2. i - Year \in Int /\ i - Year <= m /\ m < (i - Year) + Year /\ (i - Year) + Year = i
    BY <1>1, <1>2, <1>6, <1>7, <1>12
  <2>3. Sched!MonthNumber(i - Year) = a BY <1>1, <1>10 DEF Sched!MonthNumber, Year
  <2>4. Sched!MonthNumber((i - Year) + Year) = a BY <1>1, <1>9, <2>2 DEF Sched!MonthNumber, Year
  <2> QED BY <1>5, <2>1, <2>2, <2>3, <2>4 DEF a, m
<1>13. CASE i <= m
  <2>1. ~(FirstDay[i] > d) BY <1>2, <1>11, <1>13
  <2>2. Sched!MonthNumber(i) = a /\ Sched!MonthNumber(i + Year) = a
    BY <1>1, <1>9, <1>14 DEF Sched!MonthNumber, Year
  <2> QED BY <1>5, <1>6, <1>7, <1>13, <2>1, <2>2 DEF a, m
<1> QED BY <1>2, <1>6, <1>12, <1>13

\* A season goes on for so many months after its opening.
Length(season) ==
    IF season[1] <= season[2] THEN season[2] - season[1] ELSE season[2] - season[1] + Year

LEMMA SeasonIs ==
    ASSUME Sched!ScheduleAssumption, NEW season \in (1 .. Year) \X (1 .. Year),
           NEW j \in Int, Sched!MonthNumber(j) = season[1], NEW p \in 0 .. Year - 1
    PROVE  /\ Sched!inSeason(j + p, season) <=> p <= Length(season)
           /\ Sched!MonthNumber(j + p) = season[1] => p = 0
           /\ Length(season) \in Nat
<1> DEFINE a == season[1]
           b == season[2]
           k == j \div Year
<1>1. Year \in Nat \ {0} /\ a \in 1 .. Year /\ b \in 1 .. Year BY MonthLength
<1>2. k \in Int /\ j = k * Year + (a - 1) /\ k * Year \in Int
  <2>1. j % Year = a - 1
    <3>1. (j % Year) + 1 = a BY DEF Sched!MonthNumber, Year
    <3>2. j % Year \in Int BY <1>1, QuotientIs
    <3> QED BY <1>1, <3>1, <3>2
  <2>2. j \div Year \in Int /\ j % Year = j - (j \div Year) * Year BY <1>1, QuotientIs
  <2>3. (j \div Year) * Year \in Int BY <1>1, <2>2
  <2> QED BY <1>1, <2>1, <2>2, <2>3
<1> DEFINE n == Sched!MonthNumber(j + p)
<1> HIDE DEF k, a
<1>3. n = IF a + p <= Year THEN a + p ELSE a + p - Year
  <2>1. CASE a + p <= Year
    <3>1. PICK w \in 0 .. Year - 1 : w = a - 1 + p BY <1>1, <2>1
    <3>4. j + p = k * Year + w BY <1>1, <1>2, <3>1
    <3>2. (j + p) % Year = a - 1 + p
      <4>1. (k * Year + w) % Year = w BY <1>1, <1>2, RemainderIs
      <4> QED BY <3>1, <3>4, <4>1
    <3>3. n = (a - 1 + p) + 1 BY <3>2 DEF Sched!MonthNumber, Year
    <3> QED BY <1>1, <2>1, <3>3
  <2>2. CASE a + p > Year
    <3>1. k + 1 \in Int /\ (k + 1) * Year = k * Year + Year BY <1>1, <1>2
    <3>5. PICK w \in 0 .. Year - 1 : w = a - 1 + p - Year BY <1>1, <2>2
    <3>2. j + p = (k + 1) * Year + w BY <1>1, <1>2, <3>1, <3>5
    <3>3. (j + p) % Year = a - 1 + p - Year
      <4>1. ((k + 1) * Year + w) % Year = w BY <1>1, <3>1, RemainderIs
      <4> QED BY <3>2, <3>5, <4>1
    <3>4. n = (a - 1 + p - Year) + 1 BY <3>3 DEF Sched!MonthNumber, Year
    <3> QED BY <1>1, <2>2, <3>4
  <2> QED BY <1>1, <2>1, <2>2
<1>4. Sched!inSeason(j + p, season) <=> IF a <= b THEN n >= a /\ n <= b ELSE n >= a \/ n <= b
  BY DEF Sched!inSeason, a
<1>5. Length(season) = IF a <= b THEN b - a ELSE b - a + Year BY DEF Length, a
<1> HIDE DEF n, b
<1>6. (IF a <= b THEN n >= a /\ n <= b ELSE n >= a \/ n <= b) <=> p <= Length(season)
  <2>1. CASE a <= b BY <1>1, <1>3, <1>5, <2>1
  <2>2. CASE a > b BY <1>1, <1>3, <1>5, <2>2
  <2> QED BY <1>1, <2>1, <2>2
<1>7. n = a => p = 0 BY <1>1, <1>3
<1>8. Length(season) \in Nat BY <1>1, <1>5
<1> QED BY <1>4, <1>6, <1>7, <1>8 DEF n, a

\* The first day of a month is in it.
LEMMA FirstIs ==
    ASSUME Sched!ScheduleAssumption, NEW i \in Nat, i < LastMonth
    PROVE  /\ FirstDay[i] \in Sched!Days /\ Sched!MonthOf(FirstDay[i]) = i
           /\ Sched!firstOfMonth(FirstDay[i]) = FirstDay[i]
<1>1. LastMonth \in Nat /\ FirstDay[LastMonth] \in Nat BY LastDay
<1>2. i \in 0 .. LastMonth + 1 /\ i + 1 \in 0 .. LastMonth + 1 /\ LastMonth \in 0 .. LastMonth + 1
      /\ i \in MonthNos /\ i < i + 1
  BY <1>1 DEF MonthNos
<1>3. FirstDay[i] \in Nat /\ FirstDay[i] < FirstDay[i + 1] /\ FirstDay[i] < FirstDay[LastMonth]
  BY <1>2, MonthStarts
<1>4. FirstDay[i] \in Int /\ FirstDay[i] <= FirstDay[i] BY <1>3
<1>5. Sched!MonthOf(FirstDay[i]) = i BY <1>2, <1>3, <1>4, MonthOfDay
<1>6. FirstDay[i] \in Sched!Days BY <1>1, <1>3 DEF Sched!Days
<1> QED BY <1>5, <1>6 DEF Sched!firstOfMonth

\* The first day of the open season from a day on is the day or the next opening.
LEMMA NextOpenDay ==
    ASSUME Sched!ScheduleAssumption, NEW season \in (1 .. Year) \X (1 .. Year), NEW d, Roomy(d)
    PROVE  LET x == IF Sched!inSeason(Sched!MonthOf(d), season) THEN d ELSE Sched!nextOpening(d, season)
           IN  /\ x \in Sched!Days /\ Sched!inSeason(Sched!MonthOf(x), season) /\ x >= d
               /\ \A f \in Sched!Days : Sched!inSeason(Sched!MonthOf(f), season) /\ f >= d => x <= f
<1>1. d \in Sched!Days /\ d \in AllDays /\ d \in Int BY DaysAreDays DEF Roomy, AllDays
<1>2. CASE Sched!inSeason(Sched!MonthOf(d), season) BY <1>1, <1>2
<1>3. CASE ~Sched!inSeason(Sched!MonthOf(d), season)
  <2> DEFINE m == Sched!MonthOf(d)
  <2>1. Year \in Nat \ {0} /\ LastMonth \in Nat BY MonthLength, LastDay
  <2>2. m \in Nat /\ d < FirstDay[m + 1] /\ m + 2 * Year < LastMonth
    BY <1>1, DayInMonth DEF MonthNos, Roomy
  <2>3. PICK j \in Int : /\ Sched!MonthNumber(j) = season[1] /\ Sched!MonthNumber(j + Year) = season[1]
                         /\ j <= m /\ m < j + Year
                         /\ Sched!nextOpening(d, season) = FirstDay[j + Year]
    <3>1. m + Year <= LastMonth BY <2>1, <2>2
    <3> QED BY <1>1, <3>1, OpeningIs
  <2> DEFINE k == j + Year
             x == FirstDay[k]
  <2> HIDE DEF m
  <2>4. k \in Nat /\ k < LastMonth /\ k \in Int BY <2>1, <2>2, <2>3
  <2> HIDE DEF k
  <2>5. x \in Sched!Days /\ Sched!MonthOf(x) = k BY <2>4, FirstIs
  <2>6. x \in Int /\ x \in AllDays BY <2>5, DaysAreDays DEF Sched!Days
  <2>7. Sched!inSeason(k, season)
    <3>1. 0 \in 0 .. Year - 1 /\ k + 0 = k BY <2>1, <2>4
    <3>2. Sched!MonthNumber(k) = season[1] BY <2>3 DEF k
    <3>3. Sched!inSeason(k + 0, season) <=> 0 <= Length(season) BY <2>4, <3>1, <3>2, SeasonIs
    <3>4. Length(season) \in Nat BY <2>4, <3>1, <3>2, SeasonIs
    <3> QED BY <3>1, <3>3, <3>4
  <2>8. x >= d
    <3>1. k \in 0 .. LastMonth + 1 /\ m + 1 \in 0 .. LastMonth + 1 /\ (k = m + 1 \/ m + 1 < k)
      BY <2>1, <2>2, <2>3, <2>4 DEF k
    <3>2. FirstDay[m + 1] \in Nat /\ (k = m + 1 \/ FirstDay[m + 1] < x) BY <3>1, MonthStarts
    <3> QED BY <1>1, <2>2, <2>6, <3>2
  <2>9. ASSUME NEW f \in Sched!Days, Sched!inSeason(Sched!MonthOf(f), season), f >= d, f < x PROVE FALSE
    <3> DEFINE n == Sched!MonthOf(f)
    <3>1. f \in AllDays /\ f \in Int /\ n \in Nat /\ FirstDay[n] <= f
      BY DaysAreDays, DayInMonth DEF AllDays, MonthNos
    <3>2. d <= f /\ f <= x BY <1>1, <2>6, <2>9, <3>1
    <3>3. m <= n /\ n <= k BY <1>1, <2>5, <2>6, <3>1, <3>2, MonthsInOrder DEF m
    <3> HIDE DEF n
    <3>4. n # k BY <2>6, <2>9, <3>1
    <3>5. PICK p \in 0 .. Year - 1 : p = m - j BY <2>1, <2>2, <2>3
    <3>6. PICK r \in 0 .. Year - 1 : r = n - j BY <2>1, <2>2, <2>3, <3>1, <3>3, <3>4 DEF k
    <3>7. m = j + p /\ n = j + r /\ p <= r BY <2>2, <2>3, <3>1, <3>3, <3>5, <3>6
    <3>8. /\ Sched!inSeason(j + p, season) <=> p <= Length(season)
          /\ Sched!inSeason(j + r, season) <=> r <= Length(season)
          /\ Length(season) \in Nat
      BY <2>3, SeasonIs
    <3>9. ~Sched!inSeason(j + p, season) /\ Sched!inSeason(j + r, season)
      BY <1>3, <2>9, <3>7 DEF m, n
    <3> QED BY <3>5, <3>6, <3>7, <3>8, <3>9
  <2>10. \A f \in Sched!Days : Sched!inSeason(Sched!MonthOf(f), season) /\ f >= d => x <= f
    <3>1. Sched!Days \subseteq Int BY DEF Sched!Days
    <3> QED BY <2>6, <2>9, <3>1
  <2> QED BY <1>3, <2>3, <2>5, <2>7, <2>8, <2>10 DEF k
<1> QED BY <1>2, <1>3

\* The last opening is the latest first day of an opening month up to a day.
LEMMA LastOpeningIs ==
    ASSUME Sched!ScheduleAssumption, NEW season \in (1 .. Year) \X (1 .. Year),
           NEW d, Roomy(d), Sched!MonthOf(d) >= Year
    PROVE  LET x == Sched!lastOpening(d, season)
               Opens(f) == /\ Sched!inSeason(Sched!MonthOf(f), season)
                           /\ f <= d /\ f = Sched!firstOfMonth(f)
                           /\ Sched!MonthNumber(Sched!MonthOf(f)) = season[1]
           IN  x \in Sched!Days /\ Opens(x) /\ \A f \in Sched!Days : Opens(f) => f <= x
<1> DEFINE m == Sched!MonthOf(d)
           Opens(f) == /\ Sched!inSeason(Sched!MonthOf(f), season)
                       /\ f <= d /\ f = Sched!firstOfMonth(f)
                       /\ Sched!MonthNumber(Sched!MonthOf(f)) = season[1]
<1>1. Year \in Nat \ {0} /\ LastMonth \in Nat BY MonthLength, LastDay
<1>2. d \in Sched!Days /\ d \in AllDays /\ d \in Int BY DaysAreDays DEF Roomy, AllDays
<1>3. m \in Nat /\ FirstDay[m] <= d /\ m >= Year /\ m + 2 * Year < LastMonth
  BY <1>2, DayInMonth DEF MonthNos, Roomy
<1>4. PICK j \in Int : /\ Sched!MonthNumber(j) = season[1]
                       /\ j <= m /\ m < j + Year
                       /\ Sched!lastOpening(d, season) = FirstDay[j]
  <2>1. m + Year <= LastMonth BY <1>1, <1>3
  <2> QED BY <1>2, <2>1, OpeningIs
<1> DEFINE x == FirstDay[j]
<1> HIDE DEF m
<1>5. j \in Nat /\ j < LastMonth BY <1>1, <1>3, <1>4
<1>6. x \in Sched!Days /\ Sched!MonthOf(x) = j /\ x = Sched!firstOfMonth(x) /\ x \in Nat
  BY <1>5, FirstIs DEF Sched!Days
<1>7. Sched!inSeason(j, season)
  <2>1. 0 \in 0 .. Year - 1 /\ j + 0 = j BY <1>1, <1>5
  <2>2. Sched!inSeason(j + 0, season) <=> 0 <= Length(season) BY <1>4, <2>1, SeasonIs
  <2>3. Length(season) \in Nat BY <1>4, <2>1, SeasonIs
  <2> QED BY <2>1, <2>2, <2>3
<1>8. x <= d
  <2>1. j \in 0 .. LastMonth + 1 /\ m \in 0 .. LastMonth + 1 /\ (j = m \/ j < m)
    BY <1>1, <1>3, <1>4, <1>5
  <2>2. FirstDay[m] \in Nat /\ (j = m \/ x < FirstDay[m]) BY <2>1, MonthStarts
  <2> QED BY <1>2, <1>3, <1>6, <2>2
<1>9. Opens(x) BY <1>4, <1>6, <1>7, <1>8
<1>10. ASSUME NEW f \in Sched!Days, Opens(f), x < f PROVE FALSE
  <2> DEFINE n == Sched!MonthOf(f)
  <2>1. f \in AllDays /\ f \in Int /\ n \in Nat /\ x \in AllDays
    BY <1>6, DaysAreDays, DayInMonth DEF AllDays, MonthNos
  <2>2. f <= d /\ x <= f /\ f = FirstDay[n] /\ Sched!MonthNumber(n) = season[1]
    BY <1>6, <1>10, <2>1 DEF Sched!firstOfMonth
  <2>3. j <= n /\ n <= m BY <1>2, <1>6, <2>1, <2>2, MonthsInOrder DEF m
  <2> HIDE DEF n
  <2>4. n # j BY <1>6, <1>10, <2>1, <2>2
  <2>5. PICK p \in 0 .. Year - 1 : p = n - j BY <1>1, <1>3, <1>4, <2>1, <2>3
  <2>6. n = j + p /\ p # 0 BY <1>4, <2>1, <2>4, <2>5
  <2>7. Sched!MonthNumber(j + p) = season[1] => p = 0 BY <1>4, SeasonIs
  <2> QED BY <2>2, <2>6, <2>7
<1>11. \A f \in Sched!Days : Opens(f) => f <= x
  <2>1. Sched!Days \subseteq Int BY DEF Sched!Days
  <2> HIDE DEF Opens
  <2> QED BY <1>6, <1>10, <2>1
<1> QED BY <1>4, <1>6, <1>9, <1>11

-----------------------------------------------------------------------------
(* What Next answers.                                                      *)

\* A seasonal rule: nothing while its season is closed, and while it is open
\* the first open day from its own date and the opening on.
LEMMA SeasonedIs ==
    ASSUME Sched!ScheduleAssumption, Sched!ScheduleClockAssumption, ScheduleInv, NEW e, Fits(e),
           sched.season # Sched!NoSeason
    PROVE  LET due == Sched!NextDue(sched, e, now)
               at == Sched!shape(sched, e).at
               opening == Sched!lastOpening(Sched!Today, sched.season)
               Open(d) == Sched!inSeason(Sched!MonthOf(d), sched.season)
           IN  /\ Sched!shape(sched, e).precision = "day"
               /\ at \in Sched!Days /\ at > SinceOf(e) /\ opening \in Sched!Days
               /\ ~Open(Sched!Today) => due = Sched!NoDue
               /\ Open(Sched!Today) =>
                     /\ due.at \in Sched!Days /\ Open(due.at) /\ due.at >= at /\ due.at >= opening
                     /\ due = [at |-> due.at, precision |-> "day"]
                     /\ \A f \in Sched!Days : Open(f) /\ f >= at /\ f >= opening => due.at <= f
               /\ /\ Open(opening) /\ opening <= Sched!Today /\ opening = Sched!firstOfMonth(opening)
                  /\ Sched!MonthNumber(Sched!MonthOf(opening)) = sched.season[1]
                  /\ \A f \in Sched!Days :
                        /\ Open(f) /\ f <= Sched!Today /\ f = Sched!firstOfMonth(f)
                        /\ Sched!MonthNumber(Sched!MonthOf(f)) = sched.season[1]
                        => f <= opening
<1> DEFINE due == Sched!NextDue(sched, e, now)
           o == Sched!shape(sched, e)
           opening == Sched!lastOpening(Sched!Today, sched.season)
           Open(d) == Sched!inSeason(Sched!MonthOf(d), sched.season)
           from == IF Open(o.at) THEN o.at ELSE Sched!nextOpening(o.at, sched.season)
<1>1. sched.anchor = -1 /\ sched.season \in (1 .. Year) \X (1 .. Year)
  BY DEF ScheduleInv, Sched!WellFormed, Sched!None, Year
<1>2. PICK at \in Int : o = [at |-> at, precision |-> "day"] /\ Roomy(at) /\ at > SinceOf(e)
  BY <1>1, CadenceIs, OverrideIs
<1>3. o.at = at /\ o.precision = "day" /\ at \in Sched!Days /\ at \in Nat BY <1>2 DEF Roomy, Sched!Days
<1>4. Roomy(Sched!Today) /\ Sched!MonthOf(Sched!Today) >= Year
  <2>1. /\ now \in Nat /\ now <= MaxTime /\ FirstTime \in Nat /\ FirstTime <= now
        /\ Sched!MonthOf(Sched!dayOf(FirstTime)) >= Year
    BY DEF ScheduleInv, Sched!ScheduleClockAssumption, Sched!CalendarReaches, Year
  <2>2. /\ Sched!Today \in Nat /\ NotPast(Sched!Today) /\ Sched!Today \in Sched!Days
        /\ Sched!dayOf(FirstTime) \in Nat /\ Sched!dayOf(FirstTime) <= Sched!Today
        /\ Sched!dayOf(FirstTime) \in Sched!Days
    <3>1. FirstTime <= MaxTime BY DEF Sched!ScheduleClockAssumption
    <3>2. Sched!dayOf(FirstTime) \in Nat /\ Sched!dayOf(FirstTime) \in Sched!Days
      BY <2>1, <3>1, TimesAreNear
    <3>3. Sched!dayOf(FirstTime) <= Sched!dayOf(now) BY <2>1, DaysPass
    <3>4. Sched!dayOf(now) \in Nat /\ NotPast(Sched!dayOf(now)) /\ Sched!dayOf(now) \in Sched!Days
      BY <2>1, TimesAreNear
    <3> QED BY <3>2, <3>3, <3>4 DEF Sched!Today
  <2>3. Sched!Today \in AllDays /\ Sched!dayOf(FirstTime) \in AllDays BY <2>2, DaysAreDays
  <2>4. Sched!MonthOf(Sched!dayOf(FirstTime)) <= Sched!MonthOf(Sched!Today) BY <2>2, <2>3, MonthsInOrder
  <2>5. Sched!MonthOf(Sched!Today) \in Nat /\ Sched!MonthOf(Sched!dayOf(FirstTime)) \in Nat /\ Year \in Nat
    BY <2>3, DayInMonth, MonthLength DEF MonthNos
  <2>6. Sched!MonthOf(Sched!Today) >= Year BY <2>1, <2>4, <2>5
  <2>7. Sched!MonthOf(Sched!Today) + 2 * Year < LastMonth
    <3>1. 1 \in Sched!Counts BY DEF Sched!Counts
    <3>2. Sched!MonthOf(Sched!Today) + Year * 1 + 2 * Year < LastMonth BY <2>2, <3>1, NearReaches
    <3> QED BY <2>5, <3>2, LastDay
  <2> QED BY <2>2, <2>6, <2>7 DEF Roomy
<1>5. /\ opening \in Sched!Days
      /\ Open(opening) /\ opening <= Sched!Today /\ opening = Sched!firstOfMonth(opening)
      /\ Sched!MonthNumber(Sched!MonthOf(opening)) = sched.season[1]
      /\ \A f \in Sched!Days :
            /\ Open(f) /\ f <= Sched!Today /\ f = Sched!firstOfMonth(f)
            /\ Sched!MonthNumber(Sched!MonthOf(f)) = sched.season[1]
            => f <= opening
  BY <1>1, <1>4, LastOpeningIs
<1>6. /\ from \in Sched!Days /\ Open(from) /\ from >= at
      /\ \A f \in Sched!Days : Open(f) /\ f >= at => from <= f
  BY <1>1, <1>2, <1>3, NextOpenDay
<1>7. due = IF ~Open(Sched!Today) THEN Sched!NoDue
            ELSE [at |-> IF at < opening THEN opening ELSE from, precision |-> "day"]
  <2>1. o # Sched!NoDue
    <3>1. Sched!NoDue.at = -1 BY DEF Sched!NoDue, Sched!None
    <3> HIDE DEF o
    <3> QED BY <1>3, <3>1
  <2>2. Sched!inSeasonOrNextOpening(sched, at) = from
    BY <1>3 DEF Sched!inSeasonOrNextOpening
  <2>3. due = IF ~Open(Sched!Today) THEN Sched!NoDue
              ELSE IF o.at < opening THEN [o EXCEPT !.at = opening]
              ELSE [o EXCEPT !.at = Sched!inSeasonOrNextOpening(sched, o.at)]
    BY <2>1 DEF Sched!NextDue, Sched!Today
  <2> HIDE DEF due, o, opening, from, Open
  <2> QED BY <1>2, <1>3, <2>2, <2>3
<1>8. ASSUME Open(Sched!Today)
      PROVE  /\ due.at \in Sched!Days /\ Open(due.at) /\ due.at >= at /\ due.at >= opening
             /\ due = [at |-> due.at, precision |-> "day"]
             /\ \A f \in Sched!Days : Open(f) /\ f >= at /\ f >= opening => due.at <= f
  <2>0. opening \in Int /\ from \in Int BY <1>5, <1>6 DEF Sched!Days
  <2> HIDE DEF due, o, opening, from, Open
  <2>1. CASE at < opening
    <3>1. due = [at |-> opening, precision |-> "day"] BY <1>7, <1>8, <2>1
    <3>2. due.at = opening BY <3>1
    <3> QED BY <1>3, <1>5, <2>0, <2>1, <3>1, <3>2
  <2>2. CASE ~(at < opening)
    <3>1. due = [at |-> from, precision |-> "day"] BY <1>7, <1>8, <2>2
    <3>2. due.at = from BY <3>1
    <3> QED BY <1>3, <1>6, <2>0, <2>2, <3>1, <3>2
  <2> QED BY <2>1, <2>2
<1> HIDE DEF due, o, opening, from, Open
<1>9. o.precision = "day" /\ o.at \in Sched!Days /\ o.at > SinceOf(e) BY <1>2, <1>3
<1>10. ~Open(Sched!Today) => due = Sched!NoDue BY <1>7
<1> QED BY <1>3, <1>5, <1>8, <1>9, <1>10 DEF due, o, opening, Open

\* A one-off is due on its day until care completes it.
LEMMA OneOffIs ==
    ASSUME Sched!ScheduleClockAssumption, ScheduleInv, NEW e, ~Override(e), sched.count = 0
    PROVE  /\ sched.anchor \in Sched!Days /\ sched.season = Sched!NoSeason
           /\ Sched!NextDue(sched, e, now) =
                 IF Sched!completes(sched, e) THEN Sched!NoDue
                 ELSE [at |-> sched.anchor, precision |-> sched.precision]
<1>1. sched.anchor # -1 /\ sched.anchor \in Sched!Days /\ sched.season = Sched!NoSeason
  BY DEF ScheduleInv, Sched!WellFormed, Sched!None
<1>2. /\ ~(e # Sched!NoEvent /\ e.again # Sched!None)
      /\ e = Sched!NoEvent \/ e.again = Sched!None
      /\ sched.anchor # Sched!None
  BY <1>1 DEF Override, Sched!None
<1>3. Sched!shape(sched, e) = IF Sched!completes(sched, e) THEN Sched!NoDue
                              ELSE [at |-> sched.anchor, precision |-> sched.precision]
  BY <1>2 DEF Sched!shape
<1> QED BY <1>1, <1>3 DEF Sched!NextDue

\* What Next answers, if anything: a day of the calendar after the last care,
\* save for a one-off.
LEMMA DueIs ==
    ASSUME Sched!ScheduleAssumption, Sched!ScheduleClockAssumption, ScheduleInv, NEW e, Fits(e)
    PROVE  LET due == Sched!NextDue(sched, e, now) IN
           due # Sched!NoDue =>
              /\ due.at \in Sched!Days /\ due = [at |-> due.at, precision |-> due.precision]
              /\ ~Override(e) => due.at > SinceOf(e) \/ sched.count = 0
              /\ Override(e) => due.precision = "day" /\ due.at > SinceOf(e)
              /\ due.precision = "month" => sched.precision = "month"
<1> DEFINE due == Sched!NextDue(sched, e, now)
<1>1. SinceOf(e) \in Nat BY SinceIs
<1>2. CASE sched.season # Sched!NoSeason
  <2> DEFINE at == Sched!shape(sched, e).at
  <2>1. /\ at \in Sched!Days /\ at > SinceOf(e)
        /\ due = Sched!NoDue \/ (/\ due.at \in Sched!Days /\ due.at >= at
                                 /\ due = [at |-> due.at, precision |-> "day"])
    BY <1>2, SeasonedIs
  <2> HIDE DEF due, at
  <2>2. CASE due = Sched!NoDue BY <2>2 DEF due
  <2>3. CASE due.at \in Sched!Days /\ due.at >= at /\ due = [at |-> due.at, precision |-> "day"]
    <3>1. due.precision = "day" BY <2>3
    <3>2. due.at > SinceOf(e) BY <1>1, <2>1, <2>3 DEF Sched!Days
    <3> QED BY <2>3, <3>1, <3>2 DEF due
  <2> QED BY <2>1, <2>2, <2>3
<1>3. CASE sched.season = Sched!NoSeason
  <2>1. due = Sched!shape(sched, e) BY <1>3 DEF Sched!NextDue
  <2> HIDE DEF due
  <2>2. ASSUME NEW d \in Int, due = [at |-> d, precision |-> "day"], Roomy(d), d > SinceOf(e)
        PROVE  /\ due.at \in Sched!Days /\ due = [at |-> due.at, precision |-> due.precision]
               /\ due.at > SinceOf(e) /\ due.precision = "day"
    <3>1. due.at = d /\ due.precision = "day" BY <2>2
    <3> QED BY <2>2, <3>1 DEF Roomy
  <2>3. CASE Override(e)
    <3>1. PICK d \in Int : due = [at |-> d, precision |-> "day"] /\ Roomy(d) /\ d > SinceOf(e)
      BY <2>1, <2>3, OverrideIs
    <3> QED BY <2>2, <2>3, <3>1 DEF due
  <2>4. CASE ~Override(e) /\ sched.anchor = -1
    <3>1. PICK d \in Int : due = [at |-> d, precision |-> "day"] /\ Roomy(d) /\ d > SinceOf(e)
      BY <2>1, <2>4, CadenceIs
    <3> QED BY <2>2, <2>4, <3>1 DEF due
  <2>5. CASE ~Override(e) /\ sched.anchor # -1 /\ sched.count > 0
    <3>1. PICK d \in Sched!Series : due = [at |-> d, precision |-> sched.precision] /\ d > SinceOf(e)
      BY <2>1, <2>5, AnchoredIs
    <3>2. due.at = d /\ due.precision = sched.precision BY <3>1
    <3>3. d \in Sched!Days BY DEF Sched!Series
    <3> QED BY <2>5, <3>1, <3>2, <3>3 DEF due
  <2>6. CASE ~Override(e) /\ sched.count = 0
    <3>1. /\ sched.anchor \in Sched!Days
          /\ due = Sched!NoDue \/ due = [at |-> sched.anchor, precision |-> sched.precision]
      BY <2>6, OneOffIs DEF due
    <3>2. CASE due = Sched!NoDue BY <3>2 DEF due
    <3>3. CASE due = [at |-> sched.anchor, precision |-> sched.precision]
      <4>1. due.at = sched.anchor /\ due.precision = sched.precision BY <3>3
      <4> QED BY <2>6, <3>1, <3>3, <4>1 DEF due
    <3> QED BY <3>1, <3>2, <3>3
  <2>7. sched.count \in Nat BY DEF ScheduleInv, Sched!WellFormed
  <2> QED BY <2>3, <2>4, <2>5, <2>6, <2>7
<1> QED BY <1>2, <1>3

(* ScheduleClock, AnchoredIsLeast: an anchored schedule falls due on the    *)
(* first date of its series after the day of the last care, whatever was    *)
(* missed and however far the search skips ahead, in every calendar and     *)
(* after every edit (Next, firstStep and advance, next.go:38, 145).         *)
THEOREM DueIsTheNext ==
    ASSUME Sched!ScheduleAssumption, Sched!ScheduleClockAssumption
    PROVE  Sched!Spec => []Sched!AnchoredIsLeast
<1>1. ASSUME ScheduleInv PROVE Sched!AnchoredIsLeast
  <2> SUFFICES ASSUME sched.anchor # -1, sched.count > 0, ~Sched!Overridden
               PROVE  Sched!Due.at = Sched!Min({d \in Sched!Series : d > Sched!Since})
    BY DEF Sched!AnchoredIsLeast, Sched!None
  <2>1. Fits(last) /\ ~Override(last) /\ SinceOf(last) = Sched!Since
    BY <1>1, EventsFit DEF Override, Sched!Overridden, SinceOf, Sched!Since, Sched!None
  <2>2. PICK due \in Sched!Series :
           /\ Sched!shape(sched, last) = [at |-> due, precision |-> sched.precision]
           /\ due > Sched!Since /\ \A f \in Sched!Series : f > Sched!Since => due <= f
    BY <1>1, <2>1, AnchoredIs
  <2>3. sched.season = Sched!NoSeason BY <1>1 DEF ScheduleInv, Sched!WellFormed, Sched!None
  <2>4. Sched!Due.at = due
    <3>1. Sched!Due = [at |-> due, precision |-> sched.precision]
      BY <2>2, <2>3 DEF Sched!Due, Sched!NextDue
    <3> QED BY <3>1
  <2>5. Sched!Series \subseteq Int /\ Sched!Since \in Int
    BY <1>1, <2>1, SinceIs DEF Sched!Series, Sched!Days
  <2> DEFINE S == {d \in Sched!Series : d > Sched!Since}
  <2>6. due \in S /\ S \subseteq Int /\ \A d \in S : due <= d BY <2>2, <2>5
  <2> HIDE DEF S
  <2>7. Sched!Min(S) = due BY <2>6, LeastIs
  <2> QED BY <2>4, <2>7 DEF S
<1>2. Sched!Spec => []ScheduleInv BY Stays
<1> QED BY <1>1, <1>2, PTL

(* ScheduleClock, EditorKeepsRule: a stored rule is one the table accepts,  *)
(* and the editor saved as it opens gives back the same rule, whichever day *)
(* it is opened (scheduleDraftOf and params, schedule_field.go:157, 202).   *)
THEOREM EditorGivesBack ==
    ASSUME Sched!ScheduleAssumption, Sched!ScheduleClockAssumption
    PROVE  Sched!Spec => []Sched!EditorKeepsRule
<1>1. ASSUME ScheduleInv PROVE Sched!EditorKeepsRule
  <2>1. /\ sched.count \in Nat /\ sched.unit \in {"none"} \cup Units /\ (sched.count = 0) = (sched.unit = "none")
        /\ sched.anchor \in {-1} \cup Sched!Days /\ sched.precision \in {"day", "month"}
        /\ sched.anchor # -1 \/ sched.count > 0
        /\ sched.season # Sched!NoSeason => sched.anchor = -1
        /\ sched.precision = "month" => sched.anchor # -1 /\ sched.anchor = FirstDay[Sched!MonthOf(sched.anchor)]
    BY <1>1 DEF ScheduleInv, Sched!WellFormed, Sched!None, Units, Sched!firstOfMonth
  <2> DEFINE f == Sched!scheduleDraftOf(Sched!Rule, Sched!MonthOf(Sched!Today))
             p == Sched!params(f)
             start == FirstDay[Sched!MonthOf(sched.anchor)]
  <2>2. ASSUME sched.anchor # -1
        PROVE  sched.anchor \in Nat /\ start \in Nat /\ start <= sched.anchor
    <3>1. sched.anchor \in AllDays /\ sched.anchor \in Nat BY <2>1, <2>2, DaysAreDays DEF Sched!Days
    <3>2. Sched!MonthOf(sched.anchor) \in MonthNos /\ start <= sched.anchor BY <3>1, DayInMonth
    <3>3. start \in Nat BY <3>2, LastDay, MonthStarts DEF MonthNos
    <3> QED BY <3>1, <3>2, <3>3
  <2>3. /\ f.every = IF sched.count # 0 THEN sched.count ELSE 1
        /\ f.unit = IF sched.count # 0 THEN sched.unit ELSE "week"
        /\ f.shape = IF sched.anchor = -1 THEN "cadence" ELSE IF sched.count = 0 THEN "once" ELSE "date"
        /\ f.seasonal = (sched.season # Sched!NoSeason)
        /\ f.season = IF sched.season # Sched!NoSeason THEN sched.season ELSE <<1, 1>>
        /\ sched.anchor # -1 => f.month = Sched!MonthOf(sched.anchor)
        /\ f.day = CASE sched.anchor = -1 -> 0
                     [] sched.anchor # -1 /\ sched.precision = "month" -> 0
                     [] OTHER -> sched.anchor - start + 1
    BY DEF Sched!scheduleDraftOf, Sched!newScheduleDraft, Sched!Rule, Sched!None, Sched!AnyDay,
           Sched!firstOfMonth
  <2> HIDE DEF f, start
  <2>4. f.day = IF sched.precision = "month" \/ sched.anchor = -1 THEN 0 ELSE sched.anchor - start + 1
    <3>1. CASE sched.anchor = -1 BY <2>3, <3>1
    <3>2. CASE sched.anchor # -1 /\ sched.precision = "month" BY <2>3, <3>2
    <3>3. CASE sched.anchor # -1 /\ sched.precision # "month" BY <2>3, <3>3
    <3> QED BY <3>1, <3>2, <3>3
  <2>5. p = [count |-> sched.count, unit |-> sched.unit, season |-> sched.season,
             anchor |-> sched.anchor, precision |-> sched.precision]
    <3> DEFINE count == IF f.shape = "once" THEN 0 ELSE f.every
               unit == IF f.shape = "once" THEN "none" ELSE f.unit
               season == IF f.seasonal /\ ~(f.shape # "cadence") THEN f.season ELSE Sched!NoSeason
               anchor == CASE ~(f.shape # "cadence") -> -1
                           [] f.shape # "cadence" /\ f.day = 0 -> FirstDay[f.month]
                           [] OTHER -> FirstDay[f.month] + f.day - 1
               precision == IF f.shape # "cadence" /\ f.day = 0 THEN "month" ELSE "day"
    <3>1. p = [count |-> count, unit |-> unit, season |-> season, anchor |-> anchor, precision |-> precision]
      BY DEF Sched!params, Sched!None, Sched!AnyDay
    <3>2. (f.shape = "once") = (sched.count = 0) /\ (f.shape = "cadence") = (sched.anchor = -1)
      BY <2>1, <2>3
    <3>3. count = sched.count /\ unit = sched.unit BY <2>1, <2>3, <3>2
    <3>4. season = sched.season BY <2>1, <2>3, <3>2
    <3>5. anchor = sched.anchor
      <4>1. CASE sched.anchor = -1 BY <3>2, <4>1
      <4>2. CASE sched.anchor # -1 /\ sched.precision = "month"
        <5>1. f.day = 0 /\ FirstDay[f.month] = sched.anchor BY <2>1, <2>3, <2>4, <4>2
        <5> QED BY <3>2, <4>2, <5>1
      <4>3. CASE sched.anchor # -1 /\ sched.precision # "month"
        <5>1. f.day = sched.anchor - start + 1 /\ f.day # 0 /\ FirstDay[f.month] = start
          BY <2>2, <2>3, <2>4, <4>3 DEF start
        <5>2. FirstDay[f.month] + f.day - 1 = sched.anchor BY <2>2, <4>3, <5>1
        <5> QED BY <3>2, <4>3, <5>1, <5>2
      <4> QED BY <4>1, <4>2, <4>3
    <3>6. precision = sched.precision
      <4>1. CASE sched.precision = "month" BY <2>1, <2>4, <3>2, <4>1
      <4>2. CASE sched.precision = "day" /\ sched.anchor = -1 BY <3>2, <4>2
      <4>3. CASE sched.precision = "day" /\ sched.anchor # -1
        <5>1. f.day # 0 BY <2>2, <2>4, <4>3
        <5> QED BY <4>3, <5>1
      <4> QED BY <2>1, <4>1, <4>2, <4>3
    <3> HIDE DEF count, unit, season, anchor, precision
    <3> QED BY <3>1, <3>3, <3>4, <3>5, <3>6
  <2>6. p = Sched!Rule
    <3>1. Sched!Rule = [count |-> sched.count, unit |-> sched.unit, season |-> sched.season,
                        anchor |-> sched.anchor, precision |-> sched.precision]
      BY DEF Sched!Rule
    <3> HIDE DEF p
    <3> QED BY <2>5, <3>1
  <2>7. Sched!params(Sched!scheduleDraftOf(Sched!Rule, Sched!MonthOf(Sched!Today))) = Sched!Rule
    BY <2>6 DEF f
  <2> QED BY <2>1, <2>7 DEF Sched!EditorKeepsRule, Sched!None
<1>2. Sched!Spec => []ScheduleInv BY Stays
<1> QED BY <1>1, <1>2, PTL

(* ScheduleClock, SeasonIsLeast: while the season is open, a cadence falls  *)
(* due on the first open day from its own date or the season's opening on,  *)
(* whichever is later, and while it is closed on none, also for a season    *)
(* that goes over the year's end and for a reminder (Next, lastOpening,     *)
(* nextOpening and inSeason, next.go:43-47).                                *)
THEOREM SeasonOpensFirst ==
    ASSUME Sched!ScheduleAssumption, Sched!ScheduleClockAssumption
    PROVE  Sched!Spec => []Sched!SeasonIsLeast
<1>1. ASSUME ScheduleInv, sched.season # Sched!NoSeason
      PROVE  LET open == {d \in Sched!Days : Sched!inSeason(Sched!MonthOf(d), sched.season)}
                 opening == Sched!Max({d \in open :
                                /\ d <= Sched!Today /\ d = Sched!firstOfMonth(d)
                                /\ Sched!MonthNumber(Sched!MonthOf(d)) = sched.season[1]})
             IN  IF Sched!Today \notin open THEN Sched!Due = Sched!NoDue
                 ELSE Sched!Due.at =
                      Sched!Min({d \in open : d >= Sched!Max({Sched!shape(sched, last).at, opening})})
  <2> DEFINE Open(d) == Sched!inSeason(Sched!MonthOf(d), sched.season)
             open == {d \in Sched!Days : Open(d)}
             Openings == {d \in open : /\ d <= Sched!Today /\ d = Sched!firstOfMonth(d)
                                       /\ Sched!MonthNumber(Sched!MonthOf(d)) = sched.season[1]}
             opening == Sched!lastOpening(Sched!Today, sched.season)
             at == Sched!shape(sched, last).at
             due == Sched!NextDue(sched, last, now)
             Later == {d \in open : d >= Sched!Max({at, opening})}
  <2>1. Fits(last) BY <1>1, EventsFit
  <2>2. /\ at \in Sched!Days /\ at > SinceOf(last) /\ opening \in Sched!Days
        /\ ~Open(Sched!Today) => due = Sched!NoDue
        /\ Open(Sched!Today) =>
              /\ due.at \in Sched!Days /\ Open(due.at) /\ due.at >= at /\ due.at >= opening
              /\ \A f \in Sched!Days : Open(f) /\ f >= at /\ f >= opening => due.at <= f
        /\ Open(opening) /\ opening <= Sched!Today /\ opening = Sched!firstOfMonth(opening)
        /\ Sched!MonthNumber(Sched!MonthOf(opening)) = sched.season[1]
        /\ \A f \in Sched!Days :
              /\ Open(f) /\ f <= Sched!Today /\ f = Sched!firstOfMonth(f)
              /\ Sched!MonthNumber(Sched!MonthOf(f)) = sched.season[1]
              => f <= opening
    BY <1>1, <2>1, SeasonedIs
  <2>3. Sched!Due = due BY DEF Sched!Due
  <2>4. Sched!Today \in Sched!Days
    <3>1. now \in Nat /\ now <= MaxTime BY <1>1 DEF ScheduleInv, Sched!ScheduleClockAssumption
    <3> QED BY <3>1, TimesAreNear DEF Sched!Today
  <2>5. Sched!Days \subseteq Int BY DEF Sched!Days
  <2> HIDE DEF Open, opening, at, due
  <2>6. Sched!Max(Openings) = opening
    <3>1. opening \in Openings /\ Openings \subseteq Int /\ \A n \in Openings : n <= opening BY <2>2, <2>5
    <3> HIDE DEF Openings
    <3> QED BY <3>1, LeastIs
  <2>7. ASSUME Open(Sched!Today) PROVE due.at = Sched!Min(Later)
    <3> DEFINE top == Sched!Max({at, opening})
    <3>1. top \in {at, opening} /\ at <= top /\ opening <= top
      <4>1. at \in Int /\ opening \in Int BY <2>2, <2>5
      <4>2. CASE at <= opening
        <5>1. {at, opening} \subseteq Int /\ opening \in {at, opening} /\ \A n \in {at, opening} : n <= opening
          BY <4>1, <4>2
        <5>2. top = opening BY <5>1, LeastIs
        <5> HIDE DEF top
        <5> QED BY <4>1, <4>2, <5>2
      <4>3. CASE opening <= at
        <5>1. {at, opening} \subseteq Int /\ at \in {at, opening} /\ \A n \in {at, opening} : n <= at
          BY <4>1, <4>3
        <5>2. top = at BY <5>1, LeastIs
        <5> HIDE DEF top
        <5> QED BY <4>1, <4>3, <5>2
      <4> QED BY <4>1, <4>2, <4>3
    <3> HIDE DEF top
    <3>2. due.at \in Later
      <4>1. due.at >= top BY <2>2, <2>7, <3>1
      <4> QED BY <2>2, <2>7, <4>1 DEF top
    <3>3. Later \subseteq Int BY <2>5
    <3>4. \A n \in Later : due.at <= n
      <4> SUFFICES ASSUME NEW n \in Later PROVE due.at <= n OBVIOUS
      <4>1. n \in Sched!Days /\ Open(n) /\ n >= top /\ n \in Int BY <2>5 DEF top
      <4>2. at \in Int /\ opening \in Int /\ top \in Int BY <2>2, <2>5, <3>1
      <4>3. n >= at /\ n >= opening BY <3>1, <4>1, <4>2
      <4> QED BY <2>2, <2>7, <4>1, <4>3
    <3> HIDE DEF Later
    <3> QED BY <3>2, <3>3, <3>4, LeastIs
  <2>8. Sched!Today \in open <=> Open(Sched!Today) BY <2>4
  <2>9. IF Sched!Today \notin open THEN Sched!Due = Sched!NoDue ELSE Sched!Due.at = Sched!Min(Later)
    BY <2>2, <2>3, <2>7, <2>8
  <2> HIDE DEF Later, Openings, open
  <2>10. IF Sched!Today \notin open THEN Sched!Due = Sched!NoDue
         ELSE Sched!Due.at = Sched!Min({d \in open : d >= Sched!Max({at, Sched!Max(Openings)})})
    BY <2>6, <2>9 DEF Later
  <2> QED BY <2>10 DEF open, Openings, Open, at
<1>2. ScheduleInv => Sched!SeasonIsLeast BY <1>1 DEF Sched!SeasonIsLeast
<1>3. Sched!Spec => []ScheduleInv BY Stays
<1> QED BY <1>2, <1>3, PTL

(* ScheduleClock, TypeOK: what is stored is well-formed and what Next       *)
(* answers is a day of the calendar, later than the last care unless the    *)
(* schedule is a one-off (Next, shape).                                     *)
THEOREM SchedulesHold ==
    ASSUME Sched!ScheduleAssumption, Sched!ScheduleClockAssumption
    PROVE  Sched!Spec => []Sched!TypeOK
<1>1. ASSUME ScheduleInv PROVE Sched!TypeOK
  <2>1. Fits(last) BY <1>1, EventsFit
  <2> DEFINE due == Sched!NextDue(sched, last, now)
  <2>2. due # Sched!NoDue =>
              due.at \in Sched!Days /\ (~Override(last) => due.at > SinceOf(last) \/ sched.count = 0)
    BY <1>1, <2>1, DueIs
  <2>3. /\ Sched!Due = due /\ Sched!Since = SinceOf(last) /\ (Sched!Overridden <=> Override(last))
    BY DEF Sched!Due, Sched!Since, SinceOf, Sched!Overridden, Override, Sched!None
  <2> HIDE DEF due
  <2>4. /\ now \in FirstTime .. MaxTime /\ sched.setAt \in FirstTime .. now
        /\ last = Sched!NoEvent \/ last.at \in FirstTime - Past .. now
        /\ sched.count \in Nat /\ (sched.count = 0) = (sched.unit = "none")
    BY <1>1 DEF ScheduleInv, Sched!WellFormed
  <2> QED BY <2>2, <2>3, <2>4 DEF Sched!TypeOK
<1>2. Sched!Spec => []ScheduleInv BY Stays
<1> QED BY <1>1, <1>2, PTL

(* ScheduleClock, DoneIsNotDue: care logged as done just now, after the     *)
(* schedule was saved, leaves nothing due: the plant does not come back to  *)
(* Today the same day, whatever its rule and its season (shape,             *)
(* next.go:84).                                                             *)
THEOREM DoneLeavesToday ==
    ASSUME Sched!ScheduleAssumption, Sched!ScheduleClockAssumption
    PROVE  Sched!Spec => [][Sched!DoneIsNotDue]_(Sched!vars)
<1>1. ASSUME ScheduleInv PROVE Sched!DoneIsNotDue
  <2> DEFINE e == [at |-> now, done |-> TRUE, again |-> -1]
             due == Sched!NextDue(sched, e, now)
             line == Sched!Line(sched, e, now)
  <2> SUFFICES ASSUME last' = e, now' = now, sched' = sched, now > sched.setAt
               PROVE  Sched!TheLine'.state \notin {"due today", "overdue"}
    BY DEF Sched!DoneIsNotDue, Sched!None
  <2>1. Fits(e) BY <1>1, EventsFit
  <2>2. e # Sched!NoEvent /\ e.at = now /\ e.done = TRUE /\ e.again = -1
    <3>1. "again" \in DOMAIN e /\ "again" \notin DOMAIN Sched!NoEvent BY DEF Sched!NoEvent
    <3>2. e.at = now /\ e.done = TRUE /\ e.again = -1 OBVIOUS
    <3> HIDE DEF e
    <3> QED BY <3>1, <3>2
  <2> HIDE DEF e
  <2>3. SinceOf(e) = Sched!Today /\ ~Override(e) BY <2>2 DEF SinceOf, Override, Sched!Today
  <2>4. due # Sched!NoDue => due.at > Sched!Today /\ due.at \in Sched!Days
    <3>1. due # Sched!NoDue => due.at \in Sched!Days /\ (due.at > SinceOf(e) \/ sched.count = 0)
      BY <1>1, <2>1, <2>3, DueIs
    <3>2. sched.count = 0 => due = Sched!NoDue
      <4>1. Sched!completes(sched, e) BY <2>2 DEF Sched!completes
      <4> QED BY <1>1, <2>3, <4>1, OneOffIs
    <3> QED BY <2>3, <3>1, <3>2
  <2>5. Sched!Today \in Nat
    <3>1. now \in Nat /\ now <= MaxTime BY <1>1 DEF ScheduleInv, Sched!ScheduleClockAssumption
    <3> QED BY <3>1, TimesAreNear DEF Sched!Today
  <2>6. line.state \notin {"due today", "overdue"}
    <3>1. CASE due = Sched!NoDue
      <4>1. line.state = IF sched.season # Sched!NoSeason THEN "dormant" ELSE "spent"
        BY <3>1 DEF Sched!Line
      <4> HIDE DEF line
      <4> QED BY <4>1
    <3>2. CASE due # Sched!NoDue
      <4> DEFINE state == Sched!StateOf(Sched!Today, due.at, due.precision)
      <4>1. line.state = state BY <3>2 DEF Sched!Line, Sched!Today
      <4> HIDE DEF line, due
      <4>2. Sched!Today < due.at /\ ~(Sched!Today = due.at) /\ ~(Sched!Today >= due.at)
        BY <2>4, <2>5, <3>2 DEF Sched!Days
      <4>3. state = "upcoming" BY <4>2 DEF Sched!StateOf
      <4> HIDE DEF state
      <4> QED BY <4>1, <4>3
    <3> QED BY <3>1, <3>2
  <2>7. Sched!TheLine' = line BY DEF Sched!TheLine, Sched!Line, Sched!NextDue, Sched!shape, Sched!StateOf
  <2> HIDE DEF line
  <2> QED BY <2>6, <2>7
<1>2. Sched!Spec => []ScheduleInv BY Stays
<1> QED BY <1>1, <1>2, PTL

(* ScheduleClock, MonthsDueWhole: an occurrence that names a month is due   *)
(* for the whole of it and overdue only once it has ended (State,           *)
(* today.go:22, 102).                                                       *)
THEOREM DueTheWholeMonth ==
    ASSUME Sched!ScheduleAssumption, Sched!ScheduleClockAssumption
    PROVE  Sched!Spec => []Sched!MonthsDueWhole
<1>1. ASSUME ScheduleInv PROVE Sched!MonthsDueWhole
  <2> DEFINE due == Sched!NextDue(sched, last, now)
             d == due.at
             n == Sched!MonthOf(d)
             today == Sched!Today
             m == Sched!MonthOf(today)
  <2> SUFFICES ASSUME sched.unit \notin {"day", "week"}, due # Sched!NoDue, due.precision = "month"
               PROVE  Sched!TheLine.state = CASE n < m -> "overdue"
                                              [] n = m -> "due today"
                                              [] OTHER -> "upcoming"
    BY DEF Sched!MonthsDueWhole, Sched!Due
  <2>1. Fits(last) BY <1>1, EventsFit
  <2>2. /\ d \in Sched!Days /\ due = [at |-> d, precision |-> "month"] /\ ~Override(last)
        /\ sched.precision = "month"
    BY <1>1, <2>1, DueIs
  <2>3. /\ sched.anchor \in Sched!Days /\ sched.anchor # -1 /\ sched.season = Sched!NoSeason
        /\ sched.anchor = Sched!firstOfMonth(sched.anchor)
        /\ sched.count \in Nat
    BY <1>1, <2>2 DEF ScheduleInv, Sched!WellFormed, Sched!None
  <2>4. d \in AllDays /\ d \in Nat /\ n \in MonthNos /\ n < LastMonth /\ n \in Nat
        /\ FirstDay[n] \in Nat /\ FirstDay[n + 1] \in Nat /\ FirstDay[n] <= d /\ d < FirstDay[n + 1]
    <3>1. d \in AllDays /\ d \in Nat BY <2>2, DaysAreDays DEF Sched!Days
    <3> HIDE DEF d
    <3>2. n \in MonthNos /\ FirstDay[n] <= d /\ d < FirstDay[n + 1] /\ n < LastMonth
      BY <2>2, <3>1, DayInMonth, DaysByMonth DEF d
    <3>3. n \in Nat /\ n \in 0 .. LastMonth + 1 /\ n + 1 \in 0 .. LastMonth + 1
      BY <3>2, LastDay DEF MonthNos
    <3> QED BY <3>1, <3>2, <3>3, MonthStarts
  <2>5. d = FirstDay[n]
    <3>1. CASE sched.count = 0
      <4>1. due = Sched!NoDue \/ due = [at |-> sched.anchor, precision |-> sched.precision]
        BY <1>1, <2>2, <3>1, OneOffIs
      <4>2. d = sched.anchor
        <5>1. due = [at |-> sched.anchor, precision |-> sched.precision] BY <4>1
        <5> HIDE DEF due
        <5> QED BY <5>1
      <4> QED BY <2>3, <4>2 DEF Sched!firstOfMonth
    <3>2. CASE sched.count > 0
      <4>1. due = Sched!shape(sched, last) BY <2>3 DEF Sched!NextDue
      <4>2. PICK f \in Sched!Series : due = [at |-> f, precision |-> sched.precision]
        BY <1>1, <2>1, <2>2, <2>3, <3>2, <4>1, AnchoredIs
      <4>3. d = f BY <4>2
      <4>4. sched.unit \notin {"day", "week"} OBVIOUS
      <4>5. f - FirstDay[Sched!MonthOf(f)] = sched.anchor - FirstDay[Sched!MonthOf(sched.anchor)]
            \/ f - FirstDay[Sched!MonthOf(f)] < sched.anchor - FirstDay[Sched!MonthOf(sched.anchor)]
        BY <4>4 DEF Sched!Series, Sched!firstOfMonth
      <4>6. sched.anchor = FirstDay[Sched!MonthOf(sched.anchor)] /\ sched.anchor \in Int
        BY <2>3 DEF Sched!firstOfMonth, Sched!Days
      <4> HIDE DEF d, due
      <4> QED BY <2>4, <4>3, <4>5, <4>6
    <3> QED BY <2>3, <3>1, <3>2
  <2>6. today \in Nat /\ today \in AllDays /\ m \in Nat /\ m \in MonthNos
        /\ FirstDay[m] <= today /\ today < FirstDay[m + 1]
    <3>1. now \in Nat /\ now <= MaxTime BY <1>1 DEF ScheduleInv, Sched!ScheduleClockAssumption
    <3>2. today \in Nat /\ today \in AllDays BY <3>1, TimesAreNear, DaysAreDays DEF Sched!Today
    <3> HIDE DEF today
    <3> QED BY <3>2, DayInMonth DEF MonthNos
  <2> DEFINE end == Sched!AddDate(d, 1)
  <2>7. end = FirstDay[n + 1]
    <3>1. end = FirstDay[n + 1] + (d - FirstDay[n]) BY DEF Sched!AddDate, Sched!firstOfMonth
    <3> HIDE DEF end, d, n
    <3> QED BY <2>4, <2>5, <3>1
  <2>8. Sched!TheLine.state = Sched!StateOf(today, d, "month")
    <3>1. due.precision = "month" OBVIOUS
    <3>2. Sched!TheLine.state = Sched!StateOf(today, d, due.precision)
      BY DEF Sched!TheLine, Sched!Line, Sched!Today
    <3> QED BY <3>1, <3>2
  <2>9. Sched!StateOf(today, d, "month") =
            CASE today < d                 -> "upcoming"
              [] today >= d /\ today < end -> "due today"
              [] OTHER                     -> "overdue"
    BY DEF Sched!StateOf
  <2> HIDE DEF end, d, due, today
  <2>10. FirstDay[m] \in Nat /\ FirstDay[m + 1] \in Nat
    <3>1. m \in 0 .. LastMonth + 1 /\ m + 1 \in 0 .. LastMonth + 1 BY <2>6, LastDay DEF MonthNos
    <3> QED BY <3>1, MonthStarts
  <2>11. m < n => FirstDay[m + 1] <= FirstDay[n]
    <3>1. m < n => m + 1 = n \/ m + 1 < n BY <2>4, <2>6
    <3>2. m + 1 \in 0 .. LastMonth + 1 /\ n \in 0 .. LastMonth + 1 BY <2>4, <2>6, LastDay DEF MonthNos
    <3> QED BY <2>4, <2>10, <3>1, <3>2, MonthStarts
  <2>12. n < m => FirstDay[n + 1] <= FirstDay[m]
    <3>1. n < m => n + 1 = m \/ n + 1 < m BY <2>4, <2>6
    <3>2. n + 1 \in 0 .. LastMonth + 1 /\ m \in 0 .. LastMonth + 1 BY <2>4, <2>6, LastDay DEF MonthNos
    <3> QED BY <2>4, <2>10, <3>1, <3>2, MonthStarts
  <2> HIDE DEF n, m
  <2>13. CASE n < m
    <3>1. ~(today < d) /\ ~(today < end) BY <2>4, <2>5, <2>6, <2>7, <2>10, <2>12, <2>13
    <3>2. ~(n = m) BY <2>4, <2>6, <2>13
    <3> QED BY <2>8, <2>9, <2>13, <3>1, <3>2
  <2>14. CASE n = m
    <3>1. today >= d /\ today < end /\ ~(today < d) BY <2>4, <2>5, <2>6, <2>7, <2>10, <2>14
    <3>2. ~(n < m) BY <2>4, <2>14
    <3> QED BY <2>8, <2>9, <2>14, <3>1, <3>2
  <2>15. CASE m < n
    <3>1. today < d /\ ~(today >= d) BY <2>4, <2>5, <2>6, <2>10, <2>11, <2>15
    <3>2. ~(n < m) /\ ~(n = m) BY <2>4, <2>6, <2>15
    <3> QED BY <2>8, <2>9, <3>1, <3>2
  <2>16. n < m \/ n = m \/ m < n BY <2>4, <2>6
  <2> QED BY <2>13, <2>14, <2>15, <2>16
<1>2. Sched!Spec => []ScheduleInv BY Stays
<1> QED BY <1>1, <1>2, PTL
===============================================================================
