------------------------------- MODULE Calendar -------------------------------
(***************************************************************************)
(* The calendar's notes and logged care, as readers in several zones see   *)
(* them month by month (internal/http/calendar.go, calendar_note.go).  A   *)
(* note's days are dates with no zone, the instant of a care event is      *)
(* dated in the reader's.  The cares due in a month are in ScheduleClock,  *)
(* the sittings in Sittings.                                               *)
(***************************************************************************)
EXTENDS Dates, FiniteSets

CONSTANTS
    None,
    Readers,
    Zones,
    Notes,            \* the ids a note may have
    Events,           \* the ids a care event may have
    CalendarMonths,   \* calendarMonths
    MaxTime           \* bound on the clock

\* A zone's clock is less than a day from UTC.
CalendarAssumption ==
    /\ DatesAssumption /\ CalendarMonths \in Nat
    /\ MaxTime \in Nat /\ MonthDays * DayUnits <= MaxTime
    /\ Zones \subseteq (-DayUnits) .. DayUnits
    /\ None \notin Int \cup [first : Int, last : Int, zone : Zones]

VARIABLES
    now,
    zone,      \* the timezone of each reader's account
    note,      \* each note: [first, last, zone] or None; zone is its last writer's
    event      \* performed_at of each care event, or None

vars == <<now, zone, note, event>>

Kept == {n \in Notes : note[n] # None}
Logged == {e \in Events : event[e] # None}

\* Bound: the dates posted, to one month past the last page of the calendar.
Dates0 == 0 .. AddMonths(startOfMonth(DateOf(MaxTime, 0)), CalendarMonths + 2) - 1

-----------------------------------------------------------------------------
(* The pages.                                                              *)

lastCalendarMonth(z) == AddMonths(startOfMonth(DateOf(now, z)), CalendarMonths)

\* The month a request for any month shows: the current one for one after the last.
parseCalendarQuery(month, z) ==
    IF month <= lastCalendarMonth(z) THEN month ELSE startOfMonth(DateOf(now, z))

\* The months a reader may turn to; Previous has no end, the bound is month 0.
Months(z) == {parseCalendarQuery(startOfMonth(date), z) : date \in Dates0}

\* Fault: the first instant of the next month is read too.
ListCareEventsBetween_Inclusive(since, until) ==
    {e \in Logged : since <= event[e] /\ event[e] <= until}

ListCareEventsBetween(since, until) ==
    {e \in Logged : since <= event[e] /\ event[e] < until}

\* Fault: only the notes that begin in the range.
ListCalendarNotesBetween_Begun(since, until) ==
    {n \in Kept : note[n].first <= until /\ note[n].first >= since}

ListCalendarNotesBetween(since, until) ==
    {n \in Kept : note[n].first <= until /\ note[n].last >= since}

\* A note's dates are the same dates in the reader's zone.
covers(n, date, z) ==
    LET at == midnightOn(date, z) IN
    midnightOn(note[n].first, z) <= at /\ at <= midnightOn(note[n].last, z)

DayOfMonth(date) == (date % MonthDays) + 1

\* What the cell of day d has on the page of a month for a reader in zone z.
LoggedOn(month, d, z) ==
    {e \in ListCareEventsBetween(midnightOn(month, z), midnightOn(AddMonths(month, 1), z)) :
        DayOfMonth(DateOf(event[e], z)) = d}

NotesOn(month, d, z) ==
    {n \in ListCalendarNotesBetween(month, AddMonths(month, 1) - 1) :
        covers(n, month + d - 1, z)}

-----------------------------------------------------------------------------
(* The notes' sheet.                                                       *)

\* Fault: the first day of the month after.
lastNoteDay_After(z) == AddMonths(lastCalendarMonth(z), 1)

lastNoteDay(z) == AddMonths(lastCalendarMonth(z), 1) - 1

\* days: the dates a form's fields are read as, None when they are refused; an
\* empty text or a malformed date refuses too and changes nothing.
days(fields, z) ==
    LET last == IF fields.last = None THEN fields.first ELSE fields.last IN
    IF fields.first <= lastNoteDay(z) /\ fields.first <= last
    THEN [first |-> fields.first, last |-> last, zone |-> z] ELSE None

\* Fault: Last day is always empty.
editNoteSheet_Blank(n) == [first |-> note[n].first, last |-> None]

\* Last day is empty for a note on one day.
editNoteSheet(n) ==
    [first |-> note[n].first,
     last |-> IF note[n].last = note[n].first THEN None ELSE note[n].last]

Fields == [first : Dates0, last : Dates0 \cup {None}]

createNote(r, n, fields) ==
    /\ note[n] = None /\ days(fields, zone[r]) # None
    /\ note' = [note EXCEPT ![n] = days(fields, zone[r])]
    /\ UNCHANGED <<now, zone, event>>

\* The handler's read only tells a 404, as the UPDATE of a missing row does.
saveNote(r, n, fields) ==
    /\ n \in Kept /\ days(fields, zone[r]) # None
    /\ note' = [note EXCEPT ![n] = days(fields, zone[r])]
    /\ UNCHANGED <<now, zone, event>>

deleteNote(n) ==
    /\ n \in Kept
    /\ note' = [note EXCEPT ![n] = None]
    /\ UNCHANGED <<now, zone, event>>

\* Care is logged now or dated back, never ahead (module Care).
LogCare(e, at) ==
    /\ event[e] = None /\ at <= now
    /\ event' = [event EXCEPT ![e] = at]
    /\ UNCHANGED <<now, zone, note>>

UndoCare(e) ==
    /\ e \in Logged
    /\ event' = [event EXCEPT ![e] = None]
    /\ UNCHANGED <<now, zone, note>>

\* A reader saves another timezone on their account.
SetTimezone(r, z) == zone' = [zone EXCEPT ![r] = z] /\ UNCHANGED <<now, note, event>>

Tick == now < MaxTime /\ now' = now + 1 /\ UNCHANGED <<zone, note, event>>

Init ==
    /\ now = MonthDays * DayUnits
    /\ zone \in [Readers -> Zones]
    /\ note = [n \in Notes |-> None]
    /\ event = [e \in Events |-> None]

Next ==
    \/ Tick
    \/ \E r \in Readers :
          \/ \E z \in Zones : SetTimezone(r, z)
          \/ \E n \in Notes, fields \in Fields : createNote(r, n, fields)
          \/ \E n \in Notes, fields \in Fields : saveNote(r, n, fields)
    \/ \E n \in Notes : deleteNote(n)
    \/ \E e \in Events : UndoCare(e) \/ \E at \in DayUnits .. now : LogCare(e, at)

Spec == Init /\ [][Next]_vars

-----------------------------------------------------------------------------

(* A note ends on or after the day it begins, whoever saved it last.       *)
TypeOK ==
    /\ now \in 0 .. MaxTime /\ zone \in [Readers -> Zones]
    /\ \A n \in Kept :
          note[n] \in [first : Dates0, last : Dates0, zone : Zones] /\ note[n].first <= note[n].last
    /\ \A e \in Logged : event[e] \in 0 .. now

Cells(z) == Months(z) \X (1 .. MonthDays)

(* Each care event is on one day of one page, the date it has on the        *)
(* reader's clock: what the month's query returns may not be put on a day   *)
(* of another month that has the same number (newCalendarPage,              *)
(* calendar.go:443-453).                                                    *)
EventOnItsDay ==
    \A e \in Logged, r \in Readers :
        {c \in Cells(zone[r]) : e \in LoggedOn(c[1], c[2], zone[r])}
            = {<<startOfMonth(DateOf(event[e], zone[r])), DayOfMonth(DateOf(event[e], zone[r]))>>}

(* A note is on each of its days and on no other, on every page it reaches, *)
(* and on the same dates for every reader ("they are read as the same dates *)
(* in the reader's timezone", calendar.go:192-193).                         *)
NoteOnItsDays ==
    \A n \in Kept, r \in Readers : \A c \in Cells(zone[r]) :
        n \in NotesOn(c[1], c[2], zone[r])
            <=> c[1] + c[2] - 1 \in note[n].first .. note[n].last

(* A note is on some page of the calendar from the moment it is saved, for  *)
(* readers in its writer's zone or ahead of it: "A note starting later      *)
(* would be on no page of the calendar and could never be edited or         *)
(* deleted" (firstDayTooLate, calendar_note.go:42-43).                      *)
NoteReachable ==
    \A n \in Kept, z \in Zones : z >= note[n].zone =>
        \E c \in Cells(z) : n \in NotesOn(c[1], c[2], z)

(* A reader who can open a note from a page can save its sheet untouched,   *)
(* and the note keeps its days (editNoteSheet and days together).           *)
UntouchedKeepsDays ==
    \A n \in Kept, r \in Readers :
        (\E c \in Cells(zone[r]) : n \in NotesOn(c[1], c[2], zone[r])) =>
            LET saved == days(editNoteSheet(n), zone[r]) IN
            saved # None /\ saved.first = note[n].first /\ saved.last = note[n].last

(* The notes have their types, are on a page from the moment they are saved *)
(* and keep their days when saved untouched (createNote, saveNote,          *)
(* lastNoteDay, editNoteSheet).                                             *)
NotesAgree == TypeOK /\ NoteReachable /\ UntouchedKeepsDays

(* In every reader's timezone each care event is on one day of one page,    *)
(* its own, and a note on each of its days and on no other                  *)
(* (ListCareEventsBetween, ListCalendarNotesBetween, newCalendarPage).      *)
OnItsDay == EventOnItsDay /\ NoteOnItsDays
================================================================================
