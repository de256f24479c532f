------------------------------ MODULE TodayPage ------------------------------
(***************************************************************************)
(* The readers of a garden's schedules: the Today page                     *)
(* (internal/http/today.go), the chores of the API (chores.go), the digest  *)
(* (internal/push/digest.go) and the Plants page (plants.go).  Each lists   *)
(* the schedules and the latest care and resolves them (module Schedule)   *)
(* into lines, and each then groups, filters and sorts the lines its own   *)
(* way.  The days pass, care is logged, skipped and undone, schedules are  *)
(* saved and removed, plants and care types are archived and come back.    *)
(*                                                                         *)
(* Plants are numbered in the order of their names and care types in the   *)
(* order they were created.  The reads of one page are taken together.     *)
(***************************************************************************)
EXTENDS Schedule, SequencesExt

CONSTANTS
    Plants,      \* 1 .. n, by name
    Cares,       \* 1 .. n, by age
    Room,        \* where each plant stands, as a rank
    Listing,     \* all of Plants \X Cares in the order ListCareSchedules has them in
    Schedules,   \* what the editor may save, without setAt
    Agains,      \* the reminders a skip may ask for, in days
    FirstTime,   \* when the clock starts
    MaxTime,     \* bound on the clock
    MaxEvents,   \* bound on the events kept
    MaxChanges   \* bound on the changes to schedules, plants and types

NoSchedule == [setAt |-> None]
Pairs == Plants \X Cares

VARIABLES
    now,
    sched,     \* care_schedule, by plant and care type
    events,    \* care_event: [pair, at, done, again]
    archived,  \* archived plants
    off,       \* care types turned off
    changes

vars == <<now, sched, events, archived, off, changes>>

-----------------------------------------------------------------------------
(* What the readers read.                                                  *)

\* By room, then name, then the age of the care type.
ListedBefore(x, y) ==
    \/ Room[x[1]] < Room[y[1]]
    \/ Room[x[1]] = Room[y[1]] /\ x[1] < y[1]
    \/ x[1] = y[1] /\ x[2] < y[2]

TodayPageAssumption ==
    /\ Room \in [Plants -> Nat] /\ Agains \subseteq Nat \ {0}
    /\ ToSet(Listing) = Pairs
    /\ \A i, j \in DOMAIN Listing : i < j => ListedBefore(Listing[i], Listing[j])
    /\ FirstTime \in Nat /\ MaxTime \in Nat /\ MaxEvents \in Nat /\ MaxChanges \in Nat

ListCareSchedules ==
    SelectSeq(Listing, LAMBDA x : sched[x] # NoSchedule /\ x[1] \notin archived /\ x[2] \notin off)

ListLatestCareEvents(x) ==
    LET own == {e \in events : e.pair = x}
    IN  IF own = {} THEN NoEvent
        ELSE LET e == CHOOSE e \in own : \A f \in own : f.at <= e.at
             IN  [at |-> e.at, done |-> e.done, again |-> e.again]

Resolve ==
    LET xs == ListCareSchedules IN
    [i \in DOMAIN xs |->
        LET l == Line(sched[xs[i]], ListLatestCareEvents(xs[i]), now)
        IN  [plant |-> xs[i][1], care |-> xs[i][2], state |-> l.state, due |-> l.due, days |-> l.days]]

-----------------------------------------------------------------------------
(* Today.                                                                  *)

StableSort(s, Lt(_, _)) ==
    LET order == SortSeq([i \in DOMAIN s |-> i], LAMBDA i, j : Lt(s[i], s[j]) \/ (~Lt(s[j], s[i]) /\ i < j))
    IN  [k \in DOMAIN s |-> s[order[k]]]

\* CompareDue(a, b) < 0.
CompareDue(a, b) == soon(a) < soon(b) \/ (soon(a) = soon(b) /\ a.plant < b.plant)

compareRows(r, s) == CompareDue(r.care, s.care)

\* The plants of the lines, in the order they come in.
FirstSeen(lines) ==
    LET firsts == SelectSeq([i \in DOMAIN lines |-> i],
                            LAMBDA i : \A j \in 1 .. i - 1 : lines[j].plant # lines[i].plant)
    IN  [k \in DOMAIN firsts |-> lines[firsts[k]].plant]

\* A row per plant, but none for a plant with nothing to come.
rows(lines) ==
    LET own(p) == SelectSeq(lines, LAMBDA l : l.plant = p)
        plants == FirstSeen(lines)
        all == [i \in DOMAIN plants |->
                   [plant |-> plants[i], care |-> Nearest(own(plants[i])), lines |-> own(plants[i])]]
    IN  SelectSeq(all, LAMBDA r : Rank(r.care.state) < Rank("dormant"))

\* Fault: every plant beyond the week.
nextRows_All(later) == later

\* The plants of the soonest day.
nextRows(later) == SelectSeq(later, LAMBDA r : soon(r.care) = soon(later[1].care))

Today(lines) ==
    LET all == rows(lines)
        group(In(_)) == StableSort(SelectSeq(all, LAMBDA r : In(r.care)), compareRows)
        later == group(LAMBDA l : l.state = "upcoming" /\ ~ComingUp(l))
    IN  [overdue  |-> group(LAMBDA l : l.state = "overdue"),
         dueToday |-> group(LAMBDA l : l.state = "due today"),
         comingUp |-> group(ComingUp),
         next     |-> nextRows(later)]

\* Fault: a plant is listed by its most pressing care alone.
caresOf_Nearest(day) ==
    LET all == [i \in DOMAIN (day.overdue \o day.dueToday \o day.comingUp) |->
                   (day.overdue \o day.dueToday \o day.comingUp)[i].care]
        section(In(_)) == StableSort(SelectSeq(all, In), CompareDue)
    IN  [overdue  |-> section(LAMBDA l : l.state = "overdue"),
         dueToday |-> section(LAMBDA l : l.state = "due today"),
         comingUp |-> section(ComingUp)]

\* The cares of the plants of the three groups, each in its own section.
caresOf(day) ==
    LET all == FlattenSeq([i \in DOMAIN (day.overdue \o day.dueToday \o day.comingUp) |->
                              (day.overdue \o day.dueToday \o day.comingUp)[i].lines])
        section(In(_)) == StableSort(SelectSeq(all, In), CompareDue)
    IN  [overdue  |-> section(LAMBDA l : l.state = "overdue"),
         dueToday |-> section(LAMBDA l : l.state = "due today"),
         comingUp |-> section(ComingUp)]

\* Care of any kind given on the reader's day, to a plant that is scheduled.
caredForOn ==
    \E x \in Pairs : /\ sched[x] # NoSchedule
                     /\ ListLatestCareEvents(x) # NoEvent
                     /\ dayOf(ListLatestCareEvents(x).at) = dayOf(now)

newTodayEmpty(cares, day) ==
    IF Plants \subseteq archived THEN [title |-> "No plants yet", next |-> <<>>]
    ELSE [title |-> IF caredForOn THEN "All done for today" ELSE "Nothing due today",
          next |-> IF Len(cares.comingUp) > 0 THEN <<>> ELSE day.next]

\* The count of what is due, or the empty head.
newTodayHead(cares, day) ==
    IF Len(cares.overdue) + Len(cares.dueToday) > 0
    THEN [outstanding |-> Len(cares.overdue) + Len(cares.dueToday), empty |-> [title |-> "none"]]
    ELSE [outstanding |-> 0, empty |-> newTodayEmpty(cares, day)]

-----------------------------------------------------------------------------
(* The other readers.                                                      *)

\* Fault: a plant's first care stands for it.
newChoresResponse_First(lines) ==
    LET day == Today(lines)
        of(r) == SelectSeq(r.lines, LAMBDA l : l.state = r.care.state)
        due == day.overdue \o day.dueToday
    IN  FlattenSeq([i \in DOMAIN due |-> of(due[i])])

\* Plant by plant, what is overdue before what is due today.
newChoresResponse(lines) ==
    LET day == Today(lines)
        of(r) == SelectSeq(r.lines, LAMBDA l : l.state = "overdue")
                 \o SelectSeq(r.lines, LAMBDA l : l.state = "due today")
        due == day.overdue \o day.dueToday
    IN  FlattenSeq([i \in DOMAIN due |-> of(due[i])])

upcomingLines(lines) ==
    StableSort(SelectSeq(lines, LAMBDA l : l.state = "upcoming"),
               LAMBDA a, b : a.days < b.days \/ (a.days = b.days /\ a.plant < b.plant))

\* Fault: what is due today is left for the page.
digestOf_Late(lines) == SelectSeq(lines, LAMBDA l : Rank(l.state) < Rank("due today"))

\* The cares the digest lists; none and nothing is sent.
digestOf(lines) == SelectSeq(lines, LAMBDA l : Rank(l.state) <= Rank("due today"))

\* Fault: the last of the overdue lines is taken.
mostOverdue_Last(lines) ==
    LET late == SelectSeq(lines, LAMBDA l : l.state = "overdue")
    IN  IF late = <<>> THEN <<>> ELSE <<Last(late)>>

\* The line furthest past its date, the first of those, or none.
mostOverdue(lines) ==
    LET late == SelectSeq(lines, LAMBDA l : l.state = "overdue")
    IN  IF late = <<>> THEN <<>>
        ELSE <<late[CHOOSE i \in DOMAIN late :
                        /\ \A j \in DOMAIN late : late[i].days <= late[j].days
                        /\ \A j \in 1 .. i - 1 : late[i].days < late[j].days]>>

plantLines(lines, p) == SelectSeq(lines, LAMBDA l : l.plant = p)

-----------------------------------------------------------------------------
(* What changes the garden.                                                *)

Clock == now < MaxTime /\ now' = now + 1 /\ UNCHANGED <<sched, events, archived, off, changes>>

CreateCareEvent(e) ==
    /\ Cardinality(events) < MaxEvents
    /\ events' = events \cup {e}
    /\ UNCHANGED <<now, sched, archived, off, changes>>

DeleteCareEvent(e) ==
    /\ events' = events \ {e}
    /\ UNCHANGED <<now, sched, archived, off, changes>>

Change == changes < MaxChanges /\ changes' = changes + 1 /\ UNCHANGED <<now, events>>

UpsertCareSchedule(x, s) ==
    /\ Change /\ x[1] \notin archived /\ x[2] \notin off
    /\ sched' = [sched EXCEPT ![x] =
          [unit |-> s.unit, count |-> s.count, anchor |-> s.anchor,
           precision |-> s.precision, season |-> s.season, setAt |-> now]]
    /\ UNCHANGED <<archived, off>>

DeleteCareSchedule(x) ==
    /\ Change /\ x[1] \notin archived /\ x[2] \notin off /\ sched[x] # NoSchedule
    /\ sched' = [sched EXCEPT ![x] = NoSchedule]
    /\ UNCHANGED <<archived, off>>

ArchivePlant(p) == Change /\ p \notin archived /\ archived' = archived \cup {p} /\ UNCHANGED <<sched, off>>
RestorePlant(p) == Change /\ p \in archived /\ archived' = archived \ {p} /\ UNCHANGED <<sched, off>>
ArchiveCareType(c) == Change /\ c \notin off /\ off' = off \cup {c} /\ UNCHANGED <<sched, archived>>
RestoreCareType(c) == Change /\ c \in off /\ off' = off \ {c} /\ UNCHANGED <<sched, archived>>

Init ==
    /\ now = FirstTime
    /\ sched \in [Pairs -> {NoSchedule} \cup
                  {[unit |-> s.unit, count |-> s.count, anchor |-> s.anchor,
                    precision |-> s.precision, season |-> s.season, setAt |-> FirstTime] : s \in Schedules}]
    /\ events = {} /\ archived = {} /\ off = {} /\ changes = 0

Next ==
    \/ Clock
    \/ \E x \in Pairs :
          \/ /\ x[1] \notin archived /\ x[2] \notin off
             /\ \/ CreateCareEvent([pair |-> x, at |-> now, done |-> TRUE, again |-> None])
                \/ \E n \in Agains : CreateCareEvent([pair |-> x, at |-> now, done |-> FALSE, again |-> n])
          \/ DeleteCareSchedule(x)
          \/ \E s \in Schedules : UpsertCareSchedule(x, s)
    \/ \E e \in events : DeleteCareEvent(e)
    \/ \E p \in Plants : ArchivePlant(p) \/ RestorePlant(p)
    \/ \E c \in Cares : ArchiveCareType(c) \/ RestoreCareType(c)

Spec == Init /\ [][Next]_vars

-----------------------------------------------------------------------------

TypeOK ==
    /\ now \in FirstTime .. MaxTime
    /\ archived \subseteq Plants /\ off \subseteq Cares
    /\ \A e \in events : e.pair \in Pairs /\ e.at \in FirstTime .. now /\ e.done = (e.again = None)
    /\ \A x \in Pairs : sched[x] # NoSchedule => sched[x].setAt \in FirstTime .. now
    /\ changes \in 0 .. MaxChanges

\* What Today makes of the lines: one view, named by a bound variable so that
\* it is worked out once.
Views ==
    UNION {{[lines |-> lines, day |-> day, sections |-> caresOf(day)] : day \in {Today(lines)}} :
              lines \in {Resolve}}

(* Though the page groups plants by their most pressing care, every         *)
(* scheduled care that is overdue, due today or due within the week is in   *)
(* exactly its own section, once, and nothing else is; a section is in the  *)
(* order of due dates and names (caresOf, today.go:194, over Today,         *)
(* schedule/today.go:161).                                                  *)
ListedOnce ==
    \A v \in Views :
    LET lines == v.lines
        sections == v.sections
        expected(In(_)) == {lines[i] : i \in {j \in DOMAIN lines : In(lines[j])}}
        right(s, In(_)) ==
            /\ ToSet(s) = expected(In) /\ IsInjective(s)
            /\ \A i, j \in DOMAIN s : i < j => ~CompareDue(s[j], s[i])
    IN  /\ right(sections.overdue, LAMBDA l : l.state = "overdue")
        /\ right(sections.dueToday, LAMBDA l : l.state = "due today")
        /\ right(sections.comingUp, LAMBDA l : l.state = "upcoming" /\ l.days <= comingUpDays)

(* The API names the cares the page has under Overdue and Due today, no     *)
(* more and no fewer, its plants "in the same order as the Today page", and *)
(* of one plant "the overdue one first" (newChoresResponse,                 *)
(* chores.go:113-116); with the upcoming ones it names every care that has  *)
(* a date.                                                                  *)
ChoresAgree ==
    \A v \in Views : \A chores \in {newChoresResponse(v.lines)} :
    LET lines == v.lines
        due == v.sections.overdue \o v.sections.dueToday IN
    /\ ToSet(chores) = ToSet(due) /\ Len(chores) = Len(due)
    /\ FirstSeen(chores) = FirstSeen(due)
    /\ \A i, j \in DOMAIN chores : chores[i].plant = chores[j].plant /\ i < j =>
            Rank(chores[i].state) <= Rank(chores[j].state)
    /\ ToSet(chores) \cup ToSet(upcomingLines(lines)) =
            {lines[i] : i \in {j \in DOMAIN lines : lines[j].due # None}}

(* A digest is sent exactly when the page has something outstanding, and    *)
(* it counts as many cares as the head of the page (digestOf, digest.go,    *)
(* and newTodayHead, today.go:441).                                         *)
DigestAgrees ==
    \A v \in Views :
        /\ Len(digestOf(v.lines)) = newTodayHead(v.sections, v.day).outstanding
        /\ ToSet(digestOf(v.lines)) = ToSet(v.sections.overdue \o v.sections.dueToday)

(* The Plants page calls a plant overdue when Today does, and names the     *)
(* care Today lists first for it (mostOverdue, plants.go:175).              *)
StandingAgrees ==
    \A v \in Views, p \in Plants :
        mostOverdue(plantLines(v.lines, p)) =
            LET late == plantLines(v.sections.overdue, p) IN IF late = <<>> THEN <<>> ELSE <<late[1]>>

(* When nothing is due and nothing is coming up, the page names every plant *)
(* whose care is the soonest, all due on the one day its line words, and    *)
(* names none only when no care has a date (newTodayEmpty, today.go:493;    *)
(* nextLine, words.go:59).                                                  *)
NextIsSoonest ==
    \A v \in Views : \A head \in {newTodayHead(v.sections, v.day)} :
    LET lines == v.lines
        sections == v.sections
        dated == {lines[i] : i \in {j \in DOMAIN lines : lines[j].due # None}}
        soonest == {l \in dated : \A k \in dated : l.due <= k.due}
    IN  /\ head.outstanding > 0 \/ Len(sections.comingUp) > 0 => \E l \in dated : l.days <= comingUpDays
        /\ head.empty.title \in {"All done for today", "Nothing due today"} /\ sections.comingUp = <<>> =>
              {head.empty.next[i].plant : i \in DOMAIN head.empty.next} = {l.plant : l \in soonest}
==============================================================================
