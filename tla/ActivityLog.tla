----------------------------- MODULE ActivityLog -----------------------------
(***************************************************************************)
(* A reader going through the Activity page (internal/http/activity.go), a *)
(* page at a time by its Older link, while care is logged, corrected,      *)
(* deleted and put back.  The log is ordered by the time and the id of an  *)
(* event, and a link holds those of the last event shown.  A page is read  *)
(* in one statement and each change written in one (module Care has the    *)
(* requests around them), and ids grow, for they are uuidv7.               *)
(***************************************************************************)
EXTENDS Integers, FiniteSets, Functions, SequencesExt

CONSTANTS
    Cares,
    Times,        \* the minutes care may be dated at
    Spans,        \* the dates a reader may filter to, as <<since, until>>
    logPageSize,
    MaxEvents     \* bound on the events logged

ActivityLogAssumption ==
    /\ logPageSize \in Nat \ {0} /\ MaxEvents \in Nat
    /\ Times \subseteq Nat

AnyCare == "any"
NoCursor == <<>>
NoWalk == [state |-> "none", seen |-> <<>>]

VARIABLES
    events,   \* the rows of care_event, by id: [at, care]
    made,     \* how many ids were given
    walk,     \* the reader: its filter, its Older link, the ids shown so far
    steady    \* history: the events left as they are since the first page

vars == <<events, made, walk, steady>>

Entries == [at : Times, care : Cares]
Put(id, e) == [i \in DOMAIN events \cup {id} |-> IF i = id THEN e ELSE events[i]]

CreateCareEvent(e) ==
    /\ made < MaxEvents
    /\ events' = Put(made + 1, e)
    /\ made' = made + 1
    /\ UNCHANGED <<walk, steady>>

\* An event corrected, even to what it was, is steady no more.
UpdateCareEvent(id, e) ==
    /\ events' = Put(id, e)
    /\ steady' = steady \ {id}
    /\ UNCHANGED <<made, walk>>

DeleteCareEvent(id) ==
    /\ events' = Restrict(events, DOMAIN events \ {id})
    /\ steady' = steady \ {id}
    /\ UNCHANGED <<made, walk>>

\* Undo puts an event back under its id.
RestoreCareEvent(id, e) ==
    /\ id \notin DOMAIN events
    /\ events' = Put(id, e)
    /\ UNCHANGED <<made, walk, steady>>

-----------------------------------------------------------------------------
Key(id) == <<events[id].at, id>>

\* (performed_at, id) < (at, id)
KeyBefore(a, b) == a[1] < b[1] \/ (a[1] = b[1] /\ a[2] < b[2])

\* Fault: the cursor compares the time alone.
ListCareEventLog_Time(q, before) ==
    LET match == {id \in DOMAIN events :
                    /\ q.care \in {AnyCare, events[id].care}
                    /\ q.since <= events[id].at /\ events[id].at < q.until
                    /\ before = NoCursor \/ events[id].at < before[1]}
        sorted == SetToSortSeq(match, LAMBDA i, j : KeyBefore(Key(j), Key(i)))
    IN  SubSeq(sorted, 1, Min({Len(sorted), logPageSize + 1}))

\* One more than a page, newest first.
ListCareEventLog(q, before) ==
    LET match == {id \in DOMAIN events :
                    /\ q.care \in {AnyCare, events[id].care}
                    /\ q.since <= events[id].at /\ events[id].at < q.until
                    /\ before = NoCursor \/ KeyBefore(Key(id), before)}
        sorted == SetToSortSeq(match, LAMBDA i, j : KeyBefore(Key(j), Key(i)))
    IN  SubSeq(sorted, 1, Min({Len(sorted), logPageSize + 1}))

\* The page, and its Older link when there is more.
newActivityPage(rows) ==
    LET shown == SubSeq(rows, 1, Min({Len(rows), logPageSize})) IN
    [ids |-> shown,
     older |-> IF Len(rows) > logPageSize THEN Key(Last(shown)) ELSE NoCursor]

\* The filters: a care type, and the start of a day and of the day after another.
parseLogQuery(c, span) == [care |-> c, since |-> span[1], until |-> span[2]]

Turn(q, page) ==
    [state |-> IF page.older = NoCursor THEN "end" ELSE "reading",
     q |-> q, older |-> page.older, seen |-> walk.seen \o page.ids]

show(q) ==
    /\ walk.state = "none"
    /\ walk' = Turn(q, newActivityPage(ListCareEventLog(q, NoCursor)))
    /\ steady' = DOMAIN events
    /\ UNCHANGED <<events, made>>

\* Following Older.  A page left with nothing sends the reader to the latest.
Older ==
    /\ walk.state = "reading"
    /\ walk' = Turn(walk.q, newActivityPage(ListCareEventLog(walk.q, walk.older)))
    /\ UNCHANGED <<events, made, steady>>

Init == events = <<>> /\ made = 0 /\ walk = NoWalk /\ steady = {}

Next ==
    \/ \E e \in Entries :
          \/ CreateCareEvent(e)
          \/ \E id \in DOMAIN events : UpdateCareEvent(id, e)
          \/ \E id \in 1 .. made : RestoreCareEvent(id, e)
    \/ \E id \in DOMAIN events : DeleteCareEvent(id)
    \/ \E c \in {AnyCare} \cup Cares, span \in Spans : show(parseLogQuery(c, span))
    \/ Older

Spec == Init /\ [][Next]_vars

-----------------------------------------------------------------------------

Matching == {id \in steady : /\ walk.q.care \in {AnyCare, events[id].care}
                             /\ walk.q.since <= events[id].at /\ events[id].at < walk.q.until}

TypeOK ==
    /\ DOMAIN events \subseteq 1 .. made /\ made \in 0 .. MaxEvents
    /\ \A id \in DOMAIN events : events[id] \in Entries
    /\ steady \subseteq DOMAIN events
    /\ walk.state = "reading" => walk.older[1] \in Times /\ walk.older[2] = Last(walk.seen)

(* "the page a reader is looking at does not shift when care is logged      *)
(* above it" (cursor, activity.go:178-181): events nobody touches are shown *)
(* in the order of the log and none twice, and once the last page is        *)
(* reached each was shown, whatever is logged, moved, deleted or put back   *)
(* around them, and though several share their minute.                      *)
ShownOnce ==
    walk.state # "none" =>
        /\ \A i, j \in DOMAIN walk.seen :
              walk.seen[i] \in steady /\ walk.seen[j] \in steady /\ i < j =>
                  KeyBefore(Key(walk.seen[j]), Key(walk.seen[i]))
        /\ walk.state = "end" => Matching \subseteq ToSet(walk.seen)
==============================================================================
