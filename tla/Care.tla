-------------------------------- MODULE Care --------------------------------
(***************************************************************************)
(* The care of one plant (internal/http/care.go, correct.go): care logged  *)
(* from a sheet, undone, corrected, deleted and put back, by several people *)
(* at once, while care types are turned off, on or deleted and the plant's *)
(* schedules change.  A request reads in one statement and writes in       *)
(* another, with no transaction around them.                               *)
(*                                                                         *)
(* An event is [care, by, at, recorded, done, again]; ids are uuidv7, so    *)
(* they grow.  Note and the row's look are left out.                       *)
(***************************************************************************)
EXTENDS Integers, FiniteSets, Functions

CONSTANTS
    Users,      \* members who may log care and change their own
    Owners,     \* those of them who may edit and delete anyone's
    Cares,      \* care type ids
    Requests,   \* requests in flight
    Usuals,     \* intervals in days a schedule may have; 0 for months or a one-off
    Agains,     \* the reminders a post may name
    Minute,     \* ticks of the clock in a minute
    MaxEvents,  \* bound on the events logged
    MaxTime     \* bound on the clock

defaultReminderDays == 2
fallbackReminderDays == 7
NoSchedule == -1
None == -1
Now == -2

CareAssumption ==
    /\ Owners \subseteq Users
    /\ Usuals \subseteq Nat /\ Agains \subseteq Nat \ {0}
    /\ Minute \in Nat \ {0} /\ MaxEvents \in Nat /\ MaxTime \in Nat

VARIABLES
    now,
    types,    \* care types: "on", "off" or "gone"
    usual,    \* the plant's schedules
    events,   \* the rows of care_event, by id
    made,     \* how many ids were given
    forms,    \* the Undo forms of deleted rows on open pages
    reqs,     \* the requests in flight
    removed,  \* history: each deleted event as the delete found it
    behind,   \* history: the removals whose event was written since they read it
    lost      \* history: the events one of these deleted

careVars == <<now, types, usual, events, made, forms, reqs, removed, behind, lost>>

Idle(answer) == [op |-> "idle", answer |-> answer]
IsIdle(r) == reqs[r].op = "idle"
Answer(r, code) == reqs' = [reqs EXCEPT ![r] = Idle(code)]
Without(id) == Restrict(events, DOMAIN events \ {id})
With(id, e) == [i \in DOMAIN events \cup {id} |-> IF i = id THEN e ELSE events[i]]

-----------------------------------------------------------------------------
(* The sheet.                                                              *)

\* The form's fields: at is Now for "Just now", or a time to the minute.
Drafts == [care : Cares, done : BOOLEAN, at : {Now} \cup {t \in 0 .. MaxTime : t % Minute = 0}, again : Agains]

offers == {c \in Cares : types[c] = "on"}
offersOf == {c \in offers : usual[c] # NoSchedule}

\* One, two and three days and the usual interval, or seven days without one.
reminderChips(c) ==
    {1, 2, 3} \cup {IF types[c] = "on" /\ usual[c] \notin {NoSchedule, 0} THEN usual[c] ELSE fallbackReminderDays}

performedAt(d, t) == IF d.at = Now THEN t ELSE IF d.at > t THEN None ELSE d.at

\* A skip must name an offered reminder, and no time may be in the future.
accept(d, chips, t) == (~d.done => d.again \in chips) /\ performedAt(d, t) # None

careEventParams(u, d, t) ==
    [care |-> d.care, by |-> u, at |-> performedAt(d, t), recorded |-> t,
     done |-> d.done, again |-> IF d.done THEN None ELSE d.again]

\* The sheet opens on the event, its time to the minute.
draftOf(e) ==
    [care |-> e.care, done |-> e.done, at |-> e.at - (e.at % Minute),
     again |-> IF e.again = None THEN defaultReminderDays ELSE e.again]

\* Fault: a care type turned off since is not offered.
withEventCare_Dropped(e) == offers

withEventCare(e) == offers \cup {e.care}

offerReminder(e, c) == reminderChips(c) \cup (IF e.again = None THEN {} ELSE {e.again})

mayCorrect(u, e) == u \in Owners \/ e.by = u

-----------------------------------------------------------------------------
(* Logging.                                                                *)

Post(r, u, d, offered) ==
    /\ IsIdle(r) /\ made < MaxEvents
    /\ d.care \in offered /\ accept(d, reminderChips(d.care), now)
    /\ reqs' = [reqs EXCEPT ![r] = [op |-> "create", user |-> u, row |-> careEventParams(u, d, now)]]
    /\ UNCHANGED <<now, types, usual, events, made, forms, removed, behind, lost>>

log(r, u, d) == Post(r, u, d, offersOf)

logOnPlant(r, u, d) == Post(r, u, d, offers)

\* The foreign key refuses a care type deleted since the sheet was read.
CreateCareEvent(r) ==
    /\ reqs[r].op = "create" /\ made < MaxEvents
    /\ IF types[reqs[r].row.care] = "gone"
       THEN Answer(r, "500") /\ UNCHANGED <<events, made>>
       ELSE /\ events' = With(made + 1, reqs[r].row)
            /\ made' = made + 1
            /\ Answer(r, "ok")
    /\ UNCHANGED <<now, types, usual, forms, removed, behind, lost>>

\* Fault: the row is deleted whoever performed the care.
Deletable_Any(u, id) == id \in DOMAIN events

\* DELETE ... WHERE id = @id AND (@may_delete_any OR performed_by = @performed_by).
Deletable(u, id) == id \in DOMAIN events /\ (u \in Owners \/ events[id].by = u)

DeleteCareEvent(id) ==
    /\ events' = Without(id)
    /\ removed' = [removed EXCEPT ![id] = events[id]]

undo(u, id) ==
    /\ Deletable(u, id)
    /\ DeleteCareEvent(id)
    /\ UNCHANGED <<now, types, usual, made, forms, reqs, behind, lost>>

\* The removals that have read the event id, and from now on another.
BehindAfter(id) == behind \cup {q \in Requests : reqs[q].op = "remove" /\ reqs[q].id = id}

-----------------------------------------------------------------------------
(* Correcting.                                                             *)

\* readEvent and mayCorrect.
ReadToSave(r, u, id) ==
    /\ IsIdle(r) /\ id \in DOMAIN events /\ mayCorrect(u, events[id])
    /\ reqs' = [reqs EXCEPT ![r] = [op |-> "save", user |-> u, id |-> id, read |-> events[id], now |-> now]]
    /\ UNCHANGED <<now, types, usual, events, made, forms, removed, behind, lost>>

\* sheetOver and accept; anything refused ends the request.
save(r, d) ==
    /\ reqs[r].op = "save"
    /\ LET e == reqs[r].read IN
       IF d.care \in withEventCare(e) /\ accept(d, offerReminder(e, d.care), reqs[r].now)
       THEN reqs' = [reqs EXCEPT ![r] =
                       [op |-> "update", user |-> @.user, id |-> @.id,
                        row |-> careEventParams(@.user, d, @.now)]]
       ELSE Answer(r, "refused")
    /\ UNCHANGED <<now, types, usual, events, made, forms, removed, behind, lost>>

\* Fault: the correction makes its writer the performer.
UpdatedRow_Taken(old, new) == [new EXCEPT !.recorded = old.recorded]

\* recorded_at and performed_by are left alone.
UpdatedRow(old, new) == [new EXCEPT !.recorded = old.recorded, !.by = old.by]

UpdateCareEvent(r) ==
    /\ reqs[r].op = "update"
    /\ LET id == reqs[r].id
           u == reqs[r].user
           matches == id \in DOMAIN events /\ (u \in Owners \/ events[id].by = u) IN
       IF matches /\ types[reqs[r].row.care] # "gone"
       THEN /\ events' = With(id, UpdatedRow(events[id], reqs[r].row))
            /\ behind' = BehindAfter(id)
            /\ Answer(r, "ok")
       ELSE UNCHANGED <<events, behind>> /\ Answer(r, IF matches THEN "500" ELSE "404")
    /\ UNCHANGED <<now, types, usual, made, forms, removed, lost>>

ReadToRemove(r, u, id) ==
    /\ IsIdle(r) /\ id \in DOMAIN events
    /\ reqs' = [reqs EXCEPT ![r] = [op |-> "remove", user |-> u, id |-> id, read |-> events[id]]]
    /\ UNCHANGED <<now, types, usual, events, made, forms, removed, behind, lost>>

\* Fault: the form holds the time to the minute, as the sheet does.
restoreFields_Minute(e) == [e EXCEPT !.at = @ - (@ % Minute)]

\* What the Undo form holds of an event.
restoreFields(e) == e

\* The row the delete leaves holds the event as it was read.
remove(r) ==
    /\ reqs[r].op = "remove"
    /\ LET id == reqs[r].id IN
       IF Deletable(reqs[r].user, id)
       THEN /\ DeleteCareEvent(id)
            /\ lost' = IF r \in behind THEN lost \cup {id} ELSE lost \ {id}
            /\ forms' = forms \cup {[id |-> id, fields |-> restoreFields(reqs[r].read)]}
            /\ Answer(r, "ok")
       ELSE UNCHANGED <<events, removed, lost, forms>> /\ Answer(r, "404")
    /\ behind' = behind \ {r}
    /\ UNCHANGED <<now, types, usual, made>>

\* restore up to GetCareType; posting takes the form off the page.
restore(r, u, f) ==
    /\ IsIdle(r)
    /\ forms' = forms \ {f}
    /\ IF types[f.fields.care] = "gone" \/ f.fields.at > now \/ f.fields.recorded > now
       THEN Answer(r, "404")
       ELSE reqs' = [reqs EXCEPT ![r] = [op |-> "restore", user |-> u, id |-> f.id, row |-> f.fields]]
    /\ UNCHANGED <<now, types, usual, events, made, removed, behind, lost>>

\* ON CONFLICT (id) DO NOTHING, and only the reader's own unless they may
\* delete anyone's.
RestoreCareEvent(r) ==
    /\ reqs[r].op = "restore"
    /\ LET id == reqs[r].id
           row == reqs[r].row
           may == reqs[r].user \in Owners \/ row.by = reqs[r].user IN
       IF may /\ id \notin DOMAIN events /\ types[row.care] # "gone"
       THEN /\ events' = With(id, row)
            /\ behind' = BehindAfter(id) /\ lost' = lost \ {id}
            /\ Answer(r, "ok")
       ELSE /\ UNCHANGED <<events, behind, lost>>
            /\ Answer(r, IF may /\ types[row.care] = "gone" THEN "500" ELSE "404")
    /\ UNCHANGED <<now, types, usual, made, forms, removed>>

-----------------------------------------------------------------------------
(* The Garden page's care types and the plant's schedules.                 *)

turnOffCareType(c) ==
    /\ types[c] = "on"
    /\ types' = [types EXCEPT ![c] = "off"]
    /\ UNCHANGED <<now, usual, events, made, forms, reqs, removed, behind, lost>>

turnOnCareType(c) ==
    /\ types[c] = "off"
    /\ types' = [types EXCEPT ![c] = "on"]
    /\ UNCHANGED <<now, usual, events, made, forms, reqs, removed, behind, lost>>

\* Fault: only care that was done counts as using a type.
Unused_Done(c) == \A id \in DOMAIN events : events[id].done => events[id].care # c

Unused(c) == \A id \in DOMAIN events : events[id].care # c

\* Deleting a type deletes the schedules that use it.
deleteCareType(c) ==
    /\ types[c] # "gone" /\ Unused(c)
    /\ types' = [types EXCEPT ![c] = "gone"]
    /\ usual' = [usual EXCEPT ![c] = NoSchedule]
    /\ UNCHANGED <<now, events, made, forms, reqs, removed, behind, lost>>

saveSchedule(c, n) ==
    /\ types[c] = "on"
    /\ usual' = [usual EXCEPT ![c] = n]
    /\ UNCHANGED <<now, types, events, made, forms, reqs, removed, behind, lost>>

removeSchedule(c) ==
    /\ types[c] = "on" /\ usual[c] # NoSchedule
    /\ usual' = [usual EXCEPT ![c] = NoSchedule]
    /\ UNCHANGED <<now, types, events, made, forms, reqs, removed, behind, lost>>

Clock ==
    /\ now < MaxTime
    /\ now' = now + 1
    /\ UNCHANGED <<types, usual, events, made, forms, reqs, removed, behind, lost>>

-----------------------------------------------------------------------------

CareInit ==
    /\ now = 0
    /\ types = [c \in Cares |-> "on"]
    /\ usual = [c \in Cares |-> NoSchedule]
    /\ events = <<>> /\ made = 0
    /\ forms = {}
    /\ reqs = [r \in Requests |-> Idle("none")]
    /\ removed = [id \in 1 .. MaxEvents |-> None]
    /\ behind = {} /\ lost = {}

Writes(r) == CreateCareEvent(r) \/ UpdateCareEvent(r) \/ remove(r) \/ RestoreCareEvent(r)

Posts(r) ==
    \E u \in Users :
        \/ \E d \in Drafts : log(r, u, d) \/ logOnPlant(r, u, d)
        \/ \E id \in DOMAIN events : ReadToSave(r, u, id) \/ ReadToRemove(r, u, id)
        \/ \E f \in forms : restore(r, u, f)

CareNext ==
    \/ \E r \in Requests : Posts(r) \/ Writes(r) \/ \E d \in Drafts : save(r, d)
    \/ \E u \in Users, id \in DOMAIN events : undo(u, id)
    \/ \E c \in Cares :
          \/ turnOffCareType(c) \/ turnOnCareType(c) \/ deleteCareType(c) \/ removeSchedule(c)
          \/ \E n \in Usuals : saveSchedule(c, n)
    \/ Clock

CareSpec == CareInit /\ [][CareNext]_careVars

-----------------------------------------------------------------------------

Rows == [care : Cares, by : Users, at : 0 .. MaxTime, recorded : 0 .. MaxTime,
         done : BOOLEAN, again : {None} \cup Agains]

TypeOK ==
    /\ now \in 0 .. MaxTime
    /\ types \in [Cares -> {"on", "off", "gone"}]
    /\ usual \in [Cares -> {NoSchedule} \cup Usuals]
    /\ DOMAIN events \subseteq 1 .. made /\ made \in 0 .. MaxEvents
    /\ \A id \in DOMAIN events :
          /\ events[id] \in Rows
          /\ events[id].at <= now /\ events[id].recorded <= now
          /\ events[id].done = (events[id].again = None)
    /\ \A f \in forms : f.id \in 1 .. made /\ f.fields \in Rows

(* No event is left pointing at a deleted care type, whichever request was  *)
(* under way when it was deleted (deleteCareType and DeleteUnusedCareType:  *)
(* "an event written at the same moment cannot slip past it").              *)
EventHasType == \A id \in DOMAIN events : types[events[id].care] # "gone"

(* Every logged event can be opened and saved again as it opens, by anyone  *)
(* who may correct it, whatever has happened to its care type and to the    *)
(* schedule since (withEventCare, correct.go:474; offerReminder,            *)
(* care.go:402).                                                            *)
OpensAndSaves ==
    \A id \in DOMAIN events :
        LET e == events[id]
            d == draftOf(e)
        IN  d.care \in withEventCare(e) /\ accept(d, offerReminder(e, d.care), now)

(* The rows of care are of their types and agree with the care types, and   *)
(* what was logged opens and can be saved again, however requests, Undo and *)
(* changes of the care types interleave (CreateCareEvent, UpdateCareEvent,  *)
(* RestoreCareEvent and DeleteUnusedCareType).                              *)
CareAgrees == TypeOK /\ EventHasType /\ OpensAndSaves

(* Who gave the care and when it was logged never change, through any       *)
(* number of corrections, deletions and restores (UpdateCareEvent and       *)
(* restoreFields).                                                          *)
PerformerStays ==
    \A id \in 1 .. made' :
       LET was == IF id \in DOMAIN events THEN events[id] ELSE IF id <= made THEN removed[id] ELSE events'[id]
       IN  id \in DOMAIN events' =>
             events'[id].by = was.by /\ events'[id].recorded = was.recorded

(* The row a delete leaves "keeps" the event for Undo: what Undo puts back  *)
(* is the event that was deleted, field for field, whoever corrects,        *)
(* deletes and puts it back meanwhile (deletedRow, correct.go:553;          *)
(* RestoreCareEvent), but for one that was corrected or put back between    *)
(* the read and the delete of the request that deleted it.                  *)
UndoGivesBack ==
    \A id \in (DOMAIN events' \ DOMAIN events) \cap 1 .. made : events'[id] = removed[id] \/ id \in lost

(* Care is changed, deleted or put back only by whoever gave it or by an    *)
(* owner, whatever was read before the write (DeleteCareEvent,              *)
(* UpdateCareEvent and RestoreCareEvent match on the performer).            *)
OthersKeepOut ==
    \A u \in Users \ Owners, r \in Requests : reqs[r].op # "idle" /\ reqs[r].user = u /\ reqs'[r] # reqs[r] =>
       \A id \in DOMAIN events \cup DOMAIN events' :
           \/ id \in DOMAIN events /\ id \in DOMAIN events' /\ events[id] = events'[id]
           \/ id \in DOMAIN events /\ events[id].by = u
           \/ id \notin DOMAIN events /\ events'[id].by = u

(* What no step does to care: take it from who gave it or from its day, or  *)
(* let anybody but them and the owners touch it (UpdateCareEvent,           *)
(* DeleteCareEvent, RestoreCareEvent).                                      *)
CareStays == [][OthersKeepOut /\ PerformerStays]_careVars
==============================================================================
