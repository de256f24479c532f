-------------------------------- MODULE Digest --------------------------------
(***************************************************************************)
(* The digest job (internal/push/digest.go, deliver.go) and the handlers   *)
(* that change who gets a digest or a reminder and when.                   *)
(*                                                                         *)
(* A look is not atomic: it lists the reminders, sends the due ones, lists *)
(* the members, and sends the digests that are due, one transaction each,  *)
(* while handlers commit changes in between.  A transaction claims its row *)
(* of the ledger first and pushes to the browsers before it commits, so it *)
(* is several steps here, with the rows it has written locked meanwhile.   *)
(***************************************************************************)
EXTENDS Job, Hour, FiniteSets

CONSTANTS
    Members,     \* membership ids; an id is used once
    Users,
    NoUser,
    UserOf,      \* the account of each membership
    GardenOf,    \* the garden of each membership
    Browsers,    \* push endpoints
    Hours,       \* the digest hours offered
    DefaultHour, \* the hour a new membership starts with
    MaxBrowsers, \* push subscriptions an account may have
    RemindLead,  \* ticks ahead of now the reminder sheet's time starts
    EndTimes,    \* the end dates a sitter's access is given
    MaxChanges,  \* bound on what handlers write
    MaxFaults    \* bound on database errors and on stops of the process

ASSUME DigestAssumption ==
    /\ StartTime >= DayTicks  \* so that no local day is negative
    /\ NoUser \notin Users
    /\ UserOf \in [Members -> Users]
    /\ Hours \subseteq 0 .. DayHours - 1
    /\ DefaultHour \in Hours
    /\ EndTimes \subseteq Nat
    /\ MaxBrowsers \in Nat
    /\ RemindLead \in Nat
    /\ MaxChanges \in Nat
    /\ MaxFaults \in Nat

VARIABLES
    row,       \* membership: "none" before it is written, "row", "deleted"
    ends,      \* membership.expires_at, or NoTime
    on,        \* the digest notification_preference
    hour,      \* membership.digest_hour
    remind,    \* membership.remind_again_at, or NoTime
    zone,      \* app_user.timezone
    owner,     \* the account a browser's push_subscription belongs to
    ledger,    \* notification_send
    req,       \* the now an open Remind me later request loaded, or NoTime
    reminders, \* the rows of ListWaitingReminders still to handle
    members,   \* the rows of ListDigestMembers still to handle
    tx,        \* the open transaction of a send, or NoTx
    changes,   \* what handlers have written (bounded)
    faults     \* errors and stops so far (bounded)

memberVars == <<row, ends, on, hour, remind>>
accountVars == <<zone, owner>>
listVars == <<reminders, members>>
bounds == <<changes, faults>>
vars == <<now, jobVars, wakeVars, memberVars, accountVars, ledger, req,
          listVars, tx, bounds>>

digestKind == "digest"
reminderKind == "digest_again"

Send == [m : Members, kind : {digestKind, reminderKind}, key : Nat]

NoTx == [open |-> FALSE]
Tx == [open : {TRUE}, send : Send, cleared : BOOLEAN, then : Int,
       todo : SUBSET Browsers, gone : SUBSET Browsers]

-----------------------------------------------------------------------------
(* What the queries see.                                                   *)

BrowsersOf(u) == {b \in Browsers : owner[b] = u}

\* auth.MembershipEnded, and the queries' test of expires_at.
Live(m, t) == row[m] = "row" /\ (ends[m] = NoTime \/ ends[m] > t)

Reachable(m, t) == Live(m, t) /\ BrowsersOf(UserOf[m]) # {}

\* ListWaitingReminders and ListDigestMembers.
Waiting(m, t) == Reachable(m, t) /\ remind[m] # NoTime
Subscribed(m, t) == Reachable(m, t) /\ on[m]

DigestKeys(m) == {s.key : s \in {e \in ledger : e.m = m /\ e.kind = digestKind}}

SentThrough(m) ==
    IF DigestKeys(m) = {} THEN NoDay
    ELSE CHOOSE k \in DigestKeys(m) : \A j \in DigestKeys(m) : j <= k

\* The rows a send's transaction has updated or deleted are locked until it
\* ends, and the row its ledger entry refers to cannot be deleted.
Locked(m) == tx.open /\ tx.send.m = m /\ tx.cleared
Referred(m) == tx.open /\ tx.send.m = m
BeingDropped(b) == tx.open /\ b \in tx.gone

\* Errors and stops are bounded, and leave the clock room for a retry.
FaultAllowed == faults < MaxFaults /\ now + RetryAfter <= MaxTime

-----------------------------------------------------------------------------
(* A look: sendDue.                                                        *)

ListReminders ==
    /\ pc = "look"
    /\ pc' = "reminders"
    /\ lookNow' = now
    /\ next' = NoTime
    /\ failed' = FALSE
    /\ reminders' = {[m |-> m, at |-> remind[m]] : m \in {x \in Members : Waiting(x, now)}}
    /\ UNCHANGED <<now, wakeVars, memberVars, accountVars, ledger, req, members, tx, bounds>>

ReminderNotDue ==
    \E r \in reminders :
        /\ pc = "reminders"
        /\ r.at > lookNow
        /\ next' = soonest(next, r.at)
        /\ reminders' = reminders \ {r}
        /\ UNCHANGED <<now, pc, lookNow, failed, wakeVars, memberVars, accountVars,
                       ledger, req, members, tx, bounds>>

\* Fault: the reminder is cleared whatever its time.
ClearReminder_AnyTime(m, at) == [remind EXCEPT ![m] = NoTime]

\* ClearReminder matches the time.
ClearReminder(m, at) == IF remind[m] = at THEN [remind EXCEPT ![m] = NoTime] ELSE remind

\* sendReminder commits without a push: the row was there already, or it is
\* claimed for a reminder that is too late or lists nothing.
SettleReminder ==
    \E r \in reminders :
        LET s == [m |-> r.m, kind |-> reminderKind, key |-> r.at]
        IN  /\ pc = "reminders"
            /\ r.at <= lookNow
            /\ row[r.m] = "row"
            /\ remind' = ClearReminder(r.m, r.at)
            /\ ledger' = ledger \cup {s}
            /\ reminders' = reminders \ {r}
            /\ UNCHANGED <<now, jobVars, wakeVars, row, ends, on, hour, accountVars,
                           req, members, tx, bounds>>

\* Fault: a reminder that is in the ledger is sent again.
SendReminder_Unclaimed ==
    \E r \in reminders :
        LET s == [m |-> r.m, kind |-> reminderKind, key |-> r.at]
        IN  /\ pc = "reminders"
            /\ r.at <= lookNow
            /\ lookNow - r.at < maxLate
            /\ row[r.m] = "row"
            /\ pc' = "deliver"
            /\ tx' = [open |-> TRUE, send |-> s, cleared |-> remind[r.m] = r.at,
                      then |-> NoTime, todo |-> BrowsersOf(UserOf[r.m]), gone |-> {}]
            /\ reminders' = reminders \ {r}
            /\ UNCHANGED <<now, lookNow, next, failed, wakeVars, memberVars, accountVars,
                           ledger, req, members, bounds>>

\* sendReminder claims the row and lists the browsers.
SendReminder ==
    \E r \in reminders :
        LET s == [m |-> r.m, kind |-> reminderKind, key |-> r.at]
        IN  /\ pc = "reminders"
            /\ r.at <= lookNow
            /\ lookNow - r.at < maxLate
            /\ row[r.m] = "row"
            /\ s \notin ledger
            /\ pc' = "deliver"
            /\ tx' = [open |-> TRUE, send |-> s, cleared |-> remind[r.m] = r.at,
                      then |-> NoTime, todo |-> BrowsersOf(UserOf[r.m]), gone |-> {}]
            /\ reminders' = reminders \ {r}
            /\ UNCHANGED <<now, lookNow, next, failed, wakeVars, memberVars, accountVars,
                           ledger, req, members, bounds>>

\* Fault: a failed send is not tried again.
ReminderFails_NoRetry ==
    \E r \in reminders :
        /\ pc = "reminders"
        /\ r.at <= lookNow
        /\ row[r.m] # "row" \/ FaultAllowed
        /\ faults' = IF row[r.m] # "row" THEN faults ELSE faults + 1
        /\ next' = next
        /\ failed' = TRUE
        /\ reminders' = reminders \ {r}
        /\ UNCHANGED <<now, pc, lookNow, wakeVars, memberVars, accountVars, ledger,
                       req, members, tx, changes>>

\* A send that returns an error before anything is pushed: the membership the
\* ledger row would refer to has been deleted since the list was read, or the
\* database failed.
ReminderFails ==
    \E r \in reminders :
        /\ pc = "reminders"
        /\ r.at <= lookNow
        /\ row[r.m] # "row" \/ FaultAllowed
        /\ faults' = IF row[r.m] # "row" THEN faults ELSE faults + 1
        /\ next' = soonest(next, lookNow + RetryAfter)
        /\ failed' = TRUE
        /\ reminders' = reminders \ {r}
        /\ UNCHANGED <<now, pc, lookNow, wakeVars, memberVars, accountVars, ledger,
                       req, members, tx, changes>>

ListMembers ==
    /\ pc = "reminders"
    /\ reminders = {}
    /\ pc' = "digests"
    /\ members' = {[m |-> m, hour |-> hour[m], zone |-> zone[UserOf[m]], sent |-> SentThrough(m)] :
                     m \in {x \in Members : Subscribed(x, lookNow)}}
    /\ UNCHANGED <<now, lookNow, next, failed, wakeVars, memberVars, accountVars, ledger,
                   req, reminders, tx, bounds>>

\* Either list fails: sendDue returns the error and what is left is dropped.
ListFails ==
    /\ pc = "look" \/ (pc = "reminders" /\ reminders = {})
    /\ FaultAllowed
    /\ faults' = faults + 1
    /\ LookFailed
    /\ lookNow' = IF pc = "look" THEN now ELSE lookNow
    /\ UNCHANGED <<now, wakeVars, memberVars, accountVars, ledger, req, listVars, tx, changes>>

DigestAt(r) == nextDigest(r.hour, r.zone, r.sent, lookNow)
DigestKey(r) == nextDay(r.hour, r.zone, r.sent, lookNow)

DigestNotDue ==
    \E r \in members :
        /\ pc = "digests"
        /\ DigestAt(r) > lookNow
        /\ next' = soonest(next, DigestAt(r))
        /\ members' = members \ {r}
        /\ UNCHANGED <<now, pc, lookNow, failed, wakeVars, memberVars, accountVars,
                       ledger, req, reminders, tx, bounds>>

\* The instant of the digest after the one of key (digest.go:148).
DigestAfter(r, key) == nextDigest(r.hour, r.zone, key, lookNow)

\* send commits without a push: the row was there, or nothing is due today.
SettleDigest ==
    \E r \in members :
        LET s == [m |-> r.m, kind |-> digestKind, key |-> DigestKey(r)]
        IN  /\ pc = "digests"
            /\ DigestAt(r) <= lookNow
            /\ row[r.m] = "row"
            /\ ledger' = ledger \cup {s}
            /\ next' = soonest(next, DigestAfter(r, s.key))
            /\ members' = members \ {r}
            /\ UNCHANGED <<now, pc, lookNow, failed, wakeVars, memberVars, accountVars,
                           req, reminders, tx, bounds>>

SendDigest ==
    \E r \in members :
        LET s == [m |-> r.m, kind |-> digestKind, key |-> DigestKey(r)]
        IN  /\ pc = "digests"
            /\ DigestAt(r) <= lookNow
            /\ row[r.m] = "row"
            /\ s \notin ledger
            /\ pc' = "deliver"
            /\ tx' = [open |-> TRUE, send |-> s, cleared |-> FALSE,
                      then |-> DigestAfter(r, s.key), todo |-> BrowsersOf(UserOf[r.m]), gone |-> {}]
            /\ members' = members \ {r}
            /\ UNCHANGED <<now, lookNow, next, failed, wakeVars, memberVars, accountVars,
                           ledger, req, reminders, bounds>>

DigestFails ==
    \E r \in members :
        /\ pc = "digests"
        /\ DigestAt(r) <= lookNow
        /\ row[r.m] # "row" \/ FaultAllowed
        /\ faults' = IF row[r.m] # "row" THEN faults ELSE faults + 1
        /\ next' = soonest(next, lookNow + RetryAfter)
        /\ failed' = TRUE
        /\ members' = members \ {r}
        /\ UNCHANGED <<now, pc, lookNow, wakeVars, memberVars, accountVars, ledger,
                       req, reminders, tx, changes>>

EndLook ==
    /\ pc = "digests"
    /\ members = {}
    /\ Sleep
    /\ UNCHANGED <<now, wakeVars, memberVars, accountVars, ledger, req, listVars, tx, bounds>>

-----------------------------------------------------------------------------
(* A send's transaction: deliver and sendOne.                              *)

\* A push that works and one that fails both leave the next browser to try.
SendOne ==
    \E b \in Browsers :
        /\ pc = "deliver"
        /\ b \in tx.todo
        /\ \/ tx' = [tx EXCEPT !.todo = @ \ {b}]
           \/ tx' = [tx EXCEPT !.todo = @ \ {b}, !.gone = @ \cup {b}]
        /\ UNCHANGED <<now, jobVars, wakeVars, memberVars, accountVars, ledger, req,
                       listVars, bounds>>

\* Back in the loop the send was made from.
ResumeAt(kind) == IF kind = reminderKind THEN "reminders" ELSE "digests"

CommitSend ==
    /\ pc = "deliver"
    /\ tx.todo = {}
    /\ pc' = ResumeAt(tx.send.kind)
    /\ ledger' = ledger \cup {tx.send}
    /\ remind' = IF tx.cleared THEN [remind EXCEPT ![tx.send.m] = NoTime] ELSE remind
    /\ owner' = [b \in Browsers |->
                   IF b \in tx.gone /\ owner[b] = UserOf[tx.send.m] THEN NoUser ELSE owner[b]]
    /\ next' = IF tx.then = NoTime THEN next ELSE soonest(next, tx.then)
    /\ tx' = NoTx
    /\ UNCHANGED <<now, lookNow, failed, wakeVars, row, ends, on, hour, zone, req,
                   listVars, bounds>>

\* Fault: a send that was rolled back is not tried again.
RollBackSend_NoRetry ==
    /\ pc = "deliver"
    /\ FaultAllowed
    /\ faults' = faults + 1
    /\ pc' = ResumeAt(tx.send.kind)
    /\ next' = next
    /\ failed' = TRUE
    /\ tx' = NoTx
    /\ UNCHANGED <<now, lookNow, wakeVars, memberVars, accountVars, ledger, req,
                   listVars, changes>>

\* A database error rolls the claim back, whatever has been pushed.
RollBackSend ==
    /\ pc = "deliver"
    /\ FaultAllowed
    /\ faults' = faults + 1
    /\ pc' = ResumeAt(tx.send.kind)
    /\ next' = soonest(next, lookNow + RetryAfter)
    /\ failed' = TRUE
    /\ tx' = NoTx
    /\ UNCHANGED <<now, lookNow, wakeVars, memberVars, accountVars, ledger, req,
                   listVars, changes>>

JobStep ==
    \/ ListReminders \/ ReminderNotDue \/ SettleReminder \/ SendReminder
    \/ ListMembers \/ DigestNotDue \/ SettleDigest \/ SendDigest \/ EndLook
    \/ SendOne \/ CommitSend

JobFault == ReminderFails \/ ListFails \/ DigestFails \/ RollBackSend

-----------------------------------------------------------------------------
(* The process.                                                            *)

Clock ==
    /\ Tick
    /\ UNCHANGED <<jobVars, wakeVars, memberVars, accountVars, ledger, req, listVars, tx, bounds>>

Wakes ==
    /\ \/ Woken /\ UNCHANGED calls
       \/ Fired /\ UNCHANGED wakeVars
    /\ UNCHANGED <<now, lookNow, next, failed, memberVars, accountVars, ledger, req,
                   listVars, tx, bounds>>

HandlerWakes ==
    /\ CallWake
    /\ UNCHANGED <<now, jobVars, memberVars, accountVars, ledger, req, listVars, tx, bounds>>

Starts ==
    /\ StartJob
    /\ UNCHANGED <<now, lookNow, next, failed, memberVars, accountVars, ledger, req,
                   listVars, tx, bounds>>

\* ctx ends: the open transaction is rolled back.
Stops ==
    /\ FaultAllowed
    /\ faults' = faults + 1
    /\ StopJob
    /\ tx' = NoTx
    /\ reminders' = {} /\ members' = {}
    /\ UNCHANGED <<now, lookNow, next, failed, wakeVars, memberVars, accountVars, ledger,
                   req, changes>>

\* The process ends or is killed: what it had in memory and had not committed
\* is lost.
Exits ==
    /\ pc = "stopped" \/ FaultAllowed
    /\ faults' = IF pc = "stopped" THEN faults ELSE faults + 1
    /\ Exit
    /\ tx' = NoTx
    /\ reminders' = {} /\ members' = {}
    /\ req' = [m \in Members |-> NoTime]
    /\ UNCHANGED <<now, lookNow, next, failed, memberVars, accountVars, ledger, changes>>

-----------------------------------------------------------------------------
(* The handlers.  Each commits in one transaction; most then call Wake.    *)

Writes ==
    /\ Up
    /\ changes < MaxChanges
    /\ changes' = changes + 1
    /\ UNCHANGED <<now, jobVars, listVars, tx, faults>>

\* Today offers Remind me later (remindLaterState).
Offered(m) ==
    /\ Reachable(m, now)
    /\ \/ remind[m] > now
       \/ /\ on[m] => LocalDay(zone[UserOf[m]], now) \in DigestKeys(m)
          /\ LocalDay(zone[UserOf[m]], now + RemindLead) = LocalDay(zone[UserOf[m]], now)

\* A post to /remind-later or /remind-later/remove has loaded the day.
LoadRemindLater(m) ==
    /\ Up
    /\ req[m] = NoTime
    /\ Offered(m)
    /\ req' = [req EXCEPT ![m] = now]
    /\ UNCHANGED <<now, jobVars, wakeVars, memberVars, accountVars, ledger, listVars, tx, bounds>>

\* The times a post may ask for (reminderAt).
reminderAt(m) ==
    {at \in Time : /\ at >= req[m]
                   /\ LocalDay(zone[UserOf[m]], at) = LocalDay(zone[UserOf[m]], req[m])}

\* A request that finds another reminder in the row changes nothing.
Answered(m) ==
    /\ req[m] # NoTime
    /\ ~Locked(m)
    /\ req' = [req EXCEPT ![m] = NoTime]

\* Fault: the job is not told of the reminder.
SetReminder_NoWake(m) ==
    /\ Writes
    /\ Answered(m)
    /\ row[m] = "row"
    /\ remind[m] <= req[m]
    /\ \E at \in reminderAt(m) : remind' = [remind EXCEPT ![m] = at]
    /\ UNCHANGED <<wakeVars, row, ends, on, hour, accountVars, ledger>>

SetReminder(m) ==
    /\ Writes
    /\ Answered(m)
    /\ row[m] = "row"
    /\ remind[m] <= req[m]
    /\ \E at \in reminderAt(m) : remind' = [remind EXCEPT ![m] = at]
    /\ CommittedChange
    /\ UNCHANGED <<wake, row, ends, on, hour, accountVars, ledger>>

RescheduleReminder(m) ==
    /\ Writes
    /\ Answered(m)
    /\ row[m] = "row"
    /\ remind[m] > req[m]
    /\ \E at \in reminderAt(m) : remind' = [remind EXCEPT ![m] = at]
    /\ CommittedChange
    /\ UNCHANGED <<wake, row, ends, on, hour, accountVars, ledger>>

RemoveReminder(m) ==
    /\ Writes
    /\ Answered(m)
    /\ row[m] = "row"
    /\ remind[m] > req[m]
    /\ remind' = [remind EXCEPT ![m] = NoTime]
    /\ CommittedChange
    /\ UNCHANGED <<wake, row, ends, on, hour, accountVars, ledger>>

\* Any of the three answers that its sheet is out of date, or that the time
\* posted is not one it takes.
RefuseReminder(m) ==
    /\ Up
    /\ Answered(m)
    /\ UNCHANGED <<now, jobVars, wakeVars, memberVars, accountVars, ledger, listVars, tx, bounds>>

SaveNotifications(m) ==
    /\ Writes
    /\ Live(m, now)
    /\ ~Locked(m)
    /\ \E enabled \in BOOLEAN : on' = [on EXCEPT ![m] = enabled]
    /\ \E h \in Hours : hour' = [hour EXCEPT ![m] = h]
    /\ CommittedChange
    /\ UNCHANGED <<wake, row, ends, remind, accountVars, ledger, req>>

\* LockUser makes the count and the upsert one step for the account.
SubscribeBrowser(u, b) ==
    /\ Writes
    /\ ~BeingDropped(b)
    /\ Cardinality(BrowsersOf(u) \ {b}) < MaxBrowsers
    /\ owner' = [owner EXCEPT ![b] = u]
    /\ CommittedChange
    /\ UNCHANGED <<wake, memberVars, zone, ledger, req>>

\* Nothing becomes due when a browser goes, and Wake is not called.
RemoveBrowser(b) ==
    /\ Writes
    /\ owner[b] # NoUser
    /\ ~BeingDropped(b)
    /\ owner' = [owner EXCEPT ![b] = NoUser]
    /\ UNCHANGED <<wakeVars, memberVars, zone, ledger, req>>

SaveAccount(u) ==
    /\ Writes
    /\ \E z \in Zones : zone' = [zone EXCEPT ![u] = z]
    /\ CommittedChange
    /\ UNCHANGED <<wake, memberVars, owner, ledger, req>>

\* A new role leaves the end date; a date is posted only for a member who has
\* one.
SaveMembers(m) ==
    /\ Writes
    /\ row[m] = "row"
    /\ ~Locked(m)
    /\ \E at \in {ends[m]} \cup (IF ends[m] = NoTime THEN {} ELSE EndTimes) :
          ends' = [ends EXCEPT ![m] = at]
    /\ CommittedChange
    /\ UNCHANGED <<wake, row, on, hour, remind, accountVars, ledger, req>>

\* createMembership, or renewMembership for one that has ended.
Accept(m) ==
    /\ Writes
    /\ row[m] # "deleted"
    /\ ~Live(m, now)
    /\ ~Locked(m)
    /\ row' = [row EXCEPT ![m] = "row"]
    /\ \E at \in EndTimes \cup {NoTime} : ends' = [ends EXCEPT ![m] = at]
    /\ on' = [on EXCEPT ![m] = IF row[m] = "row" THEN @ ELSE TRUE]
    /\ hour' = [hour EXCEPT ![m] = IF row[m] = "row" THEN @ ELSE DefaultHour]
    /\ CommittedChange
    /\ UNCHANGED <<wake, remind, accountVars, ledger, req>>

\* The rows of M are deleted, and the ledger's with them.
DeleteMemberships(M) ==
    /\ \A m \in M : row[m] = "row" /\ ~Referred(m)
    /\ row' = [m \in Members |-> IF m \in M THEN "deleted" ELSE row[m]]
    /\ ledger' = {s \in ledger : s.m \notin M}
    /\ UNCHANGED <<ends, on, hour, remind>>

\* Wake is not called.
RemoveMember(m) ==
    /\ Writes
    /\ DeleteMemberships({m})
    /\ UNCHANGED <<wakeVars, accountVars, req>>

CloseAccount(u) ==
    /\ Writes
    /\ DeleteMemberships({m \in Members : UserOf[m] = u /\ row[m] = "row"})
    /\ \A b \in BrowsersOf(u) : ~BeingDropped(b)
    /\ owner' = [b \in Browsers |-> IF owner[b] = u THEN NoUser ELSE owner[b]]
    /\ CommittedChange
    /\ UNCHANGED <<wake, zone, req>>

DeleteGarden(g) ==
    /\ Writes
    /\ DeleteMemberships({m \in Members : GardenOf[m] = g /\ row[m] = "row"})
    /\ CommittedChange
    /\ UNCHANGED <<wake, accountVars, req>>

Handler ==
    \/ \E m \in Members :
        \/ LoadRemindLater(m) \/ SetReminder(m) \/ RescheduleReminder(m)
        \/ RemoveReminder(m) \/ RefuseReminder(m) \/ SaveNotifications(m)
        \/ SaveMembers(m) \/ Accept(m) \/ RemoveMember(m)
        \/ DeleteGarden(GardenOf[m])
    \/ \E u \in Users : SaveAccount(u) \/ CloseAccount(u)
    \/ \E b \in Browsers : RemoveBrowser(b) \/ \E u \in Users : SubscribeBrowser(u, b)

-----------------------------------------------------------------------------
\* The database as the process first finds it: memberships and browsers from
\* before push was turned on, nothing sent.
Init ==
    /\ JobInit
    /\ row \in [Members -> {"none", "row"}]
    /\ ends \in [Members -> EndTimes \cup {NoTime}]
    /\ on \in [Members -> BOOLEAN]
    /\ \A m \in Members : row[m] = "none" => ends[m] = NoTime /\ ~on[m]
    /\ hour = [m \in Members |-> DefaultHour]
    /\ remind = [m \in Members |-> NoTime]
    /\ zone \in [Users -> Zones]
    /\ owner \in [Browsers -> Users \cup {NoUser}]
    /\ \A u \in Users : Cardinality(BrowsersOf(u)) <= MaxBrowsers
    /\ ledger = {}
    /\ req = [m \in Members |-> NoTime]
    /\ reminders = {}
    /\ members = {}
    /\ tx = NoTx
    /\ changes = 0
    /\ faults = 0

LookStep == JobStep \/ JobFault

Next ==
    \/ LookStep \/ Handler
    \/ Clock \/ Wakes \/ HandlerWakes \/ Starts \/ Stops \/ Exits

Spec == Init /\ [][Next]_vars

(* The goroutine of the job and those of the requests are scheduled, time   *)
(* passes, and a process that has stopped ends and is started again.        *)
(* Nothing makes a person act, the database fail or the process stop.       *)
Fairness ==
    /\ WF_vars(LookStep)
    /\ WF_vars(Wakes)
    /\ WF_vars(HandlerWakes)
    /\ WF_vars(Clock)
    /\ WF_vars(Starts)
    /\ WF_vars(pc = "stopped" /\ Exits)

FairSpec == Spec /\ Fairness

-----------------------------------------------------------------------------
JobTypes ==
    /\ now \in Time
    /\ pc \in {"down", "look", "reminders", "digests", "deliver", "asleep", "stopped"}
    /\ lookNow \in StartTime .. now
    /\ next \in Int
    /\ failed \in BOOLEAN
    /\ wake \in BOOLEAN
    /\ calls \in Nat

RowTypes ==
    /\ row \in [Members -> {"none", "row", "deleted"}]
    /\ ends \in [Members -> EndTimes \cup {NoTime}]
    /\ on \in [Members -> BOOLEAN]
    /\ hour \in [Members -> Hours]
    /\ remind \in [Members -> Time \cup {NoTime}]
    /\ zone \in [Users -> Zones]
    /\ owner \in [Browsers -> Users \cup {NoUser}]
    /\ req \in [Members -> Time \cup {NoTime}]

SendTypes ==
    /\ ledger \subseteq Send
    /\ reminders \subseteq [m : Members, at : Time]
    /\ members \subseteq [m : Members, hour : Hours, zone : Zones, sent : Nat \cup {NoDay}]
    /\ tx \in {NoTx} \cup Tx

BoundTypes == changes \in 0 .. MaxChanges /\ faults \in 0 .. MaxFaults

TypeOK == JobTypes /\ RowTypes /\ SendTypes /\ BoundTypes

\* The instant of a member's next digest as the rows are now.
NextDigestOf(m) == nextDigest(hour[m], zone[UserOf[m]], SentThrough(m), now)
NextDayOf(m) == nextDay(hour[m], zone[UserOf[m]], SentThrough(m), now)

\* The job looks again by the instant at, or within retryAfter when the last
\* look met an error.
LooksBy(at) ==
    /\ next # NoTime
    /\ next <= at \/ (failed /\ next <= now + RetryAfter)

(* While the job sleeps with no wake in the channel and no handler about to *)
(* send one, its timer is set for no later than every reminder and every    *)
(* digest that is waiting, whatever was committed while it looked.  A       *)
(* change that is not followed by a wake (removeBrowser, removeMember, an   *)
(* end date passing) never needs one (Wake, digest.go:74).                  *)
NoLostWake ==
    pc = "asleep" /\ ~wake /\ calls = 0 =>
        \A m \in Members :
            /\ Waiting(m, now) => LooksBy(remind[m])
            /\ Subscribed(m, now) => LooksBy(NextDigestOf(m))

(* The job is a user of the ledger: a send whose row is committed is never  *)
(* started again, through database errors, restarts and settings changed    *)
(* while the send is going on (send and sendReminder).                      *)
Ledger == INSTANCE SendLedger WITH
    settled <- ledger,
    started <- IF tx.open THEN {tx.send} ELSE {},
    deleted <- {m \in Members : row[m] = "deleted"}

SendsOnce == Ledger!Spec

(* Each digest of a member is for a later day than the ones before, also    *)
(* when they move to a timezone where it is still the day before            *)
(* (nextDigest, hour.go:81).                                                *)
DigestDaysIncrease ==
    [][\A m \in Members : \A k \in DigestKeys(m)' \ DigestKeys(m) : k > SentThrough(m)]_vars

(* The job empties remind_again_at only together with the ledger row for    *)
(* the very time it empties, so a time set or moved while the job is        *)
(* sending the one before it is kept (ClearReminder, membership.sql).       *)
ReminderKept ==
    [][\A m \in Members :
          remind[m] # NoTime /\ remind'[m] = NoTime /\ req'[m] = req[m] =>
              [m |-> m, kind |-> reminderKind, key |-> remind[m]] \in ledger']_vars

(* A reminder whose time has come leaves the row: it is sent, cleared as    *)
(* too late, or moved by the member, unless they can no longer be reached.  *)
ReminderSettles ==
    \A m \in Members : \A at \in Time :
        (Waiting(m, now) /\ remind[m] = at /\ at <= now)
            ~> (remind[m] # at \/ ~Waiting(m, now))

(* A digest that is due is settled, unless it becomes too late, the member  *)
(* changes their settings or can no longer be reached.                      *)
DigestSettles ==
    \A m \in Members : \A day \in 0 .. MaxTime :
        (Subscribed(m, now) /\ NextDayOf(m) = day /\ NextDigestOf(m) <= now)
            ~> (NextDayOf(m) # day \/ ~Subscribed(m, now) \/ NextDigestOf(m) > now)

(* RemoveReminder and RescheduleReminder find no row to change "because the *)
(* job has already sent it" (membership.sql:40, 47), and the sheet then     *)
(* says "That reminder has already been sent." (remind_later.go:50): a      *)
(* reminder still in the row that a request can no longer change has its    *)
(* row in the ledger.                                                       *)
RefusedBecauseSent ==
    \A m \in Members :
        req[m] # NoTime /\ row[m] = "row" /\ remind[m] \in 0 .. req[m] =>
            [m |-> m, kind |-> reminderKind, key |-> remind[m]] \in ledger
===============================================================================
