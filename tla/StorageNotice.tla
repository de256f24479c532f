---------------------------- MODULE StorageNotice ----------------------------
(***************************************************************************)
(* The notification that a garden's photo storage is nearly full           *)
(* (internal/http/notify.go).  An upload reads the usage after its commit  *)
(* and claims a ledger row for each member who may delete any photo; a     *)
(* deletion reads the usage after its commit and, back under the share,    *)
(* deletes those rows.  The usage is read outside any transaction, so      *)
(* another request may commit before it is acted on.                       *)
(***************************************************************************)
EXTENDS Integers, FiniteSets

CONSTANTS
    Photos,       \* photo ids, each of one unit of storage
    Managers,     \* memberships whose role grants photo.delete_any
    Quota,
    Share,        \* the least usage that is nearlyFull of the quota
    MaxHandlers,  \* bound on requests at once
    MaxFaults     \* bound on database errors and crashes

NoticeAssumption ==
    /\ Quota \in Nat /\ Share \in 1 .. Quota
    /\ MaxHandlers \in Nat /\ MaxFaults \in Nat

VARIABLES
    rows,    \* the photos stored
    upload,  \* how far the upload of a photo is
    todo,    \* the members it has not claimed for yet
    delete,  \* how far the deletion of a photo is
    told,    \* members with a storage_nearly_full row in the ledger
    heard,   \* how often a member was told while the photos have been over
             \* the share, counted to two
    old,     \* history: the requests that go by a usage read before the
             \* photos came over or under the share
    wiped,   \* history: one of them cleared the ledger while the photos have
             \* been over the share
    late,    \* history: the members in the ledger for whom one of them
             \* claimed while the photos were under it
    faults

vars == <<rows, upload, todo, delete, told, heard, old, wiped, late, faults>>

nearlyFullReached(S) == Cardinality(S) >= Share

Uploading == {p \in Photos : upload[p] \in {"stored", "tell"}}
Deleting == {p \in Photos : delete[p] \in {"check", "clear"}}
HandlerFree == Cardinality(Uploading) + Cardinality(Deleting) < MaxHandlers
Faulty == faults < MaxFaults /\ faults' = faults + 1

\* The requests that have read the usage and are going by it.
GoingBy ==
    {<<"tell", p>> : p \in {q \in Photos : upload[q] = "tell"}} \cup
    {<<"clear", p>> : p \in {q \in Photos : delete[q] = "clear"}}

OldAfter(S) == IF nearlyFullReached(S) = nearlyFullReached(rows) THEN old ELSE old \cup GoingBy

HeardAgain(n) == IF n < 2 /\ nearlyFullReached(rows) THEN n + 1 ELSE n
HeardAfter(S) == IF nearlyFullReached(S) THEN heard ELSE [m \in Managers |-> 0]

\* The upload commits.  Save has read the room before, and the uploads in
\* flight with it may have taken it (Photos, QuotaOvershoot).
StorePhoto(p) ==
    /\ upload[p] = "none"
    /\ HandlerFree
    /\ Cardinality(rows) < Quota + MaxHandlers - 1
    /\ rows' = rows \cup {p}
    /\ upload' = [upload EXCEPT ![p] = "stored"]
    /\ heard' = HeardAfter(rows') /\ old' = OldAfter(rows')
    /\ wiped' = (wiped /\ nearlyFullReached(rows'))
    /\ UNCHANGED <<todo, delete, told, late, faults>>

\* notifyStorage reads the usage and the members.
CheckFull(p) ==
    /\ upload[p] = "stored"
    /\ upload' = [upload EXCEPT ![p] = IF nearlyFullReached(rows) THEN "tell" ELSE "done"]
    /\ todo' = [todo EXCEPT ![p] = IF nearlyFullReached(rows) THEN Managers ELSE {}]
    /\ UNCHANGED <<rows, delete, told, heard, old, wiped, late, faults>>

\* What the claim of a member leaves in the histories.
ClaimSeen(p, m) ==
    /\ old' = IF todo[p] = {m} THEN old \ {<<"tell", p>>} ELSE old
    /\ late' = IF m \notin told /\ ~nearlyFullReached(rows) /\ <<"tell", p>> \in old
               THEN late \cup {m} ELSE late

\* Fault: the ledger is not looked at.
Tell_Unclaimed(p, m) ==
    /\ upload[p] = "tell"
    /\ m \in todo[p]
    /\ todo' = [todo EXCEPT ![p] = @ \ {m}]
    /\ upload' = [upload EXCEPT ![p] = IF todo[p] = {m} THEN "done" ELSE "tell"]
    /\ told' = told \cup {m}
    /\ heard' = [heard EXCEPT ![m] = HeardAgain(@)]
    /\ ClaimSeen(p, m)
    /\ UNCHANGED <<rows, delete, wiped, faults>>

\* The claim, and the notification when the row was not there.
Tell(p, m) ==
    /\ upload[p] = "tell"
    /\ m \in todo[p]
    /\ todo' = [todo EXCEPT ![p] = @ \ {m}]
    /\ upload' = [upload EXCEPT ![p] = IF todo[p] = {m} THEN "done" ELSE "tell"]
    /\ told' = told \cup {m}
    /\ heard' = [heard EXCEPT ![m] = IF m \in told THEN @ ELSE HeardAgain(@)]
    /\ ClaimSeen(p, m)
    /\ UNCHANGED <<rows, delete, wiped, faults>>

DeletePhoto(p) ==
    /\ p \in rows
    /\ delete[p] = "none"
    /\ HandlerFree
    /\ rows' = rows \ {p}
    /\ delete' = [delete EXCEPT ![p] = "check"]
    /\ heard' = HeardAfter(rows') /\ old' = OldAfter(rows')
    /\ wiped' = (wiped /\ nearlyFullReached(rows'))
    /\ UNCHANGED <<upload, todo, told, late, faults>>

\* Fault: the ledger is cleared after every deletion.
CheckUnder_Always(p) ==
    /\ delete[p] = "check"
    /\ delete' = [delete EXCEPT ![p] = "clear"]
    /\ UNCHANGED <<rows, upload, todo, told, heard, old, wiped, late, faults>>

\* clearStorageNotification reads the usage.
CheckUnder(p) ==
    /\ delete[p] = "check"
    /\ delete' = [delete EXCEPT ![p] = IF nearlyFullReached(rows) THEN "done" ELSE "clear"]
    /\ UNCHANGED <<rows, upload, todo, told, heard, old, wiped, late, faults>>

\* Fault: the rows are left.
ClearTold_Nothing(p) ==
    /\ delete[p] = "clear"
    /\ delete' = [delete EXCEPT ![p] = "done"]
    /\ old' = old \ {<<"clear", p>>}
    /\ UNCHANGED <<rows, upload, todo, told, heard, wiped, late, faults>>

\* DeleteNotificationSends.
ClearTold(p) ==
    /\ delete[p] = "clear"
    /\ delete' = [delete EXCEPT ![p] = "done"]
    /\ told' = {} /\ late' = {}
    /\ wiped' = (wiped \/ (nearlyFullReached(rows) /\ <<"clear", p>> \in old))
    /\ old' = old \ {<<"clear", p>>}
    /\ UNCHANGED <<rows, upload, todo, heard, faults>>

\* A query fails: the error is logged and nothing else happens.
UploadGivesUp(p) ==
    /\ p \in Uploading
    /\ Faulty
    /\ upload' = [upload EXCEPT ![p] = "done"]
    /\ todo' = [todo EXCEPT ![p] = {}]
    /\ old' = old \ {<<"tell", p>>}
    /\ UNCHANGED <<rows, delete, told, heard, wiped, late>>

DeletionGivesUp(p) ==
    /\ p \in Deleting
    /\ Faulty
    /\ delete' = [delete EXCEPT ![p] = "done"]
    /\ old' = old \ {<<"clear", p>>}
    /\ UNCHANGED <<rows, upload, todo, told, heard, wiped, late>>

Init ==
    /\ rows = {}
    /\ upload = [p \in Photos |-> "none"]
    /\ todo = [p \in Photos |-> {}]
    /\ delete = [p \in Photos |-> "none"]
    /\ told = {}
    /\ heard = [m \in Managers |-> 0]
    /\ old = {} /\ wiped = FALSE /\ late = {}
    /\ faults = 0

Next ==
    \E p \in Photos :
        \/ StorePhoto(p) \/ CheckFull(p) \/ \E m \in Managers : Tell(p, m)
        \/ DeletePhoto(p) \/ CheckUnder(p) \/ ClearTold(p)
        \/ UploadGivesUp(p) \/ DeletionGivesUp(p)

Spec == Init /\ [][Next]_vars

-----------------------------------------------------------------------------
(* "Each member's ledger row is claimed first, so a garden that stays over  *)
(* the share is told once" (notifyStorage, notify.go:56): a member is not   *)
(* told twice while the photos stay over the share, however many uploads    *)
(* and deletions are under way, but when a deletion cleared the ledger that *)
(* had read the usage before they came over it.                             *)
StaysOverToldOnce == \A m \in Managers : heard[m] <= 1 \/ wiped

(* "Once the garden's photos are back under nearlyFull of the quota it      *)
(* deletes the ledger rows [...] The next time the photos reach nearlyFull, *)
(* the notification is sent again" (clearStorageNotification, notify.go:    *)
(* 102): with no deletion under way and no query failed, nobody is marked   *)
(* as told while the photos are under the share, but those an upload        *)
(* claimed for since, that had read the usage before they came under it.    *)
UnderIsCleared ==
    Deleting = {} /\ faults = 0 /\ ~nearlyFullReached(rows) => told \subseteq late
===============================================================================
