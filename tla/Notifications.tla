----------------------------- MODULE Notifications -----------------------------
(***************************************************************************)
(* The Notifications page and the pushes a request starts                  *)
(* (internal/http/notifications.go, internal/push/notifier.go, deliver.go, *)
(* test_message.go): the browsers an account has subscribed, the switches  *)
(* of its membership, and sends that list the browsers first and then push *)
(* to one after another while browsers are added, removed and moved to     *)
(* another account.  The jobs that send later are in Digest and Deadlines. *)
(*                                                                         *)
(* Every user is a member of one garden.  What the push service answers is *)
(* its own choice.                                                         *)
(***************************************************************************)
EXTENDS Integers, FiniteSets, Functions

CONSTANTS
    None,                  \* null
    Users,
    Endpoints,             \* a browser's URL at its push service
    Hours,                 \* the hours a form may post
    Requests,              \* requests in flight
    Sends,                 \* goroutines of the Notifier and tests under way
    maxPushSubscriptions,
    MaxRows                \* bound on the rows ever inserted

NotificationsAssumption ==
    /\ maxPushSubscriptions \in Nat \ {0} /\ MaxRows \in Nat
    /\ Hours \subseteq Nat /\ None \notin Users \cup Hours \cup Requests

VARIABLES
    rows,      \* push_subscription by endpoint: [id, user, sent], sent being
               \* the account of the send last_sent_at is from, None when null
    given,     \* how many row ids were given
    lock,      \* the request holding the account's row, for each account
    settings,  \* of a membership: [activity, hour]; the digest switch is in Digest
    reqs,      \* the requests in flight
    sends      \* the sends: [at, left, row], left the rows still to push to

vars == <<rows, given, lock, settings, reqs, sends>>

Idle == [op |-> "idle"]
Answered(r) == reqs' = [reqs EXCEPT ![r] = Idle]

RowAt(e) == [endpoint |-> e, id |-> rows[e].id, user |-> rows[e].user]
RowsOf(u) == {RowAt(e) : e \in {x \in DOMAIN rows : rows[x].user = u}}

-----------------------------------------------------------------------------
(* Adding a device.                                                        *)

\* Up to the transaction: the checks of the endpoint and its keys passed.
subscribeBrowser(r, u, e) ==
    /\ reqs[r] = Idle
    /\ reqs' = [reqs EXCEPT ![r] = [op |-> "lock", user |-> u, endpoint |-> e]]
    /\ UNCHANGED <<rows, given, lock, settings, sends>>

\* Fault: the row is read and not locked.
MayLock_Any(u) == TRUE

\* FOR UPDATE waits for the transaction that holds the account's row.
MayLock(u) == lock[u] = None

LockUser(r) ==
    /\ reqs[r].op = "lock" /\ MayLock(reqs[r].user)
    /\ lock' = [lock EXCEPT ![reqs[r].user] = r]
    /\ reqs' = [reqs EXCEPT ![r].op = "count"]
    /\ UNCHANGED <<rows, given, settings, sends>>

CountOtherPushSubscriptions(u, e) == Cardinality({x \in DOMAIN rows \ {e} : rows[x].user = u})

Count(r) ==
    /\ reqs[r].op = "count"
    /\ IF CountOtherPushSubscriptions(reqs[r].user, reqs[r].endpoint) >= maxPushSubscriptions
       THEN Answered(r) /\ lock' = [lock EXCEPT ![reqs[r].user] = None]
       ELSE reqs' = [reqs EXCEPT ![r].op = "upsert"] /\ UNCHANGED lock
    /\ UNCHANGED <<rows, given, settings, sends>>

\* ON CONFLICT (endpoint) DO UPDATE.
Upserted(u, e) ==
    IF e \in DOMAIN rows
    THEN [rows[e] EXCEPT !.user = u, !.sent = IF rows[e].user = u THEN @ ELSE None]
    ELSE [id |-> given + 1, user |-> u, sent |-> None]

UpsertPushSubscription(r) ==
    /\ reqs[r].op = "upsert"
    /\ LET u == reqs[r].user
           e == reqs[r].endpoint IN
       /\ e \in DOMAIN rows \/ given < MaxRows
       /\ rows' = [x \in DOMAIN rows \cup {e} |-> IF x = e THEN Upserted(u, e) ELSE rows[x]]
       /\ given' = IF e \in DOMAIN rows THEN given ELSE given + 1
       /\ lock' = [lock EXCEPT ![u] = None]
    /\ Answered(r)
    /\ UNCHANGED <<settings, sends>>

-----------------------------------------------------------------------------
(* Removing a device, and the switches.                                    *)

\* Fault: the row is found by its id alone.
DeletePushSubscription_AnyUser(u, id) ==
    rows' = Restrict(rows, {e \in DOMAIN rows : rows[e].id # id})

\* WHERE user_id = @user_id AND id = @subscription_id.
DeletePushSubscription(u, id) ==
    rows' = Restrict(rows, {e \in DOMAIN rows : ~(rows[e].user = u /\ rows[e].id = id)})

\* Of the user's own page; another account's row is a 404.
removeBrowser(w) ==
    /\ DeletePushSubscription(w.user, w.id)
    /\ UNCHANGED <<given, lock, settings, reqs, sends>>

offeredHour(hour) == hour \in 0 .. 23

\* The principal is read with the request.  The form has no hour when the
\* digest was off.
ReadToSave(r, u, activity, posted) ==
    /\ reqs[r] = Idle
    /\ posted = None \/ offeredHour(posted)
    /\ reqs' = [reqs EXCEPT ![r] =
          [op |-> "save", user |-> u, activity |-> activity, posted |-> posted,
           hour |-> IF posted = None THEN settings[u].hour ELSE posted]]
    /\ UNCHANGED <<rows, given, lock, settings, sends>>

\* Both writes are one transaction, and a second one waits at its first row.
saveNotifications(r) ==
    /\ reqs[r].op = "save"
    /\ settings' = [settings EXCEPT ![reqs[r].user] =
          [activity |-> reqs[r].activity, hour |-> reqs[r].hour]]
    /\ Answered(r)
    /\ UNCHANGED <<rows, given, lock, sends>>

-----------------------------------------------------------------------------
(* Sends.                                                                  *)

NoSend == [at |-> "idle", left |-> {}, row |-> None]

StartSend(s, listed) ==
    /\ sends[s] = NoSend
    /\ sends' = [sends EXCEPT ![s] = [at |-> "next", left |-> listed, row |-> None]]
    /\ UNCHANGED <<rows, given, lock, settings, reqs>>

\* The browsers of the other members who have the activity notification on.
ListActivitySubscriptions(actor) ==
    UNION {RowsOf(u) : u \in {x \in Users \ {actor} : settings[x].activity}}

sendActivity(s, actor) == StartSend(s, ListActivitySubscriptions(actor))
sendToUser(s, u) == StartSend(s, RowsOf(u))
sendTestNotification(s, u, e) == StartSend(s, {w \in RowsOf(u) : w.endpoint = e})

\* sendOne up to its write, for the next browser.
Send(s, w, status) ==
    /\ sends[s].at = "next" /\ w \in sends[s].left
    /\ sends' = [sends EXCEPT ![s] =
          [at |-> CASE status = "ok" -> "record" [] status = "gone" -> "delete" [] OTHER -> "next",
           left |-> @.left \ {w}, row |-> w]]
    /\ UNCHANGED <<rows, given, lock, settings, reqs>>

\* Fault: the send is recorded on whoever has the row.
Recorded_AnyUser(w) ==
    [e \in DOMAIN rows |-> IF rows[e].id = w.id THEN [rows[e] EXCEPT !.sent = w.user] ELSE rows[e]]

Recorded(w) ==
    [e \in DOMAIN rows |-> IF rows[e].id = w.id /\ rows[e].user = w.user
                           THEN [rows[e] EXCEPT !.sent = w.user] ELSE rows[e]]

SetPushSubscriptionSent(s) ==
    /\ sends[s].at = "record"
    /\ rows' = Recorded(sends[s].row)
    /\ sends' = [sends EXCEPT ![s].at = "next"]
    /\ UNCHANGED <<given, lock, settings, reqs>>

DropGone(s) ==
    /\ sends[s].at = "delete"
    /\ DeletePushSubscription(sends[s].row.user, sends[s].row.id)
    /\ sends' = [sends EXCEPT ![s].at = "next"]
    /\ UNCHANGED <<given, lock, settings, reqs>>

\* A storeFailure ends the send to this person; sendActivity goes on with the
\* next member.
StoreFails(s) ==
    /\ sends[s].at \in {"record", "delete"}
    /\ sends' = [sends EXCEPT ![s].at = "next",
                              ![s].left = {w \in @ : w.user # sends[s].row.user}]
    /\ UNCHANGED <<rows, given, lock, settings, reqs>>

\* sends.Done.
EndSend(s) ==
    /\ sends[s].at = "next" /\ sends[s].left = {}
    /\ sends' = [sends EXCEPT ![s] = NoSend]
    /\ UNCHANGED <<rows, given, lock, settings, reqs>>

SendStep(s) ==
    \/ \E w \in sends[s].left, status \in {"ok", "gone", "refused"} : Send(s, w, status)
    \/ SetPushSubscriptionSent(s) \/ DropGone(s) \/ StoreFails(s) \/ EndSend(s)

-----------------------------------------------------------------------------

Init ==
    /\ rows = <<>> /\ given = 0
    /\ lock = [u \in Users |-> None]
    /\ settings = [u \in Users |-> [activity |-> TRUE, hour |-> 8]]
    /\ reqs = [r \in Requests |-> Idle]
    /\ sends = [s \in Sends |-> NoSend]

RequestStep(r) == LockUser(r) \/ Count(r) \/ UpsertPushSubscription(r) \/ saveNotifications(r)

Next ==
    \/ \E r \in Requests :
          \/ RequestStep(r)
          \/ \E u \in Users :
                \/ \E e \in Endpoints : subscribeBrowser(r, u, e)
                \/ \E activity \in BOOLEAN, posted \in Hours \cup {None} :
                      ReadToSave(r, u, activity, posted)
    \/ \E e \in DOMAIN rows : removeBrowser(RowAt(e))
    \/ \E s \in Sends :
          \/ SendStep(s)
          \/ \E u \in Users :
                \/ sendActivity(s, u) \/ sendToUser(s, u)
                \/ \E e \in Endpoints : sendTestNotification(s, u, e)

Spec == Init /\ [][Next]_vars

-----------------------------------------------------------------------------

TypeOK ==
    /\ DOMAIN rows \subseteq Endpoints /\ given \in 0 .. MaxRows
    /\ \A e \in DOMAIN rows : rows[e].id \in 1 .. given /\ rows[e].user \in Users
    /\ \A d, e \in DOMAIN rows : rows[d].id = rows[e].id => d = e
    /\ lock \in [Users -> Requests \cup {None}]
    /\ settings \in [Users -> [activity : BOOLEAN, hour : 0 .. 23]]
    /\ \A s \in Sends : sends[s].at \in {"idle", "next", "record", "delete"}

(* No account has more than maxPushSubscriptions devices, however many add  *)
(* one at once: "Without it both could count 9 other subscriptions and both *)
(* insert a row" (subscribeBrowser, notifications.go:341-342), and however  *)
(* browsers move between accounts meanwhile.                                *)
CapHolds == \A u \in Users : Cardinality(RowsOf(u)) <= maxPushSubscriptions

(* The date a device last received one is of a push to the account it is    *)
(* on: a browser that moves starts over (UpsertPushSubscription), and a     *)
(* push to its account of before, recorded late, is not recorded on it      *)
(* (SetPushSubscriptionSent).                                               *)
DatesAreOwn == \A e \in DOMAIN rows : rows[e].sent \in {None, rows[e].user}

\* What holds of an account's browsers.
BrowsersAgree == TypeOK /\ CapHolds /\ DatesAreOwn

(* The push service's answer that a browser is gone, when it comes late,    *)
(* does not take the browser from another account that it has moved to      *)
(* (sendOne, DeletePushSubscription).                                       *)
OthersBrowserStays ==
    [][\A s \in Sends : sends[s].at = "delete" /\ sends'[s] # sends[s] =>
          \A e \in DOMAIN rows : rows[e].user # sends[s].row.user => e \in DOMAIN rows']_vars
================================================================================
