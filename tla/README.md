# Sprig: a TLA+ model

Sprig is a plant-care tracker: one Go process, a Postgres database, a directory
of photos, web push to the members' browsers. The modules here model its jobs,
its accounts and gardens, its care and its pages as state machines, TLC checks
them on small instances, and TLAPS proves the main results for every value of the
constants.

## Inventory

| Part | State | Operations | Talks to |
|---|---|---|---|
| Digest job (`push/digest.go`) | none but the look in progress | look: list, send each in a transaction, return the next instant | database, push service |
| Deadlines job (`push/deadlines.go`) | none | the same, for token warnings, expired tokens, ended sittings | database, push service |
| Job loop (`push/job.go`) | timer, wake channel of one slot | look, sleep, be woken, retry, stop | both jobs; every handler that calls `Wake` |
| Digest hour (`push/hour.go`) | pure | `instantOf`, `nextDigest` | timezones |
| Send ledger (`notification_send`) | rows (membership, kind, key) | claim, delete, cascade | jobs, storage notice |
| Delivery (`push/deliver.go`, `notifier.go`) | goroutines in flight | push to each browser, drop the gone ones | push service |
| Reminder sheet (`http/remind_later.go`) | `remind_again_at` | set, reschedule, remove | digest job |
| Settings (`http/notifications.go`, `account.go`) | preferences, hour, browsers, timezone | save, subscribe, remove | digest job |
| People, invites, gardens (`http/people.go`, `invite*.go`, `accept.go`, `delete_garden.go`) | memberships, invites | invite, redeem, accept, change, remove, delete | jobs, sessions |
| Account (`close_account.go`, `setup*.go`, `recover*.go`, `passkey*.go`, `auth/`) | accounts, passkeys, codes, ceremonies, sessions | set up, sign in, recover, close, sweep | people |
| API tokens (`tokens.go`, `auth/token.go`) | tokens with an end | create, revoke | deadlines job |
| Photos (`photo/`, `http/photo*.go`, `notify.go`) | rows and files | upload, delete, serve, sweep; storage notice | ledger |
| Schedules (`schedule/`) | pure | next occurrence, today's lines, a month | care |
| Care, plants, calendar (`http/care.go`, ...) | plants, events, notes | log, correct, undo, archive | schedules |
| Rate limiter (`http/ratelimit.go`) | buckets | allow, sweep | sign-in routes |
| Process (`cmd/sprig`) | run state | start, stop, administer | all |

What is hard here: a look of a job interleaves with handlers that commit what
it has already read; the wake channel has one slot; a send is a long
transaction holding network calls; the process may stop anywhere; local days
and clock changes; files and rows that cannot be written together; checks made
outside the transaction that relies on them. What makes each part correct is
in the hazards of `PROJECT.json`, each at its line with the properties that
cover it or the reason none does yet.

## Plan

Done, each with proofs: the digest job, the deadlines job and photos; the storage
notice; who gets in (sessions, passkeys, recovery codes, setup, the rate limiter);
invites, memberships and browsers; schedules; care and its types; plants; the calendar
and the sittings on it. Without proofs: the pages that read schedules and the activity
log.

Left, in this order:

1. Closing an account with the browsers it has subscribed (`close_account.go`), and
   `last_used_at` of an API token.
2. The server's graceful shutdown with requests and sends in flight.

## Modules

`Hour` translates `instantOf` and `nextDigest`. Time is in ticks, an hour is
`HourTicks`, a day `DayHours` hours; a zone is an offset before an instant, the
instant, and an offset after it, so that a zone changes its clocks at most
once. `ZonesAssumption` says what real zones satisfy: offsets and changes of
less than a day, and clocks that, put back, do not return to a date that has
ended. `instantOf`'s probes are the three of the code. Its binary search of a
gap is its result, the instant of the change.

`DigestClock` is a job that is always punctual, over all of time: a state is
the clock and the last day sent.

`Job` is the loop of `runJob`: `pc` is `"look"`, then what the job that extends
it defines, then `"asleep"` with the timer in `next`; `wake` is the slot of the
channel and `calls` the handlers that have committed and not called `Wake` yet
(the call comes after the commit). `NoTime` is the zero time.

`SendLedger` is the promise: a send is started only if it is not settled, only
one that was started is settled after a push, and rows only leave with their
membership.

`Digest` composes these. A look lists the reminders, handles each, lists the
members, handles each. A send that pushes is a transaction in `tx`: the claim
(`SendReminder`, `SendDigest`), one step per browser (`SendOne`, with the
outcomes sent, failed and gone), and `CommitSend` or `RollBackSend`; the rows
it wrote are locked meanwhile (`Locked`, `Referred`, `BeingDropped`), and a
handler that needs one waits. A send that pushes nothing is one step
(`SettleReminder`, `SettleDigest`): what is due in the garden is not modelled,
so any list may be empty. `Stops` is the context ending, `Exits` the process
ending or killed, `Starts` a new one. The Remind me later handlers are two
steps, the load of the day with its `now` and the update guarded by it; every
other handler is its transaction. Names are the source's.

`Photos` is one garden's photos: `row` in the database, `mtime` of each file on
disk, two files to a photo because the handlers require the square variant. An
upload is `Save` inside the caller's transaction, step by step: the room is
read, the two files are opened and written, the row is inserted, the transaction
commits (`pc`). A deletion commits and leaves its files in `removing`; a garden's
deletion leaves `clearing` set while `RemoveAll` takes one file at a time. The
sweep is another process, `spc`: it lists the rows, looks for their files one
row at a time, reads the clock, and walks the files. Errors may stop any of them
anywhere, a crash all of the server's. The commit's answer may be lost, with the
row there or not. `sweepMinAge` is the code's only word on how long an upload
takes, and the code has no timeout that enforces it: `AgeAssumption` and the
guards of `Clock` say that an upload and a sweep's reading of the rows together
are shorter.

`StorageNotice` is the notice that a garden is nearly full, after the commit of
an upload or a deletion: the usage is read in one step and acted on in later
ones. Every photo has one unit; there is one quota, a new one being a new ledger
key. `old`, `wiped` and `late` are history: which requests go by a usage of before the
photos came over or under the share, and what these did.

`Deadlines` is the second job on `Job`: a look lists the tokens, handles each row,
then the sittings. A send is a transaction with its claim first. It implements the
same `SendLedger`. A membership stands for its account, there being one garden.

`Sessions` has a request as its statements: the row is read, deleted when expired
or touched, the garden kept or moved, the membership read, each at the time the
request read when it arrived. Sign-out, the sweep and changes of memberships
commit in between. `used` and `dated` are history: the latest request a session answered, and
when its date was written. The clock goes through the times of a set (`Times`), any of
which may be passed over.

`Credentials` has the ceremonies, sign-in with its counter, registration, removal,
recovery codes and the closing of the account. A statement inside a transaction
works on the rows it saw when it began (READ COMMITTED); its effect is there at the
commit, and locks taken by `FOR UPDATE`, `UPDATE` or `DELETE` make others wait.
WebAuthn's own checks are external: an answer has the counter of its device. Ids of
challenges, passkeys and batches of codes are random and taken to be made once. `had`,
the batches there were when a code's creation began, is history.

`Setup` is the first account, setup links, gardens of those signed in, closing an
account and deleting a garden; `Invites` the invites and sign-in links, joining,
accepting and renewing, the People page and the operator's command. Both read
first and write in a transaction that claims again. A request of `Invites` carries the
membership it has read (`existing`). `admits`, `made` and `firsts` are history, and so are
`met` and `risked`: the set-ups, and the gardens, of an account that was being closed
meanwhile.

`RateLimit` has the token buckets with the part of `rate.Limiter` they use, and
beside them, as history, the buckets of a limiter that never sweeps. Calls are
taken in the order of their `now`.

`Notifications` is the page's browsers under their cap and its switches, and sends
that list the browsers and push to one after another while rows move between
accounts. The push service answers sent, failed or gone as it likes.

`Schedule` translates package `schedule` and the editor's fields as operators. The
calendar is a parameter, the lengths of the months of a cycle of years and the
days of a week; a recursion of the code (`advance`) is a search bounded by
`MaxSteps`. `ScheduleClock` is one schedule over time, whose every state is an
input of these operators; the properties compare their answers with what the
calendar itself says. `TodayPage` has two plants with two cares and the readers of
their schedules: Today, the API's chores, the digest's text, the Plants page. The
reads of one page are taken together.

`Care` is one plant's care: a sheet is read, posted, and each handler's reads and
writes are statements of their own. `removed`, `behind` and `lost` are history: each event
as it was deleted, the removals whose event was written since they read it, and the events
these deleted. `CareTypes` is the garden's types, with a slug
made once from the first name. `ActivityLog` is a reader going through the log by
its cursor. `Plants` has rooms, pictures, archiving; a form's read of the plant and
of the rooms are taken together, and its transaction is one step; `saw`, the rooms a form
had read, is history.

`Dates` is an instant's date in a zone of fixed offset and months of equal length.
`Sittings` is the end dates of memberships, posted in the member's zone on People or
the inviter's with an invite, from pages that may be old, and the days the calendar
marks. `Calendar` is notes and logged care, month by month, for readers in several
zones.

The theorems are in eight modules. `DigestProofs` (with the arithmetic of `Hour`),
`DeadlinesProofs`, `NotificationsProofs` and `PlantsProofs` are each about the module
they are named for. `AccessProofs` is about `Credentials`, `Sessions`, `Setup`,
`Invites` and `RateLimit`; `PhotosProofs` about `Photos` and `StorageNotice`;
`CareProofs` about `Care` and `CareTypes`; `PagesProofs` about `Calendar`, `Sittings`,
`Schedule` and `ScheduleClock`. Each extends the first it names and instantiates the
rest (`PagesProofs` has `Schedule` through `ScheduleClock`).

In each module a definition marked *Fault* is a plausible bug of the definition
after it. TLC finds the property named for it in `PROJECT.json` violated when the
definition is replaced by it.

## Runs

Four runs take a module by itself: `MCDigest` (twice), `MCDeadlines` and `MCPhotos`
extend it. The others put several modules side by side: `part` says which of them a
behaviour is of, its initial predicate chooses it, and nothing changes `part`. So the
states of a run are the sum of its parts', not their product. `MCAccess` extends
`Credentials`, `MCPeople` `Notifications`, `MCCare` `Care`, `MCGarden` `Plants` and
`MCPages` `Calendar`: in the other parts the variables of these rest as they were at
first, and the run checks their properties as the module defines them. The variables of a
module that is instantiated are `Off` in the parts that are not its own, and a property of
the run is a conjunction of the modules' properties, each for its part. Where a module's
requests are several statements, two are under way at once in each of its parts but
`several` of `care`, which adds a second care type to what `care` checks with two. Where a
race of two breaks what a comment of the code says, the property says what does hold and
names the race as its exception (Disagreements, below); without the exception TLC finds the
property violated.

| Run | Parts and their instances | Shows |
|---|---|---|
| `digest` | one member with one browser, two zones further apart than a day, 5 ticks, 2 writes, 1 fault | `TypeOK`, `NoLostWake`, `SendsOnce`, `ReminderKept`, `DigestDaysIncrease` |
| `digest_liveness` | one member, 4 ticks, 1 write, 1 fault | `ReminderSettles`, `DigestSettles` |
| `deadlines` | a sitter and their inviter, one token that may exist at first, 3 ticks, ends at 1 or 2, 1 write, 1 fault | `NoLostDeadline`, `SendsOnce`, `DeadlineSettles` |
| `photos` | two photos, 4 ticks, `MinAge` 3, one error or crash | `TypeOK`, `RowHasFiles` |
| `access` | `sessions`: two gardens, which come and go; `sessions_last`: one garden, to the end of a session's life; `setup`: two gardens, three accounts, two links; `setup_open`: sign-up on; `credentials`: one account, three passkeys, two challenges; `codes`: two batches of codes; `limiter`: two keys, burst of 2 | `CredentialsAgree` (types, `SessionHasPasskey`, `KeepsAPasskey`), `UsedOnce` (`ChallengeOnce`, `CounterOnce`, `CodeOnce`), `SetupHolds` (types, `UsedOnce` of `Setup`: `SetupLinkOnce`, `FirstAccountOnce`; `OwnerStays`), `OutStaysOut` (types, `SignedOutStaysOut`, `RemovedIsNotLetIn`), `RenewalsHold` (`SessionsLast`: `UsedSessionLasts`, `OnlyExpiredDeleted`; `OneBatch`), `LimiterHolds` (types, `SweepChangesNothing`, `BudgetHolds`, `RetryIsAllowed`) |
| `people` | `invites`: two people, two invites, no changes on People; `memberships`: one person and one invite, two roles, two changes; `notifications`: two accounts, two browsers, a cap of one, two requests and a send | `BrowsersAgree` (types, `CapHolds`, `DatesAreOwn`), `InvitesAdmit` (types, `InviteOnce`, `RevokedLetsNobodyIn`, `ExpiredLetsNobodyIn`), `MembershipStays` (types, `RenewsEnded`, `PermanentStays`), `OthersBrowserStays` |
| `pages` | `sittings`: two members in zones a quarter of a day east and west, 8 ticks; `calendar`: two readers in three zones, a note and an event, 9 ticks; `log`: three events in two minutes, pages of one; `clock`: 6 zones with changes forward, back, at midnight, 52 ticks | `NotesAgree` (types, `NoteReachable`, `UntouchedKeepsDays`), `MarksAccess` (and types), `OnItsDay` (`EventOnItsDay`, `NoteOnItsDays`), `ShownOnce` (and types), `OneDigestADay` (with `InstantIsFirst`, `NextDigestIsLeast`) |
| `care` | `care`: an owner and a member, one type, one event; `several`: an owner, two types, one request; `types`: three types, four names | `CareAgrees` (types, `EventHasType`, `OpensAndSaves`), `CareStays` (`OthersKeepOut`, `PerformerStays`), `GivesBack` (`UndoGivesBack`, and `OpensAndSaves` with two types), `OfferedWorks` (types, `OfferedWorks` of `CareTypes`, `SlugNamesOne`, `SeededIconStays`) |
| `garden` | `plants`: two plants, two photos; `rooms`: two plants, two spellings; `space`: three photos, room for one, two uploads at once; `notice`: four photos, two managers, two uploads and two deletions at once, two errors | `PlantsAgree` (types, `PictureIsOwn`), `RoomsApart` (types, `ArchivedStays`, `RoomsDiffer`), `StorageHolds` (types of `Photos`, `QuotaOvershoot`; `StaysOverToldOnce`, `UnderIsCleared`), `PlantsStay` (`PlantIsWhole`, `ArchivedStays`) |
| `schedules` | `schedule`, `editor`: years of three months, the second with a shorter second month, weeks of two days; `page`, `changes`: two plants with two cares | `NextIsLeast` (`AnchoredIsLeast`, `SeasonIsLeast`), `CalendarAgrees` (with `SeriesInMonth`), `EditorKeepsRule` (with `MonthsDueWhole`), `DoneIsNotDue`, `ReadersAgree` (`ListedOnce`, `ChoresAgree`, `NextIsSoonest`, `DigestAgrees`, `StandingAgrees`) |
| `reminder_refused` | as `digest`, one zone | a disagreement, below |
| `setup_owner` | `setup_open`: `setup` with sign-up on | a disagreement, below |

Bounds. `MaxTime` stops the clock, `MaxChanges` the handlers' writes, `MaxFaults` errors and
stops, `MaxEvents`, `MaxRows`, `MaxPlants` and the like what is ever added. In the jobs
`FaultAllowed` leaves the clock `RetryAfter` more ticks, so that a liveness run never fails
only because time ended. A day of two hours of two ticks has room for an hour's start,
`maxLate` and the next day within the clock. Two requests suffice for the races of interest,
each of which has one request's commit between two statements of the other; two writes for
those between a handler and a look (set and move, set and remove, change and delete). Two
photos: one can be uploaded while the sweep looks at the other. The schedule's clock runs
for the seven days of the short year of three months, which has a month end that the next
month lacks; anchors are in it and in the year before, and seasons wrap from one to the
next. The calendar begins a year before the clock and goes two years further than the
longest interval from the last day reached (`CalendarReaches`), so no search runs out of it.
Deadlock is not checked, because with the clock at `MaxTime` and everything spent a model
may rest. Symmetry is over ids nothing is ordered by.

Fairness (`Fairness` of `Digest` and of `Deadlines`). The job's and the handlers'
goroutines are scheduled by Go, the clock advances, and a stopped process ends and
is restarted by what supervises it. Nothing makes a person act or the database fail:
handlers, faults and stops have none. Weak fairness is enough: a ready goroutine
stays ready.

## Disagreements

Two runs are expected to fail.

`reminder_refused`: `membership.sql:39-40` and `46-47` say a reschedule or removal
changes no row "because the job has already sent it", and the sheet tells the member
so. TLC reaches a reminder that is due, in its row, not in the ledger, and can no
longer be changed: the job has not got to it, or waits out `retryAfter`.

`setup_owner`: `close_account.go:20-22` refuses to close an account that would leave a
garden "with nobody who can manage it", and the check runs "in the same transaction
as the deletes". Under READ COMMITTED they see two moments, and a garden the account
sets up in between loses its only owner.

Others of the kind were met while modelling, each a race of two requests, but for the plant
that is restored. The property named says what the code does keep, for any number of
requests, and excepts what is told of it here; TLC violates it with the exception left out.

- `UsedSessionLasts` (`session.go:29`): `TouchSession` may write an older `last_seen_at`
  over a newer one, so a session can end early by as much as a request is slow: the
  exception is a request that had come by the time the date was written.
  `OnlyExpiredDeleted` (`session.go:144`): `Lookup` deletes by its token alone a row that
  another request has refreshed since it was read.
- `OneBatch` (`recovery.go:87`): two creations of codes under way at once leave two batches.
- `OwnerStays` (`close_account.go:20`): the garden of `setup_owner`, above.
- `RenewsEnded` (`membership.sql.go:561`): the second of two invites accepted at once
  rewrites the membership the first renewed. `PermanentStays` (`people.go:279`): an
  end is written on a membership that became permanent after the list was read. Both
  except a write by a request that had read another state of the membership.
- `UndoGivesBack` (`correct.go:554`): a correction, or another Undo, between the read and
  the delete is lost by Undo.
- `StaysOverToldOnce`, `UnderIsCleared` (`notify.go:55`, `:102`): the ledger rows are
  claimed or deleted on a usage read earlier, so a garden that stays over the share is
  told twice, or the next crossing is silent. The exceptions are what was done by a request
  that had read the usage before the photos came over, or under, the share.
- `RoomsDiffer` (`plant_fields.go:176`): `canonicalRoom` leaves archived plants out, and
  restoring one brings back the other spelling; and of two forms open at once neither sees
  the room of the other.

And these have no property here:

- A photo deleted during a sweep is counted as a missing row (`sweep.go:28`).
- A passkey registered between two deletes of a closing account stays, and nothing at
  sign-in looks at `closed_at` (`app_user.sql.go:113`).
- A sign-in link issued after the account's first live garden changed leaves the older
  one working (`signin_link.go:34`).
- `params` stores month precision for an interval in days or weeks, whose later dates
  are due in the middle of a month (`today.go:21` of `schedule`). `Monthly` of
  `MCSchedules` has months and years only.
- A care type deleted between the check and the insert of a restore gives a 500 rather
  than a 404 (`correct.go:355`).
- A type renamed to a name whose slug is free, and another added under the name: two
  types with one name, since slugs are compared (`garden.go:60`).
- `SetPhotoFocus` moves the focus of a picture replaced since it was read
  (`plant_form.go:385`); a plant archived between the read and the insert takes an event
  (`care.go:626`).
- A browser removed between the list of a send and its push is pushed to
  (`notifications.go:504`); a form without the hour writes back the hour read before
  another save (`notifications.go:451`).
- A People form that left a date alone writes the rendered date over one changed since
  (`people.go:277`); an invite's end, midnight in the inviter's zone, may fall within the
  day it is meant to leave out (`calendar.go:258`).

## Proofs

For every set of members, accounts, gardens, browsers, zones, photos, passkeys, links,
plants, notes, care types, schedules and requests, every calendar, and every bound:

| Theorem | Says |
|---|---|
| `NextDigestMono` | the next digest does not move earlier as `now` grows |
| `TypeCorrect` | `Spec => []TypeOK` of `Digest` |
| `JobImplementsLedger` | `Spec => SendsOnce`, that is, `Digest` implements `SendLedger` |
| `DaysIncrease` | `Spec => DigestDaysIncrease` |
| `ReminderIsKept` | `Spec => ReminderKept` |
| `WakeIsNeverLost` | `Spec => []NoLostWake` |
| `DeadlineTypes` | `Spec => []TypeOK` of `Deadlines` |
| `DeadlinesImplementLedger` | `Spec => SendsOnce`: `Deadlines` implements `SendLedger` too |
| `NoDeadlineIsLost` | `Spec => []NoLostDeadline` |
| `PhotoTypes` | `Spec => []TypeOK` of `Photos` |
| `NeverARowWithoutItsFile` | `Spec => []RowHasFiles` |
| `CredentialsHold` | `Spec => []CredentialsAgree`: types, `SessionHasPasskey`, `KeepsAPasskey` |
| `CredentialsUsedOnce` | `Spec => []UsedOnce`: `ChallengeOnce`, `CounterOnce`, `CodeOnce` |
| `PasskeyRowsStay` | `Spec => [][RowsStay]_vars` |
| `CodesAreOfOneBatch` | `Spec => []OneBatch`: two batches only of creations under way at once |
| `SessionRowsHold` | `Spec => []TypeOK` of `Sessions`: a session is on a garden its account is in |
| `NobodyComesBack` | `Spec => [][OutStaysOut]_vars` |
| `SessionInUseLasts` | `Spec => [][SessionsLast]_vars`: `UsedSessionLasts`, `OnlyExpiredDeleted` |
| `SetupTypesHold` | `Spec => []TypeOK` of `Setup` |
| `SetUpOnce` | `Spec => []UsedOnce`: `SetupLinkOnce`, `FirstAccountOnce` |
| `EveryGardenHasItsOwner` | `Spec => []OwnerStays`: an owner, unless the garden was set up during a closing |
| `InviteTypesHold` | `Spec => []TypeOK` of `Invites` |
| `InviteLetsInOne` | `Spec => []InviteOnce /\ [][InvitesAdmit]_vars` |
| `MembershipsStay` | `Spec => [][MembershipStays]_vars`: `RenewsEnded`, `PermanentStays` |
| `BrowsersHold` | `Spec => []BrowsersAgree`: types, `CapHolds`, `DatesAreOwn` |
| `LateAnswerKeepsOthers` | `Spec => OthersBrowserStays` |
| `LimiterKeepsItsWord` | `Spec => [](TypeOK /\ SweepChangesNothing /\ RetryIsAllowed)` of `RateLimit` |
| `CareHolds` | `CareSpec => []CareAgrees`: types, `EventHasType`, `OpensAndSaves` |
| `CareIsKept` | `CareSpec => CareStays`: `OthersKeepOut`, `PerformerStays` |
| `UndoPutsBack` | `CareSpec => [][UndoGivesBack]_careVars` |
| `OfferedButtonsWork` | of `CareTypes`: `[](TypeOK /\ SeededIconStays)` and `[][OfferedWorks /\ SlugNamesOne]_vars` |
| `PlantsHold` | `Spec => []PlantsAgree`: types, `PictureIsOwn` |
| `PlantsAreKept` | `Spec => PlantsStay`: `PlantIsWhole`, `ArchivedStays` |
| `RoomsStayApart` | `Spec => [][RoomsDiffer]_vars` |
| `ToldOncePerCrossing` | `Spec => [](StaysOverToldOnce /\ UnderIsCleared)` of `StorageNotice` |
| `NotesStay` | `Spec => []NotesAgree` of `Calendar` |
| `EachOnItsDay` | `Spec => []OnItsDay` of `Calendar` |
| `MarkedDaysAreDaysIn` | `Spec => [](TypeOK /\ MarksAccess)` of `Sittings` |
| `SchedulesHold` | `Spec => []TypeOK` of `ScheduleClock`: a stored rule is one the table accepts, and what `Next` answers is a day |
| `DueIsTheNext` | `Spec => []AnchoredIsLeast`: the first date of the series after the last care |
| `SeasonOpensFirst` | `Spec => []SeasonIsLeast`: the first open day from the rule's own date on |
| `DoneLeavesToday` | `Spec => [][DoneIsNotDue]_vars` |
| `EditorGivesBack` | `Spec => []EditorKeepsRule` of `ScheduleClock` |
| `DueTheWholeMonth` | `Spec => []MonthsDueWhole` |

`CredentialsHold`, `CredentialsUsedOnce`, `BrowsersHold`, `LateAnswerKeepsOthers`,
`CareHolds`, `CareIsKept`, `PlantsHold`, `PlantsAreKept`, `NotesStay` and `EachOnItsDay`
state the property of the run as the module defines it. A property of a run with parts that
is no module's own is a conjunction over the parts; the other theorems about such a run
state its conjuncts, under the names they have in the modules (table of the runs).

The digest, deadlines and photos modules have named `ASSUME`s, which TLC evaluates in
the runs: `ZonesAssumption`, `JobAssumption`, `DigestAssumption`, those on the units of
time, and for photos `AgeAssumption`, which the code relies on and does not enforce.
The others are instantiated with different constants, so their assumptions are
definitions, which the theorems take as hypotheses and the runs' modules `ASSUME` of
every instance (`MCAccess`, `MCPeople`, `MCCare`, `MCGarden`, `MCPages`,
`MCSchedules`). Most say only which sets the constants are in: `CredentialsAssumption`,
`SessionsAssumption`, `SetupAssumption`, `InvitesAssumption`,
`NotificationsAssumption`, `RateLimitAssumption`, `CareAssumption`,
`PlantsAssumption`, `NoticeAssumption`, `SittingsAssumption`. These say more:

- `CareTypesAssumption`: each type a garden starts with has the slug of some name, and
  they are no more than the bound on types.
- `CalendarAssumption`: a zone is within a day of UTC, and the clock may go past the
  first month.
- `ScheduleAssumption`: every year has as many months, and the two tables of the
  calendar agree with the months' lengths (`FirstDay` adds them up, `MonthAt` finds the
  month a day is in).
- `ScheduleClockAssumption`: what is saved passes the checks of the table
  (`00002_plant_care.sql:85-97`), and `CalendarReaches`, which bounds the model and not
  the code: the code's calendar has no end.

No theorem bounds the number of requests or of handlers. Those about a property with an
exception (Disagreements) prove that what is excepted is all that breaks it.

What each proof rests on, beside the types, is an invariant that is inductive:

**Digest.** `TypeInv` is `TypeOK` with the ledger having a latest day per member (the
set is finite, being empty at first and growing one row at a time) and `tx` open
exactly while the job delivers.

`LedgerInv` adds that a send in `tx` is not in the ledger, that it is for a row
that exists, that the lists hold rows read at this look, and that a listed
member's day is after what the ledger has: only the job writes the ledger, and
it takes each member once per look.

`NoLostWake` is about a sleeping job and says nothing of the look that set its
timer. `WakeInv` does: at every place of a look, each reminder and digest that
waits now is covered, which is to say a wake is pending (in the slot or about to
be called), or its row is still listed as it is now, or the timer computed so far
is early enough, or the look has not read the list yet. Every handler that adds
something to wait for leaves a pending wake; every step of a look moves an item
from listed to timed; the clock needs `NextDigestMono`, because the timer was
computed with the look's `now` and the digest owed is computed with the present
one.

**Deadlines.** `TypeInv`, `TxInv` and `WakeInv` are the same three ideas. `WakeInv`
speaks of the states in which no wake is pending (`Quiet`): each token's warning and
expiry and each sitting's end that is owed is then in the ledger, in the open
transaction, still in the list the job goes through, or timed by the look so far. Tokens
and sittings are apart, because the look reads the tokens first.

**Photos.** `RowHasFiles` looks at rows; what endangers it starts earlier. `FilesInv`
adds that the files of an upload whose row is not committed are there as far as it has
written them, unless the garden is gone; that the files a handler is about to
remove belong to no row and to no upload that can still commit one; that the files
of an upload in flight are younger than `UploadTicks`; and that a row the sweep has
not listed was committed after its list, so that its files are younger than
`MinAge` by the sweep's clock. The last two are where `AgeAssumption` is used.

**Credentials.** `OwnerInv`: a passkey that a sign-in has verified, and those a closing
account is about to delete, are that account's. `RemovalInv`, for `KeepsAPasskey`: an
account has one removal at a time, which holds its row, and has a passkey besides the one
removed. `ChallengeInv`: a challenge is in the table, or with one sign-in, or with one
session. `CounterInv`: the counter in the table is no less than those recorded, which
differ. `CodeInv`: a code that is not used has added no passkey, and one request has its
row. For `CodesAreOfOneBatch`, `BatchInv` adds that the request about to write a batch has
seen every code there is of the batches there were when it began (a code of such a batch
can only go), so that it deletes them all.

**Sessions.** `RowInv`: a row's token is spent, it was seen no later than now, and its
garden is one the account is in. For `SessionInUseLasts`, `LastingInv` adds that a session
is dated no later than now, and that a request past its look-up has come by the time the row
was dated, or has found it seen less than `touchAfter` before (`InTime`): a request that
touches no row relies on one who did.

**Setup.** `LinkInv`: a link that is not used made nothing, and the one transaction that
has claimed it holds its row. `FirstInv`: a bare transaction has the account table, there
is no account as long as it has it, and while there is none `firsts` is 0.
`GardenOwnerInv`, for `EveryGardenHasItsOwner`: a garden has one owner, and one that is not
`risked` has an owner whose account is open and whom no request is closing (`Kept`); a
set-up that has not `met` a closing has no closing beside it (`Calm`).

**Invites.** `RedeemInv`: an invite that is not redeemed let nobody in, and one request
at most is past `RedeemInvite` with it, whose row is then there. `JoiningReadInv`, for
`MembershipsStay`: what a request has read of a membership was not live when it read it, and
ended access stays ended as the clock moves, so that if it is still what is there the write
rewrites none that works; and an end is posted only for a membership that was read with
one.

**Notifications.** The cap is on a count taken before the insert. `CapInv`: who has
counted holds the account's row, and until the insert the account has fewer browsers than
the cap besides the one to be inserted; a browser that moves to another account only
makes room.

**RateLimit.** `LimiterInv`: a bucket that is kept is the one a limiter that never sweeps
would have, and one that was deleted has been full since. Both then answer alike.

**Care.** `Performers`: what an Undo form holds, and what a request is about to delete or
to put back, has the performer and the time of logging of the event with that id, there or
deleted; with `EventHasType` and the types of rows and requests this is `Inv`.
For `UndoPutsBack`, `Kept` adds that a deleted event is in one form or on its way back with
one request, as the delete found it unless it is in `lost`, and that a removal which is not
`behind` has read its event as it is.

**CareTypes.** `KindsInv`: slugs are unique among the rows, as the index demands, and the
slug a request has read is still its type's. A slug is never rewritten, so what was
checked of it before the update holds at the update.

**Plants.** `Inv` is the types of rows and requests with `PictureIsOwn`: a picture is set
in the transaction that inserts its photo and cleared in the statement that deletes it, so
no request's reading of it needs to last. For
`RoomsStayApart`, `RoomsInv` adds that the room a request is about to write is one of those
it had read, or differs from all of them in more than case.

**StorageNotice.** `NoticeInv`: a request goes by the usage as it is or is one of the
`old`; who has heard is in the ledger unless an old one wiped it; and who is in the ledger
with the photos under the share came late, or is about to be cleared.

**Calendar and Sittings.** A date is before another exactly if the instant is before the
other's midnight: `DateOf` and `midnightOn` are a Galois connection, and both modules
rest on it. `Inv` of `Calendar` adds that a saved note began on a day its writer's
calendar had. `AccessInv` of `Sittings`: an end is a midnight of some zone.

**Schedules.** `ScheduleInv`: the rule is well-formed, of a count the editor may give and
anchored no further than the calendar reaches; the latest event is typed. The rest is about
the operators. The dates of a series are those a whole number of intervals from its anchor,
and they grow; `firstStep` divides the time elapsed by the interval, so it leaves out only
dates before the last care, and the step after it is past that day. An open season is a run
of days from its opening, and openings are a year apart, so that the opening `Next` moves to
is the first. The calendar's tables are parameters, so these are statements about sums of
months' lengths, which the assumption gives one month at a time; longer stretches come from
`WellFoundedInduction`'s facts on the least element of a set of numbers.

Only model-checked:

- liveness, for which the prover has no rules of fairness;
- `InstantIsFirst`, `NextDigestIsLeast` and `OneDigestADay`, whose reference
  definitions quantify over the run's days;
- `QuotaOvershoot`, a sum over the rows, and `BudgetHolds` of the limiter, a sum over
  calls: induction over data;
- `CalendarAgrees` and `SeriesInMonth` of schedules, which are about lists the code
  builds date by date;
- `ReadersAgree` of `TodayPage` and `ShownOnce` of `ActivityLog`, which sort with
  library operators that take an operator.

## Not modelled

The text of notifications, pages, styles and static files; the layout of pages; the
names and handles of accounts and gardens, and the notes and wording of care events;
the encryption and HTTP of web push (a push has an outcome) and WebAuthn's
cryptography; parsing of timezones, forms' lengths and other checks that only refuse;
reading an image's header; migrations, seeding, logging, tracing and configuration.
None of these keeps state that a property here depends on.

`last_used_at` of an API token. Browsers subscribed while an account is being closed.
The server's graceful shutdown. That orphaned files are removed in the end depends on
someone running the sweep command, so nothing is said of it. The clock does not go
back. The process is one: two at once on one database are not considered. How long a
push takes is not modelled, so nothing is said about how late one look's last
delivery may be. A reminder set again for a minute already sent has the same ledger
key: the model measures reminders by their instant, and two requests would have to
fall in one tick. The limiter's calls come in the order of their `now`, which the code
reads before its mutex. The calendar's zones have fixed offsets and its months equal
lengths; clock changes are in `Hour` alone and unequal months in `Schedule` alone.
