--------------------------------- MODULE Job ---------------------------------
(***************************************************************************)
(* The loop both push jobs run in: internal/push/job.go.  A job looks,     *)
(* sleeps until the instant the look returned, and looks again; a handler  *)
(* that commits a change wakes it through a channel that holds one wake.   *)
(* A job module extends this one and says what a look does.                *)
(***************************************************************************)
EXTENDS Integers

CONSTANTS
    RetryAfter,  \* ticks before a job looks again after a database error
    StartTime,   \* what the clock reads at first
    MaxTime      \* bound on the clock

ASSUME JobAssumption ==
    /\ RetryAfter \in Nat \ {0}
    /\ StartTime \in Nat
    /\ MaxTime \in Nat
    /\ StartTime <= MaxTime

VARIABLES
    now,      \* the clock
    pc,       \* where the job is
    lookNow,  \* the instant the current or last look read
    next,     \* the earliest instant the look has found, then the timer
    failed,   \* an error in the current or last look asked for a retry
    wake,     \* a wake is in the channel
    calls     \* handlers that have committed a change and not yet called Wake

jobVars == <<pc, lookNow, next, failed>>
wakeVars == <<wake, calls>>

Time == StartTime .. MaxTime

\* The zero time.Time: nothing is coming.
NoTime == -1

soonest(n, at) == IF n = NoTime \/ at < n THEN at ELSE n

JobInit ==
    /\ now = StartTime
    /\ pc = "down"
    /\ lookNow = StartTime
    /\ next = NoTime
    /\ failed = FALSE
    /\ wake = FALSE
    /\ calls = 0

Tick ==
    /\ now < MaxTime
    /\ now' = now + 1

\* The process starts with an empty channel, and Run looks at once.
StartJob ==
    /\ pc = "down"
    /\ pc' = "look"
    /\ wake' = FALSE
    /\ calls' = 0

\* The look returned; the job waits for the timer, a wake or the end of ctx.
Sleep ==
    /\ pc' = "asleep"
    /\ UNCHANGED <<lookNow, next, failed>>

\* A look that returns an error is made again after retryAfter.
LookFailed ==
    /\ pc' = "asleep"
    /\ next' = now + RetryAfter
    /\ failed' = TRUE

Woken ==
    /\ pc = "asleep"
    /\ wake
    /\ wake' = FALSE
    /\ pc' = "look"

Fired ==
    /\ pc = "asleep"
    /\ next # NoTime
    /\ next <= now
    /\ pc' = "look"

\* Fault: a wake that no handler asked for.
CallWake_Unasked ==
    /\ calls' = calls - 1
    /\ wake' = TRUE

\* A send on a full channel is dropped (wakeJob).
CallWake ==
    /\ calls > 0
    /\ calls' = calls - 1
    /\ wake' = TRUE

\* ctx ends while the server still finishes the requests it has.
StopJob ==
    /\ pc \notin {"stopped", "down"}
    /\ pc' = "stopped"

\* The process is gone, and with it the channel and the handlers.
Exit ==
    /\ pc # "down"
    /\ pc' = "down"
    /\ wake' = FALSE
    /\ calls' = 0

\* A handler may run.
Up == pc # "down"

\* A handler has committed a change and goes on to call Wake.
CommittedChange == calls' = calls + 1
==============================================================================
