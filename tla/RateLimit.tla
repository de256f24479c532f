------------------------------- MODULE RateLimit -------------------------------
(***************************************************************************)
(* The token buckets of a rate limiter (internal/http/ratelimit.go) and    *)
(* the part of golang.org/x/time/rate they use.  A mutex makes the calls   *)
(* of Allow one after another; they are taken in the order of their now.   *)
(*                                                                         *)
(* Time is in ticks.  A bucket earns one token in Interval ticks, and what *)
(* it holds is counted in those ticks, so it is full at Refill.            *)
(***************************************************************************)
EXTENDS Integers, FiniteSets, Functions

CONSTANTS
    Keys,
    Interval,   \* ticks in which a bucket earns a token
    Burst,      \* tokens a bucket holds
    Second,     \* ticks of a second
    MaxTime     \* bound on the clock

RateLimitAssumption ==
    /\ Interval \in Nat \ {0} /\ Burst \in Nat \ {0} /\ Second \in Nat \ {0} /\ MaxTime \in Nat

Refill == Burst * Interval

VARIABLES
    now,
    buckets,     \* by key: [level, last], last both lastSeen and the limiter's own
    lastSweep,
    unswept,     \* history: the buckets had none ever been deleted
    allowed      \* history: how many calls of each key were allowed at each time

vars == <<now, buckets, lastSweep, unswept, allowed>>

\* rate.Limiter.advance.
Advanced(b, t) ==
    IF b.level + (t - b.last) > Refill THEN Refill ELSE b.level + (t - b.last)

Full(t) == [level |-> Refill, last |-> t]
BucketOf(bs, key, t) == IF key \in DOMAIN bs THEN bs[key] ELSE Full(t)

\* ReserveN, and the delay of what it reserved: zero when a token is there.
Delay(bs, key, t) ==
    LET level == Advanced(BucketOf(bs, key, t), t) IN
    IF level >= Interval THEN 0 ELSE Interval - level

\* Fault: a refused call is credited the time since the last one again.
Spent_Twice(bs, key, t) ==
    LET b == BucketOf(bs, key, t)
        refused == Delay(bs, key, t) > 0 IN
    [level |-> Advanced(b, t) - IF refused THEN 0 ELSE Interval, last |-> IF refused THEN b.last ELSE t]

\* A refused call cancels its reservation and spends nothing.
Spent(bs, key, t) ==
    [level |-> Advanced(BucketOf(bs, key, t), t) - IF Delay(bs, key, t) = 0 THEN Interval ELSE 0,
     last |-> t]

Put(bs, key, b) == [k \in DOMAIN bs \cup {key} |-> IF k = key THEN b ELSE bs[k]]

\* Fault: a bucket is deleted once it has earned a token.
Idle_Token(b, t) == t - b.last >= Interval

\* Idle for a refill.
Idle(b, t) == t - b.last >= Refill

sweep(bs, t) == Restrict(bs, {k \in DOMAIN bs : ~Idle(bs[k], t)})

Allow(key) ==
    LET sweeps == now - lastSweep >= Refill
        kept == IF sweeps THEN sweep(buckets, now) ELSE buckets IN
    /\ buckets' = Put(kept, key, Spent(kept, key, now))
    /\ lastSweep' = IF sweeps THEN now ELSE lastSweep
    /\ unswept' = Put(unswept, key, Spent(unswept, key, now))
    /\ allowed' = IF Delay(kept, key, now) = 0 THEN [allowed EXCEPT ![key][now] = @ + 1] ELSE allowed
    /\ UNCHANGED now

Tick ==
    /\ now < MaxTime /\ now' = now + 1
    /\ UNCHANGED <<buckets, lastSweep, unswept, allowed>>

\* Fault: the seconds are rounded down.
RetryAfter_Floor(delay) == IF delay < Second THEN 1 ELSE delay \div Second

\* Limit: whole seconds, at least one.
RetryAfter(delay) == LET up == (delay + Second - 1) \div Second IN IF up < 1 THEN 1 ELSE up

\* The first call sweeps: lastSweep is the zero time.
Init ==
    /\ now = 0 /\ buckets = <<>> /\ unswept = <<>>
    /\ lastSweep = -Refill
    /\ allowed = [k \in Keys |-> [t \in 0 .. MaxTime |-> 0]]

Next == Tick \/ \E key \in Keys : Allow(key)

Spec == Init /\ [][Next]_vars

-----------------------------------------------------------------------------

Later == now .. MaxTime + Refill

TypeOK ==
    /\ now \in 0 .. MaxTime
    /\ \A k \in DOMAIN buckets : buckets[k].level \in 0 .. Refill /\ buckets[k].last \in 0 .. now
    /\ DOMAIN buckets \subseteq DOMAIN unswept

(* "Such a bucket is full again and indistinguishable from one that does    *)
(* not exist, so deleting it changes no later result." (sweep): whatever    *)
(* was deleted and when, each key gets the answer and the delay at every    *)
(* later time that it would get had nothing been deleted.                   *)
SweepChangesNothing ==
    \A k \in Keys, t \in Later : Delay(buckets, k, t) = Delay(unswept, k, t)

Allowed(k, a, b) ==
    LET upTo[t \in a - 1 .. b] == IF t < a THEN 0 ELSE upTo[t - 1] + allowed[k][t] IN upTo[b]

(* "buckets refill at limit tokens a second and hold at most burst"         *)
(* (NewLimiter): between any two times a key gets at most a burst and what  *)
(* is earned between them, the sweeps notwithstanding.                      *)
BudgetHolds ==
    \A k \in Keys, a, b \in 0 .. now :
        a <= b => Allowed(k, a, b) * Interval <= Refill + (b - a)

(* "zero would invite a retry the bucket refuses again" (Limit): a caller   *)
(* that is refused and comes back after Retry-After, its key unused in      *)
(* between, is allowed.                                                     *)
RetryIsAllowed ==
    \A k \in Keys, t \in Later : LET delay == Delay(buckets, k, t) IN
        delay > 0 => Delay(buckets, k, t + RetryAfter(delay) * Second) = 0
================================================================================
