------------------------------ MODULE Deadlines ------------------------------
(***************************************************************************)
(* The deadlines job (internal/push/deadlines.go): the creator of an API   *)
(* token is told a week before it expires and when it has, a sitter and    *)
(* their inviter when the sitting ends.  One garden, so a membership stands *)
(* for its account there.  A look lists the tokens and handles each row,   *)
(* then the sittings; every send is a transaction that claims its ledger   *)
(* row first.  Handlers commit in between and wake the job afterwards.     *)
(***************************************************************************)
EXTENDS Job, FiniteSets

CONSTANTS
    Members,          \* membership ids; an id is used once
    InviterOf,        \* membership.invited_by, itself for who made the garden
    Tokens,           \* api_token ids
    Lives,            \* tokenLives, in ticks
    EndTimes,         \* the end dates a sitting is given
    warnBefore,
    maxDeadlineLate,
    MaxChanges,       \* bound on what handlers write
    MaxFaults         \* bound on database errors and on stops of the process

ASSUME DeadlinesAssumption ==
    /\ InviterOf \in [Members -> Members]
    /\ Lives \subseteq Nat \ {0} /\ EndTimes \subseteq Nat
    /\ warnBefore \in Nat /\ maxDeadlineLate \in Nat
    /\ MaxChanges \in Nat /\ MaxFaults \in Nat

VARIABLES
    row,      \* membership: "none" before it is written, "row", "deleted"
    ends,     \* membership.expires_at, or NoTime
    manages,  \* the role grants token.manage
    browser,  \* the account has a push subscription
    token,    \* api_token, or NoToken
    ledger,   \* notification_send
    todo,     \* the rows of the list being handled
    tx,       \* the send in progress, or NoSend
    changes, faults

memberVars == <<row, ends, manages, browser>>
bounds == <<changes, faults>>
vars == <<now, jobVars, wakeVars, memberVars, token, ledger, todo, tx, bounds>>

NoToken == [state |-> "none"]
NoSend == [kind |-> "none"]

Send(m, kind, key) == [m |-> m, kind |-> kind, key |-> key]

-----------------------------------------------------------------------------
(* What the queries see at time t.                                         *)

Live(m, t) == row[m] = "row" /\ (ends[m] = NoTime \/ ends[m] > t)

\* The account that created the token still manages tokens in its garden.
CreatorCanManage(k, t) == Live(token[k].by, t) /\ manages[token[k].by]

\* ListTokenDeadlines.
TokenListed(k, t) ==
    /\ token[k].state = "live"
    /\ CreatorCanManage(k, t)
    /\ token[k].expires > t - maxDeadlineLate
    /\ browser[token[k].by]

\* Who is told of the end of the sitting m.
Recipients(m, t) == {r \in Members : r = m \/ (r = InviterOf[m] /\ Live(r, t))}

\* ListSittingDeadlines.
SittingListed(m, r, t) ==
    /\ row[m] = "row" /\ ends[m] # NoTime /\ ends[m] > t - maxDeadlineLate
    /\ r \in Recipients(m, t)
    /\ row[r] = "row" /\ browser[r]

TokenRow(k) ==
    [m |-> token[k].by, key |-> k, created |-> token[k].created, at |-> token[k].expires]
sittingKey(m) == <<m, ends[m]>>

\* APITokens.Resolve: a bearer token is accepted.
Resolve(k, t) ==
    token[k].state = "live" /\ t < token[k].expires /\ CreatorCanManage(k, t)

-----------------------------------------------------------------------------
(* A look: sendDue.                                                        *)

\* A token made with no longer than warnBefore to live gets no warning.
WarnAt(r) == r.at - warnBefore
Warns(r) == pc = "tokens" /\ WarnAt(r) > r.created

\* The kinds of notification that are due for a row.
Due(r) ==
    CASE pc = "sittings" /\ r.at <= lookNow                              -> {"sitting_ended"}
      [] pc = "tokens" /\ r.at <= lookNow                                -> {"token_expired"}
      [] pc = "tokens" /\ r.at > lookNow /\ Warns(r) /\ WarnAt(r) <= lookNow -> {"token_expiring"}
      [] OTHER                                                           -> {}

\* The instant the row asks the job to look again, or NoTime.
Coming(r) ==
    IF Warns(r) /\ WarnAt(r) > lookNow THEN WarnAt(r)
    ELSE IF r.at > lookNow THEN r.at ELSE NoTime

\* Fault: the expiry is forgotten when the warning is sent.
Sooner_Drops(n, r) == IF Coming(r) = NoTime \/ Due(r) # {} THEN n ELSE soonest(n, Coming(r))

Sooner(n, r) == IF Coming(r) = NoTime THEN n ELSE soonest(n, Coming(r))

SendOf(r) == Send(r.m, CHOOSE k \in Due(r) : TRUE, r.key)

FaultAllowed == faults < MaxFaults /\ now + RetryAfter <= MaxTime

ListTokens ==
    /\ pc = "look"
    /\ pc' = "tokens"
    /\ lookNow' = now
    /\ next' = NoTime
    /\ failed' = FALSE
    /\ todo' = {TokenRow(k) : k \in {x \in Tokens : TokenListed(x, now)}}
    /\ UNCHANGED <<now, wakeVars, memberVars, token, ledger, tx, bounds>>

ListSittings ==
    /\ pc = "tokens"
    /\ todo = {} /\ tx = NoSend
    /\ pc' = "sittings"
    /\ todo' = {[m |-> x[2], key |-> sittingKey(x[1]), at |-> ends[x[1]]] :
                   x \in {y \in Members \X Members : SittingListed(y[1], y[2], lookNow)}}
    /\ UNCHANGED <<now, lookNow, next, failed, wakeVars, memberVars, token, ledger, tx, bounds>>

ListFails ==
    /\ pc = "look" \/ (pc = "tokens" /\ todo = {} /\ tx = NoSend)
    /\ FaultAllowed
    /\ faults' = faults + 1
    /\ LookFailed
    /\ lookNow' = IF pc = "look" THEN now ELSE lookNow
    /\ UNCHANGED <<now, wakeVars, memberVars, token, ledger, todo, tx, changes>>

HandleRow(r) ==
    /\ pc \in {"tokens", "sittings"} /\ tx = NoSend
    /\ r \in todo
    /\ todo' = todo \ {r}
    /\ UNCHANGED <<now, pc, lookNow, wakeVars, memberVars, token, ledger, changes>>

\* Nothing is due, or the claim finds the row of an earlier look.
RowDone(r) ==
    /\ HandleRow(r)
    /\ Due(r) # {} => SendOf(r) \in ledger
    /\ next' = Sooner(next, r)
    /\ UNCHANGED <<failed, tx, faults>>

\* Fault: the claim is not looked at.
SendStarts_Unclaimed(r) ==
    /\ HandleRow(r)
    /\ Due(r) # {}
    /\ row[r.m] = "row"
    /\ tx' = SendOf(r)
    /\ next' = Sooner(next, r)
    /\ UNCHANGED <<failed, faults>>

\* The claim is new: the pushes go out with the transaction open.
SendStarts(r) ==
    /\ HandleRow(r)
    /\ Due(r) # {}
    /\ SendOf(r) \notin ledger
    /\ row[r.m] = "row"
    /\ tx' = SendOf(r)
    /\ next' = Sooner(next, r)
    /\ UNCHANGED <<failed, faults>>

\* The membership the ledger row refers to is gone, or the database failed
\* before anything was pushed.
SendFails(r) ==
    /\ HandleRow(r)
    /\ Due(r) # {}
    /\ row[r.m] # "row" \/ FaultAllowed
    /\ faults' = IF row[r.m] # "row" THEN faults ELSE faults + 1
    /\ next' = soonest(Sooner(next, r), lookNow + RetryAfter)
    /\ failed' = TRUE
    /\ UNCHANGED tx

\* deliver: the push service may say that the browser is gone.
CommitSend ==
    /\ tx # NoSend
    /\ ledger' = ledger \cup {tx}
    /\ tx' = NoSend
    /\ \/ UNCHANGED browser
       \/ browser' = [browser EXCEPT ![tx.m] = FALSE]
    /\ UNCHANGED <<now, jobVars, wakeVars, row, ends, manages, token, todo, bounds>>

\* Fault: a send that was rolled back is not tried again.
RollBackSend_NoRetry ==
    /\ tx # NoSend
    /\ FaultAllowed
    /\ faults' = faults + 1
    /\ tx' = NoSend
    /\ failed' = TRUE
    /\ UNCHANGED <<now, pc, lookNow, next, wakeVars, memberVars, token, ledger, todo, changes>>

RollBackSend ==
    /\ tx # NoSend
    /\ FaultAllowed
    /\ faults' = faults + 1
    /\ tx' = NoSend
    /\ next' = soonest(next, lookNow + RetryAfter)
    /\ failed' = TRUE
    /\ UNCHANGED <<now, pc, lookNow, wakeVars, memberVars, token, ledger, todo, changes>>

EndLook ==
    /\ pc = "sittings"
    /\ todo = {} /\ tx = NoSend
    /\ Sleep
    /\ UNCHANGED <<now, wakeVars, memberVars, token, ledger, todo, tx, bounds>>

LookStep ==
    \/ ListTokens \/ ListSittings \/ ListFails \/ EndLook
    \/ \E r \in todo : RowDone(r) \/ SendStarts(r) \/ SendFails(r)
    \/ CommitSend \/ RollBackSend

-----------------------------------------------------------------------------
(* The process.                                                            *)

Clock == Tick /\ UNCHANGED <<jobVars, wakeVars, memberVars, token, ledger, todo, tx, bounds>>

Wakes ==
    /\ \/ Woken /\ UNCHANGED calls
       \/ Fired /\ UNCHANGED wakeVars
    /\ UNCHANGED <<now, lookNow, next, failed, memberVars, token, ledger, todo, tx, bounds>>

HandlerWakes ==
    /\ CallWake
    /\ UNCHANGED <<now, jobVars, memberVars, token, ledger, todo, tx, bounds>>

Starts ==
    /\ StartJob
    /\ UNCHANGED <<now, lookNow, next, failed, memberVars, token, ledger, todo, tx, bounds>>

\* The context ends, or the process: the open transaction is rolled back.
Stops ==
    /\ \/ StopJob /\ FaultAllowed /\ faults' = faults + 1 /\ UNCHANGED wakeVars
       \/ Exit /\ pc = "stopped" /\ UNCHANGED faults
       \/ Exit /\ FaultAllowed /\ faults' = faults + 1
    /\ todo' = {} /\ tx' = NoSend
    /\ UNCHANGED <<now, lookNow, next, failed, memberVars, token, ledger, changes>>

-----------------------------------------------------------------------------
(* The handlers.  Each commits in one transaction and then calls Wake,     *)
(* except those that can only take a notification away.                    *)

Writes ==
    /\ Up
    /\ changes < MaxChanges
    /\ changes' = changes + 1
    /\ UNCHANGED <<now, jobVars, todo, tx, faults>>

CreateToken(k, m) ==
    /\ Writes
    /\ token[k] = NoToken
    /\ Live(m, now) /\ manages[m]
    /\ \E life \in Lives :
          token' = [token EXCEPT ![k] = [state |-> "live", by |-> m, created |-> now,
                                         expires |-> now + life]]
    /\ CommittedChange
    /\ UNCHANGED <<ledger, memberVars, wake>>

RevokeToken(k) ==
    /\ Writes
    /\ token[k].state = "live"
    /\ CreatorCanManage(k, now)
    /\ token' = [token EXCEPT ![k].state = "revoked"]
    /\ CommittedChange
    /\ UNCHANGED <<ledger, memberVars, wake>>

\* People: a new role for a member whose access has not ended, a new end for
\* one that has an end.
SetMemberRole(m) ==
    /\ Writes
    /\ Live(m, now)
    /\ manages' = [manages EXCEPT ![m] = ~@]
    /\ CommittedChange
    /\ UNCHANGED <<ledger, row, ends, browser, token, wake>>

SetMembershipEnd(m) ==
    /\ Writes
    /\ row[m] = "row" /\ ends[m] # NoTime
    /\ \E e \in EndTimes \ {ends[m]} : ends' = [ends EXCEPT ![m] = e]
    /\ CommittedChange
    /\ UNCHANGED <<ledger, row, manages, browser, token, wake>>

\* The row a send refers to is locked until its transaction ends.
RemoveMember(m) ==
    /\ Writes
    /\ row[m] = "row"
    /\ ~ (tx # NoSend /\ tx.m = m)
    /\ row' = [row EXCEPT ![m] = "deleted"]
    /\ ledger' = {s \in ledger : s.m # m}
    /\ UNCHANGED <<ends, manages, browser, token, wakeVars>>

\* An invite accepted: a new membership, or one that has ended is renewed.
Accept(m) ==
    /\ Writes
    /\ row[m] = "none" \/ (row[m] = "row" /\ ~Live(m, now))
    /\ row' = [row EXCEPT ![m] = "row"]
    /\ \E e \in EndTimes \cup {NoTime}, g \in BOOLEAN :
          /\ e = NoTime \/ e > now
          /\ ends' = [ends EXCEPT ![m] = e]
          /\ manages' = [manages EXCEPT ![m] = g]
    /\ CommittedChange
    /\ UNCHANGED <<ledger, browser, token, wake>>

SubscribeBrowser(m) ==
    /\ Writes
    /\ ~browser[m]
    /\ browser' = [browser EXCEPT ![m] = TRUE]
    /\ CommittedChange
    /\ UNCHANGED <<ledger, row, ends, manages, token, wake>>

RemoveBrowser(m) ==
    /\ Writes
    /\ browser[m]
    /\ browser' = [browser EXCEPT ![m] = FALSE]
    /\ UNCHANGED <<ledger, row, ends, manages, token, wakeVars>>

Handler ==
    \/ \E k \in Tokens : RevokeToken(k) \/ \E m \in Members : CreateToken(k, m)
    \/ \E m \in Members :
          \/ SetMemberRole(m) \/ SetMembershipEnd(m) \/ RemoveMember(m)
          \/ Accept(m) \/ SubscribeBrowser(m) \/ RemoveBrowser(m)

Init ==
    /\ JobInit
    /\ row \in [Members -> {"none", "row"}]
    /\ ends \in [Members -> EndTimes \cup {NoTime}]
    /\ \A m \in Members : row[m] = "none" => ends[m] = NoTime
    /\ \A m \in Members : InviterOf[m] = m => row[m] = "row" /\ ends[m] = NoTime
    /\ manages = [m \in Members |-> row[m] = "row" /\ ends[m] = NoTime]
    /\ browser = [m \in Members |-> row[m] = "row"]
    /\ token \in [Tokens -> {NoToken} \cup [state : {"live"}, by : {m \in Members : manages[m]},
                                            created : {StartTime}, expires : {StartTime + l : l \in Lives}]]
    /\ ledger = {} /\ todo = {} /\ tx = NoSend
    /\ changes = 0 /\ faults = 0

Next == LookStep \/ Clock \/ Wakes \/ HandlerWakes \/ Starts \/ Stops \/ Handler

Spec == Init /\ [][Next]_vars

\* As for the digest job: goroutines are scheduled, time passes, and a
\* process that stopped ends and is started again.
FairSpec ==
    /\ Spec
    /\ WF_vars(LookStep) /\ WF_vars(Wakes) /\ WF_vars(HandlerWakes)
    /\ WF_vars(Clock) /\ WF_vars(Starts) /\ WF_vars(pc = "stopped" /\ Stops)

-----------------------------------------------------------------------------

TokenWarning(k) == Send(token[k].by, "token_expiring", k)
TokenExpired(k) == Send(token[k].by, "token_expired", k)
SittingEnded(m, r) == Send(r, "sitting_ended", sittingKey(m))

Deliverable == [m : Members, kind : {"token_expiring", "token_expired"}, key : Tokens]
    \cup [m : Members, kind : {"sitting_ended"}, key : Members \X EndTimes]

TypeOK ==
    /\ now \in Time /\ lookNow \in Time
    /\ pc \in {"down", "look", "tokens", "sittings", "asleep", "stopped"}
    /\ next \in Int /\ failed \in BOOLEAN /\ wake \in BOOLEAN
    /\ calls \in 0 .. MaxChanges
    /\ row \in [Members -> {"none", "row", "deleted"}]
    /\ ends \in [Members -> EndTimes \cup {NoTime}]
    /\ manages \in [Members -> BOOLEAN] /\ browser \in [Members -> BOOLEAN]
    /\ \A k \in Tokens : token[k] = NoToken \/ token[k].by \in Members
    /\ ledger \subseteq Deliverable
    /\ tx = NoSend \/ (tx \in Deliverable /\ row[tx.m] = "row" /\ pc \in {"tokens", "sittings"})
    /\ \A s \in ledger : row[s.m] = "row"

\* The sleeping job looks again by the time at, or soon if a send failed.
LooksBy(at) ==
    /\ next # NoTime
    /\ next <= at \/ (failed /\ next <= now + RetryAfter)

\* What the members are owed: each notification with its time.
Owed ==
    LET listed == {k \in Tokens : TokenListed(k, now)}
        warned == {k \in listed : WarnAt(TokenRow(k)) > token[k].created /\ Resolve(k, now)}
        sittings == {x \in Members \X Members : SittingListed(x[1], x[2], now)}
    IN  {[send |-> TokenWarning(k), at |-> WarnAt(TokenRow(k))] : k \in warned}
        \cup {[send |-> TokenExpired(k), at |-> token[k].expires] : k \in listed}
        \cup {[send |-> SittingEnded(x[1], x[2]), at |-> ends[x[1]]] : x \in sittings}

(* While the job sleeps with no wake in the channel and no handler about to *)
(* send one, it looks no later than the time of every warning, expiry and   *)
(* end of a sitting that is owed and not yet in the ledger, whatever was    *)
(* committed while it looked (Wake, deadlines.go:68).                       *)
NoLostDeadline ==
    pc = "asleep" /\ ~wake /\ calls = 0 =>
        \A o \in Owed : o.send \in ledger \/ LooksBy(o.at)

Ledger == INSTANCE SendLedger WITH
    settled <- ledger,
    started <- IF tx = NoSend THEN {} ELSE {tx},
    deleted <- {m \in Members : row[m] = "deleted"}

(* The job is a user of the ledger: a notification whose row is committed   *)
(* is never started again, through errors, stops, restarts, a member        *)
(* removed or a sitting renewed meanwhile (send, deadlines.go:175).         *)
SendsOnce == Ledger!Spec

(* What is due is told in the end, or is no longer owed: the token revoked, *)
(* the member gone, the date moved, the browser removed, or the deadline    *)
(* more than maxDeadlineLate ago (sendDue, deadlines.go:79).                *)
DeadlineSettles ==
    \A s \in Deliverable :
        (\E o \in Owed : o.send = s /\ o.at <= now) ~>
            (s \in ledger \/ ~\E o \in Owed : o.send = s /\ o.at <= now)
==============================================================================
