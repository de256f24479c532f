---------------------------- MODULE DeadlinesProofs ----------------------------
(***************************************************************************)
(* The deadlines job, for every number of members and tokens, every life   *)
(* of a token and every end of a sitting: its types, that it implements    *)
(* SendLedger, and that whatever handlers commit while it looks, it sleeps *)
(* with a wake on its way or with its timer set for no later than          *)
(* everything that is owed.                                                *)
(***************************************************************************)
EXTENDS Deadlines, TLAPS

-----------------------------------------------------------------------------
(* TypeOK needs the types of the tokens and of the rows of the lists, and  *)
(* that the lists are empty outside the loops over them.                   *)

TokenRec == [state : {"live", "revoked"}, by : Members, created : Nat, expires : Nat]
TokenItem == [m : Members, key : Tokens, created : Nat, at : Nat]
SittingItem == [m : Members, key : Members \X EndTimes, at : Nat]

TokenTypes == token \in [Tokens -> {NoToken} \cup TokenRec]

TodoTypes ==
    /\ pc = "tokens" => todo \subseteq TokenItem
    /\ pc = "sittings" => todo \subseteq SittingItem
    /\ pc \notin {"tokens", "sittings"} => todo = {}

ClockTypes ==
    /\ lookNow <= now
    /\ next = NoTime \/ next \in Nat
    /\ changes \in 0 .. MaxChanges /\ calls <= changes

TypeInv == TypeOK /\ TokenTypes /\ TodoTypes /\ ClockTypes

-----------------------------------------------------------------------------

(* What the constants are.                                                  *)
LEMMA ConstantTypes ==
    /\ StartTime \in Nat /\ MaxTime \in Nat /\ Time \subseteq Nat
    /\ EndTimes \subseteq Nat /\ Lives \subseteq Nat
    /\ RetryAfter \in Nat /\ RetryAfter # 0 /\ warnBefore \in Nat /\ maxDeadlineLate \in Nat
    /\ MaxChanges \in Nat
    /\ NoTime = -1 /\ NoTime \notin EndTimes
    /\ InviterOf \in [Members -> Members]
BY JobAssumption, DeadlinesAssumption DEF Time, NoTime

(* soonest is no later than either instant, unless one is missing.          *)
LEMMA SoonestType ==
    ASSUME NEW n, n = NoTime \/ n \in Nat, NEW at \in Nat
    PROVE  /\ soonest(n, at) \in Nat /\ soonest(n, at) # NoTime /\ soonest(n, at) <= at
           /\ n # NoTime => soonest(n, at) <= n
BY ConstantTypes DEF soonest

(* The records an action builds have the types of the variables.            *)
LEMMA RecordTypes ==
    /\ \A m \in Members, k \in Tokens :
          /\ Send(m, "token_expiring", k) \in Deliverable
          /\ Send(m, "token_expired", k) \in Deliverable
    /\ \A m \in Members, key \in Members \X EndTimes : Send(m, "sitting_ended", key) \in Deliverable
    /\ \A m, kind, key : Send(m, kind, key).m = m /\ Send(m, kind, key) # NoSend
    /\ \A s \in Deliverable : s.m \in Members /\ s # NoSend
    /\ NoSend \notin Deliverable
BY DEF Send, Deliverable, NoSend

(* A live token is a row with an account and an end.                        *)
LEMMA LiveToken ==
    ASSUME TokenTypes, NEW k \in Tokens, token[k].state = "live"
    PROVE  token[k] \in TokenRec /\ token[k].by \in Members /\ token[k].created \in Nat /\ token[k].expires \in Nat
<1>1. token[k] # NoToken
  BY DEF NoToken
<1> QED
  BY <1>1 DEF TokenTypes, TokenRec

(* What a look makes of a row: the kinds that are due, and the instant it   *)
(* asks to look again.                                                      *)
LEMMA RowFacts ==
    ASSUME TypeInv, NEW r \in todo
    PROVE  /\ pc \in {"tokens", "sittings"}
           /\ r.m \in Members /\ r.at \in Nat
           /\ Coming(r) = NoTime \/ Coming(r) \in Nat
           /\ Due(r) # {} => SendOf(r) \in Deliverable /\ SendOf(r).m = r.m
<1>1. pc \in {"tokens", "sittings"}
  BY DEF TypeInv, TodoTypes
<1>2. lookNow \in Nat
  BY ConstantTypes DEF TypeInv, TypeOK
<1>3. CASE pc = "tokens"
  <2>1. r.m \in Members /\ r.key \in Tokens /\ r.at \in Nat /\ r.created \in Nat
    BY <1>3 DEF TypeInv, TodoTypes, TokenItem
  <2>2. Coming(r) = NoTime \/ Coming(r) \in Nat
    BY <2>1, <1>2, ConstantTypes DEF Coming, WarnAt, Warns
  <2>3. Due(r) \in {{}, {"token_expired"}, {"token_expiring"}}
    BY <1>3 DEF Due
  <2>4. Due(r) # {} => SendOf(r) \in {Send(r.m, "token_expired", r.key), Send(r.m, "token_expiring", r.key)}
    <3>1. CASE Due(r) = {"token_expired"}
      BY <3>1 DEF SendOf
    <3>2. CASE Due(r) = {"token_expiring"}
      BY <3>2 DEF SendOf
    <3> QED
      BY <2>3, <3>1, <3>2
  <2> QED
    BY <1>1, <2>1, <2>2, <2>4, RecordTypes
<1>4. CASE pc = "sittings"
  <2>1. r.m \in Members /\ r.key \in Members \X EndTimes /\ r.at \in Nat
    BY <1>4 DEF TypeInv, TodoTypes, SittingItem
  <2>2. Coming(r) = NoTime \/ Coming(r) \in Nat
    BY <1>4, <2>1, <1>2, ConstantTypes DEF Coming, Warns
  <2>3. Due(r) \in {{}, {"sitting_ended"}}
    BY <1>4 DEF Due
  <2>4. Due(r) # {} => SendOf(r) = Send(r.m, "sitting_ended", r.key)
    <3>1. CASE Due(r) = {"sitting_ended"}
      BY <3>1 DEF SendOf
    <3> QED
      BY <2>3, <3>1
  <2> QED
    BY <1>1, <2>1, <2>2, <2>4, RecordTypes
<1> QED
  BY <1>1, <1>3, <1>4

(* The timer after a row.                                                   *)
LEMMA SoonerType ==
    ASSUME TypeInv, NEW r \in todo
    PROVE  /\ Sooner(next, r) = NoTime \/ Sooner(next, r) \in Nat
           /\ Coming(r) # NoTime => Sooner(next, r) # NoTime /\ Sooner(next, r) <= Coming(r)
           /\ next # NoTime => Sooner(next, r) # NoTime /\ Sooner(next, r) <= next
<1>1. Coming(r) = NoTime \/ Coming(r) \in Nat
  BY RowFacts
<1>2. next = NoTime \/ next \in Nat
  BY DEF TypeInv, ClockTypes
<1>3. CASE Coming(r) = NoTime
  BY <1>2, <1>3 DEF Sooner
<1>4. CASE Coming(r) \in Nat
  <2>1. Coming(r) # NoTime
    BY <1>4, ConstantTypes
  <2>2. Sooner(next, r) = soonest(next, Coming(r))
    BY <2>1 DEF Sooner
  <2> DEFINE c == Coming(r)
  <2>3. c \in Nat
    BY <1>4
  <2> HIDE DEF c
  <2>4. /\ soonest(next, c) \in Nat /\ soonest(next, c) # NoTime /\ soonest(next, c) <= c
        /\ next # NoTime => soonest(next, c) <= next
    BY <1>2, <2>3, SoonestType
  <2> QED
    BY <2>2, <2>4 DEF c
<1> QED
  BY <1>1, <1>3, <1>4
-----------------------------------------------------------------------------
(* Type correctness.                                                       *)

(* At first.                                                                *)
LEMMA TypeStart == Init => TypeInv
<1> SUFFICES ASSUME Init PROVE TypeInv
  OBVIOUS
<1> USE ConstantTypes
<1>1. manages \in [Members -> BOOLEAN] /\ browser \in [Members -> BOOLEAN]
  BY DEF Init
<1>2. token \in [Tokens -> {NoToken} \cup TokenRec]
  BY DEF Init, TokenRec
<1>3. \A k \in Tokens : token[k] = NoToken \/ token[k].by \in Members
  BY <1>2 DEF TokenRec
<1>4. /\ now \in Time /\ lookNow \in Time /\ lookNow <= now /\ next = NoTime /\ next \in Int
      /\ pc = "down" /\ failed = FALSE /\ wake = FALSE /\ calls = 0 /\ changes = 0
  BY JobAssumption DEF Init, JobInit, Time
<1>5. /\ row \in [Members -> {"none", "row", "deleted"}]
      /\ ends \in [Members -> EndTimes \cup {NoTime}]
      /\ ledger = {} /\ todo = {} /\ tx = NoSend
  BY DEF Init
<1>6. failed \in BOOLEAN /\ wake \in BOOLEAN
  BY <1>4
<1>7. calls \in 0 .. MaxChanges /\ changes \in 0 .. MaxChanges /\ calls <= changes
  BY <1>4
<1>8. TypeOK
  BY <1>1, <1>3, <1>4, <1>5, <1>6, <1>7 DEF TypeOK
<1>9. TokenTypes /\ TodoTypes /\ ClockTypes
  BY <1>2, <1>4, <1>5, <1>7 DEF TokenTypes, TodoTypes, ClockTypes
<1> QED
  BY <1>8, <1>9 DEF TypeInv

(* A step of the look.                                                      *)
LEMMA TypeLook ==
    ASSUME TypeInv, LookStep
    PROVE  TypeInv'
<1> USE DEF jobVars, wakeVars, memberVars, bounds
<1>0. /\ now \in Nat /\ lookNow \in Nat /\ now \in Time
  BY ConstantTypes DEF TypeInv, TypeOK
<1>1. CASE ListTokens
  <2>1. todo' \subseteq TokenItem
    <3> SUFFICES ASSUME NEW k \in Tokens, TokenListed(k, now) PROVE TokenRow(k) \in TokenItem
      BY <1>1 DEF ListTokens
    <3> QED
      BY LiveToken DEF TypeInv, TokenListed, TokenRow, TokenItem
  <2>2. tx = NoSend
    BY <1>1 DEF ListTokens, TypeInv, TypeOK
  <2>3. next' = NoTime /\ next' \in Int /\ lookNow' \in Time /\ lookNow' <= now'
    BY <1>0, <1>1, ConstantTypes DEF ListTokens
  <2>5. failed' \in BOOLEAN
    BY <1>1 DEF ListTokens
  <2>4. TypeOK'
    BY <1>1, <2>2, <2>3, <2>5 DEF ListTokens, TypeInv, TypeOK
  <2> QED
    BY <1>1, <2>1, <2>3, <2>4 DEF ListTokens, TypeInv, TokenTypes, TodoTypes, ClockTypes
<1>2. CASE ListSittings
  <2>1. todo' \subseteq SittingItem
    <3> SUFFICES ASSUME NEW m \in Members, NEW r \in Members, SittingListed(m, r, lookNow)
                 PROVE  [m |-> r, key |-> sittingKey(m), at |-> ends[m]] \in SittingItem
      BY <1>2 DEF ListSittings
    <3>1. ends[m] \in EndTimes
      BY DEF SittingListed, TypeInv, TypeOK
    <3> QED
      BY <3>1, ConstantTypes DEF sittingKey, SittingItem
  <2> QED
    BY <1>2, <2>1 DEF ListSittings, TypeInv, TypeOK, TokenTypes, TodoTypes, ClockTypes
<1>3. CASE ListFails
  <2>1. now + RetryAfter \in Nat /\ now + RetryAfter \in Int
    BY <1>0, ConstantTypes
  <2>2. lookNow' \in Time /\ lookNow' <= now'
    BY <1>0, <1>3 DEF ListFails, TypeInv, TypeOK, ClockTypes
  <2>3. todo = {} /\ tx = NoSend
    BY <1>3 DEF ListFails, TypeInv, TypeOK, TodoTypes
  <2> QED
    BY <1>3, <2>1, <2>2, <2>3 DEF ListFails, LookFailed, TypeInv, TypeOK, TokenTypes, TodoTypes, ClockTypes
<1>4. CASE EndLook
  BY <1>4 DEF EndLook, Sleep, TypeInv, TypeOK, TokenTypes, TodoTypes, ClockTypes
<1>5. ASSUME NEW r \in todo, RowDone(r) \/ SendStarts(r) \/ SendFails(r)
      PROVE  TypeInv'
  <2>1. /\ todo' = todo \ {r}
        /\ UNCHANGED <<now, pc, lookNow, wakeVars, memberVars, token, ledger, changes>>
    BY <1>5 DEF RowDone, SendStarts, SendFails, HandleRow
  <2>2. next' = NoTime \/ next' \in Nat
    <3>1. lookNow + RetryAfter \in Nat
      BY <1>0, ConstantTypes
    <3>2. Sooner(next, r) = NoTime \/ Sooner(next, r) \in Nat
      BY SoonerType
    <3>3. soonest(Sooner(next, r), lookNow + RetryAfter) \in Nat
      BY <3>1, <3>2, SoonestType
    <3> QED
      BY <1>5, <3>2, <3>3 DEF RowDone, SendStarts, SendFails
  <2>3. next' \in Int
    BY <2>2, ConstantTypes
  <2>4. failed' \in BOOLEAN
    BY <1>5 DEF RowDone, SendStarts, SendFails, TypeInv, TypeOK
  <2>5. tx' = NoSend \/ (tx' \in Deliverable /\ row[tx'.m] = "row" /\ pc \in {"tokens", "sittings"})
    BY <1>5, RowFacts DEF RowDone, SendStarts, SendFails, HandleRow
  <2> QED
    BY <2>1, <2>2, <2>3, <2>4, <2>5 DEF TypeInv, TypeOK, TokenTypes, TodoTypes, ClockTypes
<1>6. CASE CommitSend
  <2>1. tx \in Deliverable /\ row[tx.m] = "row" /\ tx.m \in Members
    BY <1>6, RecordTypes DEF CommitSend, TypeInv, TypeOK
  <2>2. browser' \in [Members -> BOOLEAN]
    BY <1>6, <2>1 DEF CommitSend, TypeInv, TypeOK
  <2> QED
    BY <1>6, <2>1, <2>2 DEF CommitSend, TypeInv, TypeOK, TokenTypes, TodoTypes, ClockTypes
<1>7. CASE RollBackSend
  <2>1. next' \in Nat
    <3>1. lookNow + RetryAfter \in Nat
      BY <1>0, ConstantTypes
    <3>2. next = NoTime \/ next \in Nat
      BY DEF TypeInv, ClockTypes
    <3>3. soonest(next, lookNow + RetryAfter) \in Nat
      BY <3>1, <3>2, SoonestType
    <3> QED
      BY <1>7, <3>3 DEF RollBackSend
  <2> QED
    BY <1>7, <2>1 DEF RollBackSend, TypeInv, TypeOK, TokenTypes, TodoTypes, ClockTypes
<1> QED
  BY <1>1, <1>2, <1>3, <1>4, <1>5, <1>6, <1>7 DEF LookStep

(* The clock, the wakes and the process.                                    *)
LEMMA TypeProcess ==
    ASSUME TypeInv, Clock \/ Wakes \/ HandlerWakes \/ Starts \/ Stops
    PROVE  TypeInv'
<1> USE DEF jobVars, wakeVars, memberVars, bounds
<1>1. CASE Clock
  <2>1. now' \in Time /\ lookNow <= now'
    BY <1>1, ConstantTypes DEF Clock, Tick, TypeInv, TypeOK, ClockTypes, Time
  <2> QED
    BY <1>1, <2>1 DEF Clock, TypeInv, TypeOK, TokenTypes, TodoTypes, ClockTypes
<1>2. CASE Wakes
  <2>1. /\ UNCHANGED <<now, lookNow, next, failed, memberVars, token, ledger, todo, tx, bounds, calls>>
        /\ pc = "asleep" /\ pc' = "look" /\ wake' \in {wake, FALSE}
    BY <1>2 DEF Wakes, Woken, Fired
  <2>2. wake' \in BOOLEAN /\ tx = NoSend
    BY <2>1 DEF TypeInv, TypeOK
  <2>3. TypeOK'
    BY <2>1, <2>2 DEF TypeInv, TypeOK
  <2> QED
    BY <2>1, <2>3 DEF TypeInv, TokenTypes, TodoTypes, ClockTypes
<1>3. CASE HandlerWakes
  <2>1. calls' \in 0 .. MaxChanges /\ calls' <= changes /\ wake' = TRUE
    BY <1>3, ConstantTypes DEF HandlerWakes, CallWake, TypeInv, TypeOK, ClockTypes
  <2> QED
    BY <1>3, <2>1 DEF HandlerWakes, TypeInv, TypeOK, TokenTypes, TodoTypes, ClockTypes
<1>4. CASE Starts
  <2>1. /\ UNCHANGED <<now, lookNow, next, failed, memberVars, token, ledger, todo, tx, bounds>>
        /\ pc = "down" /\ pc' = "look" /\ wake' = FALSE /\ calls' = 0
    BY <1>4 DEF Starts, StartJob
  <2>2. tx = NoSend /\ calls' \in 0 .. MaxChanges /\ calls' <= changes
    BY <2>1, ConstantTypes DEF TypeInv, TypeOK, ClockTypes
  <2>3. wake' \in BOOLEAN
    BY <2>1
  <2>4. TypeOK'
    BY <2>1, <2>2, <2>3 DEF TypeInv, TypeOK
  <2> QED
    BY <2>1, <2>2, <2>4 DEF TypeInv, TokenTypes, TodoTypes, ClockTypes
<1>5. CASE Stops
  <2>1. /\ UNCHANGED <<now, lookNow, next, failed, memberVars, token, ledger, changes>>
        /\ pc' \in {"stopped", "down"} /\ todo' = {} /\ tx' = NoSend
        /\ wake' \in BOOLEAN /\ calls' \in {calls, 0}
    BY <1>5 DEF Stops, StopJob, Exit, TypeInv, TypeOK
  <2>2. calls' \in 0 .. MaxChanges /\ calls' <= changes
    BY <2>1, ConstantTypes DEF TypeInv, TypeOK, ClockTypes
  <2> QED
    BY <2>1, <2>2 DEF TypeInv, TypeOK, TokenTypes, TodoTypes, ClockTypes
<1> QED
  BY <1>1, <1>2, <1>3, <1>4, <1>5

(* A handler.                                                               *)
LEMMA TypeHandler ==
    ASSUME TypeInv, Handler
    PROVE  TypeInv'
<1> USE DEF jobVars, wakeVars, memberVars, bounds
<1>0. now \in Nat
  BY ConstantTypes DEF TypeInv, TypeOK
<1>1. Writes
  BY DEF Handler, CreateToken, RevokeToken, SetMemberRole, SetMembershipEnd, RemoveMember, Accept,
         SubscribeBrowser, RemoveBrowser
<1>2. /\ UNCHANGED <<now, pc, lookNow, next, failed, todo, tx>>
      /\ changes' = changes + 1 /\ changes' \in 0 .. MaxChanges
  BY <1>1, ConstantTypes DEF Writes, TypeInv, ClockTypes
<1>3. wake' = wake /\ calls' \in {calls, calls + 1}
  BY DEF Handler, CreateToken, RevokeToken, SetMemberRole, SetMembershipEnd, RemoveMember, Accept,
         SubscribeBrowser, RemoveBrowser, CommittedChange
<1>4. calls' \in 0 .. MaxChanges /\ calls' <= changes'
  BY <1>2, <1>3, ConstantTypes DEF TypeInv, TypeOK, ClockTypes
<1>5. /\ wake' \in BOOLEAN /\ ClockTypes' /\ TodoTypes'
  BY <1>2, <1>3, <1>4 DEF TypeInv, TypeOK, ClockTypes, TodoTypes
<1>6. ASSUME /\ row' \in [Members -> {"none", "row", "deleted"}]
             /\ ends' \in [Members -> EndTimes \cup {NoTime}]
             /\ manages' \in [Members -> BOOLEAN] /\ browser' \in [Members -> BOOLEAN]
             /\ TokenTypes'
             /\ ledger' \subseteq ledger
             /\ \A s \in ledger' : row'[s.m] = "row"
             /\ tx # NoSend => row'[tx.m] = "row"
      PROVE  TypeInv'
  <2>1. \A k \in Tokens : token'[k] = NoToken \/ token'[k].by \in Members
    BY <1>6 DEF TokenTypes, TokenRec
  <2>2. TypeOK'
    BY <1>2, <1>4, <1>5, <1>6, <2>1 DEF TypeInv, TypeOK
  <2> QED
    BY <1>5, <1>6, <2>2 DEF TypeInv
<1>7. /\ row \in [Members -> {"none", "row", "deleted"}]
      /\ ends \in [Members -> EndTimes \cup {NoTime}]
      /\ manages \in [Members -> BOOLEAN] /\ browser \in [Members -> BOOLEAN]
      /\ TokenTypes
      /\ \A s \in ledger : row[s.m] = "row" /\ s.m \in Members
      /\ tx # NoSend => row[tx.m] = "row" /\ tx.m \in Members
  BY RecordTypes DEF TypeInv, TypeOK
<1> HIDE DEF TypeInv
<1>8. ASSUME NEW k \in Tokens, NEW m \in Members, CreateToken(k, m)
      PROVE  TypeInv'
  <2>1. PICK life \in Lives :
          token' = [token EXCEPT ![k] = [state |-> "live", by |-> m, created |-> now,
                                         expires |-> now + life]]
    BY <1>8 DEF CreateToken
  <2>2. now + life \in Nat
    BY <1>0, ConstantTypes
  <2>3. [state |-> "live", by |-> m, created |-> now, expires |-> now + life] \in TokenRec
    BY <1>0, <2>2 DEF TokenRec
  <2>4. TokenTypes'
    BY <1>7, <2>1, <2>3 DEF TokenTypes
  <2>5. UNCHANGED <<row, ends, manages, browser, ledger>>
    BY <1>8 DEF CreateToken
  <2> QED
    BY <1>6, <1>7, <2>4, <2>5
<1>9. ASSUME NEW k \in Tokens, RevokeToken(k)
      PROVE  TypeInv'
  <2>1. token' = [token EXCEPT ![k] = [token[k] EXCEPT !.state = "revoked"]]
    BY <1>9 DEF RevokeToken
  <2>2. token[k] \in TokenRec
    BY <1>7, <1>9, LiveToken DEF RevokeToken
  <2>3. [token[k] EXCEPT !.state = "revoked"] \in TokenRec
    BY <2>2 DEF TokenRec
  <2>4. TokenTypes'
    BY <1>7, <2>1, <2>3 DEF TokenTypes
  <2>5. UNCHANGED <<row, ends, manages, browser, ledger>>
    BY <1>9 DEF RevokeToken
  <2> QED
    BY <1>6, <1>7, <2>4, <2>5
<1>10. ASSUME NEW m \in Members, SetMemberRole(m) \/ SubscribeBrowser(m) \/ RemoveBrowser(m)
       PROVE  TypeInv'
  <2>1. manages' \in [Members -> BOOLEAN] /\ browser' \in [Members -> BOOLEAN]
    BY <1>7, <1>10 DEF SetMemberRole, SubscribeBrowser, RemoveBrowser
  <2>2. UNCHANGED <<row, ends, token, ledger>>
    BY <1>10 DEF SetMemberRole, SubscribeBrowser, RemoveBrowser
  <2> QED
    BY <1>6, <1>7, <2>1, <2>2 DEF TokenTypes
<1>11. ASSUME NEW m \in Members, SetMembershipEnd(m)
       PROVE  TypeInv'
  <2>1. ends' \in [Members -> EndTimes \cup {NoTime}]
    BY <1>7, <1>11 DEF SetMembershipEnd
  <2>2. UNCHANGED <<row, manages, browser, token, ledger>>
    BY <1>11 DEF SetMembershipEnd
  <2> QED
    BY <1>6, <1>7, <2>1, <2>2 DEF TokenTypes
<1>12. ASSUME NEW m \in Members, RemoveMember(m)
       PROVE  TypeInv'
  <2>1. /\ row' = [row EXCEPT ![m] = "deleted"] /\ ledger' = {s \in ledger : s.m # m}
        /\ UNCHANGED <<ends, manages, browser, token>>
        /\ tx # NoSend => tx.m # m
    BY <1>12 DEF RemoveMember
  <2>2. row' \in [Members -> {"none", "row", "deleted"}]
    BY <1>7, <2>1
  <2>3. \A s \in ledger' : row'[s.m] = "row"
    BY <1>7, <2>1
  <2>4. tx # NoSend => row'[tx.m] = "row"
    BY <1>7, <2>1
  <2> QED
    BY <1>6, <1>7, <2>1, <2>2, <2>3, <2>4 DEF TokenTypes
<1>13. ASSUME NEW m \in Members, Accept(m)
       PROVE  TypeInv'
  <2>1. row' = [row EXCEPT ![m] = "row"] /\ UNCHANGED <<browser, token, ledger>>
    BY <1>13 DEF Accept
  <2>2. PICK e \in EndTimes \cup {NoTime}, g \in BOOLEAN :
          ends' = [ends EXCEPT ![m] = e] /\ manages' = [manages EXCEPT ![m] = g]
    BY <1>13 DEF Accept
  <2>3. ends' \in [Members -> EndTimes \cup {NoTime}] /\ manages' \in [Members -> BOOLEAN]
    BY <1>7, <2>2
  <2>4. /\ row' \in [Members -> {"none", "row", "deleted"}]
        /\ \A s \in ledger' : row'[s.m] = "row"
        /\ tx # NoSend => row'[tx.m] = "row"
    BY <1>7, <2>1
  <2> QED
    BY <1>6, <1>7, <2>1, <2>3, <2>4 DEF TokenTypes
<1> QED
  BY <1>8, <1>9, <1>10, <1>11, <1>12, <1>13 DEF Handler

(* Every step.                                                              *)
LEMMA TypeStep == TypeInv /\ [Next]_vars => TypeInv'
<1> SUFFICES ASSUME TypeInv, [Next]_vars PROVE TypeInv'
  OBVIOUS
<1>1. CASE UNCHANGED vars
  BY <1>1 DEF vars, jobVars, wakeVars, memberVars, bounds, TypeInv, TypeOK, TokenTypes, TodoTypes, ClockTypes
<1> QED
  BY <1>1, TypeLook, TypeProcess, TypeHandler DEF Next

(* The rows, the ledger, the open transaction and the state of the loop     *)
(* have their types: a send refers to a membership that exists, and the     *)
(* ledger has no row of one that does not (deadlines.go).                   *)
THEOREM DeadlineTypes == Spec => []TypeOK
<1>1. TypeInv => TypeOK
  BY DEF TypeInv
<1> QED
  BY <1>1, TypeStart, TypeStep, PTL DEF Spec

-----------------------------------------------------------------------------
(* The job is a user of the ledger.                                        *)

\* The send that is open is not in the ledger.
TxInv == tx # NoSend => tx \notin ledger

Started == IF tx = NoSend THEN {} ELSE {tx}
Deleted == {m \in Members : row[m] = "deleted"}

(* A step that leaves the rows, the ledger and the transaction alone.       *)
LEMMA LedgerFrameStep ==
    ASSUME UNCHANGED <<row, ledger, tx>>
    PROVE  (TxInv => TxInv') /\ [Ledger!Next]_<<ledger, Started, Deleted>>
BY DEF TxInv, Started, Deleted

(* A step that ends the transaction, if one is open, without a commit.      *)
LEMMA AbandonsSend ==
    ASSUME UNCHANGED <<row, ledger>>, tx' = NoSend
    PROVE  TxInv' /\ [Ledger!Next]_<<ledger, Started, Deleted>>
<1>1. TxInv' /\ Started' = {} /\ Deleted' = Deleted
  BY DEF TxInv, Started, Deleted
<1>2. CASE tx = NoSend
  BY <1>1, <1>2 DEF Started
<1>3. CASE tx # NoSend
  <2>1. Ledger!Abandon(tx) /\ tx \in Started
    BY <1>1, <1>3 DEF Ledger!Abandon, Started, Deleted
  <2> QED
    BY <1>1, <2>1 DEF Ledger!Next, Started
<1> QED
  BY <1>2, <1>3

(* Every step of the look.                                                  *)
LEMMA LookRefines ==
    ASSUME TypeInv, TxInv, LookStep
    PROVE  TxInv' /\ [Ledger!Next]_<<ledger, Started, Deleted>>
<1> USE DEF jobVars, wakeVars, memberVars, bounds
<1>1. CASE ListTokens \/ ListSittings \/ ListFails \/ EndLook
  BY <1>1, LedgerFrameStep DEF ListTokens, ListSittings, ListFails, EndLook
<1>2. ASSUME NEW r \in todo, RowDone(r) \/ SendFails(r)
      PROVE  UNCHANGED <<row, ledger, tx>>
  BY <1>2 DEF RowDone, SendFails, HandleRow
<1>3. ASSUME NEW r \in todo, SendStarts(r)
      PROVE  TxInv' /\ Ledger!Next
  <2>1. /\ tx = NoSend /\ tx' = SendOf(r) /\ SendOf(r) \notin ledger
        /\ row[r.m] = "row" /\ UNCHANGED <<row, ledger>> /\ Due(r) # {}
    BY <1>3 DEF SendStarts, HandleRow
  <2>2. SendOf(r).m = r.m /\ SendOf(r) # NoSend
    BY <2>1, RowFacts, RecordTypes
  <2>3. Started = {} /\ Started' = {SendOf(r)} /\ Deleted' = Deleted /\ r.m \notin Deleted
    BY <2>1, <2>2 DEF Started, Deleted
  <2>4. Ledger!Start(SendOf(r))
    BY <2>1, <2>2, <2>3 DEF Ledger!Start, Started, Deleted
  <2> QED
    BY <2>1, <2>3, <2>4 DEF Ledger!Next, TxInv, Started
<1>4. CASE CommitSend
  <2>1. tx # NoSend /\ tx' = NoSend /\ ledger' = ledger \cup {tx} /\ row' = row
    BY <1>4 DEF CommitSend
  <2>2. Started = {tx} /\ Started' = {} /\ Deleted' = Deleted
    BY <2>1 DEF Started, Deleted
  <2>3. Ledger!Finish(tx)
    BY <2>1, <2>2 DEF Ledger!Finish, Started, Deleted
  <2> QED
    BY <2>1, <2>2, <2>3 DEF Ledger!Next, TxInv, Started
<1>5. CASE RollBackSend
  BY <1>5, AbandonsSend DEF RollBackSend
<1> QED
  BY <1>1, <1>2, <1>3, <1>4, <1>5, LedgerFrameStep DEF LookStep

(* Every step of a handler.                                                 *)
LEMMA HandlerRefines ==
    ASSUME TypeInv, TxInv, Handler
    PROVE  TxInv' /\ [Ledger!Next]_<<ledger, Started, Deleted>>
<1> USE DEF jobVars, wakeVars, memberVars, bounds, Writes
<1>0. row \in [Members -> {"none", "row", "deleted"}]
  BY DEF TypeInv, TypeOK
<1>1. ASSUME NEW k \in Tokens, RevokeToken(k) \/ \E m \in Members : CreateToken(k, m)
      PROVE  UNCHANGED <<row, ledger, tx>>
  BY <1>1 DEF RevokeToken, CreateToken
<1>2. ASSUME NEW m \in Members,
             SetMemberRole(m) \/ SetMembershipEnd(m) \/ SubscribeBrowser(m) \/ RemoveBrowser(m)
      PROVE  UNCHANGED <<row, ledger, tx>>
  BY <1>2 DEF SetMemberRole, SetMembershipEnd, SubscribeBrowser, RemoveBrowser
<1>3. ASSUME NEW m \in Members, Accept(m)
      PROVE  TxInv' /\ UNCHANGED <<ledger, Started, Deleted>>
  <2>1. row[m] # "deleted" /\ row' = [row EXCEPT ![m] = "row"] /\ UNCHANGED <<ledger, tx>>
    BY <1>3 DEF Accept
  <2>2. Deleted' = Deleted
    BY <1>0, <2>1 DEF Deleted
  <2> QED
    BY <2>1, <2>2 DEF TxInv, Started
<1>4. ASSUME NEW m \in Members, RemoveMember(m)
      PROVE  TxInv' /\ Ledger!Next
  <2>1. /\ row' = [row EXCEPT ![m] = "deleted"] /\ ledger' = {s \in ledger : s.m # m}
        /\ tx' = tx /\ (tx # NoSend => tx.m # m)
    BY <1>4 DEF RemoveMember
  <2>2. Deleted' = Deleted \cup {m} /\ Started' = Started
    BY <1>0, <2>1 DEF Deleted, Started
  <2>3. \A s \in Started : s.m \notin {m}
    BY <2>1 DEF Started
  <2>4. Ledger!Delete({m})
    BY <2>1, <2>2, <2>3 DEF Ledger!Delete, Started, Deleted
  <2> QED
    BY <2>1, <2>4 DEF Ledger!Next, TxInv
<1> QED
  BY <1>1, <1>2, <1>3, <1>4, LedgerFrameStep DEF Handler

(* The deadlines job implements SendLedger: whatever fails, restarts or is  *)
(* changed while a send is going on, a notification whose row is committed  *)
(* is never started again (send, deadlines.go).                             *)
THEOREM DeadlinesImplementLedger == Spec => SendsOnce
<1> USE DEF jobVars, wakeVars, memberVars, bounds
<1>1. Init => Ledger!Init /\ TxInv
  BY DEF Init, Ledger!Init, TxInv
<1>2. TypeInv /\ TxInv /\ [Next]_vars => TxInv' /\ [Ledger!Next]_<<ledger, Started, Deleted>>
  <2> SUFFICES ASSUME TypeInv, TxInv, [Next]_vars
               PROVE  TxInv' /\ [Ledger!Next]_<<ledger, Started, Deleted>>
    OBVIOUS
  <2>1. CASE Clock \/ Wakes \/ HandlerWakes \/ Starts
    BY <2>1, LedgerFrameStep DEF Clock, Wakes, HandlerWakes, Starts
  <2>2. CASE Stops
    BY <2>2, AbandonsSend DEF Stops
  <2>3. CASE UNCHANGED vars
    BY <2>3, LedgerFrameStep DEF vars
  <2> QED
    BY <2>1, <2>2, <2>3, LookRefines, HandlerRefines DEF Next
<1> QED
  BY <1>1, <1>2, TypeStart, TypeStep, PTL DEF Spec, SendsOnce, Ledger!Spec, Started, Deleted

-----------------------------------------------------------------------------
(* No deadline is lost.  Unless a wake is on its way, every row the lists  *)
(* would have now is still to be handled or is covered: its notification   *)
(* is in the ledger, is being sent, or is one the job looks again for.     *)

Quiet == ~wake /\ calls = 0

Covered(s, at) == s \in ledger \/ tx = s \/ LooksBy(at)

SittingRow(m, r) == [m |-> r, key |-> sittingKey(m), at |-> ends[m]]

WarningOwed(k) == WarnAt(TokenRow(k)) > token[k].created /\ Resolve(k, now)

TokenCovered(k) ==
    /\ Covered(TokenExpired(k), token[k].expires)
    /\ WarningOwed(k) => Covered(TokenWarning(k), WarnAt(TokenRow(k)))

SittingCovered(m, r) == Covered(SittingEnded(m, r), ends[m])

TokensCovered ==
    pc \in {"tokens", "sittings", "asleep"} =>
        \A k \in Tokens : TokenListed(k, now) =>
            (pc = "tokens" /\ TokenRow(k) \in todo) \/ TokenCovered(k)

SittingsCovered ==
    pc \in {"sittings", "asleep"} =>
        \A m, r \in Members : SittingListed(m, r, now) =>
            (pc = "sittings" /\ SittingRow(m, r) \in todo) \/ SittingCovered(m, r)

WakeInv == Quiet => TokensCovered /\ SittingsCovered

(* The instants of the state.                                               *)
LEMMA Instants ==
    ASSUME TypeInv
    PROVE  /\ now \in Nat /\ lookNow \in Nat /\ lookNow <= now
           /\ next = NoTime \/ next \in Nat
           /\ \A m \in Members : ends[m] \in Int
<1>1. /\ now \in Time /\ lookNow \in Time /\ lookNow <= now /\ (next = NoTime \/ next \in Nat)
      /\ ends \in [Members -> EndTimes \cup {NoTime}]
  BY DEF TypeInv, TypeOK, ClockTypes
<1>2. EndTimes \cup {NoTime} \subseteq Int /\ Time \subseteq Nat
  BY ConstantTypes
<1> QED
  BY <1>1, <1>2

(* A listed token.                                                          *)
LEMMA ListedToken ==
    ASSUME TypeInv, NEW k \in Tokens, TokenListed(k, now)
    PROVE  /\ token[k].by \in Members /\ token[k].created \in Nat /\ token[k].expires \in Nat
           /\ row[token[k].by] = "row"
           /\ WarnAt(TokenRow(k)) = token[k].expires - warnBefore
           /\ WarnAt(TokenRow(k)) \in Int
<1>1. token[k].by \in Members /\ token[k].created \in Nat /\ token[k].expires \in Nat
  BY LiveToken DEF TypeInv, TokenListed
<1>2. WarnAt(TokenRow(k)) = token[k].expires - warnBefore
  BY DEF WarnAt, TokenRow
<1> QED
  BY <1>1, <1>2, ConstantTypes DEF TokenListed, CreatorCanManage, Live

\* No membership, browser or access is added, and no date or token changes.
Shrinks ==
    /\ UNCHANGED <<ends, manages, token>>
    /\ \A m \in Members : (row'[m] = "row" => row[m] = "row") /\ (browser'[m] => browser[m])

(* What is owed after such a step was owed before it.                       *)
LEMMA OwedBefore ==
    ASSUME TypeInv, TypeInv', Shrinks, now <= now'
    PROVE  /\ \A k \in Tokens :
                 /\ TokenListed(k, now)' =>
                       /\ TokenListed(k, now)
                       /\ row'[token[k].by] = "row"
                       /\ WarningOwed(k)' => WarningOwed(k)
           /\ \A m, r \in Members :
                 SittingListed(m, r, now)' => SittingListed(m, r, now) /\ row'[r] = "row"
<1>0. now \in Nat /\ now' \in Nat /\ maxDeadlineLate \in Nat /\ \A m \in Members : ends[m] \in Int
  BY Instants, ConstantTypes DEF TypeInv, TypeOK
<1>1. \A m \in Members : Live(m, now)' => Live(m, now)
  BY <1>0 DEF Live, Shrinks
<1>2. ASSUME NEW k \in Tokens, TokenListed(k, now)'
      PROVE  /\ TokenListed(k, now) /\ row'[token[k].by] = "row"
             /\ WarningOwed(k)' => WarningOwed(k)
  <2>1. token'[k] = token[k] /\ token[k].state = "live"
    BY <1>2 DEF TokenListed, Shrinks
  <2>2. token[k].by \in Members /\ token[k].expires \in Nat
    BY <2>1, LiveToken DEF TypeInv
  <2>3. CreatorCanManage(k, now)' => CreatorCanManage(k, now)
    BY <1>1, <2>1, <2>2 DEF CreatorCanManage, Shrinks
  <2>4. CreatorCanManage(k, now)'
    BY <1>2 DEF TokenListed
  <2>5. token[k].expires > now - maxDeadlineLate
    BY <1>0, <1>2, <2>1, <2>2 DEF TokenListed
  <2>6. TokenListed(k, now)
    BY <1>2, <2>1, <2>2, <2>3, <2>4, <2>5 DEF TokenListed, Shrinks
  <2>7. row'[token[k].by] = "row"
    BY <2>1, <2>4 DEF CreatorCanManage, Live
  <2>8. ASSUME WarningOwed(k)' PROVE WarningOwed(k)
    <3>1. now < token[k].expires
      BY <1>0, <2>1, <2>2, <2>8 DEF WarningOwed, Resolve
    <3>2. WarnAt(TokenRow(k))' = WarnAt(TokenRow(k))
      BY <2>1 DEF WarnAt, TokenRow
    <3> QED
      BY <2>1, <2>3, <2>4, <2>8, <3>1, <3>2 DEF WarningOwed, Resolve
  <2> QED
    BY <2>6, <2>7, <2>8
<1>3. ASSUME NEW m \in Members, NEW r \in Members, SittingListed(m, r, now)'
      PROVE  SittingListed(m, r, now) /\ row'[r] = "row"
  <2>1. ends'[m] = ends[m] /\ ends[m] \in Int
    BY <1>0 DEF Shrinks
  <2>2. ends[m] > now - maxDeadlineLate
    BY <1>0, <1>3, <2>1 DEF SittingListed
  <2>3. r \in Recipients(m, now)
    BY <1>1, <1>3 DEF SittingListed, Recipients
  <2> QED
    BY <1>3, <2>1, <2>2, <2>3 DEF SittingListed, Shrinks
<1> QED
  BY <1>2, <1>3

\* The timer, if there is one, is left alone or brought forward.
BroughtForward == next # NoTime => next' # NoTime /\ next' <= next

(* An earlier timer, and a later clock.                                     *)
LEMMA StillBy ==
    ASSUME NEW n \in Int, NEW o \in Int, NEW t \in Int, NEW u \in Int, NEW d \in Int,
           n <= t + d, o <= n, t <= u
    PROVE  o <= u + d
OBVIOUS

(* A timer that is early enough stays so.                                   *)
LEMMA LooksByKept ==
    ASSUME TypeInv, TypeInv', NEW at \in Int, LooksBy(at), now <= now', BroughtForward, failed => failed'
    PROVE  LooksBy(at)'
<1>1. /\ now \in Int /\ now' \in Int /\ next \in Int /\ next' \in Int /\ RetryAfter \in Int
  BY ConstantTypes DEF TypeInv, TypeOK
<1>0. next' # NoTime /\ next' <= next
  BY DEF LooksBy, BroughtForward
<1>2. CASE next <= at
  <2>1. next' <= at
    BY <1>0, <1>1, <1>2
  <2> QED
    BY <1>0, <2>1 DEF LooksBy
<1>3. CASE failed /\ next <= now + RetryAfter
  <2>0. next <= now + RetryAfter
    BY <1>3
  <2>1. next' <= now' + RetryAfter
    BY <1>0, <1>1, <2>0, StillBy
  <2>2. failed'
    BY <1>3
  <2> QED
    BY <1>0, <2>1, <2>2 DEF LooksBy
<1> QED
  BY <1>2, <1>3 DEF LooksBy

\* The ledger rows and the send of a membership that is still there stay, and
\* a send that ends is in the ledger.
SendsKept ==
    \A s \in Deliverable :
        row'[s.m] = "row" /\ (s \in ledger \/ tx = s) => s \in ledger' \/ tx' = s

(* A notification that is covered stays covered.                            *)
LEMMA CoveredKept ==
    ASSUME TypeInv, TypeInv', NEW s \in Deliverable, NEW at \in Int, Covered(s, at),
           row'[s.m] = "row", SendsKept, now <= now', BroughtForward, failed => failed'
    PROVE  s \in ledger' \/ tx' = s \/ LooksBy(at)'
BY LooksByKept DEF Covered, SendsKept

(* With a retry coming, all that is owed is looked for again.               *)
LEMMA RetryCovers ==
    ASSUME failed', next' # NoTime, next' <= now' + RetryAfter
    PROVE  WakeInv'
BY DEF WakeInv, TokensCovered, SittingsCovered, TokenCovered, SittingCovered, Covered, LooksBy

(* A handler that has yet to call Wake, a wake in the channel, or a job     *)
(* that is about to look or does not run.                                   *)
LEMMA NothingAsked ==
    ASSUME ~Quiet' \/ pc' \in {"look", "down", "stopped"}
    PROVE  WakeInv'
BY DEF WakeInv, TokensCovered, SittingsCovered

(* What covers a token goes on doing so in a step that takes nothing back.  *)
LEMMA TokenCoveredKept ==
    ASSUME TypeInv, TypeInv', Shrinks, SendsKept, BroughtForward, now <= now', failed => failed',
           NEW k \in Tokens, TokenListed(k, now)', TokenCovered(k)
    PROVE  TokenCovered(k)'
<1>1. TokenListed(k, now) /\ row'[token[k].by] = "row" /\ (WarningOwed(k)' => WarningOwed(k))
  BY OwedBefore
<1>2. /\ token[k].by \in Members /\ token[k].expires \in Int /\ WarnAt(TokenRow(k)) \in Int
      /\ token'[k] = token[k] /\ WarnAt(TokenRow(k))' = WarnAt(TokenRow(k))
  BY <1>1, ListedToken DEF Shrinks, WarnAt, TokenRow
<1>3. /\ TokenExpired(k) \in Deliverable /\ TokenExpired(k).m = token[k].by
      /\ TokenWarning(k) \in Deliverable /\ TokenWarning(k).m = token[k].by
  BY <1>2, RecordTypes DEF TokenExpired, TokenWarning
<1>4. TokenExpired(k)' = TokenExpired(k) /\ TokenWarning(k)' = TokenWarning(k)
  BY <1>2 DEF TokenExpired, TokenWarning
<1>5. Covered(TokenExpired(k), token[k].expires)'
  BY <1>1, <1>2, <1>3, <1>4, CoveredKept DEF TokenCovered, Covered
<1>6. WarningOwed(k)' => Covered(TokenWarning(k), WarnAt(TokenRow(k)))'
  BY <1>1, <1>2, <1>3, <1>4, CoveredKept DEF TokenCovered, Covered
<1> QED
  BY <1>5, <1>6 DEF TokenCovered

(* Likewise a sitting.                                                      *)
LEMMA SittingCoveredKept ==
    ASSUME TypeInv, TypeInv', Shrinks, SendsKept, BroughtForward, now <= now', failed => failed',
           NEW m \in Members, NEW r \in Members, SittingListed(m, r, now)', SittingCovered(m, r)
    PROVE  SittingCovered(m, r)'
<1>1. SittingListed(m, r, now) /\ row'[r] = "row"
  BY OwedBefore
<1>2. ends[m] \in EndTimes /\ ends[m] \in Int /\ ends'[m] = ends[m]
  BY <1>1, Instants DEF Shrinks, SittingListed, TypeInv, TypeOK
<1>3. SittingEnded(m, r) \in Deliverable /\ SittingEnded(m, r).m = r
  BY <1>2, RecordTypes DEF SittingEnded, sittingKey
<1>4. SittingEnded(m, r)' = SittingEnded(m, r)
  BY <1>2 DEF SittingEnded, sittingKey
<1> QED
  BY <1>1, <1>2, <1>3, <1>4, CoveredKept DEF SittingCovered, Covered

(* The clock, a send that is committed, and the changes after which no      *)
(* handler calls Wake.                                                      *)
LEMMA ShrinkKeeps ==
    ASSUME TypeInv, TypeInv', WakeInv, Shrinks, SendsKept, now <= now',
           UNCHANGED <<pc, next, failed, wake, calls, todo>>
    PROVE  WakeInv'
<1>0. BroughtForward
  <2>1. next # NoTime => next \in Nat
    BY Instants
  <2> QED
    BY <2>1 DEF BroughtForward
<1> SUFFICES ASSUME Quiet' PROVE TokensCovered' /\ SittingsCovered'
  BY DEF WakeInv
<1>1. TokensCovered /\ SittingsCovered
  BY DEF WakeInv, Quiet
<1>2. TokensCovered'
  <2> SUFFICES ASSUME pc \in {"tokens", "sittings", "asleep"}, NEW k \in Tokens, TokenListed(k, now)'
               PROVE  (pc' = "tokens" /\ TokenRow(k)' \in todo') \/ TokenCovered(k)'
    BY DEF TokensCovered
  <2>1. (pc = "tokens" /\ TokenRow(k) \in todo) \/ TokenCovered(k)
    BY <1>1, OwedBefore DEF TokensCovered
  <2>2. TokenRow(k)' = TokenRow(k)
    BY DEF TokenRow, Shrinks
  <2>3. TokenCovered(k) => TokenCovered(k)'
    BY <1>0, TokenCoveredKept
  <2> QED
    BY <2>1, <2>2, <2>3
<1>3. SittingsCovered'
  <2> SUFFICES ASSUME pc \in {"sittings", "asleep"}, NEW m \in Members, NEW r \in Members,
                      SittingListed(m, r, now)'
               PROVE  (pc' = "sittings" /\ SittingRow(m, r)' \in todo') \/ SittingCovered(m, r)'
    BY DEF SittingsCovered
  <2>1. (pc = "sittings" /\ SittingRow(m, r) \in todo) \/ SittingCovered(m, r)
    BY <1>1, OwedBefore DEF SittingsCovered
  <2>2. SittingRow(m, r)' = SittingRow(m, r)
    BY DEF SittingRow, sittingKey, Shrinks
  <2>3. SittingCovered(m, r) => SittingCovered(m, r)'
    BY <1>0, SittingCoveredKept
  <2> QED
    BY <2>1, <2>2, <2>3
<1> QED
  BY <1>2, <1>3

(* A token's row that is done or is being sent: its expiry and its warning  *)
(* are in the ledger, being sent, or asked for.                             *)
LEMMA TokenRowDone ==
    ASSUME TypeInv, TypeInv', pc = "tokens", NEW k \in Tokens, TokenListed(k, now),
           TokenRow(k) \in todo, UNCHANGED <<now, token, row, ends, manages>>,
           next' = Sooner(next, TokenRow(k)),
           Due(TokenRow(k)) # {} => SendOf(TokenRow(k)) \in ledger' \/ tx' = SendOf(TokenRow(k))
    PROVE  TokenCovered(k)'
<1> DEFINE r == TokenRow(k)
           e == token[k].expires
           w == WarnAt(r)
<1>0. r \in todo /\ lookNow \in Nat /\ now \in Nat /\ lookNow <= now
  BY Instants
<1>1. /\ e \in Nat /\ token[k].created \in Nat /\ w = e - warnBefore /\ w \in Int /\ w <= e
      /\ warnBefore \in Nat
  BY ListedToken, ConstantTypes
<1>2. r.at = e /\ r.created = token[k].created /\ r.m = token[k].by /\ r.key = k
  BY DEF TokenRow
<1>3. /\ Coming(r) # NoTime => next' # NoTime /\ next' <= Coming(r)
  BY <1>0, SoonerType
<1>4. /\ token'[k] = token[k] /\ TokenRow(k)' = r /\ WarnAt(TokenRow(k))' = w
      /\ TokenExpired(k)' = TokenExpired(k) /\ TokenWarning(k)' = TokenWarning(k)
      /\ WarningOwed(k)' => WarningOwed(k)
  BY DEF TokenRow, WarnAt, TokenExpired, TokenWarning, WarningOwed, Resolve, CreatorCanManage, Live
<1>5. Warns(r) <=> w > token[k].created
  BY <1>2 DEF Warns
<1>6. NoTime = -1
  BY ConstantTypes
<1>7. SUFFICES /\ \/ TokenExpired(k) \in ledger' \/ tx' = TokenExpired(k)
                  \/ next' # NoTime /\ next' <= e
               /\ WarningOwed(k) => \/ TokenWarning(k) \in ledger' \/ tx' = TokenWarning(k)
                                    \/ next' # NoTime /\ next' <= w
  BY <1>4 DEF TokenCovered, Covered, LooksBy
<1>12. w = WarnAt(r) /\ (Due(r) # {} => SendOf(r) \in ledger' \/ tx' = SendOf(r))
  OBVIOUS
<1>13. WarningOwed(k) => now < e
  BY DEF WarningOwed, Resolve
<1> HIDE DEF r, e, w
<1>8. CASE e <= lookNow
  <2>1. Due(r) = {"token_expired"}
    BY <1>0, <1>1, <1>2, <1>8 DEF Due
  <2>2. SendOf(r) = TokenExpired(k)
    BY <1>2, <2>1 DEF SendOf, TokenExpired
  <2>3. ~WarningOwed(k)
    BY <1>0, <1>1, <1>8, <1>13
  <2> QED
    BY <1>12, <2>1, <2>2, <2>3
<1>9. CASE e > lookNow /\ Warns(r) /\ w <= lookNow
  <2>1. Due(r) = {"token_expiring"}
    BY <1>0, <1>1, <1>2, <1>9, <1>12 DEF Due
  <2>2. SendOf(r) = TokenWarning(k)
    BY <1>2, <2>1 DEF SendOf, TokenWarning
  <2>3. Coming(r) = e /\ e # NoTime
    BY <1>0, <1>1, <1>2, <1>6, <1>9, <1>12 DEF Coming
  <2> QED
    BY <1>3, <1>12, <2>1, <2>2, <2>3
<1>10. CASE e > lookNow /\ Warns(r) /\ w > lookNow
  <2>0. w # NoTime
    BY <1>0, <1>1, <1>6, <1>10
  <2>1. Coming(r) = w /\ w # NoTime
    BY <1>10, <1>12, <2>0 DEF Coming
  <2>2. next' # NoTime /\ next' <= w /\ next' \in Int
    BY <1>3, <2>1 DEF TypeInv, TypeOK
  <2>3. next' <= e
    BY <1>1, <2>2
  <2> QED
    BY <2>2, <2>3
<1>11. CASE e > lookNow /\ ~Warns(r)
  <2>1. Coming(r) = e /\ e # NoTime
    BY <1>0, <1>1, <1>2, <1>6, <1>11 DEF Coming
  <2>2. ~WarningOwed(k)
    BY <1>5, <1>11, <1>12 DEF WarningOwed, r
  <2> QED
    BY <1>3, <2>1, <2>2
<1> QED
  BY <1>0, <1>1, <1>8, <1>9, <1>10, <1>11

(* Likewise a sitting's row.                                                *)
LEMMA SittingRowDone ==
    ASSUME TypeInv, TypeInv', pc = "sittings", NEW m \in Members, NEW r \in Members,
           SittingRow(m, r) \in todo, UNCHANGED ends,
           next' = Sooner(next, SittingRow(m, r)),
           Due(SittingRow(m, r)) # {} =>
              SendOf(SittingRow(m, r)) \in ledger' \/ tx' = SendOf(SittingRow(m, r))
    PROVE  SittingCovered(m, r)'
<1> DEFINE x == SittingRow(m, r)
<1>0. x \in todo /\ lookNow \in Nat /\ x.at \in Nat
  BY Instants, RowFacts
<1>1. x.at = ends[m] /\ x.m = r /\ x.key = sittingKey(m)
  BY DEF SittingRow
<1>2. SittingEnded(m, r)' = SittingEnded(m, r)
  BY DEF SittingEnded, sittingKey
<1>3. Coming(x) # NoTime => next' # NoTime /\ next' <= Coming(x)
  BY <1>0, SoonerType
<1>4. CASE x.at <= lookNow
  <2>1. Due(x) = {"sitting_ended"}
    BY <1>4 DEF Due
  <2>2. SendOf(x) = SittingEnded(m, r)
    BY <1>1, <2>1 DEF SendOf, SittingEnded
  <2> QED
    BY <1>2, <2>1, <2>2 DEF SittingCovered, Covered
<1>5. CASE x.at > lookNow
  <2>1. Coming(x) = x.at
    BY <1>5 DEF Coming, Warns
  <2>2. x.at # NoTime
    BY <1>0, ConstantTypes
  <2> QED
    BY <1>1, <1>2, <1>3, <2>1, <2>2 DEF SittingCovered, Covered, LooksBy
<1> QED
  BY <1>0, <1>4, <1>5

(* A row that is handled.                                                   *)
LEMMA WakeRow ==
    ASSUME TypeInv, TypeInv', WakeInv, NEW q \in todo, RowDone(q) \/ SendStarts(q) \/ SendFails(q)
    PROVE  WakeInv'
<1> USE DEF jobVars, wakeVars, memberVars
<1>1. /\ tx = NoSend /\ todo' = todo \ {q} /\ pc \in {"tokens", "sittings"}
      /\ UNCHANGED <<now, pc, lookNow, wakeVars, memberVars, token, ledger>>
  BY DEF RowDone, SendStarts, SendFails, HandleRow
<1>2. /\ now \in Nat /\ lookNow \in Nat /\ lookNow <= now /\ RetryAfter \in Nat
      /\ next = NoTime \/ next \in Nat
  BY Instants, ConstantTypes
<1>3. CASE SendFails(q)
  <2>1. Sooner(next, q) = NoTime \/ Sooner(next, q) \in Nat
    BY SoonerType
  <2>2. lookNow + RetryAfter \in Nat
    BY <1>2
  <2>3. next' = soonest(Sooner(next, q), lookNow + RetryAfter) /\ failed'
    BY <1>3 DEF SendFails
  <2>4. next' # NoTime /\ next' \in Nat /\ next' <= lookNow + RetryAfter
    BY <2>1, <2>2, <2>3, SoonestType
  <2>5. next' <= now' + RetryAfter
    BY <1>1, <1>2, <2>4
  <2> QED
    BY <2>3, <2>4, <2>5, RetryCovers
<1>4. CASE RowDone(q) \/ SendStarts(q)
  <2>1. /\ next' = Sooner(next, q) /\ failed' = failed
        /\ Due(q) # {} => SendOf(q) \in ledger' \/ tx' = SendOf(q)
    BY <1>1, <1>4 DEF RowDone, SendStarts
  <2>2. BroughtForward
    BY <2>1, SoonerType DEF BroughtForward
  <2>3. SendsKept
    BY <1>1, RecordTypes DEF SendsKept
  <2>4. Shrinks /\ now <= now'
    BY <1>1, <1>2 DEF Shrinks
  <2> SUFFICES ASSUME Quiet' PROVE TokensCovered' /\ SittingsCovered'
    BY DEF WakeInv
  <2>5. TokensCovered /\ SittingsCovered
    BY <1>1 DEF WakeInv, Quiet
  <2>6. ASSUME NEW k \in Tokens, TokenListed(k, now)'
        PROVE  (pc' = "tokens" /\ TokenRow(k)' \in todo') \/ TokenCovered(k)'
    <3>1. TokenListed(k, now)
      BY <2>4, <2>6, OwedBefore
    <3>2. (pc = "tokens" /\ TokenRow(k) \in todo) \/ TokenCovered(k)
      BY <1>1, <2>5, <3>1 DEF TokensCovered
    <3>3. TokenRow(k)' = TokenRow(k)
      BY <1>1 DEF TokenRow
    <3>4. CASE TokenCovered(k)
      BY <2>1, <2>2, <2>3, <2>4, <2>6, <3>4, TokenCoveredKept
    <3>5. CASE pc = "tokens" /\ TokenRow(k) \in todo /\ TokenRow(k) # q
      BY <1>1, <3>3, <3>5
    <3>6. CASE pc = "tokens" /\ TokenRow(k) = q
      BY <1>1, <2>1, <3>1, <3>6, TokenRowDone
    <3> QED
      BY <3>2, <3>4, <3>5, <3>6
  <2>7. ASSUME pc = "sittings", NEW m \in Members, NEW r \in Members, SittingListed(m, r, now)'
        PROVE  SittingRow(m, r)' \in todo' \/ SittingCovered(m, r)'
    <3>1. SittingListed(m, r, now)
      BY <2>4, <2>7, OwedBefore
    <3>2. SittingRow(m, r) \in todo \/ SittingCovered(m, r)
      BY <2>5, <2>7, <3>1 DEF SittingsCovered
    <3>3. SittingRow(m, r)' = SittingRow(m, r)
      BY <1>1 DEF SittingRow, sittingKey
    <3>4. CASE SittingCovered(m, r)
      BY <2>1, <2>2, <2>3, <2>4, <2>7, <3>4, SittingCoveredKept
    <3>5. CASE SittingRow(m, r) \in todo /\ SittingRow(m, r) # q
      BY <1>1, <3>3, <3>5
    <3>6. CASE SittingRow(m, r) = q
      BY <1>1, <2>1, <2>7, <3>6, SittingRowDone
    <3> QED
      BY <3>2, <3>4, <3>5, <3>6
  <2> QED
    BY <1>1, <2>6, <2>7 DEF TokensCovered, SittingsCovered
<1> QED
  BY <1>3, <1>4

(* A step of the look.                                                      *)
LEMMA WakeLook ==
    ASSUME TypeInv, TypeInv', WakeInv, LookStep
    PROVE  WakeInv'
<1> USE DEF jobVars, wakeVars, memberVars, bounds
<1>0. now \in Nat /\ lookNow \in Nat /\ lookNow <= now /\ RetryAfter \in Nat /\ maxDeadlineLate \in Nat
  BY Instants, ConstantTypes
<1>1. CASE ListTokens
  <2>1. \A k \in Tokens : TokenListed(k, now)' => TokenRow(k)' \in todo'
    BY <1>1 DEF ListTokens, TokenListed, CreatorCanManage, Live, TokenRow
  <2> QED
    BY <1>1, <2>1 DEF ListTokens, WakeInv, TokensCovered, SittingsCovered
<1>2. CASE ListSittings
  <2>1. /\ pc = "tokens" /\ pc' = "sittings" /\ todo = {}
        /\ UNCHANGED <<now, lookNow, next, failed, wakeVars, memberVars, token, ledger, tx>>
        /\ todo' = {SittingRow(x[1], x[2]) :
                      x \in {y \in Members \X Members : SittingListed(y[1], y[2], lookNow)}}
    BY <1>2 DEF ListSittings, SittingRow
  <2>2. \A m \in Members : Live(m, now) => Live(m, lookNow)
    <3>1. \A m \in Members : ends[m] \in Int
      BY Instants
    <3> QED
      BY <1>0, <3>1 DEF Live
  <2>3. ASSUME NEW m \in Members, NEW r \in Members, SittingListed(m, r, now)
        PROVE  SittingListed(m, r, lookNow)
    <3>1. ends[m] \in Int /\ ends[m] > now - maxDeadlineLate
      BY <2>3, Instants DEF SittingListed
    <3>2. ends[m] > lookNow - maxDeadlineLate
      BY <1>0, <3>1
    <3>3. r \in Recipients(m, lookNow)
      BY <2>2, <2>3 DEF SittingListed, Recipients
    <3> QED
      BY <2>3, <3>2, <3>3 DEF SittingListed
  <2>4. ASSUME NEW m \in Members, NEW r \in Members, SittingListed(m, r, now)
        PROVE  SittingRow(m, r) \in todo'
    <3>1. <<m, r>> \in {y \in Members \X Members : SittingListed(y[1], y[2], lookNow)}
      BY <2>3, <2>4
    <3> QED
      BY <2>1, <3>1
  <2>5. \A m, r \in Members : SittingListed(m, r, now)' =>
           SittingListed(m, r, now) /\ SittingRow(m, r)' = SittingRow(m, r)
    BY <2>1 DEF SittingListed, Recipients, Live, SittingRow, sittingKey
  <2>6. SittingsCovered'
    BY <2>1, <2>4, <2>5 DEF SittingsCovered
  <2>7. ASSUME Quiet PROVE TokensCovered'
    <3>1. \A k \in Tokens : TokenListed(k, now) => TokenCovered(k)
      BY <2>1, <2>7 DEF WakeInv, TokensCovered
    <3>2. \A k \in Tokens : TokenListed(k, now)' = TokenListed(k, now)
      BY <2>1 DEF TokenListed, CreatorCanManage, Live
    <3>3. \A k \in Tokens : TokenCovered(k)' = TokenCovered(k)
      BY <2>1 DEF TokenCovered, Covered, WarningOwed, Resolve, CreatorCanManage, Live, LooksBy,
                  TokenExpired, TokenWarning, WarnAt, TokenRow
    <3> QED
      BY <3>1, <3>2, <3>3 DEF TokensCovered
  <2>8. Quiet' => Quiet
    BY <2>1 DEF Quiet
  <2> QED
    BY <2>6, <2>7, <2>8 DEF WakeInv
<1>3. CASE ListFails
  <2>1. failed' /\ next' = now + RetryAfter /\ now' = now
    BY <1>3 DEF ListFails, LookFailed
  <2>2. next' # NoTime /\ next' <= now' + RetryAfter
    BY <1>0, <2>1, ConstantTypes
  <2> QED
    BY <2>1, <2>2, RetryCovers
<1>4. CASE EndLook
  <2>1. /\ pc = "sittings" /\ pc' = "asleep" /\ todo = {} /\ todo' = {}
        /\ UNCHANGED <<now, lookNow, next, failed, wakeVars, memberVars, token, ledger, tx>>
    BY <1>4 DEF EndLook, Sleep
  <2>2. \A k \in Tokens : /\ TokenListed(k, now)' = TokenListed(k, now)
                          /\ TokenCovered(k)' = TokenCovered(k)
    BY <2>1 DEF TokenListed, CreatorCanManage, Live, TokenCovered, Covered, WarningOwed, Resolve,
                LooksBy, TokenExpired, TokenWarning, WarnAt, TokenRow
  <2>3. \A m, r \in Members : /\ SittingListed(m, r, now)' = SittingListed(m, r, now)
                              /\ SittingCovered(m, r)' = SittingCovered(m, r)
    BY <2>1 DEF SittingListed, Recipients, Live, SittingCovered, Covered, LooksBy, SittingEnded,
                sittingKey
  <2> QED
    BY <2>1, <2>2, <2>3 DEF WakeInv, Quiet, TokensCovered, SittingsCovered
<1>5. ASSUME NEW q \in todo, RowDone(q) \/ SendStarts(q) \/ SendFails(q)
      PROVE  WakeInv'
  BY <1>5, WakeRow
<1>6. CASE CommitSend
  <2>1. /\ ledger' = ledger \cup {tx} /\ tx' = NoSend /\ tx # NoSend
        /\ UNCHANGED <<now, pc, next, failed, wake, calls, todo, row, ends, manages, token>>
        /\ browser' \in {browser, [browser EXCEPT ![tx.m] = FALSE]}
    BY <1>6 DEF CommitSend
  <2>2. Shrinks
    BY <2>1 DEF Shrinks, TypeInv, TypeOK
  <2>3. SendsKept
    BY <2>1 DEF SendsKept
  <2> QED
    BY <1>0, <2>1, <2>2, <2>3, ShrinkKeeps
<1>7. CASE RollBackSend
  <2>1. next' = soonest(next, lookNow + RetryAfter) /\ failed' /\ now' = now
    BY <1>7 DEF RollBackSend
  <2>2. lookNow + RetryAfter \in Nat /\ (next = NoTime \/ next \in Nat)
    BY <1>0, Instants
  <2>3. next' # NoTime /\ next' \in Nat /\ next' <= lookNow + RetryAfter
    BY <2>1, <2>2, SoonestType
  <2>4. next' <= now' + RetryAfter
    BY <1>0, <2>1, <2>3
  <2> QED
    BY <2>1, <2>3, <2>4, RetryCovers
<1> QED
  BY <1>1, <1>2, <1>3, <1>4, <1>5, <1>6, <1>7 DEF LookStep

(* A handler, and the process.                                              *)
LEMMA WakeOthers ==
    ASSUME TypeInv, TypeInv', WakeInv,
           Clock \/ Wakes \/ HandlerWakes \/ Starts \/ Stops \/ Handler \/ UNCHANGED vars
    PROVE  WakeInv'
<1> USE DEF jobVars, wakeVars, memberVars, bounds
<1>0. now \in Nat /\ now' \in Nat /\ calls \in Nat
  BY Instants, ConstantTypes DEF TypeInv, TypeOK
<1>1. CASE Clock \/ UNCHANGED vars
  <2>1. /\ UNCHANGED <<pc, next, failed, wake, calls, todo, row, ends, manages, browser, token, ledger, tx>>
        /\ now' \in {now, now + 1}
    BY <1>1 DEF Clock, Tick, vars
  <2>2. now <= now'
    BY <1>0, <2>1
  <2> QED
    BY <2>1, <2>2, ShrinkKeeps DEF Shrinks, SendsKept
<1>2. CASE Wakes \/ Starts \/ Stops
  BY <1>2, NothingAsked DEF Wakes, Woken, Fired, Starts, StartJob, Stops, StopJob, Exit
<1>3. CASE HandlerWakes
  <2>1. ~Quiet'
    BY <1>3 DEF HandlerWakes, CallWake, Quiet
  <2> QED
    BY <2>1, NothingAsked
<1>4. ASSUME CommittedChange PROVE WakeInv'
  <2>1. calls' # 0
    BY <1>0, <1>4 DEF CommittedChange
  <2> QED
    BY <2>1, NothingAsked DEF Quiet
<1>5. ASSUME NEW m \in Members, RemoveMember(m)
      PROVE  WakeInv'
  <2>1. /\ row' = [row EXCEPT ![m] = "deleted"] /\ ledger' = {s \in ledger : s.m # m}
        /\ UNCHANGED <<now, pc, next, failed, wake, calls, todo, tx, ends, manages, browser, token>>
    BY <1>5 DEF RemoveMember, Writes
  <2>2. row \in [Members -> {"none", "row", "deleted"}]
    BY DEF TypeInv, TypeOK
  <2>3. Shrinks
    BY <2>1, <2>2 DEF Shrinks
  <2>4. SendsKept
    BY <2>1, <2>2 DEF SendsKept
  <2> QED
    BY <1>0, <2>1, <2>3, <2>4, ShrinkKeeps
<1>6. ASSUME NEW m \in Members, RemoveBrowser(m)
      PROVE  WakeInv'
  <2>1. /\ browser' = [browser EXCEPT ![m] = FALSE]
        /\ UNCHANGED <<now, pc, next, failed, wake, calls, todo, tx, row, ends, manages, token, ledger>>
    BY <1>6 DEF RemoveBrowser, Writes
  <2>2. Shrinks
    BY <2>1 DEF Shrinks, TypeInv, TypeOK
  <2>3. SendsKept
    BY <2>1 DEF SendsKept
  <2> QED
    BY <1>0, <2>1, <2>2, <2>3, ShrinkKeeps
<1>7. CASE Handler
  BY <1>4, <1>5, <1>6, <1>7 DEF Handler, CreateToken, RevokeToken, SetMemberRole, SetMembershipEnd,
                                Accept, SubscribeBrowser
<1> QED
  BY <1>1, <1>2, <1>3, <1>7

(* Whatever is committed while the job looks, and whatever fails, it sleeps *)
(* with a wake on its way or looks again no later than every warning,       *)
(* expiry and end of a sitting that is owed and not told (sendDue and Wake, *)
(* deadlines.go).                                                           *)
THEOREM NoDeadlineIsLost == Spec => []NoLostDeadline
<1>1. Init => WakeInv
  BY DEF Init, JobInit, WakeInv, TokensCovered, SittingsCovered
<1>2. TypeInv /\ WakeInv /\ [Next]_vars => WakeInv'
  BY TypeStep, WakeLook, WakeOthers DEF Next
<1>3. TypeInv /\ WakeInv => NoLostDeadline
  <2> SUFFICES ASSUME TypeInv, WakeInv, pc = "asleep", ~wake, calls = 0, NEW o \in Owed
               PROVE  o.send \in ledger \/ LooksBy(o.at)
    BY DEF NoLostDeadline
  <2>1. tx = NoSend /\ TokensCovered /\ SittingsCovered
    BY DEF TypeInv, TypeOK, WakeInv, Quiet
  <2>2. ASSUME NEW s \in Deliverable, NEW at, Covered(s, at)
        PROVE  s \in ledger \/ LooksBy(at)
    BY <2>1, <2>2, RecordTypes DEF Covered
  <2>3. ASSUME NEW k \in Tokens, TokenListed(k, now)
        PROVE  /\ TokenExpired(k) \in ledger \/ LooksBy(token[k].expires)
               /\ WarningOwed(k) => TokenWarning(k) \in ledger \/ LooksBy(WarnAt(TokenRow(k)))
    <3>1. TokenCovered(k)
      BY <2>1, <2>3 DEF TokensCovered
    <3>2. TokenExpired(k) \in Deliverable /\ TokenWarning(k) \in Deliverable
      BY <2>3, ListedToken, RecordTypes DEF TokenExpired, TokenWarning
    <3> QED
      BY <2>2, <3>1, <3>2 DEF TokenCovered
  <2>4. ASSUME NEW m \in Members, NEW r \in Members, SittingListed(m, r, now)
        PROVE  SittingEnded(m, r) \in ledger \/ LooksBy(ends[m])
    <3>1. SittingCovered(m, r)
      BY <2>1, <2>4 DEF SittingsCovered
    <3>2. ends[m] \in EndTimes
      BY <2>4 DEF SittingListed, TypeInv, TypeOK
    <3>3. SittingEnded(m, r) \in Deliverable
      BY <3>2, RecordTypes DEF SittingEnded, sittingKey
    <3> QED
      BY <2>2, <3>1, <3>3 DEF SittingCovered
  <2>5. \/ \E k \in Tokens : /\ TokenListed(k, now) /\ WarningOwed(k)
                             /\ o = [send |-> TokenWarning(k), at |-> WarnAt(TokenRow(k))]
        \/ \E k \in Tokens : /\ TokenListed(k, now)
                             /\ o = [send |-> TokenExpired(k), at |-> token[k].expires]
        \/ \E m, r \in Members : /\ SittingListed(m, r, now)
                                 /\ o = [send |-> SittingEnded(m, r), at |-> ends[m]]
    BY DEF Owed, WarningOwed
  <2> QED
    BY <2>3, <2>4, <2>5
<1> QED
  BY <1>1, <1>2, <1>3, TypeStart, TypeStep, PTL DEF Spec
==============================================================================
