----------------------------- MODULE Credentials -----------------------------
(***************************************************************************)
(* The ways into an account: passkeys and their WebAuthn ceremonies        *)
(* (internal/auth/passkey.go), recovery codes (internal/http/recovery.go,  *)
(* recover.go), and closing the account (close_account.go).  Handlers run  *)
(* concurrently, each a few statements: a statement outside a transaction  *)
(* commits by itself, a statement inside one works on the rows it saw when *)
(* it began (READ COMMITTED), and its effect is there at the commit.       *)
(***************************************************************************)
EXTENDS Integers, FiniteSets

CONSTANTS
    Users,
    Keys, Challenges, Batches,  \* passkeys, challenges and batches of codes, each made once
    NoUser, NoKey, NoCode,
    Requests,      \* requests in flight
    BatchSize,     \* auth.RecoveryBatchSize
    ceremonyLife,  \* ticks
    MaxCount,      \* bound on the counters a device sends
    MaxTime        \* bound on the clock

CredentialsAssumption ==
    /\ NoUser \notin Users
    /\ NoKey \notin [user : Users, count : 0 .. MaxCount,
                     code : {NoCode} \cup (Batches \X (1 .. BatchSize))]
    /\ NoCode \notin Challenges \cup (Batches \X (1 .. BatchSize))
    /\ Keys \cap Challenges = {} /\ Keys \cap Batches = {} /\ Challenges \cap Batches = {}
    /\ BatchSize \in Nat \ {0} /\ ceremonyLife \in Nat \ {0}
    /\ MaxCount \in Nat /\ MaxTime \in Nat

VARIABLES
    now,
    closed,      \* app_user.closed_at is set
    passkey,     \* passkey_credential, or NoKey
    ceremonies,  \* webauthn_ceremony
    issued,      \* the challenges, passkeys and batches made so far
    sessions,    \* session, each with the sign-in it comes from
    codes,       \* recovery_code
    req          \* where each request is

db == <<closed, passkey, ceremonies, issued, sessions, codes>>
vars == <<now, db, req>>

Idle == [at |-> "idle"]

KeysOf(u) == {k \in Keys : passkey[k] # NoKey /\ passkey[k].user = u}
CodesOf(u) == {x \in codes : x.user = u}
SignedIn(u) == \E s \in sessions : s.user = u

\* A removal holds the lock on the account's row: LockUser.
Locked(u) == \E r \in Requests : req[r].at = "remove" /\ req[r].user = u

\* A redemption holds the code's row.
Held(x) == \E r \in Requests : req[r].at = "redeem" /\ req[r].code = x

Begin(r, state) == req[r] = Idle /\ req' = [req EXCEPT ![r] = state]
Go(r, state) == req' = [req EXCEPT ![r] = state]
End(r) == Go(r, Idle)

-----------------------------------------------------------------------------
(* Ceremonies.                                                             *)

\* An answer is for a challenge still in the table.
Open(c, u) == \E x \in ceremonies : x.id = c /\ x.user = u /\ x.expires > now

\* Challenges nobody answered in time are deleted as a new one is written.
startCeremony(c, u) ==
    /\ c \notin issued
    /\ issued' = issued \cup {c}
    /\ ceremonies' = {x \in ceremonies : x.expires > now}
                         \cup {[id |-> c, user |-> u, expires |-> now + ceremonyLife]}
    /\ UNCHANGED <<now, closed, passkey, sessions, codes, req>>

BeginAssertion(c) == startCeremony(c, NoUser)

\* For a signed-in account, or one a live recovery code names.
BeginRegistration(c, u) ==
    /\ SignedIn(u) \/ \E x \in CodesOf(u) : ~x.used
    /\ startCeremony(c, u)

\* Fault: the challenge stays in the table.
takeCeremony_Keeps(c, u) ==
    /\ Open(c, u)
    /\ UNCHANGED ceremonies

takeCeremony(c, u) ==
    /\ Open(c, u)
    /\ ceremonies' = {x \in ceremonies : x.id # c}

-----------------------------------------------------------------------------
(* Signing in.                                                             *)

Cloned(stored, returned) == ~ (stored = 0 /\ returned = 0) /\ returned <= stored

SignIn(r, c, k, n) ==
    /\ Begin(r, [at |-> "signin", id |-> c, key |-> k, count |-> n])
    /\ takeCeremony(c, NoUser)
    /\ UNCHANGED <<now, closed, passkey, issued, sessions, codes>>

\* GetPasskeyByCredentialID, the signature and the counter.
VerifyAssertion(r) ==
    /\ req[r].at = "signin"
    /\ LET row == passkey[req[r].key] IN
          /\ row # NoKey
          /\ ~Cloned(row.count, req[r].count)
          /\ Go(r, [at |-> "verified", id |-> req[r].id, key |-> req[r].key,
                    count |-> req[r].count, user |-> row.user])
    /\ UNCHANGED <<now, db>>

\* Fault: the counter is written without comparing it again.
RecordPasskeyUse_Blind(r) ==
    /\ req[r].at = "verified"
    /\ passkey[req[r].key] # NoKey
    /\ passkey' = [passkey EXCEPT ![req[r].key].count = req[r].count]
    /\ Go(r, [req[r] EXCEPT !.at = "recorded"])
    /\ UNCHANGED <<now, closed, ceremonies, issued, sessions, codes>>

RecordPasskeyUse(r) ==
    /\ req[r].at = "verified"
    /\ passkey[req[r].key] # NoKey
    /\ ~Cloned(passkey[req[r].key].count, req[r].count)
    /\ passkey' = [passkey EXCEPT ![req[r].key].count = req[r].count]
    /\ Go(r, [req[r] EXCEPT !.at = "recorded"])
    /\ UNCHANGED <<now, closed, ceremonies, issued, sessions, codes>>

\* The session the browser came with goes, and a new one starts.  Its foreign
\* key names the passkey of that account.
CreateSession(r) ==
    /\ req[r].at = "recorded"
    /\ ~Locked(req[r].user)
    /\ passkey[req[r].key] # NoKey /\ passkey[req[r].key].user = req[r].user
    /\ \E old \in SUBSET sessions :
          /\ Cardinality(old) <= 1
          /\ sessions' = (sessions \ old) \cup
                {[user |-> req[r].user, key |-> req[r].key, id |-> req[r].id,
                  count |-> req[r].count]}
    /\ End(r)
    /\ UNCHANGED <<now, closed, passkey, ceremonies, issued, codes>>

\* Signed out, or expired.
EndSession(s) ==
    /\ sessions' = sessions \ {s}
    /\ UNCHANGED <<now, closed, passkey, ceremonies, issued, codes, req>>

-----------------------------------------------------------------------------
(* Passkeys added and removed.                                             *)

\* CreatePasskey: a row of its own.
NewPasskey(k, u, code) ==
    /\ k \notin issued
    /\ issued' = issued \cup {k}
    /\ passkey' = [passkey EXCEPT ![k] = [user |-> u, count |-> 0, code |-> code]]

\* Register, signed in: the challenge is taken, then the credential is saved.
FinishRegistration(r, u, c, k) ==
    /\ SignedIn(u)
    /\ Begin(r, [at |-> "save", user |-> u, key |-> k])
    /\ takeCeremony(c, u)
    /\ UNCHANGED <<now, closed, passkey, issued, sessions, codes>>

saveRegistration(r) ==
    /\ req[r].at = "save"
    /\ ~Locked(req[r].user)
    /\ NewPasskey(req[r].key, req[r].user, NoCode)
    /\ End(r)
    /\ UNCHANGED <<now, closed, ceremonies, sessions, codes>>

\* Fault: the account's row is not locked.
removePasskey_Unlocked(r, u, k) ==
    /\ SignedIn(u)
    /\ k \in KeysOf(u) /\ Cardinality(KeysOf(u)) > 1
    /\ Begin(r, [at |-> "remove", user |-> u, key |-> k])
    /\ UNCHANGED <<now, db>>

\* The lock on the account, then the delete, which counts in its snapshot.
removePasskey(r, u, k) ==
    /\ SignedIn(u)
    /\ ~Locked(u)
    /\ k \in KeysOf(u) /\ Cardinality(KeysOf(u)) > 1
    /\ Begin(r, [at |-> "remove", user |-> u, key |-> k])
    /\ UNCHANGED <<now, db>>

\* Fault: the sessions stay.
WithoutKeys_NoCascade(S) ==
    /\ passkey' = [k \in Keys |-> IF k \in S THEN NoKey ELSE passkey[k]]
    /\ UNCHANGED sessions

\* The sessions a passkey signed in go with it.
WithoutKeys(S) ==
    /\ passkey' = [k \in Keys |-> IF k \in S THEN NoKey ELSE passkey[k]]
    /\ sessions' = {s \in sessions : s.key \notin S}

RemoveCommits(r) ==
    /\ req[r].at = "remove"
    /\ WithoutKeys({req[r].key} \cap KeysOf(req[r].user))
    /\ End(r)
    /\ UNCHANGED <<now, closed, ceremonies, issued, codes>>

-----------------------------------------------------------------------------
(* Recovery codes.                                                         *)

\* had: the batches there were when its creation began.
Batch(b, u, had) ==
    {[batch |-> b, n |-> i, user |-> u, made |-> now, used |-> FALSE, had |-> had] : i \in 1 .. BatchSize}

\* Fault: only the codes already used are replaced.
createCodes_Used(r, u) ==
    /\ SignedIn(u)
    /\ Begin(r, [at |-> "codes", user |-> u, had |-> Batches \cap issued,
                 saw |-> {<<x.batch, x.n>> : x \in {y \in CodesOf(u) : y.used}}])
    /\ UNCHANGED <<now, db>>

\* createCodes: the delete works on the codes it saw.
createCodes(r, u) ==
    /\ SignedIn(u)
    /\ Begin(r, [at |-> "codes", user |-> u, had |-> Batches \cap issued,
                 saw |-> {<<x.batch, x.n>> : x \in CodesOf(u)}])
    /\ UNCHANGED <<now, db>>

\* CreateRecoveryBatch and the commit.  A code being redeemed is waited for.
CodesCommit(r) ==
    /\ req[r].at = "codes"
    /\ ~Locked(req[r].user)
    /\ LET gone == {x \in codes : <<x.batch, x.n>> \in req[r].saw} IN
          /\ \A x \in gone : ~Held(x)
          /\ \E b \in Batches \ issued :
                /\ codes' = (codes \ gone) \cup Batch(b, req[r].user, req[r].had)
                /\ issued' = issued \cup {b}
    /\ End(r)
    /\ UNCHANGED <<now, closed, passkey, ceremonies, sessions>>

\* Fault: the row is read, and not locked by the update.
RedeemRecoveryCode_Unlocked(r, x, c, k) ==
    /\ ~x.used
    /\ Begin(r, [at |-> "redeem", code |-> x, user |-> x.user, id |-> c, key |-> k])
    /\ UNCHANGED <<now, db>>

\* recover's register: the update takes the code's row.
RedeemRecoveryCode(r, x, c, k) ==
    /\ ~x.used /\ ~Held(x)
    /\ Begin(r, [at |-> "redeem", code |-> x, user |-> x.user, id |-> c, key |-> k])
    /\ UNCHANGED <<now, db>>

\* The rest of the transaction: FinishRegistration on the same connection.
RedeemCommits(r) ==
    /\ req[r].at = "redeem"
    /\ ~Locked(req[r].user)
    /\ takeCeremony(req[r].id, req[r].user)
    /\ LET x == req[r].code IN
          /\ codes' = (codes \ {x}) \cup {[x EXCEPT !.used = TRUE]}
          /\ NewPasskey(req[r].key, req[r].user, <<x.batch, x.n>>)
    /\ End(r)
    /\ UNCHANGED <<now, closed, sessions>>

\* The sweep: codes of a batch that a newer one replaced.
DeleteSupersededRecoveryCodes ==
    /\ \A x \in codes : ~Held(x)
    /\ codes' = {x \in codes : \A y \in CodesOf(x.user) : y.made <= x.made}
    /\ UNCHANGED <<now, closed, passkey, ceremonies, issued, sessions, req>>

-----------------------------------------------------------------------------
(* closeUserAccount: one transaction, a delete after another, each on the  *)
(* rows it sees.  Gardens is about the gardens and the memberships.        *)

DeleteUserPasskeys(r, u) ==
    /\ SignedIn(u)
    /\ Begin(r, [at |-> "close1", user |-> u, keys |-> KeysOf(u)])
    /\ UNCHANGED <<now, db>>

DeleteRecoveryCodes(r) ==
    /\ req[r].at = "close1"
    /\ \A x \in CodesOf(req[r].user) : ~Held(x)
    /\ Go(r, [at |-> "close2", user |-> req[r].user, keys |-> req[r].keys,
              codes |-> {<<x.batch, x.n>> : x \in CodesOf(req[r].user)}])
    /\ UNCHANGED <<now, db>>

\* DeleteUserSessions and DeleteUserCeremonies.
DeleteUserSessions(r) ==
    /\ req[r].at = "close2"
    /\ Go(r, [at |-> "close3", user |-> req[r].user, keys |-> req[r].keys,
              codes |-> req[r].codes,
              sessions |-> {s \in sessions : s.user = req[r].user},
              ceremonies |-> {x \in ceremonies : x.user = req[r].user}])
    /\ UNCHANGED <<now, db>>

\* CloseAccount changes no row, and the transaction fails, if it is closed.  A
\* code being redeemed is waited for.
CloseCommits(r) ==
    /\ req[r].at = "close3"
    /\ req[r].user \notin closed
    /\ ~Locked(req[r].user)
    /\ \A x \in codes : <<x.batch, x.n>> \in req[r].codes => ~Held(x)
    /\ passkey' = [k \in Keys |-> IF k \in req[r].keys THEN NoKey ELSE passkey[k]]
    /\ sessions' = {s \in sessions \ req[r].sessions : s.key \notin req[r].keys}
    /\ codes' = {x \in codes : <<x.batch, x.n>> \notin req[r].codes}
    /\ ceremonies' = ceremonies \ req[r].ceremonies
    /\ closed' = closed \cup {req[r].user}
    /\ End(r)
    /\ UNCHANGED <<now, issued>>

-----------------------------------------------------------------------------

\* A check refuses, the database fails or the browser goes away: what has not
\* been committed is rolled back.
Refuse(r) == req[r] # Idle /\ End(r) /\ UNCHANGED <<now, db>>

Clock == now < MaxTime /\ now' = now + 1 /\ UNCHANGED <<db, req>>

\* Every account has a passkey and is signed in with it.
Init ==
    /\ now = 0
    /\ closed = {}
    /\ \E first \in [Users -> Keys] :
          /\ \A u, v \in Users : u # v => first[u] # first[v]
          /\ passkey = [k \in Keys |->
                IF \E u \in Users : first[u] = k
                THEN [user |-> CHOOSE u \in Users : first[u] = k, count |-> 0, code |-> NoCode]
                ELSE NoKey]
          /\ sessions = {[user |-> u, key |-> first[u], id |-> NoCode, count |-> 0] : u \in Users}
          /\ issued = {first[u] : u \in Users}
    /\ ceremonies = {} /\ codes = {}
    /\ req = [r \in Requests |-> Idle]

Statement(r) ==
    \/ VerifyAssertion(r) \/ RecordPasskeyUse(r) \/ CreateSession(r)
    \/ saveRegistration(r) \/ RemoveCommits(r)
    \/ CodesCommit(r) \/ RedeemCommits(r)
    \/ DeleteRecoveryCodes(r) \/ DeleteUserSessions(r) \/ CloseCommits(r)
    \/ Refuse(r)

Arrives(r) ==
    \/ \E c \in Challenges, k \in Keys, n \in 0 .. MaxCount : SignIn(r, c, k, n)
    \/ \E u \in Users :
          \/ \E c \in Challenges, k \in Keys : FinishRegistration(r, u, c, k)
          \/ \E k \in Keys : removePasskey(r, u, k)
          \/ createCodes(r, u) \/ DeleteUserPasskeys(r, u)
    \/ \E x \in codes, c \in Challenges, k \in Keys : RedeemRecoveryCode(r, x, c, k)

Next ==
    \/ \E r \in Requests : Arrives(r) \/ Statement(r)
    \/ \E c \in Challenges : BeginAssertion(c) \/ \E u \in Users : BeginRegistration(c, u)
    \/ \E s \in sessions : EndSession(s)
    \/ DeleteSupersededRecoveryCodes
    \/ Clock

Spec == Init /\ [][Next]_vars

-----------------------------------------------------------------------------

TypeOK ==
    /\ now \in 0 .. MaxTime
    /\ closed \subseteq Users
    /\ \A k \in Keys : passkey[k] # NoKey => passkey[k].user \in Users /\ passkey[k].count \in 0 .. MaxCount
    /\ \A x \in ceremonies : x.id \in issued /\ x.user \in Users \cup {NoUser}
    /\ issued \subseteq Challenges \cup Keys \cup Batches
    /\ \A s \in sessions : s.user \in Users
    /\ \A x \in codes : x.user \in Users /\ x.made <= now

(* The passkey of every session is still registered, to that account: a     *)
(* device whose passkey is removed is signed out, also when it was signing  *)
(* in meanwhile (Sessions.Create, session.go; removePasskey, passkeys.go).  *)
SessionHasPasskey ==
    \A s \in sessions : passkey[s.key] # NoKey /\ passkey[s.key].user = s.user

(* Removals never leave an open account with no passkey, two sent at the    *)
(* same moment included (DeletePasskey, passkey_credential.sql.go:66).      *)
KeepsAPasskey == \A u \in Users \ closed : KeysOf(u) # {}

(* No two sign-ins come from one challenge, however they interleave         *)
(* (takeCeremony, passkey.go:491).                                          *)
ChallengeOnce == \A s, t \in sessions : s.id = t.id /\ s.id # NoCode => s = t

(* No two sign-ins come from one value of an authenticator's counter: the   *)
(* count is checked again when it is written (RecordPasskeyUse,             *)
(* passkey_credential.sql.go:183).                                          *)
CounterOnce ==
    \A s, t \in sessions :
        s.key = t.key /\ s.count = t.count /\ s.count > 0 => s = t

(* A recovery code adds at most one passkey (register, recover.go:198).     *)
CodeOnce ==
    \A j, k \in Keys :
        passkey[j] # NoKey /\ passkey[k] # NoKey /\ passkey[j].code = passkey[k].code
            => j = k \/ passkey[j].code = NoCode

(* The rows agree with one another.                                         *)
CredentialsAgree == TypeOK /\ SessionHasPasskey /\ KeepsAPasskey

(* What may be used once is used once.                                      *)
UsedOnce == ChallengeOnce /\ CounterOnce /\ CodeOnce

(* "an account is never left holding two batches or none at all"            *)
(* (createCodes, recovery.go:87): a creation replaces every code of the     *)
(* batches there were when it began, used or not, also while codes are      *)
(* redeemed and swept.  Two creations under way at once leave two batches.  *)
OneBatch ==
    \A x, y \in codes :
        x.user = y.user => x.batch = y.batch \/ (x.batch \notin y.had /\ y.batch \notin x.had)
==============================================================================
