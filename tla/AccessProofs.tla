---------------------------- MODULE AccessProofs ----------------------------
(***************************************************************************)
(* The ways into an account and a garden, for every number of accounts,    *)
(* passkeys, challenges, codes, tokens, gardens, links, invites, keys and  *)
(* requests in flight.                                                     *)
(*                                                                         *)
(* Credentials: a session's passkey is registered, an open account keeps a *)
(* passkey, a challenge, a value of a counter and a recovery code are each *)
(* used once, and a batch of codes replaces the ones before it.  Sessions: *)
(* one that was deleted never works again, one in use lasts, and a request *)
(* is let into a garden only as a member of it.  Setup: a link makes one   *)
(* garden, the first account of an install is made once, and a garden has  *)
(* its owner unless its set-up and the owner's closing met.  Invites: one  *)
(* lets in at most one, one that was revoked, swept or run out lets in     *)
(* nobody, and memberships stay.  RateLimit: what it sweeps changes no     *)
(* later answer.                                                           *)
(***************************************************************************)
EXTENDS Credentials, TLAPS, FiniteSetTheorems, WellFoundedInduction

CONSTANTS
    Tokens, ttl, touchInterval, EndTimes, Times, \* of Sessions
    Gardens, MaxChanges,                         \* of Sessions and Invites
    Links, NoLink, enabled,                      \* of Setup
    Invites, offeredRoles, Lives,                \* of Invites
    InviteLifetime, linkGrace,                   \* of Setup and Invites
    Interval, Burst, Second                      \* of RateLimit

VARIABLES
    session, spent, cookie, used, dated,         \* of Sessions
    member, last, changes,                       \* of Sessions and Invites
    account, garden, owner, link, made, firsts, met, risked,  \* of Setup
    invite, admits,                              \* of Invites
    buckets, lastSweep, unswept, allowed         \* of RateLimit

Sessions == INSTANCE Sessions
Setup == INSTANCE Setup
Joining == INSTANCE Invites
Limiter == INSTANCE RateLimit

-----------------------------------------------------------------------------
(* The inductive invariant, one part for each thing that is protected.     *)

SignInStates == {"signin", "verified", "recorded"}
CloseStates == {"close1", "close2", "close3"}
UserStates == {"verified", "recorded", "save", "remove", "codes", "redeem"} \cup CloseStates

Pairs == Batches \X (1 .. BatchSize)
KeyRec == [user : Users, count : 0 .. MaxCount, code : {NoCode} \cup Pairs]
CodeRec ==
    [batch : Batches, n : 1 .. BatchSize, user : Users, made : 0 .. MaxTime, used : BOOLEAN,
     had : SUBSET Batches]
SessionRec == [user : Users, key : Keys, id : {NoCode} \cup Challenges, count : 0 .. MaxCount]
SignInRec ==
    [at : {"verified", "recorded"}, id : Challenges, key : Keys, count : 0 .. MaxCount, user : Users]

\* What a request carries from one statement to the next.
RequestTypes(x) ==
    /\ x.at \in {"idle"} \cup SignInStates \cup UserStates
    /\ x.at = "idle" => x = Idle
    /\ x.at \in SignInStates => x.id \in Challenges /\ x.key \in Keys /\ x.count \in 0 .. MaxCount
    /\ x.at \in {"verified", "recorded"} => x \in SignInRec
    /\ x.at \in UserStates => x.user \in Users
    /\ x.at \in {"save", "remove", "redeem"} => x.key \in Keys
    /\ x.at = "codes" => x.had \subseteq Batches
    /\ x.at \in CloseStates => x.keys \subseteq Keys

Types ==
    /\ now \in 0 .. MaxTime
    /\ closed \subseteq Users
    /\ issued \subseteq Challenges \cup Keys \cup Batches
    /\ passkey \in [Keys -> {NoKey} \cup KeyRec]
    /\ codes \subseteq CodeRec /\ \A x \in codes : x.made <= now
    /\ sessions \subseteq SessionRec
    /\ \A x \in ceremonies : x.id \in Challenges \cap issued /\ x.user \in Users \cup {NoUser}
    /\ DOMAIN req = Requests /\ \A r \in Requests : RequestTypes(req[r])

\* The passkey k was made for u, and is u's as long as it is there.
Owns(k, u) == k \in issued /\ (passkey[k] # NoKey => passkey[k].user = u)

\* A passkey in the table has been made; who a request or a session takes to be
\* its owner is; and a session's is in the table.
OwnerInv ==
    /\ \A k \in Keys : passkey[k] # NoKey => k \in issued
    /\ \A r \in Requests :
          /\ req[r].at \in {"verified", "recorded"} => Owns(req[r].key, req[r].user)
          /\ req[r].at \in CloseStates => \A k \in req[r].keys : Owns(k, req[r].user)
    /\ SessionHasPasskey

\* An account has one removal at a time, and a passkey besides the one removed.
RemovalInv ==
    /\ \A r, q \in Requests :
          req[r].at = "remove" /\ req[q].at = "remove" /\ req[r].user = req[q].user => r = q
    /\ \A r \in Requests :
          req[r].at = "remove" => \E k \in KeysOf(req[r].user) : k # req[r].key
    /\ KeepsAPasskey

\* A challenge is in the table, with one sign-in, or with one session.
ChallengeInv ==
    /\ \A r \in Requests : req[r].at \in SignInStates =>
          /\ req[r].id \in issued
          /\ \A x \in ceremonies : x.id # req[r].id
          /\ \A s \in sessions : s.id # req[r].id
          /\ \A q \in Requests : req[q].at \in SignInStates /\ req[q].id = req[r].id => q = r
    /\ \A s \in sessions : s.id # NoCode => s.id \in issued /\ \A x \in ceremonies : x.id # s.id
    /\ ChallengeOnce

\* The counter in the table is no less than those of the sign-ins that were
\* recorded, and those are different.
CounterInv ==
    /\ \A r \in Requests : req[r].at = "recorded" =>
          /\ passkey[req[r].key] # NoKey => req[r].count <= passkey[req[r].key].count
          /\ \A q \in Requests : req[q].at = "recorded" /\ req[q].key = req[r].key
                /\ req[q].count = req[r].count /\ req[r].count > 0 => q = r
          /\ \A s \in sessions : s.key = req[r].key /\ s.count = req[r].count => s.count = 0
    /\ \A s \in sessions : s.count <= passkey[s.key].count
    /\ CounterOnce

\* A code that is not used has added no passkey, and one request has its row.
CodeInv ==
    /\ \A x \in codes : x.batch \in issued
    /\ \A k \in Keys : passkey[k] # NoKey /\ passkey[k].code # NoCode => passkey[k].code[1] \in issued
    /\ \A x, y \in codes : x.batch = y.batch /\ x.n = y.n => x = y
    /\ \A x \in codes : ~x.used =>
          \A k \in Keys : passkey[k] # NoKey => passkey[k].code # <<x.batch, x.n>>
    /\ \A r \in Requests : req[r].at = "redeem" =>
          /\ req[r].code \in codes /\ ~req[r].code.used /\ req[r].code.user = req[r].user
          /\ \A q \in Requests : req[q].at = "redeem" /\ req[q].code = req[r].code => q = r
    /\ CodeOnce

Inv == Types /\ OwnerInv /\ RemovalInv /\ ChallengeInv /\ CounterInv /\ CodeInv

-----------------------------------------------------------------------------

(* A step of one request leaves the others where they are.                  *)
LEMMA OneRequest ==
    ASSUME DOMAIN req = Requests, NEW r \in Requests, NEW x, req' = [req EXCEPT ![r] = x]
    PROVE  DOMAIN req' = Requests /\ req'[r] = x /\ \A q \in Requests : q # r => req'[q] = req[q]
OBVIOUS

(* The states of a request are different.                                   *)
LEMMA RequestStates ==
    ASSUME NEW x, RequestTypes(x)
    PROVE  /\ x.at = "idle" <=> x = Idle
           /\ x.at = "signin" => x.id \in Challenges /\ x.key \in Keys /\ x.count \in 0 .. MaxCount
           /\ x.at \in {"verified", "recorded"} => x \in SignInRec
           /\ x.at \in {"save", "remove", "redeem"} => x.user \in Users /\ x.key \in Keys
           /\ x.at = "codes" => x.user \in Users /\ x.had \subseteq Batches
           /\ x.at \in CloseStates => x.user \in Users /\ x.keys \subseteq Keys
BY DEF RequestTypes, Idle, SignInStates, UserStates, CloseStates

(* How a request arrives, and what it leaves alone.                         *)
LEMMA ArrivalGoes ==
    ASSUME NEW r \in Requests, Arrives(r)
    PROVE  /\ UNCHANGED <<now, closed, passkey, issued, sessions, codes>>
           /\ ceremonies' \subseteq ceremonies
           /\ \E x :
                /\ Go(r, x) /\ x.at \in {"signin", "save", "remove", "codes", "close1", "redeem"}
                /\ x.at = "signin" =>
                      \E c \in Challenges, k \in Keys, n \in 0 .. MaxCount : SignIn(r, c, k, n)
                /\ x.at = "remove" => \E u \in Users, k \in Keys : removePasskey(r, u, k)
                /\ x.at = "codes" => \E u \in Users : createCodes(r, u)
                /\ x.at = "close1" => \E u \in Users : DeleteUserPasskeys(r, u)
                /\ x.at = "redeem" =>
                      \E y \in codes, c \in Challenges, k \in Keys : RedeemRecoveryCode(r, y, c, k)
<1>1. /\ UNCHANGED <<now, closed, passkey, issued, sessions, codes>>
      /\ ceremonies' \subseteq ceremonies
  BY DEF Arrives, SignIn, FinishRegistration, removePasskey, createCodes, DeleteUserPasskeys,
     RedeemRecoveryCode, takeCeremony, db
<1>2. ASSUME NEW c \in Challenges, NEW k \in Keys, NEW n \in 0 .. MaxCount, SignIn(r, c, k, n)
      PROVE  \E x : Go(r, x) /\ x.at = "signin"
  <2> WITNESS [at |-> "signin", id |-> c, key |-> k, count |-> n]
  <2> QED BY <1>2 DEF SignIn, Begin, Go
<1>3. ASSUME NEW u \in Users, NEW c \in Challenges, NEW k \in Keys, FinishRegistration(r, u, c, k)
      PROVE  \E x : Go(r, x) /\ x.at = "save"
  <2> WITNESS [at |-> "save", user |-> u, key |-> k]
  <2> QED BY <1>3 DEF FinishRegistration, Begin, Go
<1>4. ASSUME NEW u \in Users, NEW k \in Keys, removePasskey(r, u, k)
      PROVE  \E x : Go(r, x) /\ x.at = "remove"
  <2> WITNESS [at |-> "remove", user |-> u, key |-> k]
  <2> QED BY <1>4 DEF removePasskey, Begin, Go
<1>5. ASSUME NEW u \in Users, createCodes(r, u)
      PROVE  \E x : Go(r, x) /\ x.at = "codes"
  <2> WITNESS [at |-> "codes", user |-> u, had |-> Batches \cap issued,
               saw |-> {<<x.batch, x.n>> : x \in CodesOf(u)}]
  <2> QED BY <1>5 DEF createCodes, Begin, Go
<1>6. ASSUME NEW u \in Users, DeleteUserPasskeys(r, u)
      PROVE  \E x : Go(r, x) /\ x.at = "close1"
  <2> WITNESS [at |-> "close1", user |-> u, keys |-> KeysOf(u)]
  <2> QED BY <1>6 DEF DeleteUserPasskeys, Begin, Go
<1>7. ASSUME NEW y \in codes, NEW c \in Challenges, NEW k \in Keys, RedeemRecoveryCode(r, y, c, k)
      PROVE  \E x : Go(r, x) /\ x.at = "redeem"
  <2> WITNESS [at |-> "redeem", code |-> y, user |-> y.user, id |-> c, key |-> k]
  <2> QED BY <1>7 DEF RedeemRecoveryCode, Begin, Go
<1> QED BY <1>1, <1>2, <1>3, <1>4, <1>5, <1>6, <1>7 DEF Arrives

(* The statements that only read.                                           *)
LEMMA ReadGoes ==
    ASSUME NEW r \in Requests, VerifyAssertion(r) \/ DeleteRecoveryCodes(r) \/ DeleteUserSessions(r)
    PROVE  /\ UNCHANGED <<now, closed, passkey, ceremonies, issued, sessions, codes>>
           /\ \E x : /\ Go(r, x) /\ x.at \in {"verified", "close2", "close3"}
                     /\ x.at = "verified" => VerifyAssertion(r)
<1>1. UNCHANGED <<now, closed, passkey, ceremonies, issued, sessions, codes>>
  BY DEF VerifyAssertion, DeleteRecoveryCodes, DeleteUserSessions, db
<1>2. ASSUME VerifyAssertion(r) PROVE \E x : Go(r, x) /\ x.at = "verified"
  <2> WITNESS [at |-> "verified", id |-> req[r].id, key |-> req[r].key,
               count |-> req[r].count, user |-> passkey[req[r].key].user]
  <2> QED BY <1>2 DEF VerifyAssertion
<1>3. ASSUME DeleteRecoveryCodes(r) PROVE \E x : Go(r, x) /\ x.at = "close2"
  <2> WITNESS [at |-> "close2", user |-> req[r].user, keys |-> req[r].keys,
               codes |-> {<<x.batch, x.n>> : x \in CodesOf(req[r].user)}]
  <2> QED BY <1>3 DEF DeleteRecoveryCodes
<1>4. ASSUME DeleteUserSessions(r) PROVE \E x : Go(r, x) /\ x.at = "close3"
  <2> WITNESS [at |-> "close3", user |-> req[r].user, keys |-> req[r].keys,
               codes |-> req[r].codes,
               sessions |-> {s \in sessions : s.user = req[r].user},
               ceremonies |-> {x \in ceremonies : x.user = req[r].user}]
  <2> QED BY <1>4 DEF DeleteUserSessions
<1> QED BY <1>1, <1>2, <1>3, <1>4

(* What changes no request.                                                 *)
LEMMA Aside ==
    ASSUME \/ \E c, u : startCeremony(c, u)
           \/ \E s \in sessions : EndSession(s)
           \/ DeleteSupersededRecoveryCodes \/ Clock \/ UNCHANGED vars
    PROVE  /\ UNCHANGED <<closed, passkey, req>>
           /\ issued \subseteq issued' /\ sessions' \subseteq sessions /\ codes' \subseteq codes
BY DEF startCeremony, EndSession, DeleteSupersededRecoveryCodes, Clock, vars, db

(* The tables and the requests as the server starts.                        *)
LEMMA TypesInit == ASSUME CredentialsAssumption, Init PROVE Types
<1>1. PICK first \in [Users -> Keys] :
          /\ passkey = [k \in Keys |->
                IF \E u \in Users : first[u] = k
                THEN [user |-> CHOOSE u \in Users : first[u] = k, count |-> 0, code |-> NoCode]
                ELSE NoKey]
          /\ sessions = {[user |-> u, key |-> first[u], id |-> NoCode, count |-> 0] : u \in Users}
          /\ issued = {first[u] : u \in Users}
  BY DEF Init
<1>2. passkey \in [Keys -> {NoKey} \cup KeyRec]
  <2>1. ASSUME NEW k \in Keys, \E u \in Users : first[u] = k
        PROVE  [user |-> CHOOSE u \in Users : first[u] = k, count |-> 0, code |-> NoCode] \in KeyRec
    BY <2>1 DEF KeyRec, CredentialsAssumption
  <2> QED BY <1>1, <2>1
<1>3. sessions \subseteq SessionRec
  BY <1>1 DEF SessionRec, CredentialsAssumption
<1>4. \A r \in Requests : RequestTypes(req[r])
  BY DEF Init, RequestTypes, Idle, SignInStates, UserStates, CloseStates
<1> QED BY <1>1, <1>2, <1>3, <1>4 DEF Init, Types, CredentialsAssumption

(* A request that goes on as x keeps the requests' types.                   *)
LEMMA RequestGoes ==
    ASSUME Types, NEW r \in Requests, NEW x, RequestTypes(x), Go(r, x)
    PROVE  DOMAIN req' = Requests /\ \A q \in Requests : RequestTypes(req'[q])
<1>1. DOMAIN req' = Requests /\ req'[r] = x /\ \A q \in Requests : q # r => req'[q] = req[q]
  BY OneRequest DEF Types, Go
<1> QED BY <1>1 DEF Types

(* A request that ends.                                                     *)
LEMMA RequestEnds ==
    ASSUME Types, NEW r \in Requests, End(r)
    PROVE  DOMAIN req' = Requests /\ \A q \in Requests : RequestTypes(req'[q])
<1>1. RequestTypes(Idle) BY DEF RequestTypes, Idle, SignInStates, UserStates, CloseStates
<1> QED BY <1>1, RequestGoes DEF End

(* The tables keep their types.                                             *)
LEMMA NewPasskeyTypes ==
    ASSUME CredentialsAssumption, Types, NEW k \in Keys, NEW u \in Users, NEW code \in {NoCode} \cup Pairs,
           NewPasskey(k, u, code)
    PROVE  /\ passkey' \in [Keys -> {NoKey} \cup KeyRec]
           /\ issued' \subseteq Challenges \cup Keys \cup Batches
           /\ issued \subseteq issued'
<1>1. [user |-> u, count |-> 0, code |-> code] \in KeyRec BY DEF KeyRec, CredentialsAssumption
<1> QED BY <1>1 DEF NewPasskey, Types

(* The types hold after the statement a request is at.                      *)
LEMMA StatementTypes ==
    ASSUME CredentialsAssumption, Types, CodeInv, NEW r \in Requests, Statement(r)
    PROVE  Types'
<1> USE DEF Types
<1>0. RequestTypes(req[r]) OBVIOUS
<1>1. CASE VerifyAssertion(r)
  <2>1. PICK row \in KeyRec :
            Go(r, [at |-> "verified", id |-> req[r].id, key |-> req[r].key,
                   count |-> req[r].count, user |-> row.user])
    BY <1>0, <1>1, RequestStates DEF VerifyAssertion
  <2>2. RequestTypes([at |-> "verified", id |-> req[r].id, key |-> req[r].key,
                   count |-> req[r].count, user |-> row.user])
    BY <1>0, <1>1, RequestStates DEF VerifyAssertion, RequestTypes, SignInRec, KeyRec, SignInStates,
       UserStates, CloseStates
  <2> QED BY <1>1, <2>1, <2>2, RequestGoes DEF VerifyAssertion, db
<1>2. CASE RecordPasskeyUse(r)
  <2>1. req[r] \in SignInRec BY <1>0, <1>2, RequestStates DEF RecordPasskeyUse
  <2>2. RequestTypes([req[r] EXCEPT !.at = "recorded"])
    BY <2>1 DEF RequestTypes, SignInRec, SignInStates, UserStates, CloseStates
  <2>3. passkey[req[r].key] \in KeyRec /\ req[r].key \in Keys /\ req[r].count \in 0 .. MaxCount
    BY <1>2, <2>1 DEF RecordPasskeyUse, SignInRec
  <2>4. [passkey[req[r].key] EXCEPT !.count = req[r].count] \in KeyRec
    BY <2>3 DEF KeyRec
  <2>5. passkey' \in [Keys -> {NoKey} \cup KeyRec]
    BY <1>2, <2>3, <2>4 DEF RecordPasskeyUse
  <2> QED BY <1>2, <2>2, <2>5, RequestGoes DEF RecordPasskeyUse
<1>3. CASE CreateSession(r)
  <2>1. req[r] \in SignInRec BY <1>0, <1>3, RequestStates DEF CreateSession
  <2>2. [user |-> req[r].user, key |-> req[r].key, id |-> req[r].id, count |-> req[r].count]
            \in SessionRec
    BY <2>1 DEF SignInRec, SessionRec
  <2> QED BY <1>3, <2>2, RequestEnds DEF CreateSession
<1>4. CASE saveRegistration(r)
  <2>1. req[r].key \in Keys /\ req[r].user \in Users
    BY <1>0, <1>4, RequestStates DEF saveRegistration
  <2>2. /\ passkey' \in [Keys -> {NoKey} \cup KeyRec]
        /\ issued' \subseteq Challenges \cup Keys \cup Batches
        /\ issued \subseteq issued'
    BY <1>4, <2>1, NewPasskeyTypes DEF saveRegistration
  <2> QED BY <1>4, <2>2, RequestEnds DEF saveRegistration
<1>5. CASE RemoveCommits(r)
  BY <1>5, RequestEnds DEF RemoveCommits, WithoutKeys
<1>6. CASE CodesCommit(r)
  <2>1. req[r].user \in Users /\ req[r].had \subseteq Batches
    BY <1>0, <1>6, RequestStates DEF CodesCommit
  <2>2. PICK b \in Batches \ issued, gone \in SUBSET codes :
            codes' = (codes \ gone) \cup Batch(b, req[r].user, req[r].had) /\ issued' = issued \cup {b}
    <3>1. {x \in codes : <<x.batch, x.n>> \in req[r].saw} \in SUBSET codes OBVIOUS
    <3> QED BY <1>6, <3>1 DEF CodesCommit
  <2>3. Batch(b, req[r].user, req[r].had) \subseteq CodeRec
    <3>1. ASSUME NEW i \in 1 .. BatchSize
          PROVE  [batch |-> b, n |-> i, user |-> req[r].user, made |-> now, used |-> FALSE,
                  had |-> req[r].had] \in CodeRec
      BY <2>1 DEF CodeRec
    <3> QED BY <3>1 DEF Batch
  <2>4. \A x \in Batch(b, req[r].user, req[r].had) : x.made = now
    BY DEF Batch
  <2>5. codes' \subseteq CodeRec BY <2>2, <2>3
  <2>6. now' = now BY <1>6 DEF CodesCommit
  <2>7. now \in Int BY DEF CredentialsAssumption
  <2>8. \A x \in codes' : x.made <= now' BY <2>2, <2>4, <2>6, <2>7
  <2> QED BY <1>6, <2>2, <2>5, <2>8, RequestEnds DEF CodesCommit
<1>7. CASE RedeemCommits(r)
  <2>1. req[r].key \in Keys /\ req[r].user \in Users
    BY <1>0, <1>7, RequestStates DEF RedeemCommits
  <2>2. req[r].code \in codes BY <1>7 DEF CodeInv, RedeemCommits
  <2>3. <<req[r].code.batch, req[r].code.n>> \in Pairs BY <2>2 DEF CodeRec, Pairs
  <2>4. /\ passkey' \in [Keys -> {NoKey} \cup KeyRec]
        /\ issued' \subseteq Challenges \cup Keys \cup Batches
        /\ issued \subseteq issued'
    BY <1>7, <2>1, <2>3, NewPasskeyTypes DEF RedeemCommits
  <2>5. /\ [req[r].code EXCEPT !.used = TRUE] \in CodeRec
        /\ [req[r].code EXCEPT !.used = TRUE].made = req[r].code.made
    BY <2>2 DEF CodeRec
  <2>6. codes' \subseteq CodeRec /\ \A x \in codes' : x.made <= now'
    BY <1>7, <2>2, <2>5 DEF RedeemCommits
  <2>7. ceremonies' \subseteq ceremonies BY <1>7 DEF RedeemCommits, takeCeremony
  <2> QED BY <1>7, <2>4, <2>6, <2>7, RequestEnds DEF RedeemCommits
<1>8. CASE DeleteRecoveryCodes(r)
  <2>1. RequestTypes([at |-> "close2", user |-> req[r].user, keys |-> req[r].keys,
              codes |-> {<<x.batch, x.n>> : x \in CodesOf(req[r].user)}])
    BY <1>0, <1>8, RequestStates DEF DeleteRecoveryCodes, RequestTypes, SignInStates,
       UserStates, CloseStates
  <2> QED BY <1>8, <2>1, RequestGoes DEF DeleteRecoveryCodes, db
<1>9. CASE DeleteUserSessions(r)
  <2>1. RequestTypes([at |-> "close3", user |-> req[r].user, keys |-> req[r].keys,
              codes |-> req[r].codes,
              sessions |-> {s \in sessions : s.user = req[r].user},
              ceremonies |-> {x \in ceremonies : x.user = req[r].user}])
    BY <1>0, <1>9, RequestStates DEF DeleteUserSessions, RequestTypes, SignInStates,
       UserStates, CloseStates
  <2> QED BY <1>9, <2>1, RequestGoes DEF DeleteUserSessions, db
<1>10. CASE CloseCommits(r)
  <2>1. req[r].user \in Users BY <1>0, <1>10, RequestStates DEF CloseCommits, CloseStates
  <2> QED BY <1>10, <2>1, RequestEnds DEF CloseCommits
<1>11. CASE Refuse(r)
  BY <1>11, RequestEnds DEF Refuse, db
<1> QED BY <1>1, <1>2, <1>3, <1>4, <1>5, <1>6, <1>7, <1>8, <1>9, <1>10, <1>11 DEF Statement

(* And after a request arrives.                                             *)
LEMMA ArrivesTypes ==
    ASSUME CredentialsAssumption, Types, NEW r \in Requests, Arrives(r)
    PROVE  Types'
<1> USE DEF Types
<1>1. ASSUME NEW c \in Challenges, NEW k \in Keys, NEW n \in 0 .. MaxCount, SignIn(r, c, k, n)
      PROVE  Types'
  <2>1. RequestTypes([at |-> "signin", id |-> c, key |-> k, count |-> n])
    BY DEF RequestTypes, SignInStates, UserStates, CloseStates
  <2> QED BY <1>1, <2>1, RequestGoes DEF SignIn, Begin, Go, takeCeremony
<1>2. ASSUME NEW u \in Users, NEW c \in Challenges, NEW k \in Keys, FinishRegistration(r, u, c, k)
      PROVE  Types'
  <2>1. RequestTypes([at |-> "save", user |-> u, key |-> k])
    BY DEF RequestTypes, SignInStates, UserStates, CloseStates
  <2> QED BY <1>2, <2>1, RequestGoes DEF FinishRegistration, Begin, Go, takeCeremony
<1>3. ASSUME NEW u \in Users, NEW k \in Keys, removePasskey(r, u, k)
      PROVE  Types'
  <2>1. RequestTypes([at |-> "remove", user |-> u, key |-> k])
    BY DEF RequestTypes, SignInStates, UserStates, CloseStates
  <2> QED BY <1>3, <2>1, RequestGoes DEF removePasskey, Begin, Go, db
<1>4. ASSUME NEW u \in Users, createCodes(r, u)
      PROVE  Types'
  <2>1. RequestTypes([at |-> "codes", user |-> u, had |-> Batches \cap issued,
                      saw |-> {<<x.batch, x.n>> : x \in CodesOf(u)}])
    BY DEF RequestTypes, SignInStates, UserStates, CloseStates
  <2> QED BY <1>4, <2>1, RequestGoes DEF createCodes, Begin, Go, db
<1>5. ASSUME NEW u \in Users, DeleteUserPasskeys(r, u)
      PROVE  Types'
  <2>1. KeysOf(u) \subseteq Keys BY DEF KeysOf
  <2>2. RequestTypes([at |-> "close1", user |-> u, keys |-> KeysOf(u)])
    BY <2>1 DEF RequestTypes, SignInStates, UserStates, CloseStates
  <2> QED BY <1>5, <2>2, RequestGoes DEF DeleteUserPasskeys, Begin, Go, db
<1>6. ASSUME NEW x \in codes, NEW c \in Challenges, NEW k \in Keys, RedeemRecoveryCode(r, x, c, k)
      PROVE  Types'
  <2>1. x.user \in Users BY DEF CodeRec
  <2>2. RequestTypes([at |-> "redeem", code |-> x, user |-> x.user, id |-> c, key |-> k])
    BY <2>1 DEF RequestTypes, SignInStates, UserStates, CloseStates
  <2> QED BY <1>6, <2>2, RequestGoes DEF RedeemRecoveryCode, Begin, Go, db
<1> QED BY <1>1, <1>2, <1>3, <1>4, <1>5, <1>6 DEF Arrives

(* And after every step.                                                    *)
LEMMA TypesStep ==
    ASSUME CredentialsAssumption, Types, CodeInv, Next \/ UNCHANGED vars
    PROVE  Types'
<1>1. ASSUME NEW c \in Challenges, NEW u \in Users \cup {NoUser}, startCeremony(c, u)
      PROVE  Types'
  BY <1>1 DEF startCeremony, Types
<1>2. ASSUME NEW s \in sessions, EndSession(s)
      PROVE  Types'
  BY <1>2 DEF EndSession, Types
<1>3. CASE DeleteSupersededRecoveryCodes
  BY <1>3 DEF DeleteSupersededRecoveryCodes, Types
<1>4. CASE Clock
  <2>1. \A x \in codes : x.made \in Int BY DEF Types, CodeRec
  <2>2. now' \in 0 .. MaxTime /\ \A x \in codes : x.made <= now'
    BY <1>4, <2>1 DEF Clock, Types, CredentialsAssumption
  <2> QED BY <1>4, <2>2 DEF Clock, Types, db
<1>5. CASE UNCHANGED vars
  BY <1>5 DEF vars, db, Types
<1> QED BY <1>1, <1>2, <1>3, <1>4, <1>5, ArrivesTypes, StatementTypes
       DEF Next, BeginAssertion, BeginRegistration

-----------------------------------------------------------------------------
(* The rows of the passkeys.                                               *)

\* No passkey comes back, changes hands, changes the code it came with, or
\* lowers its counter.
RowsStay ==
    /\ issued \subseteq issued'
    /\ \A k \in Keys :
          k \in issued /\ passkey'[k] # NoKey =>
              /\ passkey[k] # NoKey
              /\ passkey'[k].user = passkey[k].user /\ passkey'[k].code = passkey[k].code
              /\ passkey[k].count <= passkey'[k].count
    /\ \A k \in Keys : passkey'[k] # NoKey => k \in issued'

(* NoKey is not the row of a passkey.                                       *)
LEMMA NoKeyIsNoRow == ASSUME CredentialsAssumption PROVE NoKey \notin KeyRec
BY DEF KeyRec, Pairs, CredentialsAssumption

(* A passkey that is there stays as it is.                                  *)
LEMMA SameRows ==
    ASSUME CredentialsAssumption, Types, OwnerInv, issued \subseteq issued', UNCHANGED passkey
    PROVE  RowsStay
<1>1. \A k \in Keys : passkey[k] # NoKey => passkey[k].count \in Int
  BY DEF Types, KeyRec
<1> QED BY <1>1 DEF RowsStay, OwnerInv

(* A new passkey takes no row that was there.                               *)
LEMMA NewRow ==
    ASSUME CredentialsAssumption, Types, OwnerInv, NEW k \in Keys, NEW u, NEW code, NewPasskey(k, u, code)
    PROVE  RowsStay
<1>1. \A j \in Keys : passkey[j] # NoKey => passkey[j].count \in Int
  BY DEF Types, KeyRec
<1> QED BY <1>1 DEF RowsStay, OwnerInv, NewPasskey, Types

(* Rows that are deleted change no other.                                   *)
LEMMA FewerRows ==
    ASSUME CredentialsAssumption, Types, OwnerInv, UNCHANGED issued, NEW S,
           passkey' = [k \in Keys |-> IF k \in S THEN NoKey ELSE passkey[k]]
    PROVE  RowsStay
<1>1. \A j \in Keys : passkey[j] # NoKey => passkey[j].count \in Int
  BY DEF Types, KeyRec
<1> QED BY <1>1 DEF RowsStay, OwnerInv

(* A sign-in is recorded with a counter above the one in the row, or both   *)
(* are 0.                                                                   *)
LEMMA CountedRow ==
    ASSUME CredentialsAssumption, Types, OwnerInv, NEW r \in Requests, RecordPasskeyUse(r)
    PROVE  /\ RowsStay
           /\ passkey'[req[r].key] # NoKey /\ passkey'[req[r].key].count = req[r].count
           /\ passkey[req[r].key].count <= req[r].count
           /\ passkey[req[r].key].count = req[r].count => req[r].count = 0
<1>1. req[r] \in SignInRec
  BY RequestStates DEF Types, RecordPasskeyUse
<1>2. /\ req[r].key \in Keys /\ req[r].count \in 0 .. MaxCount
      /\ passkey[req[r].key] \in KeyRec /\ passkey[req[r].key].count \in 0 .. MaxCount
  BY <1>1 DEF SignInRec, Types, RecordPasskeyUse, KeyRec
<1>3. passkey[req[r].key].count <= req[r].count /\ (passkey[req[r].key].count = req[r].count => req[r].count = 0)
  BY <1>2 DEF RecordPasskeyUse, Cloned
<1>4. [passkey[req[r].key] EXCEPT !.count = req[r].count] \in KeyRec
  BY <1>2 DEF KeyRec
<1>5. passkey' = [passkey EXCEPT ![req[r].key] = [passkey[req[r].key] EXCEPT !.count = req[r].count]]
  BY DEF RecordPasskeyUse
<1>6. /\ passkey'[req[r].key] = [passkey[req[r].key] EXCEPT !.count = req[r].count]
      /\ \A k \in Keys : k # req[r].key => passkey'[k] = passkey[k]
  BY <1>2, <1>5 DEF Types
<1>7. /\ passkey'[req[r].key].count = req[r].count
      /\ passkey'[req[r].key].user = passkey[req[r].key].user
      /\ passkey'[req[r].key].code = passkey[req[r].key].code
  BY <1>2, <1>6 DEF KeyRec
<1>8. passkey'[req[r].key] # NoKey
  BY <1>4, <1>6, NoKeyIsNoRow
<1>9. \A j \in Keys : passkey[j] # NoKey => passkey[j].count \in Int
  BY DEF Types, KeyRec
<1>10. passkey[req[r].key] # NoKey /\ issued' = issued BY DEF RecordPasskeyUse
<1>11. ASSUME NEW k \in Keys, passkey'[k] # NoKey
       PROVE  /\ passkey[k] # NoKey
              /\ passkey'[k].user = passkey[k].user /\ passkey'[k].code = passkey[k].code
              /\ passkey[k].count <= passkey'[k].count
  <2>1. CASE k = req[r].key BY <1>3, <1>7, <1>10, <2>1
  <2>2. CASE k # req[r].key BY <1>6, <1>9, <1>11, <2>2
  <2> QED BY <2>1, <2>2
<1>12. RowsStay BY <1>10, <1>11 DEF RowsStay, OwnerInv
<1> QED BY <1>3, <1>7, <1>8, <1>12

(* The owner of a passkey stays its owner.                                  *)
LEMMA OwnsStable ==
    ASSUME RowsStay, NEW k \in Keys, NEW u, Owns(k, u)
    PROVE  Owns(k, u)'
BY DEF RowsStay, Owns

(* What a request that goes on as x has to show for OwnerInv.               *)
LEMMA OwnerGoes ==
    ASSUME Types, Types', OwnerInv, RowsStay, SessionHasPasskey',
           NEW r \in Requests, NEW x, Go(r, x),
           x.at \in {"verified", "recorded"} => x.key \in Keys /\ Owns(x.key, x.user),
           x.at \in CloseStates => x.keys \subseteq Keys /\ \A k \in x.keys : Owns(k, x.user)
    PROVE  OwnerInv'
<1>1. req'[r] = x /\ \A q \in Requests : q # r => req'[q] = req[q]
  BY OneRequest DEF Types, Go
<1>2. \A k \in Keys : \A u : Owns(k, u) => Owns(k, u)' BY OwnsStable
<1>3. ASSUME NEW q \in Requests
      PROVE  /\ req'[q].at \in {"verified", "recorded"} => Owns(req[q].key, req[q].user)'
             /\ req'[q].at \in CloseStates => \A k \in req'[q].keys : Owns(k, req[q].user)'
  <2>1. CASE q = r BY <1>1, <1>2, <2>1
  <2>2. CASE q # r
    <3>1. /\ req[q].at \in {"verified", "recorded"} => req[q].key \in Keys
          /\ req[q].at \in CloseStates => req[q].keys \subseteq Keys
      BY RequestStates DEF Types, SignInRec
    <3> QED BY <1>1, <1>2, <2>2, <3>1 DEF OwnerInv
  <2> QED BY <2>1, <2>2
<1> QED BY <1>3 DEF OwnerInv, RowsStay, Owns

(* And one that ends.                                                       *)
LEMMA OwnerEnds ==
    ASSUME Types, Types', OwnerInv, RowsStay, SessionHasPasskey', NEW r \in Requests, End(r)
    PROVE  OwnerInv'
BY OwnerGoes DEF End, Idle, CloseStates

(* No step takes a passkey's row back.                                      *)
LEMMA RowsStep ==
    ASSUME CredentialsAssumption, Types, OwnerInv, Next \/ UNCHANGED vars
    PROVE  RowsStay
<1>0. \A r \in Requests : RequestTypes(req[r]) BY DEF Types
<1>1. ASSUME NEW r \in Requests, Arrives(r) PROVE RowsStay
  BY <1>1, ArrivalGoes, SameRows
<1>2. ASSUME NEW r \in Requests,
             \/ VerifyAssertion(r) \/ CreateSession(r) \/ DeleteRecoveryCodes(r)
             \/ DeleteUserSessions(r) \/ Refuse(r)
      PROVE  RowsStay
  <2>1. UNCHANGED <<passkey, issued>>
    BY <1>2 DEF VerifyAssertion, CreateSession, DeleteRecoveryCodes, DeleteUserSessions, Refuse, db
  <2> QED BY <2>1, SameRows
<1>3. ASSUME NEW r \in Requests, RecordPasskeyUse(r) PROVE RowsStay
  BY <1>3, CountedRow
<1>4. ASSUME NEW r \in Requests, saveRegistration(r) PROVE RowsStay
  <2>1. req[r].key \in Keys BY <1>0, <1>4, RequestStates DEF saveRegistration
  <2> QED BY <1>4, <2>1, NewRow DEF saveRegistration
<1>5. ASSUME NEW r \in Requests, RedeemCommits(r) PROVE RowsStay
  <2>1. req[r].key \in Keys BY <1>0, <1>5, RequestStates DEF RedeemCommits
  <2> QED BY <1>5, <2>1, NewRow DEF RedeemCommits
<1>6. ASSUME NEW r \in Requests, RemoveCommits(r) PROVE RowsStay
  BY <1>6, FewerRows DEF RemoveCommits, WithoutKeys
<1>7. ASSUME NEW r \in Requests, CodesCommit(r) PROVE RowsStay
  <2>1. issued \subseteq issued' /\ UNCHANGED passkey BY <1>7 DEF CodesCommit
  <2> QED BY <2>1, SameRows
<1>8. ASSUME NEW r \in Requests, CloseCommits(r) PROVE RowsStay
  BY <1>8, FewerRows DEF CloseCommits
<1>9. ASSUME NEW c, NEW u, startCeremony(c, u) PROVE RowsStay
  <2>1. issued \subseteq issued' /\ UNCHANGED passkey BY <1>9 DEF startCeremony
  <2> QED BY <2>1, SameRows
<1>10. ASSUME \/ \E s \in sessions : EndSession(s)
              \/ DeleteSupersededRecoveryCodes \/ Clock \/ UNCHANGED vars
       PROVE  RowsStay
  BY <1>10, Aside, SameRows
<1> QED BY <1>1, <1>2, <1>3, <1>4, <1>5, <1>6, <1>7, <1>8, <1>9, <1>10
       DEF Next, Statement, BeginAssertion, BeginRegistration

(* A session that was there has its passkey as long as its row is there.    *)
LEMMA SessionsKept ==
    ASSUME Types, OwnerInv, RowsStay, NEW s \in sessions, passkey'[s.key] # NoKey
    PROVE  passkey'[s.key].user = s.user
<1>1. s.key \in Keys BY DEF Types, SessionRec
<1> QED BY <1>1 DEF OwnerInv, SessionHasPasskey, RowsStay

(* A session keeps its passkey, or goes with it.                            *)
LEMMA SessionsStep ==
    ASSUME CredentialsAssumption, Types, OwnerInv, CodeInv, RowsStay, Next \/ UNCHANGED vars
    PROVE  SessionHasPasskey'
<1>0. \A s \in sessions : s.key \in Keys /\ passkey[s.key] # NoKey
  BY DEF Types, SessionRec, OwnerInv, SessionHasPasskey
<1>1. ASSUME sessions' \subseteq sessions, \A s \in sessions' : passkey'[s.key] # NoKey
      PROVE  SessionHasPasskey'
  BY <1>1, SessionsKept DEF SessionHasPasskey
<1>2. ASSUME NEW r \in Requests, CreateSession(r) PROVE SessionHasPasskey'
  BY <1>2 DEF CreateSession, OwnerInv, SessionHasPasskey
<1>3. ASSUME NEW r \in Requests, RecordPasskeyUse(r) PROVE SessionHasPasskey'
  <2>1. UNCHANGED sessions BY <1>3 DEF RecordPasskeyUse
  <2>2. \A k \in Keys : k # req[r].key => passkey'[k] = passkey[k]
    BY <1>3 DEF RecordPasskeyUse, Types
  <2>3. passkey'[req[r].key] # NoKey BY <1>3, CountedRow
  <2> QED BY <1>0, <1>1, <2>1, <2>2, <2>3
<1>4. ASSUME NEW k \in Keys, NEW u \in Users, NEW code \in {NoCode} \cup Pairs,
             NewPasskey(k, u, code), UNCHANGED sessions
      PROVE  SessionHasPasskey'
  <2>1. \A j \in Keys : j # k => passkey'[j] = passkey[j] BY <1>4 DEF NewPasskey, Types
  <2>2. \A s \in sessions : s.key # k BY <1>0, <1>4 DEF NewPasskey, OwnerInv
  <2> QED BY <1>0, <1>1, <1>4, <2>1, <2>2
<1>5. ASSUME NEW r \in Requests, saveRegistration(r) PROVE SessionHasPasskey'
  BY <1>4, <1>5, RequestStates DEF saveRegistration, Types
<1>6. ASSUME NEW r \in Requests, RedeemCommits(r) PROVE SessionHasPasskey'
  <2>1. req[r].key \in Keys /\ req[r].user \in Users
    BY <1>6, RequestStates DEF RedeemCommits, Types
  <2>2. <<req[r].code.batch, req[r].code.n>> \in Pairs
    BY <1>6 DEF CodeInv, RedeemCommits, Types, CodeRec, Pairs
  <2> QED BY <1>4, <1>6, <2>1, <2>2 DEF RedeemCommits
<1>7. ASSUME NEW r \in Requests, RemoveCommits(r) PROVE SessionHasPasskey'
  BY <1>0, <1>1, <1>7 DEF RemoveCommits, WithoutKeys
<1>8. ASSUME NEW r \in Requests, CloseCommits(r) PROVE SessionHasPasskey'
  BY <1>0, <1>1, <1>8 DEF CloseCommits
<1>9. ASSUME UNCHANGED passkey, sessions' \subseteq sessions PROVE SessionHasPasskey'
  BY <1>9 DEF OwnerInv, SessionHasPasskey
<1>10. ASSUME NEW r \in Requests, Arrives(r) PROVE SessionHasPasskey'
  BY <1>9, <1>10, ArrivalGoes
<1>11. ASSUME NEW r \in Requests,
             \/ VerifyAssertion(r) \/ CodesCommit(r) \/ DeleteRecoveryCodes(r)
             \/ DeleteUserSessions(r) \/ Refuse(r)
      PROVE  SessionHasPasskey'
  BY <1>9, <1>11 DEF VerifyAssertion, CodesCommit, DeleteRecoveryCodes, DeleteUserSessions,
     Refuse, db
<1>12. ASSUME \/ \E c, u : startCeremony(c, u)
              \/ \E s \in sessions : EndSession(s)
              \/ DeleteSupersededRecoveryCodes \/ Clock \/ UNCHANGED vars
       PROVE  SessionHasPasskey'
  BY <1>9, <1>12, Aside
<1> QED BY <1>2, <1>3, <1>5, <1>6, <1>7, <1>8, <1>10, <1>11, <1>12
       DEF Next, Statement, BeginAssertion, BeginRegistration

(* At first every account owns the passkey of its session.                  *)
LEMMA OwnerInit == ASSUME CredentialsAssumption, Init PROVE OwnerInv
<1>1. PICK first \in [Users -> Keys] :
          /\ \A u, v \in Users : u # v => first[u] # first[v]
          /\ passkey = [k \in Keys |->
                IF \E u \in Users : first[u] = k
                THEN [user |-> CHOOSE u \in Users : first[u] = k, count |-> 0, code |-> NoCode]
                ELSE NoKey]
          /\ sessions = {[user |-> u, key |-> first[u], id |-> NoCode, count |-> 0] : u \in Users}
          /\ issued = {first[u] : u \in Users}
  BY DEF Init
<1>2. ASSUME NEW u \in Users
      PROVE  passkey[first[u]] # NoKey /\ passkey[first[u]].user = u
  <2>1. (CHOOSE v \in Users : first[v] = first[u]) = u BY <1>1
  <2>2. passkey[first[u]] = [user |-> CHOOSE v \in Users : first[v] = first[u], count |-> 0, code |-> NoCode]
    BY <1>1
  <2>3. passkey[first[u]] = [user |-> u, count |-> 0, code |-> NoCode] BY <2>1, <2>2
  <2>4. [user |-> u, count |-> 0, code |-> NoCode] \in KeyRec BY DEF KeyRec, CredentialsAssumption
  <2>5. passkey[first[u]] # NoKey BY <2>3, <2>4, NoKeyIsNoRow
  <2> QED BY <2>3, <2>5
<1>3. SessionHasPasskey
  <2> SUFFICES ASSUME NEW s \in sessions
               PROVE  passkey[s.key] # NoKey /\ passkey[s.key].user = s.user
    BY DEF SessionHasPasskey
  <2>1. PICK u \in Users : s = [user |-> u, key |-> first[u], id |-> NoCode, count |-> 0] BY <1>1
  <2> QED BY <1>2, <2>1
<1>4. \A k \in Keys : passkey[k] # NoKey => k \in issued BY <1>1
<1>5. \A r \in Requests : req[r].at = "idle" BY DEF Init, Idle
<1> QED BY <1>3, <1>4, <1>5 DEF OwnerInv, CloseStates

(* Every step keeps OwnerInv.                                               *)
LEMMA OwnerStep ==
    ASSUME CredentialsAssumption, Types, Types', OwnerInv, CodeInv, Next \/ UNCHANGED vars
    PROVE  OwnerInv'
<1>1. RowsStay BY RowsStep
<1>2. SessionHasPasskey' BY <1>1, SessionsStep
<1>3. ASSUME NEW r \in Requests, End(r) PROVE OwnerInv'
  BY <1>1, <1>2, <1>3, OwnerEnds
<1>4. ASSUME NEW r \in Requests, NEW x, Go(r, x),
             x.at \notin {"verified", "recorded"} \cup CloseStates
      PROVE  OwnerInv'
  BY <1>1, <1>2, <1>4, OwnerGoes
<1>5. ASSUME NEW r \in Requests, VerifyAssertion(r) PROVE OwnerInv'
  <2>1. req[r].key \in Keys BY <1>5, RequestStates DEF VerifyAssertion, Types
  <2>2. Owns(req[r].key, passkey[req[r].key].user)
    BY <1>5, <2>1 DEF VerifyAssertion, Owns, OwnerInv
  <2>3. Go(r, [at |-> "verified", id |-> req[r].id, key |-> req[r].key,
               count |-> req[r].count, user |-> passkey[req[r].key].user])
    BY <1>5 DEF VerifyAssertion
  <2> QED BY <1>1, <1>2, <2>1, <2>2, <2>3, OwnerGoes DEF CloseStates
<1>6. ASSUME NEW r \in Requests, RecordPasskeyUse(r) PROVE OwnerInv'
  <2>1. req[r] \in SignInRec BY <1>6, RequestStates DEF RecordPasskeyUse, Types
  <2>2. Owns(req[r].key, req[r].user) BY <1>6 DEF RecordPasskeyUse, OwnerInv
  <2>3. PICK x : x = [req[r] EXCEPT !.at = "recorded"] OBVIOUS
  <2>4. x.key = req[r].key /\ x.user = req[r].user /\ x.at = "recorded" /\ x.key \in Keys
    BY <2>1, <2>3 DEF SignInRec
  <2>5. Go(r, x) BY <1>6, <2>3 DEF RecordPasskeyUse
  <2> QED BY <1>1, <1>2, <2>2, <2>4, <2>5, OwnerGoes DEF CloseStates
<1>7. ASSUME NEW r \in Requests, NEW u \in Users, DeleteUserPasskeys(r, u) PROVE OwnerInv'
  <2>1. KeysOf(u) \subseteq Keys /\ \A k \in KeysOf(u) : Owns(k, u) BY DEF KeysOf, Owns, OwnerInv
  <2>2. Go(r, [at |-> "close1", user |-> u, keys |-> KeysOf(u)])
    BY <1>7 DEF DeleteUserPasskeys, Begin, Go
  <2> QED BY <1>1, <1>2, <2>1, <2>2, OwnerGoes
<1>8. ASSUME NEW r \in Requests, DeleteRecoveryCodes(r) \/ DeleteUserSessions(r) PROVE OwnerInv'
  <2>1. req[r].at \in CloseStates BY <1>8 DEF DeleteRecoveryCodes, DeleteUserSessions, CloseStates
  <2>2. req[r].keys \subseteq Keys /\ \A k \in req[r].keys : Owns(k, req[r].user)
    BY <2>1, RequestStates DEF Types, OwnerInv
  <2>3. CASE DeleteRecoveryCodes(r)
    <3>1. Go(r, [at |-> "close2", user |-> req[r].user, keys |-> req[r].keys,
              codes |-> {<<x.batch, x.n>> : x \in CodesOf(req[r].user)}])
      BY <2>3 DEF DeleteRecoveryCodes
    <3> QED BY <1>1, <1>2, <2>2, <3>1, OwnerGoes
  <2>4. CASE DeleteUserSessions(r)
    <3>1. Go(r, [at |-> "close3", user |-> req[r].user, keys |-> req[r].keys,
              codes |-> req[r].codes,
              sessions |-> {s \in sessions : s.user = req[r].user},
              ceremonies |-> {x \in ceremonies : x.user = req[r].user}])
      BY <2>4 DEF DeleteUserSessions
    <3> QED BY <1>1, <1>2, <2>2, <3>1, OwnerGoes
  <2> QED BY <1>8, <2>3, <2>4
<1>9. ASSUME UNCHANGED req PROVE OwnerInv'
  <2>1. \A k \in Keys : \A u : Owns(k, u) => Owns(k, u)' BY <1>1, OwnsStable
  <2>2. \A r \in Requests :
            /\ req[r].at \in {"verified", "recorded"} => req[r].key \in Keys
            /\ req[r].at \in CloseStates => req[r].keys \subseteq Keys
    BY RequestStates DEF Types, SignInRec
  <2>3. \A r \in Requests :
          /\ req[r].at \in {"verified", "recorded"} => Owns(req[r].key, req[r].user)'
          /\ req[r].at \in CloseStates => \A k \in req[r].keys : Owns(k, req[r].user)'
    BY <1>9, <2>1, <2>2 DEF OwnerInv
  <2> QED BY <1>1, <1>2, <1>9, <2>3 DEF OwnerInv, RowsStay
<1>10. ASSUME NEW r \in Requests,
              \/ CreateSession(r) \/ saveRegistration(r) \/ RemoveCommits(r) \/ CodesCommit(r)
              \/ RedeemCommits(r) \/ CloseCommits(r) \/ Refuse(r)
       PROVE  OwnerInv'
  BY <1>3, <1>10 DEF CreateSession, saveRegistration, RemoveCommits, CodesCommit, RedeemCommits,
     CloseCommits, Refuse
<1>11. ASSUME NEW r \in Requests, Arrives(r), ~ \E u \in Users : DeleteUserPasskeys(r, u)
       PROVE  OwnerInv'
  BY <1>4, <1>11, ArrivalGoes DEF CloseStates
<1>12. ASSUME \/ \E c, u : startCeremony(c, u)
              \/ \E s \in sessions : EndSession(s)
              \/ DeleteSupersededRecoveryCodes \/ Clock \/ UNCHANGED vars
       PROVE  OwnerInv'
  BY <1>9, <1>12, Aside
<1> QED BY <1>5, <1>6, <1>7, <1>8, <1>10, <1>11, <1>12
       DEF Next, Arrives, Statement, BeginAssertion, BeginRegistration

-----------------------------------------------------------------------------
(* An open account keeps a passkey.                                        *)

(* At first nothing is being removed.                                       *)
LEMMA RemovalInit == ASSUME CredentialsAssumption, Init PROVE RemovalInv
<1>1. SessionHasPasskey BY OwnerInit DEF OwnerInv
<1>2. ASSUME NEW u \in Users PROVE KeysOf(u) # {}
  <2>1. PICK k \in Keys : [user |-> u, key |-> k, id |-> NoCode, count |-> 0] \in sessions
    BY DEF Init
  <2>2. passkey[k] # NoKey /\ passkey[k].user = u BY <1>1, <2>1 DEF SessionHasPasskey
  <2> QED BY <2>2 DEF KeysOf
<1>3. \A r \in Requests : req[r].at = "idle" BY DEF Init, Idle
<1> QED BY <1>2, <1>3 DEF RemovalInv, KeepsAPasskey

(* What a step of a request has to show when no passkey goes.               *)
LEMMA RemovalGoes ==
    ASSUME Types, RemovalInv, closed \subseteq closed', \A u \in Users : KeysOf(u) \subseteq KeysOf(u)',
           NEW r \in Requests, NEW x, Go(r, x),
           x.at = "remove" => /\ x.user \in Users /\ ~Locked(x.user)
                              /\ \E k \in KeysOf(x.user) : k # x.key
    PROVE  RemovalInv'
<1>1. req'[r] = x /\ \A q \in Requests : q # r => req'[q] = req[q]
  BY OneRequest DEF Types, Go
<1>2. \A q \in Requests : req[q].at = "remove" => req[q].user \in Users
  BY RequestStates DEF Types
<1>3. ASSUME NEW p \in Requests, NEW q \in Requests,
             req'[p].at = "remove", req'[q].at = "remove", req'[p].user = req'[q].user
      PROVE  p = q
  BY <1>1, <1>3 DEF RemovalInv, Locked
<1>4. ASSUME NEW q \in Requests, req'[q].at = "remove"
      PROVE  \E k \in KeysOf(req[q].user)' : k # req'[q].key
  <2>1. CASE q = r BY <1>1, <1>4, <2>1
  <2>2. CASE q # r BY <1>1, <1>2, <1>4, <2>2 DEF RemovalInv
  <2> QED BY <2>1, <2>2
<1>5. KeepsAPasskey' BY DEF RemovalInv, KeepsAPasskey
<1> QED BY <1>3, <1>4, <1>5 DEF RemovalInv

(* And when passkeys of the one account u go, which has no other removal.   *)
LEMMA RemovalEnds ==
    ASSUME Types, RemovalInv, closed \subseteq closed', NEW r \in Requests, End(r), NEW u \in Users,
           \A v \in Users : v # u => KeysOf(v) \subseteq KeysOf(v)',
           \A q \in Requests : q # r /\ req[q].at = "remove" => req[q].user # u,
           u \in closed' \/ KeysOf(u)' # {}
    PROVE  RemovalInv'
<1>1. req'[r].at = "idle" /\ \A q \in Requests : q # r => req'[q] = req[q]
  BY OneRequest DEF Types, End, Go, Idle
<1>2. \A q \in Requests : req[q].at = "remove" => req[q].user \in Users
  BY RequestStates DEF Types
<1>3. ASSUME NEW p \in Requests, NEW q \in Requests,
             req'[p].at = "remove", req'[q].at = "remove", req'[p].user = req'[q].user
      PROVE  p = q
  BY <1>1, <1>3 DEF RemovalInv
<1>4. ASSUME NEW q \in Requests, req'[q].at = "remove"
      PROVE  \E k \in KeysOf(req[q].user)' : k # req'[q].key
  <2>1. q # r /\ req'[q] = req[q] /\ req[q].user \in Users /\ req[q].user # u BY <1>1, <1>2, <1>4
  <2>2. \E k \in KeysOf(req[q].user) : k # req[q].key BY <1>4, <2>1 DEF RemovalInv
  <2> QED BY <2>1, <2>2
<1>5. KeepsAPasskey' BY DEF RemovalInv, KeepsAPasskey
<1> QED BY <1>3, <1>4, <1>5 DEF RemovalInv

(* No passkey goes where its row stays.                                     *)
LEMMA KeysStay ==
    ASSUME OwnerInv, RowsStay, NEW u, \A k \in KeysOf(u) : passkey'[k] # NoKey
    PROVE  KeysOf(u) \subseteq KeysOf(u)'
BY DEF KeysOf, RowsStay, OwnerInv

(* A set of more than one element has one besides any of its elements.      *)
LEMMA Another ==
    ASSUME NEW S, NEW k \in S, Cardinality(S) > 1
    PROVE  \E j \in S : j # k
<1>1. Cardinality({k}) = 1 BY FS_Singleton
<1>2. ASSUME \A j \in S : j = k PROVE FALSE
  <2>1. S = {k} BY <1>2
  <2> QED BY <1>1, <2>1
<1> QED BY <1>2

(* Every step keeps RemovalInv: a removal is alone on its account, so the   *)
(* passkey it counted besides the one it deletes is still there when it     *)
(* commits.                                                                 *)
LEMMA RemovalStep ==
    ASSUME CredentialsAssumption, Types, Types', OwnerInv, RemovalInv, CodeInv, RowsStay,
           Next \/ UNCHANGED vars
    PROVE  RemovalInv'
<1>0. \A k \in Keys : passkey[k] # NoKey => k \in issued BY DEF OwnerInv
<1>1. ASSUME UNCHANGED passkey PROVE \A u \in Users : KeysOf(u) \subseteq KeysOf(u)'
  BY <1>1 DEF KeysOf
<1>2. ASSUME NEW r \in Requests, End(r), UNCHANGED closed,
             \A u \in Users : KeysOf(u) \subseteq KeysOf(u)'
      PROVE  RemovalInv'
  BY <1>2, RemovalGoes DEF End, Idle
<1>3. ASSUME NEW r \in Requests, NEW x, Go(r, x), x.at # "remove", UNCHANGED <<passkey, closed>>
      PROVE  RemovalInv'
  BY <1>1, <1>3, RemovalGoes
<1>4. ASSUME NEW r \in Requests, NEW u \in Users, NEW k \in Keys, removePasskey(r, u, k)
      PROVE  RemovalInv'
  <2>1. Go(r, [at |-> "remove", user |-> u, key |-> k]) BY <1>4 DEF removePasskey, Begin, Go
  <2>2. ~Locked(u) /\ k \in KeysOf(u) /\ Cardinality(KeysOf(u)) > 1 BY <1>4 DEF removePasskey
  <2>3. \E j \in KeysOf(u) : j # k BY <2>2, Another
  <2>4. UNCHANGED <<passkey, closed>> BY <1>4 DEF removePasskey, db
  <2> QED BY <1>1, <2>1, <2>2, <2>3, <2>4, RemovalGoes
<1>5. ASSUME NEW r \in Requests, RecordPasskeyUse(r) PROVE RemovalInv'
  <2>1. \A k \in Keys : k # req[r].key => passkey'[k] = passkey[k]
    BY <1>5 DEF RecordPasskeyUse, Types
  <2>2. passkey'[req[r].key] # NoKey BY <1>5, CountedRow
  <2>3. \A u \in Users : KeysOf(u) \subseteq KeysOf(u)'
    BY <2>1, <2>2, KeysStay DEF KeysOf
  <2>4. req[r] \in SignInRec BY <1>5, RequestStates DEF RecordPasskeyUse, Types
  <2>5. [req[r] EXCEPT !.at = "recorded"].at = "recorded" BY <2>4 DEF SignInRec
  <2> QED BY <1>5, <2>3, <2>5, RemovalGoes DEF RecordPasskeyUse
<1>6. ASSUME NEW r \in Requests, NEW k \in Keys, NEW u, NEW code, NewPasskey(k, u, code), End(r),
             UNCHANGED closed
      PROVE  RemovalInv'
  <2>1. \A j \in Keys : passkey[j] # NoKey => passkey'[j] = passkey[j]
    BY <1>0, <1>6 DEF NewPasskey, Types
  <2>2. \A v \in Users : KeysOf(v) \subseteq KeysOf(v)' BY <2>1 DEF KeysOf
  <2> QED BY <1>2, <1>6, <2>2
<1>7. ASSUME NEW r \in Requests, saveRegistration(r) \/ RedeemCommits(r) PROVE RemovalInv'
  <2>1. req[r].key \in Keys BY <1>7, RequestStates DEF saveRegistration, RedeemCommits, Types
  <2> QED BY <1>6, <1>7, <2>1 DEF saveRegistration, RedeemCommits
<1>8. ASSUME NEW r \in Requests, RemoveCommits(r) PROVE RemovalInv'
  <2>1. PICK u \in Users : u = req[r].user BY <1>8, RequestStates DEF RemoveCommits, Types
  <2>2. PICK j \in KeysOf(u) : j # req[r].key BY <1>8, <2>1 DEF RemoveCommits, RemovalInv
  <2>3. \A k \in Keys : k # req[r].key \/ k \notin KeysOf(u) => passkey'[k] = passkey[k]
    BY <1>8, <2>1 DEF RemoveCommits, WithoutKeys
  <2>4. j \in KeysOf(u)' BY <2>2, <2>3 DEF KeysOf
  <2>5. \A v \in Users : v # u => KeysOf(v) \subseteq KeysOf(v)' BY <2>3 DEF KeysOf
  <2>6. \A q \in Requests : q # r /\ req[q].at = "remove" => req[q].user # u
    BY <1>8, <2>1 DEF RemoveCommits, RemovalInv
  <2>7. End(r) /\ closed \subseteq closed' BY <1>8 DEF RemoveCommits
  <2> QED BY <2>4, <2>5, <2>6, <2>7, RemovalEnds
<1>9. ASSUME NEW r \in Requests, CloseCommits(r) PROVE RemovalInv'
  <2>1. PICK u \in Users : u = req[r].user BY <1>9, RequestStates DEF CloseCommits,
            CloseStates, Types
  <2>2. \A k \in req[r].keys : Owns(k, u) BY <1>9, <2>1 DEF CloseCommits, CloseStates, OwnerInv
  <2>3. \A k \in Keys : k \notin req[r].keys => passkey'[k] = passkey[k] BY <1>9 DEF CloseCommits
  <2>4. \A v \in Users : v # u => KeysOf(v) \subseteq KeysOf(v)' BY <2>2, <2>3 DEF KeysOf, Owns
  <2>5. \A q \in Requests : q # r /\ req[q].at = "remove" => req[q].user # u
    BY <1>9, <2>1 DEF CloseCommits, Locked
  <2>6. End(r) /\ closed \subseteq closed' /\ u \in closed' BY <1>9, <2>1 DEF CloseCommits
  <2> QED BY <2>4, <2>5, <2>6, RemovalEnds
<1>10. ASSUME NEW r \in Requests, CreateSession(r) \/ CodesCommit(r) \/ Refuse(r)
       PROVE  RemovalInv'
  BY <1>1, <1>2, <1>10 DEF CreateSession, CodesCommit, Refuse, db
<1>11. ASSUME NEW r \in Requests,
              VerifyAssertion(r) \/ DeleteRecoveryCodes(r) \/ DeleteUserSessions(r)
       PROVE  RemovalInv'
  BY <1>3, <1>11, ReadGoes
<1>12. ASSUME NEW r \in Requests, Arrives(r), ~ \E u \in Users, k \in Keys : removePasskey(r, u, k)
       PROVE  RemovalInv'
  BY <1>3, <1>12, ArrivalGoes
<1>13. ASSUME \/ \E c, u : startCeremony(c, u)
              \/ \E s \in sessions : EndSession(s)
              \/ DeleteSupersededRecoveryCodes \/ Clock \/ UNCHANGED vars
       PROVE  RemovalInv'
  BY <1>13, Aside DEF RemovalInv, KeepsAPasskey, KeysOf
<1> QED BY <1>4, <1>5, <1>7, <1>8, <1>9, <1>10, <1>11, <1>12, <1>13
       DEF Next, Arrives, Statement, BeginAssertion, BeginRegistration

(* CreateSession adds one session, of the request's sign-in.                *)
LEMMA NewSession ==
    ASSUME NEW r \in Requests, CreateSession(r)
    PROVE  \E old, new :
              /\ sessions' = (sessions \ old) \cup {new}
              /\ new.user = req[r].user /\ new.key = req[r].key
              /\ new.id = req[r].id /\ new.count = req[r].count
<1>1. PICK old \in SUBSET sessions :
          sessions' = (sessions \ old) \cup
              {[user |-> req[r].user, key |-> req[r].key, id |-> req[r].id, count |-> req[r].count]}
  BY DEF CreateSession
<1> WITNESS old, [user |-> req[r].user, key |-> req[r].key, id |-> req[r].id, count |-> req[r].count]
<1> QED BY <1>1

-----------------------------------------------------------------------------
(* A challenge signs in once.                                              *)

(* At first no challenge has been made.                                     *)
LEMMA ChallengeInit == ASSUME CredentialsAssumption, Init PROVE ChallengeInv
<1>1. \A r \in Requests : req[r].at = "idle" BY DEF Init, Idle
<1>2. \A s \in sessions : s.id = NoCode BY DEF Init
<1> QED BY <1>1, <1>2 DEF ChallengeInv, ChallengeOnce, SignInStates

(* A step in which no challenge changes hands.                              *)
LEMMA ChallengeGoes ==
    ASSUME Types, ChallengeInv, issued \subseteq issued',
           ceremonies' \subseteq ceremonies, sessions' \subseteq sessions,
           NEW r \in Requests, NEW x, Go(r, x),
           x.at \in SignInStates => req[r].at \in SignInStates /\ x.id = req[r].id
    PROVE  ChallengeInv'
<1>1. req'[r] = x /\ \A q \in Requests : q # r => req'[q] = req[q]
  BY OneRequest DEF Types, Go
<1>2. \A q \in Requests : req'[q].at \in SignInStates => req[q].at \in SignInStates /\ req'[q].id = req[q].id
  BY <1>1
<1> QED BY <1>2 DEF ChallengeInv, ChallengeOnce

(* Every step keeps ChallengeInv: the delete of takeCeremony is what hands  *)
(* a challenge to one sign-in.                                              *)
LEMMA ChallengeStep ==
    ASSUME CredentialsAssumption, Types, ChallengeInv, RowsStay, Next \/ UNCHANGED vars
    PROVE  ChallengeInv'
<1>0. issued \subseteq issued' BY DEF RowsStay
<1>1. ASSUME NEW r \in Requests, NEW c \in Challenges, NEW k \in Keys, NEW n \in 0 .. MaxCount,
             SignIn(r, c, k, n)
      PROVE  ChallengeInv'
  <2>1. PICK y \in ceremonies : y.id = c BY <1>1 DEF SignIn, takeCeremony, Open
  <2>2. c \in issued BY <2>1 DEF Types
  <2>3. \A s \in sessions : s.id # c BY <2>1 DEF ChallengeInv, CredentialsAssumption
  <2>4. \A q \in Requests : req[q].at \in SignInStates => req[q].id # c BY <2>1 DEF ChallengeInv
  <2>5. /\ UNCHANGED <<issued, sessions>>
        /\ ceremonies' \subseteq ceremonies /\ \A x \in ceremonies' : x.id # c
    BY <1>1 DEF SignIn, takeCeremony
  <2>6. Go(r, [at |-> "signin", id |-> c, key |-> k, count |-> n]) BY <1>1 DEF SignIn, Begin, Go
  <2>7. /\ req'[r].at = "signin" /\ req'[r].id = c
        /\ \A q \in Requests : q # r => req'[q] = req[q]
    BY <2>6, OneRequest DEF Types, Go
  <2> QED BY <2>2, <2>3, <2>4, <2>5, <2>7 DEF ChallengeInv, ChallengeOnce
<1>2. ASSUME NEW r \in Requests, CreateSession(r) PROVE ChallengeInv'
  <2>1. req[r].at \in SignInStates BY <1>2 DEF CreateSession, SignInStates
  <2>2. PICK old, new : sessions' = (sessions \ old) \cup {new} /\ new.id = req[r].id
    BY <1>2, NewSession
  <2>3. UNCHANGED <<issued, ceremonies>> BY <1>2 DEF CreateSession
  <2>4. req'[r].at = "idle" /\ \A q \in Requests : q # r => req'[q] = req[q]
    BY <1>2, OneRequest DEF CreateSession, Types, End, Go, Idle
  <2> QED BY <2>1, <2>2, <2>3, <2>4 DEF ChallengeInv, ChallengeOnce, SignInStates
<1>3. ASSUME NEW c, NEW u, startCeremony(c, u) PROVE ChallengeInv'
  BY <1>3 DEF startCeremony, ChallengeInv, ChallengeOnce
<1>4. ASSUME NEW r \in Requests, End(r), ceremonies' \subseteq ceremonies, sessions' \subseteq sessions
      PROVE  ChallengeInv'
  BY <1>0, <1>4, ChallengeGoes DEF End, Idle, SignInStates
<1>5. ASSUME NEW r \in Requests,
             saveRegistration(r) \/ RemoveCommits(r) \/ CodesCommit(r) \/ RedeemCommits(r)
             \/ CloseCommits(r) \/ Refuse(r)
      PROVE  ChallengeInv'
  BY <1>4, <1>5 DEF saveRegistration, RemoveCommits, WithoutKeys, CodesCommit, RedeemCommits,
     takeCeremony, CloseCommits, Refuse, db
<1>6. ASSUME NEW r \in Requests, DeleteRecoveryCodes(r) \/ DeleteUserSessions(r) \/ VerifyAssertion(r)
      PROVE  ChallengeInv'
  <2>1. CASE VerifyAssertion(r)
    <3>1. Go(r, [at |-> "verified", id |-> req[r].id, key |-> req[r].key,
                 count |-> req[r].count, user |-> passkey[req[r].key].user])
      BY <2>1 DEF VerifyAssertion
    <3>2. req[r].at \in SignInStates BY <2>1 DEF VerifyAssertion, SignInStates
    <3> QED BY <1>0, <1>6, <3>1, <3>2, ReadGoes, ChallengeGoes
  <2>2. CASE ~VerifyAssertion(r)
    BY <1>0, <1>6, <2>2, ReadGoes, ChallengeGoes DEF SignInStates
  <2> QED BY <2>1, <2>2
<1>7. ASSUME NEW r \in Requests, RecordPasskeyUse(r) PROVE ChallengeInv'
  <2>1. req[r] \in SignInRec BY <1>7, RequestStates DEF RecordPasskeyUse, Types
  <2>2. PICK x : x = [req[r] EXCEPT !.at = "recorded"] OBVIOUS
  <2>3. x.id = req[r].id BY <2>1, <2>2 DEF SignInRec
  <2>4. Go(r, x) /\ req[r].at \in SignInStates BY <1>7, <2>2 DEF RecordPasskeyUse, SignInStates
  <2>5. ceremonies' \subseteq ceremonies /\ sessions' \subseteq sessions
    BY <1>7 DEF RecordPasskeyUse
  <2> QED BY <1>0, <2>3, <2>4, <2>5, ChallengeGoes
<1>8. ASSUME NEW r \in Requests, Arrives(r),
             ~ \E c \in Challenges, k \in Keys, n \in 0 .. MaxCount : SignIn(r, c, k, n)
      PROVE  ChallengeInv'
  BY <1>0, <1>8, ArrivalGoes, ChallengeGoes DEF SignInStates
<1>9. ASSUME \/ \E s \in sessions : EndSession(s)
             \/ DeleteSupersededRecoveryCodes \/ Clock \/ UNCHANGED vars
       PROVE  ChallengeInv'
  <2>1. UNCHANGED ceremonies
    BY <1>9 DEF EndSession, DeleteSupersededRecoveryCodes, Clock, vars, db
  <2>2. UNCHANGED req /\ sessions' \subseteq sessions BY <1>9, Aside
  <2> QED BY <1>0, <2>1, <2>2 DEF ChallengeInv, ChallengeOnce
<1> QED BY <1>1, <1>2, <1>3, <1>5, <1>6, <1>7, <1>8, <1>9
       DEF Next, Arrives, Statement, BeginAssertion, BeginRegistration

-----------------------------------------------------------------------------
(* A value of a counter signs in once.                                     *)

(* At first every counter is 0.                                             *)
LEMMA CounterInit == ASSUME CredentialsAssumption, Init PROVE CounterInv
<1>1. \A r \in Requests : req[r].at = "idle" BY DEF Init, Idle
<1>2. \A s \in sessions : s.count = 0 /\ s.key \in Keys BY DEF Init
<1>3. \A s \in sessions : passkey[s.key].count \in 0 .. MaxCount
  BY <1>2, TypesInit, OwnerInit DEF Types, KeyRec, OwnerInv, SessionHasPasskey
<1> QED BY <1>1, <1>2, <1>3 DEF CounterInv, CounterOnce

(* The counters are numbers.                                                *)
LEMMA Counts ==
    ASSUME Types
    PROVE  /\ \A s \in sessions : s.key \in Keys /\ s.count \in Int
           /\ \A k \in Keys : passkey[k] # NoKey => passkey[k].count \in Int
           /\ \A r \in Requests : req[r].at = "recorded" => req[r].key \in Keys /\ req[r].count \in Int
<1>1. \A s \in sessions : s.key \in Keys /\ s.count \in Int BY DEF Types, SessionRec
<1>2. \A k \in Keys : passkey[k] # NoKey => passkey[k].count \in Int BY DEF Types, KeyRec
<1>3. \A r \in Requests : req[r].at = "recorded" => req[r].key \in Keys /\ req[r].count \in Int
  BY RequestStates DEF Types, SignInRec
<1> QED BY <1>1, <1>2, <1>3

(* A counter that was no less than n is no less in a row that stays.        *)
LEMMA CounterGrows ==
    ASSUME Types, Types', OwnerInv, RowsStay, NEW k \in Keys, k \in issued, passkey'[k] # NoKey,
           NEW n \in Int, n <= passkey[k].count
    PROVE  n <= passkey'[k].count
<1>1. passkey[k] # NoKey /\ passkey[k].count <= passkey'[k].count BY DEF RowsStay
<1>2. passkey[k].count \in Int /\ passkey'[k].count \in Int BY <1>1 DEF Types, KeyRec
<1> QED BY <1>1, <1>2

(* A step that records no counter and starts no session.                    *)
LEMMA CounterFrame ==
    ASSUME Types, Types', OwnerInv, OwnerInv', CounterInv, RowsStay, sessions' \subseteq sessions,
           \A q \in Requests : req'[q].at = "recorded" => req'[q] = req[q]
    PROVE  CounterInv'
<1>1. \A s \in sessions' : s.count <= passkey'[s.key].count
  <2> SUFFICES ASSUME NEW s \in sessions' PROVE s.count <= passkey'[s.key].count OBVIOUS
  <2>1. s \in sessions /\ s.key \in Keys /\ s.count \in Int BY Counts
  <2>2. passkey[s.key] # NoKey /\ passkey'[s.key] # NoKey /\ s.key \in issued
    BY <2>1 DEF OwnerInv, SessionHasPasskey
  <2> QED BY <2>1, <2>2, CounterGrows DEF CounterInv
<1>2. ASSUME NEW q \in Requests, req'[q].at = "recorded", passkey'[req'[q].key] # NoKey
      PROVE  req'[q].count <= passkey'[req'[q].key].count
  <2>1. req'[q] = req[q] /\ req[q].at = "recorded" BY <1>2
  <2>2. req[q].key \in Keys /\ req[q].count \in Int BY <2>1, Counts
  <2>3. req[q].key \in issued BY <2>1 DEF OwnerInv, Owns
  <2>4. passkey[req[q].key] # NoKey BY <1>2, <2>1, <2>2, <2>3 DEF RowsStay
  <2>5. req[q].count <= passkey[req[q].key].count BY <2>1, <2>4 DEF CounterInv
  <2> QED BY <1>2, <2>1, <2>2, <2>3, <2>5, CounterGrows
<1> QED BY <1>1, <1>2 DEF CounterInv, CounterOnce

(* Every step keeps CounterInv: the comparison in RecordPasskeyUse is with  *)
(* the row as it is then, not as VerifyAssertion read it.                   *)
LEMMA CounterStep ==
    ASSUME CredentialsAssumption, Types, Types', OwnerInv, OwnerInv', CounterInv, RowsStay,
           Next \/ UNCHANGED vars
    PROVE  CounterInv'
<1>1. ASSUME NEW r \in Requests, RecordPasskeyUse(r) PROVE CounterInv'
  <2>1. req[r] \in SignInRec BY <1>1, RequestStates DEF RecordPasskeyUse, Types
  <2>2. PICK x : x = [req[r] EXCEPT !.at = "recorded"] OBVIOUS
  <2>3. PICK k \in Keys, n \in Int : k = req[r].key /\ n = req[r].count BY <2>1 DEF SignInRec
  <2>4. x.key = k /\ x.count = n /\ x.at = "recorded" BY <2>1, <2>2, <2>3 DEF SignInRec
  <2>5. req'[r] = x /\ \A q \in Requests : q # r => req'[q] = req[q]
    BY <1>1, <2>2, OneRequest DEF RecordPasskeyUse, Types, Go
  <2>6. passkey[k] # NoKey /\ passkey[k].count \in Int BY <1>1, <2>3, Counts DEF RecordPasskeyUse
  <2>7. /\ passkey'[k] # NoKey /\ passkey'[k].count = n
        /\ passkey[k].count <= n /\ (passkey[k].count = n => n = 0)
    BY <1>1, <2>3, CountedRow
  <2>8. /\ UNCHANGED sessions
        /\ \A j \in Keys : j # k => passkey'[j] = passkey[j]
    BY <1>1, <2>3 DEF RecordPasskeyUse, Types
  <2>9. \A m \in Int : m <= passkey[k].count => m <= n /\ (m = n => m = 0)
    BY <2>6, <2>7
  <2>10. \A s \in sessions : s.key = k => s.count <= n /\ (s.count = n => s.count = 0)
    BY <2>9, Counts DEF CounterInv
  <2>11. \A q \in Requests : req[q].at = "recorded" /\ req[q].key = k =>
            req[q].count <= n /\ (req[q].count = n => n = 0)
    BY <2>6, <2>9, Counts DEF CounterInv
  <2>12. \A s \in sessions' : s.count <= passkey'[s.key].count
    BY <2>7, <2>8, <2>10, Counts DEF CounterInv
  <2>13. ASSUME NEW q \in Requests, req'[q].at = "recorded", passkey'[req'[q].key] # NoKey
         PROVE  req'[q].count <= passkey'[req'[q].key].count
    <3>1. CASE q = r BY <2>4, <2>5, <2>7, <3>1
    <3>2. CASE q # r /\ req[q].key = k BY <2>5, <2>7, <2>11, <2>13, <3>2
    <3>3. CASE q # r /\ req[q].key # k BY <2>5, <2>8, <2>13, <3>3, Counts DEF CounterInv
    <3> QED BY <3>1, <3>2, <3>3
  <2>14. ASSUME NEW p \in Requests, NEW q \in Requests, req'[p].at = "recorded", req'[q].at = "recorded",
                req'[q].key = req'[p].key, req'[q].count = req'[p].count, req'[p].count > 0
         PROVE  q = p
    <3>1. CASE p = r /\ q # r BY <2>4, <2>5, <2>11, <2>14, <3>1
    <3>2. CASE p # r /\ q = r BY <2>4, <2>5, <2>11, <2>14, <3>2
    <3>3. CASE p # r /\ q # r BY <2>5, <2>14, <3>3 DEF CounterInv
    <3> QED BY <3>1, <3>2, <3>3
  <2>15. ASSUME NEW q \in Requests, req'[q].at = "recorded", NEW s \in sessions',
                s.key = req'[q].key, s.count = req'[q].count
         PROVE  s.count = 0
    <3>1. CASE q = r BY <2>4, <2>5, <2>8, <2>10, <2>15, <3>1
    <3>2. CASE q # r BY <2>5, <2>8, <2>15, <3>2 DEF CounterInv
    <3> QED BY <3>1, <3>2
  <2>16. CounterOnce' BY <2>8 DEF CounterInv, CounterOnce
  <2> QED BY <2>12, <2>13, <2>14, <2>15, <2>16 DEF CounterInv
<1>2. ASSUME NEW r \in Requests, CreateSession(r) PROVE CounterInv'
  <2>1. req[r].at = "recorded" /\ UNCHANGED passkey /\ passkey[req[r].key] # NoKey
    BY <1>2 DEF CreateSession
  <2>2. PICK old, new : /\ sessions' = (sessions \ old) \cup {new}
                        /\ new.key = req[r].key /\ new.count = req[r].count
    BY <1>2, NewSession
  <2>3. new.count \in Int /\ new.count <= passkey[new.key].count
    BY <2>1, <2>2, Counts DEF CounterInv
  <2>4. \A s \in sessions : s.key = new.key /\ s.count = new.count => s.count = 0
    BY <2>1, <2>2 DEF CounterInv
  <2>5. req'[r].at = "idle" /\ \A q \in Requests : q # r => req'[q] = req[q]
    BY <1>2, OneRequest DEF CreateSession, Types, End, Go, Idle
  <2>6. \A q \in Requests : q # r /\ req[q].at = "recorded" /\ req[q].key = new.key
            /\ req[q].count = new.count => ~ (new.count > 0)
    BY <2>1, <2>2 DEF CounterInv
  <2>7. new.count \in 0 .. MaxCount BY <2>2 DEF Types, SessionRec
  <2>8. ~ (new.count > 0) => new.count = 0 BY <2>7 DEF CredentialsAssumption
  <2>9. CounterOnce' BY <2>2, <2>3, <2>4 DEF CounterInv, CounterOnce
  <2> QED BY <2>1, <2>2, <2>3, <2>5, <2>6, <2>8, <2>9 DEF CounterInv
<1>3. ASSUME NEW r \in Requests, NEW x, Go(r, x), x.at # "recorded", sessions' \subseteq sessions
      PROVE  CounterInv'
  <2>1. \A q \in Requests : req'[q].at = "recorded" => req'[q] = req[q]
    BY <1>3, OneRequest DEF Types, Go
  <2> QED BY <1>3, <2>1, CounterFrame
<1>4. ASSUME NEW r \in Requests, End(r), sessions' \subseteq sessions PROVE CounterInv'
  BY <1>3, <1>4 DEF End, Idle
<1>5. ASSUME NEW r \in Requests,
             saveRegistration(r) \/ RemoveCommits(r) \/ CodesCommit(r) \/ RedeemCommits(r)
             \/ CloseCommits(r) \/ Refuse(r)
      PROVE  CounterInv'
  BY <1>4, <1>5 DEF saveRegistration, RemoveCommits, WithoutKeys, CodesCommit, RedeemCommits,
     CloseCommits, Refuse, db
<1>6. ASSUME NEW r \in Requests, DeleteRecoveryCodes(r) \/ DeleteUserSessions(r) \/ VerifyAssertion(r)
      PROVE  CounterInv'
  BY <1>3, <1>6, ReadGoes
<1>7. ASSUME NEW r \in Requests, Arrives(r) PROVE CounterInv'
  BY <1>3, <1>7, ArrivalGoes
<1>8. ASSUME \/ \E c, u : startCeremony(c, u)
             \/ \E s \in sessions : EndSession(s)
             \/ DeleteSupersededRecoveryCodes \/ Clock \/ UNCHANGED vars
       PROVE  CounterInv'
  BY <1>8, Aside, CounterFrame
<1> QED BY <1>1, <1>2, <1>5, <1>6, <1>7, <1>8
       DEF Next, Statement, BeginAssertion, BeginRegistration

-----------------------------------------------------------------------------
(* A recovery code adds one passkey.                                       *)

(* At first there are no codes.                                             *)
LEMMA CodeInit == ASSUME CredentialsAssumption, Init PROVE CodeInv
<1>1. \A r \in Requests : req[r].at = "idle" BY DEF Init, Idle
<1>2. codes = {} BY DEF Init
<1>3. \A k \in Keys : passkey[k] # NoKey => passkey[k].code = NoCode BY DEF Init
<1> QED BY <1>1, <1>2, <1>3 DEF CodeInv, CodeOnce

(* A step that makes no codes, uses none, and adds no passkey.              *)
LEMMA CodeFrame ==
    ASSUME Types, OwnerInv, CodeInv, RowsStay, codes' \subseteq codes,
           \A k \in Keys : passkey'[k] # NoKey => passkey[k] # NoKey,
           \A q \in Requests : req'[q].at = "redeem" => req'[q] = req[q] /\ req[q].code \in codes'
    PROVE  CodeInv'
<1>1. \A k \in Keys : passkey'[k] # NoKey => passkey[k] # NoKey /\ passkey'[k].code = passkey[k].code
  BY DEF RowsStay, OwnerInv
<1>2. issued \subseteq issued' BY DEF RowsStay
<1>3. \A r \in Requests : req'[r].at = "redeem" =>
          /\ req'[r].code \in codes' /\ ~req'[r].code.used /\ req'[r].code.user = req'[r].user
          /\ \A q \in Requests : req'[q].at = "redeem" /\ req'[q].code = req'[r].code => q = r
  BY DEF CodeInv
<1>4. CodeOnce' BY <1>1 DEF CodeInv, CodeOnce
<1>5. /\ \A x \in codes' : x.batch \in issued'
      /\ \A x, y \in codes' : x.batch = y.batch /\ x.n = y.n => x = y
  BY <1>2 DEF CodeInv
<1>6. /\ \A k \in Keys : passkey'[k] # NoKey /\ passkey'[k].code # NoCode => passkey'[k].code[1] \in issued'
      /\ \A x \in codes' : ~x.used =>
            \A k \in Keys : passkey'[k] # NoKey => passkey'[k].code # <<x.batch, x.n>>
  BY <1>1, <1>2 DEF CodeInv
<1> QED BY <1>3, <1>4, <1>5, <1>6 DEF CodeInv

(* Every step keeps CodeInv: whoever deletes a code waits for the request   *)
(* that has its row.                                                        *)
LEMMA CodeStep ==
    ASSUME CredentialsAssumption, Types, OwnerInv, CodeInv, RowsStay, Next \/ UNCHANGED vars
    PROVE  CodeInv'
<1>0. /\ \A r \in Requests : req[r].at = "redeem" => req[r].code \in codes
      /\ issued \subseteq issued'
      /\ \A x \in codes : <<x.batch, x.n>> \in Pairs
      /\ NoCode \notin Pairs
  BY DEF CodeInv, RowsStay, Types, CodeRec, Pairs, CredentialsAssumption
<1>1. ASSUME NEW r \in Requests, NEW x, Go(r, x), x.at # "redeem",
             \A k \in Keys : passkey'[k] # NoKey => passkey[k] # NoKey,
             codes' \subseteq codes, \A y \in codes : Held(y) => y \in codes'
      PROVE  CodeInv'
  <2>1. \A q \in Requests : req'[q].at = "redeem" => req'[q] = req[q]
    BY <1>1, OneRequest DEF Types, Go
  <2>2. \A q \in Requests : req'[q].at = "redeem" => req[q].code \in codes'
    BY <1>0, <1>1, <2>1 DEF Held
  <2> QED BY <1>1, <2>1, <2>2, CodeFrame
<1>2. ASSUME NEW r \in Requests, End(r),
             \A k \in Keys : passkey'[k] # NoKey => passkey[k] # NoKey,
             codes' \subseteq codes, \A y \in codes : Held(y) => y \in codes'
      PROVE  CodeInv'
  BY <1>1, <1>2 DEF End, Idle
<1>3. ASSUME NEW r \in Requests, CreateSession(r) \/ RemoveCommits(r) \/ Refuse(r) PROVE CodeInv'
  BY <1>2, <1>3 DEF CreateSession, RemoveCommits, WithoutKeys, Refuse, db
<1>4. ASSUME NEW r \in Requests, CloseCommits(r) PROVE CodeInv'
  BY <1>2, <1>4 DEF CloseCommits
<1>5. ASSUME NEW r \in Requests, RecordPasskeyUse(r) PROVE CodeInv'
  <2>1. req[r] \in SignInRec BY <1>5, RequestStates DEF RecordPasskeyUse, Types
  <2>2. [req[r] EXCEPT !.at = "recorded"].at = "recorded" BY <2>1 DEF SignInRec
  <2>3. \A k \in Keys : passkey'[k] # NoKey => passkey[k] # NoKey
    BY <1>5 DEF RecordPasskeyUse, Types
  <2> QED BY <1>1, <1>5, <2>2, <2>3 DEF RecordPasskeyUse
<1>6. ASSUME NEW r \in Requests, DeleteRecoveryCodes(r) \/ DeleteUserSessions(r) \/ VerifyAssertion(r)
      PROVE  CodeInv'
  BY <1>1, <1>6, ReadGoes
<1>7. ASSUME NEW r \in Requests, NEW x \in codes, NEW c \in Challenges, NEW k \in Keys,
             RedeemRecoveryCode(r, x, c, k)
      PROVE  CodeInv'
  <2>1. Go(r, [at |-> "redeem", code |-> x, user |-> x.user, id |-> c, key |-> k])
    BY <1>7 DEF RedeemRecoveryCode, Begin, Go
  <2>2. /\ req'[r].at = "redeem" /\ req'[r].code = x /\ req'[r].user = x.user
        /\ \A q \in Requests : q # r => req'[q] = req[q]
    BY <2>1, OneRequest DEF Types, Go
  <2>3. ~x.used /\ ~Held(x) /\ UNCHANGED <<codes, passkey, issued>>
    BY <1>7 DEF RedeemRecoveryCode, db
  <2>4. \A p \in Requests : req'[p].at = "redeem" =>
          /\ req'[p].code \in codes' /\ ~req'[p].code.used /\ req'[p].code.user = req'[p].user
          /\ \A q \in Requests : req'[q].at = "redeem" /\ req'[q].code = req'[p].code => q = p
    BY <2>2, <2>3 DEF CodeInv, Held
  <2> QED BY <2>3, <2>4 DEF CodeInv, CodeOnce
<1>8. ASSUME NEW r \in Requests, Arrives(r),
             ~ \E x \in codes, c \in Challenges, k \in Keys : RedeemRecoveryCode(r, x, c, k)
      PROVE  CodeInv'
  BY <1>1, <1>8, ArrivalGoes
<1>9. ASSUME NEW r \in Requests, saveRegistration(r) PROVE CodeInv'
  <2>1. PICK k \in Keys : k = req[r].key BY <1>9, RequestStates DEF saveRegistration, Types
  <2>2. /\ k \notin issued /\ passkey'[k].code = NoCode
        /\ \A j \in Keys : j # k => passkey'[j] = passkey[j]
    BY <1>9, <2>1 DEF saveRegistration, NewPasskey, Types
  <2>3. UNCHANGED codes BY <1>9 DEF saveRegistration
  <2>4. \A q \in Requests : req'[q].at = "redeem" => req'[q] = req[q]
    BY <1>9, OneRequest DEF saveRegistration, Types, End, Go, Idle
  <2>5. CodeOnce' BY <2>2 DEF CodeInv, CodeOnce
  <2>6. \A x \in codes' : ~x.used =>
            \A j \in Keys : passkey'[j] # NoKey => passkey'[j].code # <<x.batch, x.n>>
    <3>1. \A x \in codes : passkey'[k].code # <<x.batch, x.n>> BY <1>0, <2>2
    <3>2. \A x \in codes : ~x.used =>
              \A j \in Keys : j # k /\ passkey[j] # NoKey => passkey[j].code # <<x.batch, x.n>>
      BY DEF CodeInv
    <3> QED BY <2>2, <2>3, <3>1, <3>2
  <2>7. \A j \in Keys : passkey'[j] # NoKey /\ passkey'[j].code # NoCode => passkey'[j].code[1] \in issued'
    BY <1>0, <2>2 DEF CodeInv
  <2> QED BY <1>0, <2>3, <2>4, <2>5, <2>6, <2>7 DEF CodeInv
<1>10. ASSUME NEW r \in Requests, RedeemCommits(r) PROVE CodeInv'
  <2>1. PICK k \in Keys : k = req[r].key BY <1>10, RequestStates DEF RedeemCommits, Types
  <2>2. PICK x \in codes : x = req[r].code /\ ~x.used BY <1>10 DEF RedeemCommits, CodeInv
  <2>3. PICK z : /\ codes' = (codes \ {x}) \cup {z}
                 /\ z.batch = x.batch /\ z.n = x.n /\ z.used = TRUE
    <3>1. x \in CodeRec BY DEF Types
    <3>2. /\ [x EXCEPT !.used = TRUE].batch = x.batch /\ [x EXCEPT !.used = TRUE].n = x.n
          /\ [x EXCEPT !.used = TRUE].used = TRUE
      BY <3>1 DEF CodeRec
    <3>3. codes' = (codes \ {x}) \cup {[x EXCEPT !.used = TRUE]}
      BY <1>10, <2>2 DEF RedeemCommits
    <3> QED BY <3>2, <3>3
  <2>4. /\ passkey'[k].code = <<x.batch, x.n>>
        /\ \A j \in Keys : j # k => passkey'[j] = passkey[j]
    BY <1>10, <2>1, <2>2 DEF RedeemCommits, NewPasskey, Types
  <2>5. req'[r].at = "idle" /\ \A q \in Requests : q # r => req'[q] = req[q]
    BY <1>10, OneRequest DEF RedeemCommits, Types, End, Go, Idle
  <2>6. \A y \in codes : y # x => <<y.batch, y.n>> # <<x.batch, x.n>> BY DEF CodeInv
  <2>7. \A y \in codes' : ~y.used => y \in codes /\ y # x BY <2>3
  <2>8. \A j \in Keys : passkey[j] # NoKey => passkey[j].code # <<x.batch, x.n>>
    BY <2>2 DEF CodeInv
  <2>9. \A y \in codes' : y.batch \in issued' BY <1>0, <2>3 DEF CodeInv
  <2>10. \A v, w \in codes' : v.batch = w.batch /\ v.n = w.n => v = w
    BY <2>3 DEF CodeInv
  <2>11. \A y \in codes' : ~y.used =>
            \A j \in Keys : passkey'[j] # NoKey => passkey'[j].code # <<y.batch, y.n>>
    BY <2>4, <2>6, <2>7 DEF CodeInv
  <2>12. \A j \in Keys : passkey'[j] # NoKey /\ passkey'[j].code # NoCode => passkey'[j].code[1] \in issued'
    <3>1. passkey'[k].code[1] = x.batch /\ x.batch \in issued' BY <1>0, <2>4 DEF CodeInv
    <3> QED BY <1>0, <2>4, <3>1 DEF CodeInv
  <2>13. CodeOnce' BY <2>4, <2>8 DEF CodeInv, CodeOnce
  <2>14. \A p \in Requests : req'[p].at = "redeem" =>
          /\ req'[p].code \in codes' /\ ~req'[p].code.used /\ req'[p].code.user = req'[p].user
          /\ \A q \in Requests : req'[q].at = "redeem" /\ req'[q].code = req'[p].code => q = p
    <3>1. req[r].at = "redeem" BY <1>10 DEF RedeemCommits
    <3>2. \A p \in Requests : p # r /\ req[p].at = "redeem" => req[p].code # x
      BY <2>2, <3>1 DEF CodeInv
    <3> QED BY <2>3, <2>5, <3>2 DEF CodeInv
  <2> QED BY <2>9, <2>10, <2>11, <2>12, <2>13, <2>14 DEF CodeInv
<1>11. ASSUME NEW r \in Requests, CodesCommit(r) PROVE CodeInv'
  <2> DEFINE gone == {x \in codes : <<x.batch, x.n>> \in req[r].saw}
  <2>1. PICK b \in Batches \ issued : /\ codes' = (codes \ gone) \cup Batch(b, req[r].user, req[r].had)
                                      /\ issued' = issued \cup {b}
    BY <1>11 DEF CodesCommit
  <2>2. \A x \in gone : ~Held(x) BY <1>11 DEF CodesCommit
  <2>3. gone \subseteq codes OBVIOUS
  <2>4. /\ \A x \in Batch(b, req[r].user, req[r].had) : x.batch = b
        /\ \A x, y \in Batch(b, req[r].user, req[r].had) : x.n = y.n => x = y
    <3>1. ASSUME NEW x \in Batch(b, req[r].user, req[r].had) PROVE x.batch = b BY DEF Batch
    <3>2. ASSUME NEW x \in Batch(b, req[r].user, req[r].had),
                 NEW y \in Batch(b, req[r].user, req[r].had), x.n = y.n
          PROVE  x = y
      <4>1. PICK i \in 1 .. BatchSize :
                x = [batch |-> b, n |-> i, user |-> req[r].user, made |-> now, used |-> FALSE,
                     had |-> req[r].had]
        BY DEF Batch
      <4>2. PICK j \in 1 .. BatchSize :
                y = [batch |-> b, n |-> j, user |-> req[r].user, made |-> now, used |-> FALSE,
                     had |-> req[r].had]
        BY DEF Batch
      <4>3. x.n = i /\ y.n = j BY <4>1, <4>2
      <4> QED BY <3>2, <4>1, <4>2, <4>3
    <3> QED BY <3>1, <3>2
  <2> HIDE DEF gone
  <2>5. UNCHANGED passkey BY <1>11 DEF CodesCommit
  <2>6. req'[r].at = "idle" /\ \A q \in Requests : q # r => req'[q] = req[q]
    BY <1>11, OneRequest DEF CodesCommit, Types, End, Go, Idle
  <2>7. \A x \in codes' : x \in codes \/ x.batch = b BY <2>1, <2>4
  <2>8. \A x \in codes : x.batch # b BY DEF CodeInv
  <2>9. \A x \in codes' : x.batch \in issued' BY <2>1, <2>7 DEF CodeInv
  <2>10. \A x, y \in codes' : x.batch = y.batch /\ x.n = y.n => x = y
    BY <2>1, <2>3, <2>4, <2>8 DEF CodeInv
  <2>11. \A k \in Keys : passkey[k] # NoKey =>
            passkey[k].code = NoCode \/ (passkey[k].code \in Pairs /\ passkey[k].code[1] \in issued)
    BY DEF Types, KeyRec, CodeInv
  <2>12. \A n \in 1 .. BatchSize : <<b, n>> \in Pairs BY DEF Pairs
  <2>13. \A x \in Batch(b, req[r].user, req[r].had) : x.n \in 1 .. BatchSize BY DEF Batch
  <2>14. \A x \in Batch(b, req[r].user, req[r].had), k \in Keys :
            passkey[k] # NoKey => passkey[k].code # <<x.batch, x.n>>
    <3> SUFFICES ASSUME NEW x \in Batch(b, req[r].user, req[r].had), NEW k \in Keys, passkey[k] # NoKey,
                        passkey[k].code = <<x.batch, x.n>>
                 PROVE  FALSE
      OBVIOUS
    <3>1. <<x.batch, x.n>> \in Pairs /\ <<x.batch, x.n>>[1] = b BY <2>4, <2>12, <2>13
    <3> QED BY <1>0, <2>11, <3>1
  <2>15. \A x \in codes' : ~x.used =>
            \A k \in Keys : passkey'[k] # NoKey => passkey'[k].code # <<x.batch, x.n>>
    BY <2>1, <2>5, <2>14 DEF CodeInv
  <2>16. \A p \in Requests : req'[p].at = "redeem" =>
          /\ req'[p].code \in codes' /\ ~req'[p].code.used /\ req'[p].code.user = req'[p].user
          /\ \A q \in Requests : req'[q].at = "redeem" /\ req'[q].code = req'[p].code => q = p
    <3>1. \A p \in Requests : req[p].at = "redeem" => req[p].code \notin gone BY <2>2 DEF Held
    <3> QED BY <2>1, <2>6, <3>1 DEF CodeInv
  <2>17. CodeOnce' BY <2>5 DEF CodeInv, CodeOnce
  <2>18. \A k \in Keys : passkey'[k] # NoKey /\ passkey'[k].code # NoCode => passkey'[k].code[1] \in issued'
    BY <2>1, <2>5 DEF CodeInv
  <2> QED BY <2>9, <2>10, <2>15, <2>16, <2>17, <2>18 DEF CodeInv
<1>12. ASSUME \/ \E c, u : startCeremony(c, u)
              \/ \E s \in sessions : EndSession(s)
              \/ DeleteSupersededRecoveryCodes \/ Clock \/ UNCHANGED vars
       PROVE  CodeInv'
  <2>1. \A y \in codes : Held(y) => y \in codes'
    BY <1>12 DEF startCeremony, EndSession, DeleteSupersededRecoveryCodes, Clock, vars, db
  <2>2. \A q \in Requests : req[q].at = "redeem" => req[q].code \in codes'
    BY <1>0, <2>1 DEF Held
  <2> QED BY <1>12, <2>2, Aside, CodeFrame
<1> QED BY <1>3, <1>4, <1>5, <1>6, <1>7, <1>8, <1>9, <1>10, <1>11, <1>12
       DEF Next, Arrives, Statement, BeginAssertion, BeginRegistration

-----------------------------------------------------------------------------

(* The invariant holds at first.                                            *)
LEMMA InvInit == ASSUME CredentialsAssumption, Init PROVE Inv
BY TypesInit, OwnerInit, RemovalInit, ChallengeInit, CounterInit, CodeInit DEF Inv

(* And after every step.                                                    *)
LEMMA InvStep == ASSUME CredentialsAssumption, Inv, [Next]_vars PROVE Inv'
<1>1. Types /\ OwnerInv /\ RemovalInv /\ ChallengeInv /\ CounterInv /\ CodeInv BY DEF Inv
<1>2. Next \/ UNCHANGED vars OBVIOUS
<1>3. RowsStay BY <1>1, <1>2, RowsStep
<1>4. Types' BY <1>1, <1>2, TypesStep
<1>5. OwnerInv' BY <1>1, <1>2, <1>4, OwnerStep
<1>6. RemovalInv' BY <1>1, <1>2, <1>3, <1>4, RemovalStep
<1>7. ChallengeInv' BY <1>1, <1>2, <1>3, ChallengeStep
<1>8. CounterInv' BY <1>1, <1>2, <1>3, <1>4, <1>5, CounterStep
<1>9. CodeInv' BY <1>1, <1>2, <1>3, CodeStep
<1> QED BY <1>4, <1>5, <1>6, <1>7, <1>8, <1>9 DEF Inv

(* Every session's passkey is registered, to that account, and every open   *)
(* account has a passkey, whatever sign-ins, registrations, removals,       *)
(* redemptions and closings do between each other's statements              *)
(* (CreateSession, session.go; removePasskey, passkeys.go; DeletePasskey,   *)
(* passkey_credential.sql.go).                                              *)
THEOREM CredentialsHold ==
    ASSUME CredentialsAssumption
    PROVE  Spec => []CredentialsAgree
<1>1. Types => TypeOK
  BY DEF Types, TypeOK, KeyRec, SessionRec, CodeRec
<1>2. Inv => CredentialsAgree
  BY <1>1 DEF Inv, OwnerInv, RemovalInv, CredentialsAgree
<1> QED BY <1>2, InvInit, InvStep, PTL DEF Spec

(* No two sessions come from one challenge or from one value of an          *)
(* authenticator's counter, and no two passkeys from one recovery code,     *)
(* however many requests hold it at the same time (takeCeremony,            *)
(* RecordPasskeyUse, RedeemRecoveryCode).                                   *)
THEOREM CredentialsUsedOnce ==
    ASSUME CredentialsAssumption
    PROVE  Spec => []UsedOnce
<1>1. Inv => UsedOnce
  BY DEF Inv, ChallengeInv, CounterInv, CodeInv, UsedOnce
<1> QED BY <1>1, InvInit, InvStep, PTL DEF Spec

(* A passkey that is removed never comes back, and one that stays keeps its *)
(* account and never lowers its counter, when two sign-ins with it write    *)
(* their counters in either order (RecordPasskeyUse,                        *)
(* passkey_credential.sql.go).                                              *)
THEOREM PasskeyRowsStay ==
    ASSUME CredentialsAssumption
    PROVE  Spec => [][RowsStay]_vars
<1>1. Inv /\ [Next]_vars => RowsStay
  BY RowsStep DEF Inv
<1> QED BY <1>1, InvInit, InvStep, PTL DEF Spec

-----------------------------------------------------------------------------
(* A new batch replaces the ones there were.                               *)

\* Of a creation under way: what it read, against the codes there are.
Replaces(x) ==
    /\ x.had \subseteq issued
    /\ \A c \in codes : c.user = x.user /\ c.batch \in x.had => <<c.batch, c.n>> \in x.saw

BatchInv ==
    /\ \A c \in codes : c.batch \in issued /\ c.had \subseteq issued
    /\ \A r \in Requests : req[r].at = "codes" => Replaces(req[r])
    /\ OneBatch

\* Each code is of a batch and an account that had one before.
FromCodes ==
    \A c \in codes' : \E d \in codes :
        c.user = d.user /\ c.batch = d.batch /\ c.n = d.n /\ c.had = d.had

(* No batch is added, and no request has become one for new codes.          *)
LEMMA BatchFrame ==
    ASSUME BatchInv, DOMAIN req = Requests, FromCodes, issued \subseteq issued',
           \A r \in Requests : req'[r] # req[r] => req'[r].at # "codes"
    PROVE  BatchInv'
<1>1. \A c \in codes' : c.batch \in issued' /\ c.had \subseteq issued' BY DEF BatchInv, FromCodes
<1>2. ASSUME NEW r \in Requests, req'[r].at = "codes" PROVE Replaces(req[r])'
  <2>1. req'[r] = req[r] /\ Replaces(req[r]) BY <1>2 DEF BatchInv
  <2> QED BY <2>1 DEF Replaces, FromCodes
<1>3. OneBatch' BY DEF BatchInv, OneBatch, FromCodes
<1> QED BY <1>1, <1>2, <1>3 DEF BatchInv

LEMMA BatchStep ==
    ASSUME CredentialsAssumption, Inv, BatchInv, [Next]_vars
    PROVE  BatchInv'
<1>0. DOMAIN req = Requests BY DEF Inv, Types
<1>1. ASSUME NEW r \in Requests, NEW u \in Users, createCodes(r, u) PROVE BatchInv'
  <2>1. UNCHANGED <<codes, issued>> BY <1>1 DEF createCodes, db
  <2>2. /\ req'[r] = [at |-> "codes", user |-> u, had |-> Batches \cap issued,
                      saw |-> {<<x.batch, x.n>> : x \in CodesOf(u)}]
        /\ \A q \in Requests : q # r => req'[q] = req[q]
    BY <1>0, <1>1 DEF createCodes, Begin
  <2>3. Replaces(req[r])' BY <2>1, <2>2 DEF Replaces, CodesOf
  <2>4. ASSUME NEW q \in Requests, q # r, req'[q].at = "codes" PROVE Replaces(req[q])'
    <3>1. req'[q] = req[q] /\ Replaces(req[q]) BY <2>2, <2>4 DEF BatchInv
    <3> QED BY <2>1, <3>1 DEF Replaces
  <2>5. OneBatch' BY <2>1 DEF BatchInv, OneBatch
  <2> QED BY <2>1, <2>3, <2>4, <2>5 DEF BatchInv
<1>2. ASSUME NEW r \in Requests, CodesCommit(r) PROVE BatchInv'
  <2> DEFINE x == req[r]
             Rest == codes \ {c \in codes : <<c.batch, c.n>> \in x.saw}
  <2>1. PICK b \in Batches \ issued :
           codes' = Rest \cup Batch(b, x.user, x.had) /\ issued' = issued \cup {b}
    BY <1>2 DEF CodesCommit
  <2>2. Replaces(x) BY <1>2 DEF BatchInv, CodesCommit
  <2>3. \A c \in Batch(b, x.user, x.had) : c.user = x.user /\ c.batch = b /\ c.had = x.had
    BY DEF Batch
  <2>4. \A c \in Rest : c \in codes /\ (c.user = x.user => c.batch \notin x.had)
    BY <2>2 DEF Replaces
  <2>5. \A c \in codes : c.batch \in issued /\ c.had \subseteq issued BY DEF BatchInv
  <2>6. x.had \subseteq issued BY <2>2 DEF Replaces
  <2> HIDE DEF x, Rest
  <2>7. \A c \in codes' : c \in Rest \/ c \in Batch(b, x.user, x.had) BY <2>1
  <2>8. \A c \in codes' : c.batch \in issued' /\ c.had \subseteq issued'
    BY <2>1, <2>3, <2>4, <2>5, <2>6, <2>7
  <2>9. OneBatch'
    <3> SUFFICES ASSUME NEW c \in codes', NEW d \in codes', c.user = d.user
                 PROVE  c.batch = d.batch \/ (c.batch \notin d.had /\ d.batch \notin c.had)
      BY DEF OneBatch
    <3>1. CASE c \in Rest /\ d \in Rest BY <2>4, <3>1 DEF BatchInv, OneBatch
    <3>2. CASE c \in Rest /\ d \in Batch(b, x.user, x.had) BY <2>1, <2>3, <2>4, <2>5, <3>2
    <3>3. CASE c \in Batch(b, x.user, x.had) /\ d \in Rest BY <2>1, <2>3, <2>4, <2>5, <3>3
    <3>4. CASE c \in Batch(b, x.user, x.had) /\ d \in Batch(b, x.user, x.had) BY <2>3, <3>4
    <3> QED BY <2>7, <3>1, <3>2, <3>3, <3>4
  <2>10. ASSUME NEW q \in Requests, req'[q].at = "codes" PROVE Replaces(req[q])'
    <3>1. req' = [req EXCEPT ![r] = Idle] BY <1>2 DEF CodesCommit, End, Go
    <3>2. req'[q] = req[q] BY <1>0, <2>10, <3>1 DEF Idle
    <3>3. Replaces(req[q]) BY <2>10, <3>2 DEF BatchInv
    <3>4. b \notin req[q].had BY <3>3 DEF Replaces
    <3>5. \A c \in codes' : c.user = req[q].user /\ c.batch \in req[q].had
                               => <<c.batch, c.n>> \in req[q].saw
      BY <2>3, <2>4, <2>7, <3>3, <3>4 DEF Replaces
    <3> QED BY <2>1, <3>2, <3>3, <3>5 DEF Replaces
  <2> QED BY <2>8, <2>9, <2>10 DEF BatchInv
<1>3. ASSUME NEW r \in Requests, RedeemCommits(r) PROVE BatchInv'
  <2>1. req[r].code \in codes BY <1>3 DEF Inv, CodeInv, RedeemCommits
  <2>2. req[r].code \in CodeRec BY <2>1 DEF Inv, Types
  <2>3. FromCodes BY <1>3, <2>1, <2>2 DEF FromCodes, RedeemCommits, CodeRec
  <2>4. issued \subseteq issued' BY <1>3 DEF RedeemCommits, NewPasskey
  <2>5. req' = [req EXCEPT ![r] = Idle] BY <1>3 DEF RedeemCommits, End, Go
  <2>6. \A q \in Requests : req'[q] # req[q] => req'[q].at # "codes" BY <1>0, <2>5 DEF Idle
  <2> QED BY <1>0, <2>3, <2>4, <2>6, BatchFrame
<1>4. ASSUME NEW r \in Requests, NEW x, codes' \subseteq codes, issued \subseteq issued',
             Go(r, x), x.at # "codes"
      PROVE  BatchInv'
  <2>1. FromCodes BY <1>4 DEF FromCodes
  <2>2. \A q \in Requests : req'[q] # req[q] => req'[q].at # "codes" BY <1>0, <1>4 DEF Go
  <2> QED BY <1>0, <1>4, <2>1, <2>2, BatchFrame
<1>5. ASSUME NEW r \in Requests, Arrives(r) PROVE BatchInv'
  <2>1. PICK x : /\ Go(r, x) /\ UNCHANGED <<codes, issued>>
                 /\ x.at = "codes" => \E u \in Users : createCodes(r, u)
    BY <1>5, ArrivalGoes
  <2> QED BY <1>1, <1>4, <2>1
<1>6. ASSUME NEW r \in Requests, Statement(r) PROVE BatchInv'
  <2>1. CASE VerifyAssertion(r) \/ DeleteRecoveryCodes(r) \/ DeleteUserSessions(r)
    BY <1>4, <2>1, ReadGoes
  <2>2. CASE RecordPasskeyUse(r)
    <3>1. req[r] \in SignInRec BY <2>2, RequestStates DEF RecordPasskeyUse, Inv, Types
    <3>2. [req[r] EXCEPT !.at = "recorded"].at = "recorded" BY <3>1 DEF SignInRec
    <3> QED BY <1>4, <2>2, <3>2 DEF RecordPasskeyUse
  <2>3. CASE CreateSession(r) \/ saveRegistration(r) \/ RemoveCommits(r) \/ CloseCommits(r) \/ Refuse(r)
    <3>1. Go(r, Idle) /\ codes' \subseteq codes /\ issued \subseteq issued'
      BY <2>3 DEF CreateSession, saveRegistration, NewPasskey, RemoveCommits, CloseCommits,
         Refuse, End, db
    <3> QED BY <1>4, <3>1 DEF Idle
  <2> QED BY <1>2, <1>3, <1>6, <2>1, <2>2, <2>3 DEF Statement
<1>7. CASE UNCHANGED req /\ codes' \subseteq codes /\ issued \subseteq issued'
  BY <1>0, <1>7, BatchFrame DEF FromCodes
<1>8. \/ \E r \in Requests : Arrives(r) \/ Statement(r)
      \/ UNCHANGED req /\ codes' \subseteq codes /\ issued \subseteq issued'
  BY DEF Next, BeginAssertion, BeginRegistration, startCeremony, EndSession,
     DeleteSupersededRecoveryCodes, Clock, vars, db
<1> QED BY <1>5, <1>6, <1>7, <1>8

(* "An account is never left holding two batches" (createCodes): a creation *)
(* replaces every code of the batches there were when it began, used or     *)
(* not, whatever other requests create, redeem and sweep meanwhile.  Two    *)
(* creations that are under way at once are what leaves two batches.        *)
THEOREM CodesAreOfOneBatch ==
    ASSUME CredentialsAssumption
    PROVE  Spec => []OneBatch
<1>1. Init => BatchInv
  BY DEF Init, BatchInv, OneBatch, Idle
<1>2. BatchInv => OneBatch BY DEF BatchInv
<1> QED BY <1>1, <1>2, BatchStep, InvInit, InvStep, PTL DEF Spec

-----------------------------------------------------------------------------
(* Sessions: the inductive invariant.                                      *)

Places == {"lookup", "expire", "touch", "garden", "start", "move", "read", "handler"}
RowRec == [row : {TRUE}, garden : Gardens \cup {Sessions!NoGarden}, seen : Nat]
RequestRec == [at : Places, now : Nat, token : Tokens, garden : Gardens \cup {Sessions!NoGarden}]

\* What a request carries: the time and the token it arrived with.
SessionRequestTypes(x) == x = Sessions!Idle \/ (x \in RequestRec /\ x.now <= now /\ x.token \in spent)

SessionTypes ==
    /\ now \in Nat
    /\ session \in [Tokens -> RowRec \cup {Sessions!NoRow}]
    /\ spent \subseteq Tokens
    /\ member \in [Gardens -> Int]
    /\ last \in Gardens \cup {Sessions!NoGarden}
    /\ DOMAIN req = Requests /\ \A r \in Requests : SessionRequestTypes(req[r])
    /\ used \in [Tokens -> Nat]

\* A session's row was created, was last seen at a time that has come, and is on
\* a garden its account is in.
RowInv ==
    \A t \in Tokens : session[t] # Sessions!NoRow =>
        /\ t \in spent /\ session[t].seen <= now
        /\ session[t].garden # Sessions!NoGarden => member[session[t].garden] # Sessions!NotMember

SessionInv == SessionTypes /\ RowInv

\* Once its row is looked up a request has come by the time the row was dated,
\* or what it has found of the row is so.
DatedFor(x, row, when) ==
    row # Sessions!NoRow =>
        /\ x.at = "expire" => Sessions!SessionExpired(row.seen, x.now) \/ x.now <= when
        /\ x.at \in {"garden", "start", "move", "read"}
              => x.now - row.seen < Sessions!touchAfter \/ x.now <= when
InTime(r) == req[r] # Sessions!Idle => DatedFor(req[r], session[req[r].token], dated[req[r].token])

LastingInv ==
    /\ Sessions!UsedSessionLasts
    /\ dated \in [Tokens -> Nat]
    /\ \A t \in Tokens : used[t] <= now /\ dated[t] <= now
    /\ \A r \in Requests : InTime(r)

-----------------------------------------------------------------------------
(* Facts about records, and the first live garden.                         *)

(* A set of natural numbers that has one has a least.                       *)
LEMMA LeastOf ==
    ASSUME NEW S, S \subseteq Nat, S # {}
    PROVE  \E m \in S : \A n \in S : m <= n
<1>1. PICK R : R = OpToRel(<, Nat) BY Zenon
<1>2. IsWellFoundedOn(R, Nat) BY <1>1, NatLessThanWellFounded, Zenon
<1>3. PICK m \in S : \A n \in S : ~ (<<n, m>> \in R) BY <1>2, WFMin
<1>4. \A n, k \in Nat : n < k => <<n, k>> \in R BY <1>1 DEF OpToRel
<1>5. ASSUME NEW n \in S PROVE m <= n
  <2>1. m \in Nat /\ n \in Nat /\ ~ (n < m) BY <1>3, <1>4
  <2> QED BY <2>1
<1> QED BY <1>5

(* The garden a session starts in is one of the account's, or none.         *)
LEMMA FirstLive ==
    ASSUME Sessions!SessionsAssumption, SessionTypes, NEW t
    PROVE  Sessions!firstLiveMembership(t) \in Gardens \cup {Sessions!NoGarden}
<1>1. PICK live : live = {g \in Gardens : Sessions!Live(g, t)} OBVIOUS
<1>2. CASE live = {} BY <1>1, <1>2 DEF Sessions!firstLiveMembership
<1>3. CASE live # {} /\ last \in live BY <1>1, <1>3 DEF Sessions!firstLiveMembership
<1>4. CASE live # {} /\ last \notin live
  <2>1. live \subseteq Nat /\ live \subseteq Gardens BY <1>1 DEF Sessions!SessionsAssumption
  <2>2. \E g \in live : \A h \in live : g <= h BY <1>4, <2>1, LeastOf
  <2>3. (CHOOSE g \in live : \A h \in live : g <= h) \in live BY <2>2
  <2>4. Sessions!firstLiveMembership(t) = CHOOSE g \in live : \A h \in live : g <= h
    BY <1>1, <1>4 DEF Sessions!firstLiveMembership
  <2> QED BY <2>1, <2>3, <2>4
<1> QED BY <1>2, <1>3, <1>4

(* A row is not the lack of one, and an idle request carries nothing.       *)
LEMMA Distinct == Sessions!NoRow \notin RowRec /\ Sessions!Idle \notin RequestRec
<1>1. ASSUME Sessions!NoRow \in RowRec PROVE FALSE
  <2>1. Sessions!NoRow.row = TRUE BY <1>1 DEF RowRec
  <2>2. Sessions!NoRow.row = FALSE BY DEF Sessions!NoRow
  <2> QED BY <2>1, <2>2
<1>2. ASSUME Sessions!Idle \in RequestRec PROVE FALSE
  <2>1. Sessions!Idle.at \in Places BY <1>2 DEF RequestRec
  <2>2. Sessions!Idle.at = "idle" BY DEF Sessions!Idle
  <2> QED BY <2>1, <2>2 DEF Places
<1> QED BY <1>1, <1>2

(* A request under way.                                                     *)
LEMMA UnderWay ==
    ASSUME SessionTypes, NEW r \in Requests, req[r].at \in Places
    PROVE  /\ req[r] \in RequestRec /\ req[r] # Sessions!Idle
           /\ req[r].now \in Nat /\ req[r].now <= now /\ req[r].token \in spent /\ req[r].token \in Tokens
           /\ req[r].garden \in Gardens \cup {Sessions!NoGarden}
           /\ Sessions!Row(r) \in RowRec \cup {Sessions!NoRow} /\ Sessions!Row(r) = session[req[r].token]
<1>1. req[r] # Sessions!Idle BY DEF Sessions!Idle, Places
<1>2. req[r] \in RequestRec /\ req[r].now <= now /\ req[r].token \in spent
  BY <1>1 DEF SessionTypes,
            SessionRequestTypes
<1>3. req[r].now \in Nat /\ req[r].token \in Tokens /\ req[r].garden \in Gardens \cup {Sessions!NoGarden}
  BY <1>2 DEF RequestRec
<1> QED BY <1>1, <1>2, <1>3 DEF SessionTypes, Sessions!Row

(* A request that goes on as x.                                             *)
LEMMA SessionRequestGoes ==
    ASSUME SessionTypes, NEW r \in Requests, NEW x, Sessions!Go(r, x), UNCHANGED <<now, spent>>, SessionRequestTypes(x)
    PROVE  /\ req'[r] = x /\ \A q \in Requests : q # r => req'[q] = req[q]
           /\ DOMAIN req' = Requests /\ \A q \in Requests : SessionRequestTypes(req[q])'
<1>1. req'[r] = x /\ DOMAIN req' = Requests /\ \A q \in Requests : q # r => req'[q] = req[q]
  BY DEF SessionTypes, Sessions!Go
<1>2. ASSUME NEW q \in Requests PROVE SessionRequestTypes(req'[q])
  <2>1. CASE q = r BY <1>1, <2>1
  <2>2. CASE q # r
    <3>1. SessionRequestTypes(req[q]) /\ req'[q] = req[q] BY <1>1, <2>2 DEF SessionTypes
    <3> QED BY <3>1
  <2> QED BY <2>1, <2>2
<1> QED BY <1>1, <1>2 DEF SessionRequestTypes

(* One that goes on at a place with a garden keeps its time and its token.  *)
LEMMA Onward ==
    ASSUME NEW y \in RequestRec, NEW a \in Places, NEW g \in Gardens \cup {Sessions!NoGarden}
    PROVE  /\ [y EXCEPT !.at = a, !.garden = g] \in RequestRec
           /\ [y EXCEPT !.at = a, !.garden = g].at = a
           /\ [y EXCEPT !.at = a, !.garden = g].garden = g
           /\ [y EXCEPT !.at = a, !.garden = g].now = y.now
           /\ [y EXCEPT !.at = a, !.garden = g].token = y.token
BY DEF RequestRec

\* A step of a request: it ends, or goes on with its time and its token.
Advances(r) ==
    \/ Sessions!End(r)
    \/ \E a \in Places, g \in Gardens \cup {Sessions!NoGarden} : Sessions!Go(r, [req[r] EXCEPT !.at = a, !.garden = g])

(* To another place with the garden it has.                                 *)
LEMMA ToAdvances ==
    ASSUME SessionTypes, NEW r \in Requests, req[r].at \in Places, NEW a \in Places, Sessions!To(r, a)
    PROVE  Advances(r) /\ Sessions!Go(r, [req[r] EXCEPT !.at = a, !.garden = req[r].garden])
<1>1. req[r] \in RequestRec /\ req[r].garden \in Gardens \cup {Sessions!NoGarden} BY UnderWay
<1>2. [req[r] EXCEPT !.at = a] = [req[r] EXCEPT !.at = a, !.garden = req[r].garden]
  BY <1>1 DEF RequestRec
<1>3. req' = [req EXCEPT ![r] = [req[r] EXCEPT !.at = a]] BY DEF Sessions!To
<1> QED BY <1>1, <1>2, <1>3 DEF Advances, Sessions!Go

(* What a step of a request does to the requests.                           *)
LEMMA AdvanceTypes ==
    ASSUME SessionTypes, NEW r \in Requests, req[r].at \in Places, Advances(r), UNCHANGED <<now, spent>>
    PROVE  /\ DOMAIN req' = Requests /\ \A q \in Requests : SessionRequestTypes(req[q])'
           /\ \A q \in Requests : q # r => req'[q] = req[q]
           /\ req'[r] # Sessions!Idle => req'[r].now = req[r].now /\ req'[r].token = req[r].token
<1>1. CASE Sessions!End(r)
  <2>1. SessionRequestTypes(Sessions!Idle) BY DEF SessionRequestTypes
  <2> QED BY <1>1, <2>1, SessionRequestGoes DEF Sessions!End
<1>2. ASSUME NEW a \in Places, NEW g \in Gardens \cup {Sessions!NoGarden},
             Sessions!Go(r, [req[r] EXCEPT !.at = a, !.garden = g])
      PROVE  /\ DOMAIN req' = Requests /\ \A q \in Requests : SessionRequestTypes(req[q])'
             /\ \A q \in Requests : q # r => req'[q] = req[q]
             /\ req'[r] # Sessions!Idle => req'[r].now = req[r].now /\ req'[r].token = req[r].token
  <2>1. PICK x : x = [req[r] EXCEPT !.at = a, !.garden = g] OBVIOUS
  <2>2. req[r] \in RequestRec /\ req[r].now <= now /\ req[r].token \in spent BY UnderWay
  <2>3. x \in RequestRec /\ x.now = req[r].now /\ x.token = req[r].token
    BY <2>1, <2>2 DEF RequestRec
  <2>4. SessionRequestTypes(x) BY <2>2, <2>3 DEF SessionRequestTypes
  <2>5. Sessions!Go(r, x) BY <1>2, <2>1
  <2> QED BY <2>3, <2>4, <2>5, SessionRequestGoes
<1> QED BY <1>1, <1>2 DEF Advances

(* A row that is written, or deleted, by a request.                         *)
LEMMA RowWritten ==
    ASSUME SessionInv, NEW t \in Tokens, NEW y \in RowRec \cup {Sessions!NoRow}, session' = [session EXCEPT ![t] = y],
           UNCHANGED <<now, spent, member>>,
           y # Sessions!NoRow => /\ t \in spent /\ y.seen <= now
                                 /\ y.garden # Sessions!NoGarden => member[y.garden] # Sessions!NotMember
    PROVE  session' \in [Tokens -> RowRec \cup {Sessions!NoRow}] /\ RowInv'
<1>1. session' \in [Tokens -> RowRec \cup {Sessions!NoRow}] BY DEF SessionInv, SessionTypes
<1>2. session'[t] = y /\ \A u \in Tokens : u # t => session'[u] = session[u] BY DEF SessionInv,
            SessionTypes
<1>3. ASSUME NEW u \in Tokens, session'[u] # Sessions!NoRow
      PROVE  /\ u \in spent' /\ session'[u].seen <= now'
             /\ session'[u].garden # Sessions!NoGarden => member'[session'[u].garden] # Sessions!NotMember
  <2>1. CASE u = t BY <1>2, <1>3, <2>1
  <2>2. CASE u # t
    <3>1. session'[u] = session[u] BY <1>2, <2>2
    <3> QED BY <1>3, <3>1 DEF SessionInv, RowInv
  <2> QED BY <2>1, <2>2
<1> QED BY <1>1, <1>3 DEF RowInv

-----------------------------------------------------------------------------
(* Each step keeps the invariant.                                          *)

(* The invariant holds at first.                                            *)
LEMMA SessionInvInit == ASSUME Sessions!SessionsAssumption, Sessions!Init PROVE SessionInv
<1>1. member \in [Gardens -> Int] BY DEF Sessions!Init, Sessions!NotMember, Sessions!NoTime
<1>2. \A r \in Requests : SessionRequestTypes(req[r]) BY DEF Sessions!Init, SessionRequestTypes
<1>3. SessionTypes BY <1>1, <1>2 DEF Sessions!Init, SessionTypes
<1>4. RowInv BY DEF Sessions!Init, RowInv
<1> QED BY <1>3, <1>4 DEF SessionInv

(* When a request has its answer, the time is noted.                        *)
LEMMA UsedTypes ==
    ASSUME SessionTypes, NEW r \in Requests, req[r].at \in Places,
           \/ UNCHANGED used
           \/ used' = [used EXCEPT ![req[r].token] = IF @ > req[r].now THEN @ ELSE req[r].now]
    PROVE  used' \in [Tokens -> Nat]
<1>1. req[r].now \in Nat BY UnderWay
<1> QED BY <1>1 DEF SessionTypes

(* A statement that reads.                                                  *)
LEMMA ReadStep ==
    ASSUME SessionInv, NEW r \in Requests, req[r].at \in Places, Advances(r),
           \/ UNCHANGED used
           \/ used' = [used EXCEPT ![req[r].token] = IF @ > req[r].now THEN @ ELSE req[r].now],
           UNCHANGED <<now, session, spent, member, last>>
    PROVE  SessionInv'
<1>1. used' \in [Tokens -> Nat] BY UsedTypes DEF SessionInv
<1>2. DOMAIN req' = Requests /\ \A q \in Requests : SessionRequestTypes(req[q])'
  BY AdvanceTypes DEF SessionInv
<1>3. SessionTypes' BY <1>1, <1>2 DEF SessionInv, SessionTypes
<1> QED BY <1>3 DEF SessionInv, RowInv

(* A statement that writes the request's own row.                           *)
LEMMA WriteStep ==
    ASSUME SessionInv, NEW r \in Requests, req[r].at \in Places, Advances(r),
           \/ UNCHANGED used
           \/ used' = [used EXCEPT ![req[r].token] = IF @ > req[r].now THEN @ ELSE req[r].now],
           UNCHANGED <<now, spent, member>>, last' \in Gardens \cup {Sessions!NoGarden},
           NEW y \in RowRec \cup {Sessions!NoRow}, session' = [session EXCEPT ![req[r].token] = y],
           y # Sessions!NoRow => /\ y.seen <= now
                                 /\ y.garden # Sessions!NoGarden => member[y.garden] # Sessions!NotMember
    PROVE  SessionInv'
<1>1. used' \in [Tokens -> Nat] BY UsedTypes DEF SessionInv
<1>2. DOMAIN req' = Requests /\ \A q \in Requests : SessionRequestTypes(req[q])'
  BY AdvanceTypes DEF SessionInv
<1>3. PICK t \in Tokens : t = req[r].token /\ t \in spent BY UnderWay DEF SessionInv
<1>4. session' \in [Tokens -> RowRec \cup {Sessions!NoRow}] /\ RowInv' BY <1>3, RowWritten
<1>5. SessionTypes' BY <1>1, <1>2, <1>4 DEF SessionInv, SessionTypes
<1> QED BY <1>4, <1>5 DEF SessionInv

(* The steps of a request that change no row.                               *)
LEMMA ReadSteps ==
    ASSUME Sessions!SessionsAssumption, SessionInv, NEW r \in Requests,
           Sessions!Lookup(r) \/ Sessions!KeepGarden(r) \/ Sessions!PickGarden(r) \/ Sessions!ReadMembership(r) \/ Sessions!Answer(r)
    PROVE  SessionInv'
<1>0. req[r].at \in Places BY DEF Sessions!Lookup, Sessions!KeepGarden, Sessions!PickGarden,
            Sessions!ReadMembership, Sessions!Answer, Places
<1>1. /\ req[r].garden \in Gardens \cup {Sessions!NoGarden} /\ req[r] \in RequestRec
      /\ Sessions!Row(r) \in RowRec \cup {Sessions!NoRow}
  BY <1>0, UnderWay DEF SessionInv
<1>2. UNCHANGED <<now, session, spent, member, last>>
  BY DEF Sessions!Lookup, Sessions!KeepGarden, Sessions!PickGarden, Sessions!ReadMembership,
     Sessions!Answer
<1>3. \/ UNCHANGED used
      \/ used' = [used EXCEPT ![req[r].token] = IF @ > req[r].now THEN @ ELSE req[r].now]
  BY DEF Sessions!Lookup, Sessions!KeepGarden, Sessions!PickGarden, Sessions!ReadMembership,
     Sessions!Answer, Sessions!Resolved
<1>4. Advances(r)
  <2>1. ASSUME Sessions!Lookup(r) PROVE Advances(r)
    <3>1. Sessions!Row(r) # Sessions!NoRow => Sessions!Row(r).garden \in Gardens \cup {Sessions!NoGarden}
      BY <1>1 DEF RowRec
    <3>2. \/ Sessions!End(r) \/ Sessions!To(r, "expire") \/ Sessions!To(r, "touch")
          \/ Sessions!Row(r) # Sessions!NoRow /\ Sessions!Go(r, [req[r] EXCEPT !.at = "garden", !.garden = Sessions!Row(r).garden])
      BY <2>1 DEF Sessions!Lookup
    <3>3. "expire" \in Places /\ "touch" \in Places /\ "garden" \in Places BY DEF Places
    <3>4. CASE Sessions!To(r, "expire") \/ Sessions!To(r, "touch") BY <1>0, <3>3, <3>4,
            ToAdvances DEF SessionInv
    <3> QED BY <3>1, <3>2, <3>3, <3>4 DEF Advances
  <2>2. ASSUME Sessions!KeepGarden(r) PROVE Advances(r)
    <3>1. "handler" \in Places /\ "start" \in Places BY DEF Places
    <3>2. CASE Sessions!To(r, "start") BY <1>0, <3>1, <3>2, ToAdvances DEF SessionInv
    <3>3. CASE Sessions!Go(r, [req[r] EXCEPT !.at = "handler", !.garden = req[r].garden])
      BY <1>1, <3>1, <3>3 DEF Advances
    <3> QED BY <2>2, <3>2, <3>3 DEF Sessions!KeepGarden, Sessions!Resolved
  <2>3. ASSUME Sessions!PickGarden(r) PROVE Advances(r)
    <3>1. "handler" \in Places /\ "move" \in Places BY DEF Places
    <3>2. Sessions!firstLiveMembership(req[r].now) \in Gardens \cup {Sessions!NoGarden}
      BY FirstLive DEF SessionInv
    <3> QED BY <2>3, <3>1, <3>2 DEF Sessions!PickGarden, Sessions!Resolved, Advances
  <2>4. ASSUME Sessions!ReadMembership(r) PROVE Advances(r)
    <3>1. "handler" \in Places BY DEF Places
    <3> QED BY <1>1, <2>4, <3>1 DEF Sessions!ReadMembership, Sessions!Resolved, Advances
  <2> QED BY <2>1, <2>2, <2>3, <2>4 DEF Sessions!Answer, Advances
<1> QED BY <1>0, <1>2, <1>3, <1>4, ReadStep

(* The steps of a request that write its row.                               *)
LEMMA WriteSteps ==
    ASSUME Sessions!SessionsAssumption, SessionInv, NEW r \in Requests,
           \/ Sessions!DeleteExpired(r) \/ Sessions!TouchSession(r) \/ Sessions!MoveSession(r) \/ Sessions!signOut(r)
           \/ \E g \in Gardens : Sessions!switchGarden(r, g)
    PROVE  SessionInv'
<1>0. req[r].at \in Places BY DEF Sessions!DeleteExpired, Sessions!TouchSession,
            Sessions!MoveSession, Sessions!signOut,
            Sessions!switchGarden, Places
<1>1. /\ req[r].garden \in Gardens \cup {Sessions!NoGarden} /\ req[r] \in RequestRec /\ req[r].token \in Tokens
      /\ req[r].now \in Nat /\ req[r].now <= now
      /\ Sessions!Row(r) \in RowRec \cup {Sessions!NoRow} /\ Sessions!Row(r) = session[req[r].token]
  BY <1>0, UnderWay DEF SessionInv
<1>2. last \in Gardens \cup {Sessions!NoGarden} BY DEF SessionInv, SessionTypes
<1>3. ASSUME Sessions!DeleteExpired(r) \/ Sessions!signOut(r) PROVE SessionInv'
  <2>1. Advances(r) /\ session' = [session EXCEPT ![req[r].token] = Sessions!NoRow]
        /\ UNCHANGED <<now, spent, member, last, used>>
    BY <1>3 DEF Sessions!DeleteExpired, Sessions!signOut, Advances
  <2> QED BY <1>0, <1>2, <2>1, WriteStep
<1>4. ASSUME NEW g \in Gardens \cup {Sessions!NoGarden}, Sessions!Row(r) # Sessions!NoRow
      PROVE  /\ [Sessions!Row(r) EXCEPT !.garden = g] \in RowRec
             /\ [Sessions!Row(r) EXCEPT !.garden = g].garden = g /\ [Sessions!Row(r) EXCEPT !.garden = g].seen <= now
             /\ [session EXCEPT ![req[r].token].garden = g]
                = [session EXCEPT ![req[r].token] = [Sessions!Row(r) EXCEPT !.garden = g]]
  <2>1. Sessions!Row(r) \in RowRec /\ Sessions!Row(r).seen <= now BY <1>1, <1>4 DEF SessionInv,
            RowInv
  <2>2. PICK y : y = [Sessions!Row(r) EXCEPT !.garden = g] OBVIOUS
  <2>3. y \in RowRec /\ y.garden = g /\ y.seen = Sessions!Row(r).seen BY <2>1, <2>2 DEF RowRec
  <2> QED BY <1>1, <2>1, <2>2, <2>3
<1>5. ASSUME Sessions!TouchSession(r) PROVE SessionInv'
  <2>0. "garden" \in Places BY DEF Places
  <2>1. CASE Sessions!Row(r) = Sessions!NoRow
    <3>1. Advances(r) /\ UNCHANGED <<now, session, spent, member, last, used>>
      BY <1>5, <2>1 DEF Sessions!TouchSession, Advances
    <3> QED BY <1>0, <3>1, ReadStep
  <2>2. CASE Sessions!Row(r) # Sessions!NoRow
    <3>1. Sessions!Row(r) \in RowRec BY <1>1, <2>2
    <3>2. PICK y : y = [Sessions!Row(r) EXCEPT !.seen = req[r].now] OBVIOUS
    <3>3. y \in RowRec /\ y.seen = req[r].now /\ y.garden = Sessions!Row(r).garden BY <1>1, <3>1,
            <3>2 DEF RowRec
    <3>4. session' = [session EXCEPT ![req[r].token] = y]
      BY <1>1, <1>5, <2>2, <3>2 DEF Sessions!TouchSession
    <3>5. Sessions!Row(r).garden \in Gardens \cup {Sessions!NoGarden} BY <3>1 DEF RowRec
    <3>6. Advances(r) BY <1>5, <2>0, <2>2, <3>5 DEF Sessions!TouchSession, Advances
    <3>7. y.garden # Sessions!NoGarden => member[y.garden] # Sessions!NotMember BY <1>1, <2>2,
            <3>3 DEF SessionInv, RowInv
    <3>8. UNCHANGED <<now, spent, member, last, used>> BY <1>5 DEF Sessions!TouchSession
    <3> QED BY <1>0, <1>1, <1>2, <3>3, <3>4, <3>6, <3>7, <3>8, WriteStep
  <2> QED BY <2>1, <2>2
<1>6. ASSUME Sessions!MoveSession(r) PROVE SessionInv'
  <2>0. "read" \in Places /\ "handler" \in Places BY DEF Places
  <2>1. PICK g \in Gardens \cup {Sessions!NoGarden} : g = req[r].garden BY <1>1
  <2>2. UNCHANGED <<now, spent, member, last>> BY <1>6 DEF Sessions!MoveSession
  <2>3. Advances(r)
    <3>1. CASE Sessions!To(r, "read") BY <1>0, <2>0, <3>1, ToAdvances DEF SessionInv
    <3> QED BY <1>6, <2>0, <2>1, <3>1 DEF Sessions!MoveSession, Sessions!Resolved, Advances
  <2>4. \/ UNCHANGED used
        \/ used' = [used EXCEPT ![req[r].token] = IF @ > req[r].now THEN @ ELSE req[r].now]
    BY <1>6 DEF Sessions!MoveSession, Sessions!Resolved
  <2>5. CASE UNCHANGED session BY <1>0, <2>2, <2>3, <2>4, <2>5, ReadStep
  <2>6. CASE /\ Sessions!Row(r) # Sessions!NoRow /\ (g # Sessions!NoGarden => member[g] # Sessions!NotMember)
             /\ session' = [session EXCEPT ![req[r].token].garden = g]
    <3>1. PICK y : y = [Sessions!Row(r) EXCEPT !.garden = g] OBVIOUS
    <3>2. /\ y \in RowRec /\ y.garden = g /\ y.seen <= now
          /\ session' = [session EXCEPT ![req[r].token] = y]
      BY <1>4, <2>6, <3>1
    <3> QED BY <1>0, <1>2, <2>2, <2>3, <2>4, <2>6, <3>2, WriteStep
  <2> QED BY <1>6, <2>1, <2>5, <2>6 DEF Sessions!MoveSession
<1>7. ASSUME NEW g \in Gardens, Sessions!switchGarden(r, g) PROVE SessionInv'
  <2>1. /\ UNCHANGED <<now, spent, member, used>> /\ last' \in Gardens \cup {Sessions!NoGarden} /\ Advances(r)
        /\ member[g] # Sessions!NotMember
    BY <1>7 DEF Sessions!switchGarden, Advances, Sessions!Live
  <2>2. PICK y \in RowRec \cup {Sessions!NoRow} :
           /\ session' = [session EXCEPT ![req[r].token] = y]
           /\ y # Sessions!NoRow => y.seen <= now /\ y.garden = g
    <3>1. CASE Sessions!Row(r) = Sessions!NoRow
      <4>1. session' = session /\ session = [session EXCEPT ![req[r].token] = Sessions!NoRow]
        BY <1>1, <1>7, <3>1 DEF Sessions!switchGarden, SessionInv, SessionTypes
      <4> QED BY <4>1
    <3>2. CASE Sessions!Row(r) # Sessions!NoRow
      <4>1. PICK y : y = [Sessions!Row(r) EXCEPT !.garden = g] OBVIOUS
      <4>2. /\ y \in RowRec /\ y.garden = g /\ y.seen <= now
            /\ session' = [session EXCEPT ![req[r].token] = y]
        BY <1>4, <1>7, <3>2, <4>1 DEF Sessions!switchGarden
      <4> QED BY <4>2
    <3> QED BY <3>1, <3>2
  <2> QED BY <1>0, <2>1, <2>2, WriteStep
<1> QED BY <1>3, <1>5, <1>6, <1>7

(* A request arrives with a token that was handed out.                      *)
LEMMA ArriveStep ==
    ASSUME SessionInv, NEW r \in Requests, Sessions!Arrive(r)
    PROVE  SessionInv'
<1>1. PICK x : x = [at |-> "lookup", now |-> now, token |-> cookie, garden |-> Sessions!NoGarden] OBVIOUS
<1>2. x \in RequestRec /\ x.now = now /\ x.token = cookie
  BY <1>1 DEF Sessions!Arrive, SessionInv, SessionTypes, RequestRec, Places
<1>3. SessionRequestTypes(x) BY <1>2 DEF SessionRequestTypes, Sessions!Arrive, SessionInv,
            SessionTypes
<1>4. Sessions!Go(r, x) /\ UNCHANGED <<now, session, spent, member, last, used>>
  BY <1>1 DEF Sessions!Arrive
<1>5. DOMAIN req' = Requests /\ \A q \in Requests : SessionRequestTypes(req[q])'
  BY <1>3, <1>4, SessionRequestGoes DEF SessionInv
<1>6. SessionTypes' BY <1>4, <1>5 DEF SessionInv, SessionTypes
<1> QED BY <1>4, <1>6 DEF SessionInv, RowInv

(* The steps of nobody's request, and none.                                 *)
LEMMA OtherSteps ==
    ASSUME Sessions!SessionsAssumption, SessionInv,
           \/ \E t \in Tokens : Sessions!Create(t)
           \/ \E g \in Gardens : Sessions!Join(g) \/ Sessions!RemoveMember(g)
           \/ Sessions!DeleteExpiredSessions \/ Sessions!Clock \/ UNCHANGED Sessions!vars
    PROVE  SessionInv'
<1>0. UNCHANGED req /\ now \in Nat /\ now' \in Nat /\ now <= now' /\ spent \subseteq spent'
  <2>1. UNCHANGED req /\ spent \subseteq spent' /\ (now' = now \/ (now' \in Times /\ now' > now))
    BY DEF Sessions!Create, Sessions!Join, Sessions!RemoveMember,
       Sessions!DeleteExpiredSessions, Sessions!Clock, Sessions!vars
  <2>2. now \in Nat /\ Times \subseteq Nat BY DEF SessionInv, SessionTypes, Sessions!SessionsAssumption
  <2>3. ASSUME now' \in Times, now' > now PROVE now' \in Nat /\ now <= now'
    <3>1. now' \in Nat BY <2>2, <2>3
    <3> QED BY <2>2, <2>3, <3>1
  <2> QED BY <2>1, <2>2, <2>3
<1>1. DOMAIN req' = Requests /\ \A q \in Requests : SessionRequestTypes(req[q])'
  <2>1. ASSUME NEW q \in Requests
        PROVE  \/ req[q] = Sessions!Idle
               \/ req[q] \in RequestRec /\ req[q].now <= now' /\ req[q].token \in spent'
    <3>1. SessionRequestTypes(req[q]) BY DEF SessionInv, SessionTypes
    <3>2. CASE req[q] # Sessions!Idle
      <4>1. req[q] \in RequestRec /\ req[q].now <= now /\ req[q].token \in spent
        BY <3>1, <3>2 DEF SessionRequestTypes
      <4>2. req[q].now \in Nat BY <4>1 DEF RequestRec
      <4> QED BY <1>0, <4>1, <4>2
    <3> QED BY <3>2
  <2> QED BY <1>0, <2>1 DEF SessionInv, SessionTypes, SessionRequestTypes
<1>2. ASSUME NEW tok \in Tokens, Sessions!Create(tok) PROVE SessionInv'
  <2>1. PICK y : y = [row |-> TRUE, garden |-> Sessions!NoGarden, seen |-> now] OBVIOUS
  <2>2. y \in RowRec /\ y.garden = Sessions!NoGarden /\ y.seen = now BY <1>0, <2>1 DEF RowRec
  <2>3. /\ session' \in [Tokens -> RowRec \cup {Sessions!NoRow}] /\ session'[tok] = y
        /\ \A t \in Tokens : t # tok => session'[t] \in {Sessions!NoRow, session[t]}
    BY <1>2, <2>1, <2>2 DEF Sessions!Create, SessionInv, SessionTypes
  <2>4. /\ spent' = spent \cup {tok} /\ UNCHANGED <<now, member, last>>
        /\ used' = [used EXCEPT ![tok] = now]
    BY <1>2 DEF Sessions!Create
  <2>5. SessionTypes' BY <1>0, <1>1, <2>3, <2>4 DEF SessionInv, SessionTypes
  <2>6. ASSUME NEW t \in Tokens, session'[t] # Sessions!NoRow
        PROVE  /\ t \in spent' /\ session'[t].seen <= now'
               /\ session'[t].garden # Sessions!NoGarden => member'[session'[t].garden] # Sessions!NotMember
    <3>1. CASE t = tok BY <1>0, <2>2, <2>3, <2>4, <3>1
    <3>2. CASE t # tok
      <4>1. session'[t] = session[t] BY <2>3, <2>6, <3>2
      <4> QED BY <2>4, <2>6, <4>1 DEF SessionInv, RowInv
    <3> QED BY <3>1, <3>2
  <2> QED BY <2>5, <2>6 DEF SessionInv, RowInv
<1>3. ASSUME NEW g \in Gardens, Sessions!Join(g) PROVE SessionInv'
  <2>1. PICK e : e \in Nat \cup {Sessions!NoTime} /\ member' = [member EXCEPT ![g] = e]
    BY <1>3 DEF Sessions!Join, Sessions!SessionsAssumption
  <2>2. e \in Int /\ e # Sessions!NotMember BY <2>1 DEF Sessions!NoTime, Sessions!NotMember
  <2>3. member' \in [Gardens -> Int] /\ \A h \in Gardens : member'[h] = member[h] \/ member'[h] # Sessions!NotMember
    BY <2>1, <2>2 DEF SessionInv, SessionTypes
  <2>4. UNCHANGED <<now, session, spent, last, used>> BY <1>3 DEF Sessions!Join
  <2>5. SessionTypes' BY <1>1, <2>3, <2>4 DEF SessionInv, SessionTypes
  <2>6. ASSUME NEW t \in Tokens, session[t] # Sessions!NoRow, session[t].garden # Sessions!NoGarden
        PROVE  member'[session[t].garden] # Sessions!NotMember
    <3>1. session[t] \in RowRec /\ member[session[t].garden] # Sessions!NotMember
      BY <2>6 DEF SessionInv, SessionTypes, RowInv
    <3>2. session[t].garden \in Gardens BY <2>6, <3>1 DEF RowRec
    <3> QED BY <2>3, <3>1, <3>2
  <2> QED BY <2>4, <2>5, <2>6 DEF SessionInv, RowInv
<1>4. ASSUME NEW g \in Gardens, Sessions!RemoveMember(g) PROVE SessionInv'
  <2>1. member' \in [Gardens -> Int] /\ \A h \in Gardens : h # g => member'[h] = member[h]
    BY <1>4 DEF Sessions!RemoveMember, SessionInv, SessionTypes, Sessions!NotMember
  <2>2. UNCHANGED <<now, spent, last, used>> BY <1>4 DEF Sessions!RemoveMember
  <2>3. ASSUME NEW t \in Tokens
        PROVE  /\ session'[t] \in RowRec \cup {Sessions!NoRow}
               /\ session'[t] # Sessions!NoRow =>
                     /\ session[t] # Sessions!NoRow /\ session'[t].seen = session[t].seen
                     /\ \/ session'[t].garden = Sessions!NoGarden
                        \/ session'[t].garden = session[t].garden /\ session[t].garden # g
    <3>1. session[t] \in RowRec \cup {Sessions!NoRow} BY DEF SessionInv, SessionTypes
    <3>2. CASE session[t] # Sessions!NoRow /\ session[t].garden = g
      <4>1. PICK y : y = [session[t] EXCEPT !.garden = Sessions!NoGarden] OBVIOUS
      <4>2. y \in RowRec /\ y.garden = Sessions!NoGarden /\ y.seen = session[t].seen
        BY <3>1, <3>2, <4>1 DEF RowRec
      <4>3. session'[t] = y BY <1>4, <3>2, <4>1 DEF Sessions!RemoveMember
      <4> QED BY <3>2, <4>2, <4>3
    <3>3. CASE ~ (session[t] # Sessions!NoRow /\ session[t].garden = g)
      <4>1. session'[t] = session[t] BY <1>4, <3>3 DEF Sessions!RemoveMember
      <4> QED BY <3>1, <3>3, <4>1
    <3> QED BY <3>2, <3>3
  <2>4. session' \in [Tokens -> RowRec \cup {Sessions!NoRow}] BY <1>4, <2>3
            DEF Sessions!RemoveMember
  <2>5. SessionTypes' BY <1>1, <2>1, <2>2, <2>4 DEF SessionInv, SessionTypes
  <2>6. ASSUME NEW t \in Tokens, session'[t] # Sessions!NoRow
        PROVE  /\ t \in spent' /\ session'[t].seen <= now'
               /\ session'[t].garden # Sessions!NoGarden => member'[session'[t].garden] # Sessions!NotMember
    <3>1. session[t] # Sessions!NoRow /\ t \in spent /\ session'[t].seen <= now'
      BY <2>2, <2>3, <2>6 DEF SessionInv, RowInv
    <3>2. ASSUME session'[t].garden # Sessions!NoGarden
          PROVE  member'[session'[t].garden] # Sessions!NotMember
      <4>1. session'[t].garden = session[t].garden /\ session[t].garden # g BY <2>3, <2>6, <3>2
      <4>2. session[t].garden \in Gardens
        <5>1. session[t] \in RowRec BY <3>1 DEF SessionInv, SessionTypes
        <5> QED BY <3>2, <4>1, <5>1 DEF RowRec
      <4>3. member[session[t].garden] # Sessions!NotMember BY <3>1, <3>2, <4>1 DEF SessionInv,
            RowInv
      <4> QED BY <2>1, <4>1, <4>2, <4>3
    <3> QED BY <2>2, <3>1, <3>2
  <2> QED BY <2>5, <2>6 DEF SessionInv, RowInv
<1>5. ASSUME UNCHANGED <<spent, member, last, used>>,
             session' \in [Tokens -> RowRec \cup {Sessions!NoRow}],
             \A t \in Tokens : session'[t] \in {Sessions!NoRow, session[t]}
      PROVE  SessionInv'
  <2>1. SessionTypes' BY <1>0, <1>1, <1>5 DEF SessionInv, SessionTypes
  <2>2. ASSUME NEW t \in Tokens, session'[t] # Sessions!NoRow
        PROVE  /\ t \in spent' /\ session'[t].seen <= now'
               /\ session'[t].garden # Sessions!NoGarden => member'[session'[t].garden] # Sessions!NotMember
    <3>1. session'[t] = session[t] BY <1>5, <2>2
    <3>2. session[t].seen \in Nat
      <4>1. session[t] \in RowRec BY <2>2, <3>1 DEF SessionInv, SessionTypes
      <4> QED BY <4>1 DEF RowRec
    <3>3. /\ t \in spent /\ session[t].seen <= now
          /\ session[t].garden # Sessions!NoGarden => member[session[t].garden] # Sessions!NotMember
      BY <2>2, <3>1 DEF SessionInv, RowInv
    <3> QED BY <1>0, <1>5, <3>1, <3>2, <3>3
  <2> QED BY <2>1, <2>2 DEF SessionInv, RowInv
<1>6. ASSUME Sessions!DeleteExpiredSessions PROVE SessionInv'
  <2>1. /\ session' \in [Tokens -> RowRec \cup {Sessions!NoRow}]
        /\ \A t \in Tokens : session'[t] \in {Sessions!NoRow, session[t]}
    BY <1>6 DEF Sessions!DeleteExpiredSessions, SessionInv, SessionTypes
  <2> QED BY <1>5, <1>6, <2>1 DEF Sessions!DeleteExpiredSessions
<1>7. ASSUME Sessions!Clock \/ UNCHANGED Sessions!vars PROVE SessionInv'
  <2>1. UNCHANGED <<spent, member, last, used, session>> BY <1>7 DEF Sessions!Clock, Sessions!vars
  <2>2. session' \in [Tokens -> RowRec \cup {Sessions!NoRow}] BY <2>1 DEF SessionInv, SessionTypes
  <2> QED BY <1>5, <2>1, <2>2
<1> QED BY <1>2, <1>3, <1>4, <1>6, <1>7

(* And after every step.                                                    *)
LEMMA SessionInvStep ==
    ASSUME Sessions!SessionsAssumption, SessionInv, [Sessions!Next]_(Sessions!vars)
    PROVE  SessionInv'
BY ReadSteps, WriteSteps, ArriveStep, OtherSteps DEF Sessions!Next, Sessions!Resolve

-----------------------------------------------------------------------------
(* The theorems.                                                           *)

(* A session is on a garden only while its account is in it, however a      *)
(* request that moves the session there and the removal of the member       *)
(* interleave (SetSessionGarden, RemoveMember).                             *)
THEOREM SessionRowsHold ==
    ASSUME Sessions!SessionsAssumption
    PROVE  Sessions!Spec => []Sessions!TypeOK
<1>1. ASSUME SessionInv PROVE Sessions!TypeOK
  <2>1. ASSUME NEW t \in Tokens, session[t] # Sessions!NoRow
        PROVE  /\ t \in spent /\ session[t].seen \in 0 .. now
               /\ session[t].garden \in Gardens \cup {Sessions!NoGarden}
               /\ session[t].garden # Sessions!NoGarden => member[session[t].garden] # Sessions!NotMember
    <3>1. session[t] \in RowRec BY <1>1, <2>1 DEF SessionInv, SessionTypes
    <3>2. /\ session[t].seen \in Nat /\ session[t].garden \in Gardens \cup {Sessions!NoGarden}
      BY <3>1 DEF RowRec
    <3>3. /\ t \in spent /\ session[t].seen <= now
          /\ session[t].garden # Sessions!NoGarden => member[session[t].garden] # Sessions!NotMember
      BY <1>1, <2>1 DEF SessionInv, RowInv
    <3>4. session[t].seen \in 0 .. now BY <1>1, <3>2, <3>3 DEF SessionInv, SessionTypes
    <3> QED BY <3>2, <3>3, <3>4
  <2> QED BY <1>1, <2>1 DEF Sessions!TypeOK, SessionInv, SessionTypes
<1> QED BY <1>1, SessionInvInit, SessionInvStep, PTL DEF Sessions!Spec

(* Where a request is after its step.                                       *)
LEMMA Placed ==
    ASSUME SessionTypes, NEW r \in Requests, req[r].at \in Places
    PROVE  /\ Sessions!End(r) => req'[r] = Sessions!Idle /\ req'[r].at = "idle"
           /\ \A a \in Places : Sessions!To(r, a) =>
                 /\ req'[r].at = a /\ req'[r].now = req[r].now /\ req'[r].token = req[r].token
                 /\ req'[r].garden = req[r].garden
           /\ \A a \in Places, g \in Gardens \cup {Sessions!NoGarden} :
                 Sessions!Go(r, [req[r] EXCEPT !.at = a, !.garden = g]) =>
                    /\ req'[r].at = a /\ req'[r].now = req[r].now /\ req'[r].token = req[r].token
                    /\ req'[r].garden = g
<1>0. req[r] \in RequestRec /\ req[r].garden \in Gardens \cup {Sessions!NoGarden} /\ DOMAIN req = Requests
  BY UnderWay DEF SessionTypes
<1>1. ASSUME Sessions!End(r) PROVE req'[r] = Sessions!Idle /\ req'[r].at = "idle"
  BY <1>0, <1>1 DEF Sessions!End, Sessions!Go, Sessions!Idle
<1>2. ASSUME NEW a \in Places, NEW g \in Gardens \cup {Sessions!NoGarden},
             Sessions!Go(r, [req[r] EXCEPT !.at = a, !.garden = g])
      PROVE  /\ req'[r].at = a /\ req'[r].now = req[r].now /\ req'[r].token = req[r].token
             /\ req'[r].garden = g
  <2>1. req'[r] = [req[r] EXCEPT !.at = a, !.garden = g] BY <1>0, <1>2 DEF Sessions!Go
  <2> QED BY <1>0, <2>1 DEF RequestRec
<1>3. ASSUME NEW a \in Places, Sessions!To(r, a)
      PROVE  /\ req'[r].at = a /\ req'[r].now = req[r].now /\ req'[r].token = req[r].token
             /\ req'[r].garden = req[r].garden
  <2>1. Sessions!Go(r, [req[r] EXCEPT !.at = a, !.garden = req[r].garden]) BY <1>3, ToAdvances
  <2> QED BY <1>0, <1>2, <2>1
<1> QED BY <1>1, <1>2, <1>3

(* No statement writes a row that is gone.                                  *)
LEMMA RowsStayGone ==
    ASSUME SessionInv, [Sessions!Next]_(Sessions!vars), NEW t \in spent, session[t] = Sessions!NoRow
    PROVE  session'[t] = Sessions!NoRow
<1>0. t \in Tokens /\ session \in [Tokens -> RowRec \cup {Sessions!NoRow}] BY DEF SessionInv,
            SessionTypes
<1>1. ASSUME NEW r \in Requests, NEW y, Sessions!Row(r) # Sessions!NoRow, session' = [session EXCEPT ![req[r].token] = y]
      PROVE  session'[t] = Sessions!NoRow
  BY <1>0, <1>1 DEF Sessions!Row
<1>2. ASSUME NEW r \in Requests, Sessions!TouchSession(r) PROVE session'[t] = Sessions!NoRow
  <2>1. CASE UNCHANGED session BY <2>1
  <2>2. CASE Sessions!Row(r) # Sessions!NoRow
    <3>1. PICK y : y = [session[req[r].token] EXCEPT !.seen = req[r].now] OBVIOUS
    <3>2. session' = [session EXCEPT ![req[r].token] = y] BY <1>2, <2>2, <3>1
            DEF Sessions!TouchSession
    <3> QED BY <1>1, <2>2, <3>2
  <2> QED BY <1>2, <2>1, <2>2 DEF Sessions!TouchSession
<1>3. ASSUME NEW r \in Requests, NEW g,
             session' = IF Sessions!Row(r) = Sessions!NoRow THEN session
                        ELSE [session EXCEPT ![req[r].token].garden = g]
      PROVE  session'[t] = Sessions!NoRow
  <2>1. CASE Sessions!Row(r) = Sessions!NoRow BY <1>3, <2>1
  <2>2. CASE Sessions!Row(r) # Sessions!NoRow
    <3>1. PICK y : y = [session[req[r].token] EXCEPT !.garden = g] OBVIOUS
    <3>2. session' = [session EXCEPT ![req[r].token] = y] BY <1>3, <2>2, <3>1
    <3> QED BY <1>1, <2>2, <3>2
  <2> QED BY <2>1, <2>2
<1>4. ASSUME NEW r \in Requests, Sessions!MoveSession(r) PROVE session'[t] = Sessions!NoRow
  <2>1. \/ UNCHANGED session
        \/ session' = IF Sessions!Row(r) = Sessions!NoRow THEN session
                      ELSE [session EXCEPT ![req[r].token].garden = req[r].garden]
    BY <1>4 DEF Sessions!MoveSession
  <2> QED BY <1>3, <2>1
<1>5. ASSUME NEW r \in Requests, NEW g \in Gardens, Sessions!switchGarden(r, g)
      PROVE  session'[t] = Sessions!NoRow
  BY <1>3, <1>5 DEF Sessions!switchGarden
<1>6. ASSUME NEW r \in Requests, Sessions!DeleteExpired(r) \/ Sessions!signOut(r)
      PROVE  session'[t] = Sessions!NoRow
  BY <1>0, <1>6 DEF Sessions!DeleteExpired, Sessions!signOut
<1>7. ASSUME NEW tok \in Tokens, Sessions!Create(tok) PROVE session'[t] = Sessions!NoRow
  BY <1>0, <1>7 DEF Sessions!Create
<1>8. ASSUME NEW g \in Gardens, Sessions!RemoveMember(g) PROVE session'[t] = Sessions!NoRow
  BY <1>0, <1>8 DEF Sessions!RemoveMember
<1>9. ASSUME Sessions!DeleteExpiredSessions PROVE session'[t] = Sessions!NoRow
  BY <1>0, <1>9 DEF Sessions!DeleteExpiredSessions
<1>10. ASSUME UNCHANGED session PROVE session'[t] = Sessions!NoRow BY <1>10
<1>11. \/ UNCHANGED session \/ Sessions!DeleteExpiredSessions
       \/ \E g \in Gardens : Sessions!RemoveMember(g)
       \/ \E tok \in Tokens : Sessions!Create(tok)
       \/ \E r \in Requests : \/ Sessions!DeleteExpired(r) \/ Sessions!signOut(r) \/ Sessions!TouchSession(r) \/ Sessions!MoveSession(r)
                              \/ \E g \in Gardens : Sessions!switchGarden(r, g)
  BY DEF Sessions!Next, Sessions!Resolve, Sessions!Arrive, Sessions!Lookup,
     Sessions!KeepGarden, Sessions!PickGarden, Sessions!ReadMembership, Sessions!Answer,
     Sessions!Join,
     Sessions!Clock, Sessions!vars
<1> QED BY <1>2, <1>4, <1>5, <1>6, <1>7, <1>8, <1>9, <1>10, <1>11

(* A request that gets to its handler with a garden has read its            *)
(* membership.                                                              *)
LEMMA LetInByMembership ==
    ASSUME Sessions!SessionsAssumption, SessionInv, NEW r \in Requests, Sessions!Resolve(r),
           req'[r].at = "handler", req'[r].garden # Sessions!NoGarden
    PROVE  member[req'[r].garden] # Sessions!NotMember
<1>0. req[r].at \in Places
  BY DEF Sessions!Resolve, Sessions!Lookup, Sessions!DeleteExpired, Sessions!TouchSession,
     Sessions!KeepGarden, Sessions!PickGarden, Sessions!MoveSession,
     Sessions!ReadMembership, Places
<1>1. /\ req[r].garden \in Gardens \cup {Sessions!NoGarden}
      /\ Sessions!Row(r) # Sessions!NoRow => Sessions!Row(r).garden \in Gardens \cup {Sessions!NoGarden}
  <2>1. Sessions!Row(r) \in RowRec \cup {Sessions!NoRow} BY <1>0, UnderWay DEF SessionInv
  <2> QED BY <1>0, <2>1, UnderWay DEF SessionInv, RowRec
<1>2. /\ ~ Sessions!End(r)
      /\ \A a \in Places : a # "handler" => ~ Sessions!To(r, a)
      /\ \A a \in Places, g \in Gardens \cup {Sessions!NoGarden} : a # "handler" =>
            ~ Sessions!Go(r, [req[r] EXCEPT !.at = a, !.garden = g])
  BY <1>0, Placed DEF SessionInv
<1>3. \A g \in Gardens \cup {Sessions!NoGarden} : Sessions!Resolved(r, g) => req'[r].garden = g
  <2>1. "handler" \in Places BY DEF Places
  <2> QED BY <1>0, <2>1, Placed DEF SessionInv, Sessions!Resolved
<1>4. {"expire", "touch", "garden", "start", "move", "read"} \subseteq Places BY DEF Places
<1>5. ~ Sessions!Lookup(r) BY <1>1, <1>2, <1>4 DEF Sessions!Lookup
<1>6. ~ Sessions!DeleteExpired(r) BY <1>2 DEF Sessions!DeleteExpired
<1>7. ~ Sessions!TouchSession(r) BY <1>1, <1>2, <1>4 DEF Sessions!TouchSession
<1>8. CASE Sessions!KeepGarden(r)
  <2>1. Sessions!Live(req[r].garden, req[r].now) /\ Sessions!Resolved(r, req[r].garden)
    BY <1>2, <1>4, <1>8 DEF Sessions!KeepGarden
  <2> QED BY <1>1, <1>3, <2>1 DEF Sessions!Live
<1>9. ~ Sessions!PickGarden(r)
  <2>1. Sessions!firstLiveMembership(req[r].now) \in Gardens \cup {Sessions!NoGarden}
    BY FirstLive DEF SessionInv
  <2> QED BY <1>2, <1>3, <1>4, <2>1 DEF Sessions!PickGarden
<1>10. ~ Sessions!MoveSession(r) BY <1>1, <1>2, <1>3, <1>4 DEF Sessions!MoveSession
<1>11. CASE Sessions!ReadMembership(r)
  <2>1. member[req[r].garden] # Sessions!NotMember /\ Sessions!Resolved(r, req[r].garden)
    BY <1>2, <1>11 DEF Sessions!ReadMembership
  <2> QED BY <1>1, <1>3, <2>1
<1> QED BY <1>5, <1>6, <1>7, <1>8, <1>9, <1>10, <1>11 DEF Sessions!Resolve

(* Nobody comes back in.  A session that was signed out, replaced, swept or *)
(* expired never works again: TouchSession and SetSessionGarden are UPDATEs *)
(* and write no row that is gone, whatever the request had read before      *)
(* (session.go, principal.go).  And a request that is let into a garden     *)
(* finds the account a member of it at that statement.                      *)
THEOREM NobodyComesBack ==
    ASSUME Sessions!SessionsAssumption
    PROVE  Sessions!Spec => [][Sessions!OutStaysOut]_(Sessions!vars)
<1>1. ASSUME SessionInv, [Sessions!Next]_(Sessions!vars) PROVE Sessions!OutStaysOut
  <2>1. Sessions!SignedOutStaysOut BY <1>1, RowsStayGone DEF Sessions!SignedOutStaysOut
  <2>2. ASSUME NEW r \in Requests, req[r].at # "handler", req'[r].at = "handler",
               req'[r].garden # Sessions!NoGarden
        PROVE  member[req'[r].garden] # Sessions!NotMember
    <3>0. DOMAIN req = Requests BY <1>1 DEF SessionInv, SessionTypes
    <3>1. req' # req BY <2>2
    <3>2. PICK q \in Requests : \/ Sessions!Arrive(q) \/ Sessions!Resolve(q) \/ Sessions!Answer(q) \/ Sessions!signOut(q)
                                \/ \E g \in Gardens : Sessions!switchGarden(q, g)
      BY <1>1, <3>1 DEF Sessions!Next, Sessions!Create, Sessions!Join, Sessions!RemoveMember,
         Sessions!DeleteExpiredSessions, Sessions!Clock, Sessions!vars
    <3>3. PICK x : req' = [req EXCEPT ![q] = x]
      BY <3>2 DEF Sessions!Arrive, Sessions!Resolve, Sessions!Answer, Sessions!signOut,
         Sessions!switchGarden, Sessions!Lookup, Sessions!DeleteExpired,
         Sessions!TouchSession,
         Sessions!KeepGarden, Sessions!PickGarden, Sessions!MoveSession,
         Sessions!ReadMembership, Sessions!Resolved, Sessions!To, Sessions!Go, Sessions!End
    <3>4. q = r BY <2>2, <3>0, <3>3
    <3>5. ~ Sessions!Arrive(r)
      <4>1. ASSUME Sessions!Arrive(r) PROVE req'[r].at = "lookup" BY <3>0, <4>1
            DEF Sessions!Arrive, Sessions!Go
      <4> QED BY <2>2, <4>1
    <3>6. Sessions!Resolve(r) BY <2>2, <3>2, <3>4, <3>5 DEF Sessions!Answer, Sessions!signOut,
            Sessions!switchGarden
    <3> QED BY <1>1, <2>2, <3>6, LetInByMembership
  <2> QED BY <2>1, <2>2 DEF Sessions!OutStaysOut, Sessions!RemovedIsNotLetIn
<1> QED BY <1>1, SessionInvInit, SessionInvStep, PTL DEF Sessions!Spec

-----------------------------------------------------------------------------
(* A session lasts until its time is up.                                   *)

(* A row's date is a time.                                                  *)
LEMMA SeenTypes ==
    ASSUME SessionTypes, NEW t \in Tokens, session[t] # Sessions!NoRow
    PROVE  session[t] \in RowRec /\ session[t].seen \in Nat
<1>1. session[t] \in RowRec BY DEF SessionTypes
<1> QED BY <1>1 DEF RowRec

(* A tenth of the ttl is a number of ticks.                                 *)
LEMMA TouchAfterInt == ASSUME Sessions!SessionsAssumption PROVE Sessions!touchAfter \in Int
BY DEF Sessions!SessionsAssumption, Sessions!touchAfter

\* Rows keep their date, or go.
DatesStay ==
    /\ UNCHANGED dated
    /\ \A t \in Tokens : session'[t] # Sessions!NoRow =>
          session[t] # Sessions!NoRow /\ session'[t].seen = session[t].seen

(* A statement that changes one row's garden keeps the dates.               *)
LEMMA GardenKeepsDates ==
    ASSUME SessionTypes, NEW t \in Tokens, NEW g, session[t] # Sessions!NoRow, UNCHANGED dated,
           session' = [session EXCEPT ![t].garden = g]
    PROVE  DatesStay
<1>1. session[t] \in RowRec BY DEF SessionTypes
<1>2. PICK y : y = [session[t] EXCEPT !.garden = g] OBVIOUS
<1>3. y.seen = session[t].seen BY <1>1, <1>2 DEF RowRec
<1>4. session'[t] = y /\ \A u \in Tokens : u # t => session'[u] = session[u]
  BY <1>2 DEF SessionTypes
<1> QED BY <1>3, <1>4 DEF DatesStay

(* A request that does nothing here, rows at most deleted or moved.         *)
LEMMA InTimeKept ==
    ASSUME SessionTypes, LastingInv, DatesStay, NEW r \in Requests, req'[r] = req[r]
    PROVE  InTime(r)'
<1>1. ASSUME req[r] # Sessions!Idle
      PROVE  DatedFor(req[r], session'[req[r].token], dated[req[r].token])
  <2>1. req[r].token \in Tokens BY <1>1 DEF SessionTypes, SessionRequestTypes, RequestRec
  <2>2. DatedFor(req[r], session[req[r].token], dated[req[r].token])
    BY <1>1 DEF LastingInv, InTime
  <2> QED BY <2>1, <2>2 DEF DatedFor, DatesStay
<1> QED BY <1>1 DEF InTime, DatedFor, DatesStay

(* The invariant holds at first.                                            *)
LEMMA LastingInit == ASSUME Sessions!Init PROVE LastingInv
<1>1. dated \in [Tokens -> Nat] /\ \A t \in Tokens : used[t] <= now /\ dated[t] <= now
  BY DEF Sessions!Init
<1> QED BY <1>1 DEF Sessions!Init, LastingInv, Sessions!UsedSessionLasts, InTime

(* A step of a request that dates nothing, and is answered at most by a     *)
(* row dated less than touchAfter ago, or since it came.                    *)
LEMMA LastingMove ==
    ASSUME Sessions!SessionsAssumption, SessionInv, LastingInv, NEW r \in Requests,
           req[r].at \in Places, Advances(r), DatesStay, UNCHANGED <<now, spent>>,
           \/ UNCHANGED used
           \/ /\ used' = [used EXCEPT ![req[r].token] = IF @ > req[r].now THEN @ ELSE req[r].now]
              /\ req[r].at \in {"garden", "start", "move", "read"},
           req'[r] # Sessions!Idle => DatedFor(req'[r], session[req[r].token], dated[req[r].token])
    PROVE  LastingInv'
<1>1. /\ req[r].token \in Tokens /\ req[r].now \in Nat /\ req[r].now <= now /\ req[r] # Sessions!Idle
      /\ now \in Nat /\ used \in [Tokens -> Nat]
  BY UnderWay DEF SessionInv, SessionTypes
<1>2. PICK t \in Tokens, n \in Nat : t = req[r].token /\ n = req[r].now BY <1>1
<1>3. /\ \A q \in Requests : q # r => req'[q] = req[q]
      /\ req'[r] # Sessions!Idle => req'[r].token = t
  BY <1>2, AdvanceTypes DEF SessionInv
<1>4. ASSUME NEW u \in Tokens
      PROVE  /\ used'[u] <= now /\ used'[u] \in Nat
             /\ session'[u] # Sessions!NoRow
                   => used'[u] - session'[u].seen < Sessions!touchAfter \/ used'[u] <= dated[u]
  <2>1. /\ used[u] \in Nat /\ used[u] <= now
        /\ session'[u] # Sessions!NoRow =>
              /\ session[u] # Sessions!NoRow /\ session'[u].seen = session[u].seen
              /\ used[u] - session[u].seen < Sessions!touchAfter \/ used[u] <= dated[u]
    BY <1>1 DEF LastingInv, Sessions!UsedSessionLasts, DatesStay
  <2>2. CASE used'[u] = used[u] BY <2>1, <2>2
  <2>3. CASE used'[u] # used[u]
    <3>1. /\ u = t /\ used'[u] = n
          /\ req[r].at \in {"garden", "start", "move", "read"}
      BY <1>1, <1>2, <2>3
    <3>2. DatedFor(req[r], session[u], dated[u]) BY <1>1, <1>2, <3>1 DEF LastingInv, InTime
    <3>3. session[u] # Sessions!NoRow => n - session[u].seen < Sessions!touchAfter \/ n <= dated[u]
      BY <1>2, <3>1, <3>2 DEF DatedFor
    <3> QED BY <1>1, <1>2, <2>1, <3>1, <3>3
  <2> QED BY <2>2, <2>3
<1>5. Sessions!UsedSessionLasts' BY <1>4 DEF Sessions!UsedSessionLasts, DatesStay
<1>6. dated' \in [Tokens -> Nat] /\ \A u \in Tokens : used'[u] <= now' /\ dated'[u] <= now'
  BY <1>4 DEF LastingInv, DatesStay
<1>7. InTime(r)'
  <2>1. ASSUME req'[r] # Sessions!Idle PROVE DatedFor(req'[r], session'[t], dated'[t])
    <3>1. DatedFor(req'[r], session[t], dated[t]) BY <1>2, <2>1
    <3> QED BY <3>1 DEF DatedFor, DatesStay
  <2> QED BY <1>3, <2>1 DEF InTime, DatedFor
<1>8. \A q \in Requests : InTime(q)' BY <1>3, <1>7, InTimeKept DEF SessionInv
<1> QED BY <1>5, <1>6, <1>8 DEF LastingInv

(* A request that ends, rows only deleted or moved.                         *)
LEMMA LastingEnd ==
    ASSUME Sessions!SessionsAssumption, SessionInv, LastingInv, NEW r \in Requests,
           req[r].at \in Places, Sessions!End(r), DatesStay, UNCHANGED <<now, spent, used>>
    PROVE  LastingInv'
<1>1. Advances(r) BY DEF Advances
<1>2. req'[r] = Sessions!Idle BY Placed DEF SessionInv
<1> QED BY <1>1, <1>2, LastingMove

(* The lookup finds the row fresh, to be touched, expired or gone.          *)
LEMMA LastingLookup ==
    ASSUME Sessions!SessionsAssumption, SessionInv, LastingInv, NEW r \in Requests, Sessions!Lookup(r)
    PROVE  LastingInv'
<1>0. /\ req[r].at \in Places /\ {"expire", "touch", "garden"} \subseteq Places
      /\ UNCHANGED <<now, spent, used, session, dated>>
  BY DEF Sessions!Lookup, Places
<1>1. DatesStay BY <1>0 DEF DatesStay
<1>2. /\ Sessions!Row(r) = session[req[r].token]
      /\ Sessions!Row(r) # Sessions!NoRow => Sessions!Row(r).garden \in Gardens \cup {Sessions!NoGarden}
  <2>1. Sessions!Row(r) \in RowRec \cup {Sessions!NoRow} BY <1>0, UnderWay DEF SessionInv
  <2> QED BY <1>0, <2>1, UnderWay DEF SessionInv, RowRec
<1>3. ASSUME Advances(r),
             req'[r] # Sessions!Idle => DatedFor(req'[r], session[req[r].token], dated[req[r].token])
      PROVE  LastingInv'
  BY <1>0, <1>1, <1>3, LastingMove
<1>4. CASE Sessions!End(r) BY <1>0, <1>1, <1>4, LastingEnd
<1>5. CASE Sessions!SessionExpired(Sessions!Row(r).seen, req[r].now) /\ Sessions!To(r, "expire")
  <2>1. req'[r].at = "expire" /\ req'[r].now = req[r].now BY <1>0, <1>5, Placed DEF SessionInv
  <2>2. Advances(r) BY <1>0, <1>5, ToAdvances DEF SessionInv
  <2>3. DatedFor(req'[r], session[req[r].token], dated[req[r].token])
    BY <1>2, <1>5, <2>1 DEF DatedFor
  <2> QED BY <1>3, <2>2, <2>3
<1>6. CASE /\ Sessions!Row(r) # Sessions!NoRow /\ Sessions!Fresh(r)
           /\ Sessions!Go(r, [req[r] EXCEPT !.at = "garden", !.garden = Sessions!Row(r).garden])
  <2>1. req'[r].at = "garden" /\ req'[r].now = req[r].now
    BY <1>0, <1>2, <1>6, Placed DEF SessionInv
  <2>2. Advances(r) BY <1>0, <1>2, <1>6 DEF Advances
  <2>3. DatedFor(req'[r], session[req[r].token], dated[req[r].token])
    BY <1>2, <1>6, <2>1 DEF DatedFor, Sessions!Fresh
  <2> QED BY <1>3, <2>2, <2>3
<1>7. CASE Sessions!To(r, "touch")
  <2>1. req'[r].at = "touch" BY <1>0, <1>7, Placed DEF SessionInv
  <2>2. Advances(r) BY <1>0, <1>7, ToAdvances DEF SessionInv
  <2>3. DatedFor(req'[r], session[req[r].token], dated[req[r].token]) BY <2>1 DEF DatedFor
  <2> QED BY <1>3, <2>2, <2>3
<1> QED BY <1>4, <1>5, <1>6, <1>7 DEF Sessions!Lookup

(* Dating a row now: every request so far has come.                         *)
LEMMA LastingDated ==
    ASSUME Sessions!SessionsAssumption, SessionInv, LastingInv, NEW t \in Tokens,
           dated' = [dated EXCEPT ![t] = now], UNCHANGED now, used'[t] <= now,
           \A u \in Tokens : u # t => used'[u] = used[u] /\ session'[u] \in {Sessions!NoRow, session[u]},
           \A r \in Requests : \/ req'[r] = req[r]
                               \/ /\ req'[r] # Sessions!Idle
                                  /\ req'[r].token = t /\ req'[r].now \in Nat /\ req'[r].now <= now
    PROVE  LastingInv'
<1>0. now \in Nat /\ used \in [Tokens -> Nat] BY DEF SessionInv, SessionTypes
<1>1. /\ dated' \in [Tokens -> Nat] /\ dated'[t] = now
      /\ \A u \in Tokens : u # t => dated'[u] = dated[u]
  BY <1>0 DEF LastingInv
<1>2. \A u \in Tokens : used'[u] <= now' /\ dated'[u] <= now' BY <1>0, <1>1 DEF LastingInv
<1>3. Sessions!UsedSessionLasts'
  <2>1. ASSUME NEW u \in Tokens, session'[u] # Sessions!NoRow
        PROVE  used'[u] - session'[u].seen < Sessions!touchAfter \/ used'[u] <= dated'[u]
    <3>1. CASE u = t BY <1>1, <3>1
    <3>2. CASE u # t
      <4>1. session'[u] = session[u] /\ used'[u] = used[u] /\ dated'[u] = dated[u] BY <1>1, <2>1, <3>2
      <4> QED BY <2>1, <4>1 DEF LastingInv, Sessions!UsedSessionLasts
    <3> QED BY <3>1, <3>2
  <2> QED BY <2>1 DEF Sessions!UsedSessionLasts
<1>4. ASSUME NEW r \in Requests, req'[r] # Sessions!Idle
      PROVE  DatedFor(req'[r], session'[req'[r].token], dated'[req'[r].token])
  <2>1. CASE req'[r] = req[r] /\ req[r].token # t
    <3>1. req[r].token \in Tokens /\ req[r] # Sessions!Idle
      BY <1>4, <2>1 DEF SessionInv, SessionTypes, SessionRequestTypes, RequestRec
    <3>2. DatedFor(req[r], session[req[r].token], dated[req[r].token])
      BY <3>1 DEF LastingInv, InTime
    <3>3. /\ session'[req[r].token] \in {Sessions!NoRow, session[req[r].token]}
          /\ dated'[req[r].token] = dated[req[r].token]
      BY <1>1, <2>1, <3>1
    <3> QED BY <2>1, <3>2, <3>3 DEF DatedFor
  <2>2. CASE ~ (req'[r] = req[r] /\ req[r].token # t)
    <3>1. req'[r].token = t /\ req'[r].now <= now
      <4>1. CASE req'[r] = req[r]
        <5>1. req[r] # Sessions!Idle BY <1>4, <4>1
        <5>2. req[r].now <= now BY <5>1 DEF SessionInv, SessionTypes, SessionRequestTypes
        <5> QED BY <2>2, <4>1, <5>2
      <4> QED BY <4>1
    <3> QED BY <1>1, <3>1 DEF DatedFor
  <2> QED BY <2>1, <2>2
<1>5. \A r \in Requests : InTime(r)' BY <1>4 DEF InTime, DatedFor
<1> QED BY <1>1, <1>2, <1>3, <1>5 DEF LastingInv

(* The touch dates the row at the request.                                  *)
LEMMA LastingTouch ==
    ASSUME Sessions!SessionsAssumption, SessionInv, LastingInv, NEW r \in Requests,
           Sessions!TouchSession(r)
    PROVE  LastingInv'
<1>0. /\ req[r].at \in Places /\ "garden" \in Places /\ UNCHANGED <<now, spent, used>>
  BY DEF Sessions!TouchSession, Places
<1>1. PICK t \in Tokens : t = req[r].token BY <1>0, UnderWay DEF SessionInv
<1>2. /\ Sessions!Row(r) = session[t] /\ req[r].now \in Nat /\ req[r].now <= now
      /\ Sessions!Row(r) # Sessions!NoRow => Sessions!Row(r).garden \in Gardens \cup {Sessions!NoGarden}
  <2>1. Sessions!Row(r) \in RowRec \cup {Sessions!NoRow} BY <1>0, UnderWay DEF SessionInv
  <2> QED BY <1>0, <1>1, <2>1, UnderWay DEF SessionInv, RowRec
<1>3. CASE Sessions!Row(r) = Sessions!NoRow
  <2>1. DatesStay /\ Sessions!End(r) BY <1>3 DEF Sessions!TouchSession, DatesStay
  <2> QED BY <1>0, <2>1, LastingEnd
<1>4. CASE Sessions!Row(r) # Sessions!NoRow
  <2>1. /\ dated' = [dated EXCEPT ![t] = now]
        /\ session' = [session EXCEPT ![t].seen = req[r].now]
        /\ Sessions!Go(r, [req[r] EXCEPT !.at = "garden", !.garden = Sessions!Row(r).garden])
    BY <1>1, <1>4 DEF Sessions!TouchSession
  <2>2. Advances(r) BY <1>0, <1>2, <1>4, <2>1 DEF Advances
  <2>3. req'[r].at = "garden" BY <1>0, <1>2, <1>4, <2>1, Placed DEF SessionInv
  <2>4. req'[r] # Sessions!Idle BY <2>3 DEF Sessions!Idle
  <2>5. /\ req'[r].token = t /\ req'[r].now = req[r].now
        /\ \A q \in Requests : q # r => req'[q] = req[q]
    BY <1>0, <1>1, <2>2, <2>4, AdvanceTypes DEF SessionInv
  <2>6. \A u \in Tokens : u # t => used'[u] = used[u] /\ session'[u] \in {Sessions!NoRow, session[u]}
    BY <1>0, <2>1 DEF SessionInv, SessionTypes
  <2>7. used'[t] <= now BY <1>0 DEF LastingInv
  <2>8. \A q \in Requests : \/ req'[q] = req[q]
                            \/ /\ req'[q] # Sessions!Idle
                               /\ req'[q].token = t /\ req'[q].now \in Nat /\ req'[q].now <= now
    BY <1>2, <2>4, <2>5
  <2> QED BY <1>0, <2>1, <2>6, <2>7, <2>8, LastingDated
<1> QED BY <1>3, <1>4

(* The garden is settled, or the request ends.                              *)
LEMMA LastingGarden ==
    ASSUME Sessions!SessionsAssumption, SessionInv, LastingInv, NEW r \in Requests,
           Sessions!KeepGarden(r) \/ Sessions!PickGarden(r) \/ Sessions!MoveSession(r) \/ Sessions!ReadMembership(r)
    PROVE  LastingInv'
<1>0. /\ req[r].at \in {"garden", "start", "move", "read"} /\ req[r].at \in Places
      /\ {"start", "move", "read", "handler"} \subseteq Places /\ UNCHANGED <<now, spent, dated>>
  BY DEF Sessions!KeepGarden, Sessions!PickGarden, Sessions!MoveSession, Sessions!ReadMembership, Places
<1>1. /\ req[r].garden \in Gardens \cup {Sessions!NoGarden} /\ req[r].token \in Tokens
      /\ req[r] # Sessions!Idle /\ Sessions!Row(r) = session[req[r].token]
  BY <1>0, UnderWay DEF SessionInv
<1>2. DatesStay
  <2>1. CASE UNCHANGED session BY <1>0, <2>1 DEF DatesStay
  <2>2. CASE session[req[r].token] # Sessions!NoRow /\ session' = [session EXCEPT ![req[r].token].garden = req[r].garden]
    BY <1>0, <1>1, <2>2, GardenKeepsDates DEF SessionInv
  <2> QED BY <1>1, <2>1, <2>2 DEF Sessions!KeepGarden, Sessions!PickGarden, Sessions!MoveSession,
          Sessions!ReadMembership
<1>3. ASSUME NEW a \in {"start", "move", "read", "handler"}, NEW g \in Gardens \cup {Sessions!NoGarden},
             Sessions!Go(r, [req[r] EXCEPT !.at = a, !.garden = g]),
             \/ UNCHANGED used
             \/ used' = [used EXCEPT ![req[r].token] = IF @ > req[r].now THEN @ ELSE req[r].now]
      PROVE  LastingInv'
  <2>1. req'[r].at = a /\ req'[r].now = req[r].now BY <1>0, <1>3, Placed DEF SessionInv
  <2>2. Advances(r) BY <1>0, <1>3 DEF Advances
  <2>3. DatedFor(req[r], session[req[r].token], dated[req[r].token])
    BY <1>1 DEF LastingInv, InTime
  <2>4. DatedFor(req'[r], session[req[r].token], dated[req[r].token])
    BY <1>0, <2>1, <2>3 DEF DatedFor
  <2> QED BY <1>0, <1>2, <1>3, <2>2, <2>4, LastingMove
<1>4. ASSUME NEW a \in {"start", "read"}, Sessions!To(r, a), UNCHANGED used PROVE LastingInv'
  <2>1. Sessions!Go(r, [req[r] EXCEPT !.at = a, !.garden = req[r].garden])
    BY <1>0, <1>4, ToAdvances DEF SessionInv
  <2> QED BY <1>1, <1>3, <1>4, <2>1
<1>5. ASSUME Sessions!End(r), UNCHANGED used PROVE LastingInv' BY <1>0, <1>2, <1>5, LastingEnd
<1>6. ASSUME NEW g \in Gardens \cup {Sessions!NoGarden}, Sessions!Resolved(r, g) PROVE LastingInv'
  <2>1. /\ Sessions!Go(r, [req[r] EXCEPT !.at = "handler", !.garden = g])
        /\ used' = [used EXCEPT ![req[r].token] = IF @ > req[r].now THEN @ ELSE req[r].now]
    BY <1>6 DEF Sessions!Resolved
  <2> QED BY <1>3, <2>1
<1>7. CASE Sessions!KeepGarden(r) BY <1>1, <1>4, <1>6, <1>7 DEF Sessions!KeepGarden
<1>8. CASE Sessions!PickGarden(r)
  <2>1. PICK g \in Gardens \cup {Sessions!NoGarden} : g = Sessions!firstLiveMembership(req[r].now)
    BY FirstLive DEF SessionInv
  <2>2. CASE Sessions!Resolved(r, Sessions!NoGarden) BY <1>6, <2>2
  <2>3. CASE Sessions!Go(r, [req[r] EXCEPT !.at = "move", !.garden = g]) /\ UNCHANGED used
    BY <1>3, <2>3
  <2> QED BY <1>8, <2>1, <2>2, <2>3 DEF Sessions!PickGarden
<1>9. CASE Sessions!MoveSession(r) BY <1>1, <1>4, <1>5, <1>6, <1>9 DEF Sessions!MoveSession
<1>10. CASE Sessions!ReadMembership(r) BY <1>1, <1>5, <1>6, <1>10 DEF Sessions!ReadMembership
<1> QED BY <1>7, <1>8, <1>9, <1>10

(* The handlers, and an expired row's end.                                  *)
LEMMA LastingHandler ==
    ASSUME Sessions!SessionsAssumption, SessionInv, LastingInv, NEW r \in Requests,
           \/ Sessions!DeleteExpired(r) \/ Sessions!Answer(r) \/ Sessions!signOut(r)
           \/ \E g \in Gardens : Sessions!switchGarden(r, g)
    PROVE  LastingInv'
<1>0. req[r].at \in Places /\ Sessions!End(r) /\ UNCHANGED <<now, spent, used, dated>>
  BY DEF Sessions!DeleteExpired, Sessions!Answer, Sessions!signOut, Sessions!switchGarden, Places
<1>1. req[r].token \in Tokens BY <1>0, UnderWay DEF SessionInv
<1>2. DatesStay
  <2>1. CASE UNCHANGED session BY <1>0, <2>1 DEF DatesStay
  <2>2. CASE session' = [session EXCEPT ![req[r].token] = Sessions!NoRow]
    BY <1>0, <1>1, <2>2 DEF DatesStay, SessionInv, SessionTypes
  <2>3. ASSUME NEW g \in Gardens, session[req[r].token] # Sessions!NoRow,
               session' = [session EXCEPT ![req[r].token].garden = g]
        PROVE  DatesStay
    BY <1>0, <1>1, <2>3, GardenKeepsDates DEF SessionInv
  <2> QED BY <2>1, <2>2, <2>3 DEF Sessions!DeleteExpired, Sessions!Answer, Sessions!signOut,
            Sessions!switchGarden, Sessions!Row
<1> QED BY <1>0, <1>2, LastingEnd

(* A request arrives, its row not looked up.                                *)
LEMMA LastingArrive ==
    ASSUME SessionInv, LastingInv, NEW r \in Requests, Sessions!Arrive(r)
    PROVE  LastingInv'
<1>1. UNCHANGED <<now, session, used, dated>> BY DEF Sessions!Arrive
<1>2. /\ req'[r] = [at |-> "lookup", now |-> now, token |-> cookie, garden |-> Sessions!NoGarden]
      /\ \A q \in Requests : q # r => req'[q] = req[q]
  BY DEF Sessions!Arrive, Sessions!Go, SessionInv, SessionTypes
<1>3. req'[r].at = "lookup" BY <1>2
<1>4. DatesStay BY <1>1 DEF DatesStay
<1>5. InTime(r)' BY <1>3 DEF InTime, DatedFor
<1>6. \A q \in Requests : InTime(q)' BY <1>2, <1>4, <1>5, InTimeKept DEF SessionInv
<1> QED BY <1>1, <1>6 DEF LastingInv, Sessions!UsedSessionLasts

(* The steps of nobody's request, and none.                                 *)
LEMMA LastingOther ==
    ASSUME Sessions!SessionsAssumption, SessionInv, LastingInv,
           \/ \E t \in Tokens : Sessions!Create(t)
           \/ \E g \in Gardens : Sessions!Join(g) \/ Sessions!RemoveMember(g)
           \/ Sessions!DeleteExpiredSessions \/ Sessions!Clock \/ UNCHANGED Sessions!vars
    PROVE  LastingInv'
<1>0. /\ now \in Nat /\ used \in [Tokens -> Nat] /\ session \in [Tokens -> RowRec \cup {Sessions!NoRow}]
      /\ Times \subseteq Nat
  BY DEF SessionInv, SessionTypes, Sessions!SessionsAssumption
<1>1. ASSUME DatesStay, UNCHANGED <<req, used>>, now' = now \/ (now' \in Times /\ now' > now) PROVE LastingInv'
  <2>1. Sessions!UsedSessionLasts' BY <1>1 DEF LastingInv, Sessions!UsedSessionLasts, DatesStay
  <2>2. \A r \in Requests : InTime(r)' BY <1>1, InTimeKept DEF SessionInv
  <2>3. dated' \in [Tokens -> Nat] BY <1>1 DEF LastingInv, DatesStay
  <2>4. ASSUME NEW t \in Tokens PROVE used'[t] <= now' /\ dated'[t] <= now'
    <3>1. used[t] \in Nat /\ used[t] <= now /\ dated[t] \in Nat /\ dated[t] <= now
      BY <1>0 DEF LastingInv
    <3>2. used'[t] = used[t] /\ dated'[t] = dated[t] BY <1>1 DEF DatesStay
    <3>3. now' \in Nat /\ now' >= now
      <4>1. CASE now' = now BY <1>0, <4>1
      <4>2. CASE now' \in Times /\ now' > now
        <5>1. now' \in Nat BY <1>0, <4>2
        <5> QED BY <1>0, <4>2, <5>1
      <4> QED BY <1>1, <4>1, <4>2
    <3> QED BY <1>0, <3>1, <3>2, <3>3
  <2> QED BY <2>1, <2>2, <2>3, <2>4 DEF LastingInv
<1>2. ASSUME NEW tok \in Tokens, Sessions!Create(tok) PROVE LastingInv'
  <2>1. /\ used'[tok] = now /\ dated' = [dated EXCEPT ![tok] = now] /\ UNCHANGED <<now, req>>
        /\ \A u \in Tokens : u # tok => used'[u] = used[u] /\ session'[u] \in {Sessions!NoRow, session[u]}
    BY <1>0, <1>2 DEF Sessions!Create
  <2>2. used'[tok] <= now BY <1>0, <2>1
  <2> QED BY <2>1, <2>2, LastingDated
<1>3. ASSUME NEW g \in Gardens, Sessions!RemoveMember(g) PROVE LastingInv'
  <2>1. ASSUME NEW t \in Tokens, session'[t] # Sessions!NoRow
        PROVE  session[t] # Sessions!NoRow /\ session'[t].seen = session[t].seen
    <3>1. CASE session[t] # Sessions!NoRow /\ session[t].garden = g
      <4>1. session[t] \in RowRec BY <3>1, SeenTypes DEF SessionInv
      <4>2. session'[t] = [session[t] EXCEPT !.garden = Sessions!NoGarden] BY <1>3, <3>1
            DEF Sessions!RemoveMember
      <4> QED BY <3>1, <4>1, <4>2 DEF RowRec
    <3>2. CASE ~ (session[t] # Sessions!NoRow /\ session[t].garden = g)
      <4>1. session'[t] = session[t] BY <1>3, <3>2 DEF Sessions!RemoveMember
      <4> QED BY <2>1, <4>1
    <3> QED BY <3>1, <3>2
  <2>2. DatesStay BY <1>3, <2>1 DEF DatesStay, Sessions!RemoveMember
  <2> QED BY <1>1, <1>3, <2>2 DEF Sessions!RemoveMember
<1>4. ASSUME Sessions!DeleteExpiredSessions PROVE LastingInv'
  <2>1. \A t \in Tokens : session'[t] \in {Sessions!NoRow, session[t]} BY <1>0, <1>4
            DEF Sessions!DeleteExpiredSessions
  <2>2. DatesStay BY <1>4, <2>1 DEF DatesStay, Sessions!DeleteExpiredSessions
  <2> QED BY <1>1, <1>4, <2>2 DEF Sessions!DeleteExpiredSessions
<1>5. ASSUME UNCHANGED <<session, req, used, dated>>, now' = now \/ (now' \in Times /\ now' > now)
      PROVE  LastingInv'
  <2>1. DatesStay BY <1>5 DEF DatesStay
  <2> QED BY <1>1, <1>5, <2>1
<1> QED BY <1>2, <1>3, <1>4, <1>5 DEF Sessions!Join, Sessions!Clock, Sessions!vars

(* And after every step.                                                    *)
LEMMA LastingStep ==
    ASSUME Sessions!SessionsAssumption, SessionInv, LastingInv, [Sessions!Next]_(Sessions!vars)
    PROVE  LastingInv'
<1>1. ASSUME NEW r \in Requests,
             \/ Sessions!Arrive(r) \/ Sessions!Resolve(r) \/ Sessions!Answer(r) \/ Sessions!signOut(r)
             \/ \E g \in Gardens : Sessions!switchGarden(r, g)
      PROVE  LastingInv'
  BY <1>1, LastingArrive, LastingLookup, LastingTouch, LastingGarden, LastingHandler
     DEF Sessions!Resolve
<1> QED BY <1>1, LastingOther DEF Sessions!Next

(* What deletes a row but a handler, or a sign-in, finds it expired, or     *)
(* found it so before it was dated.                                         *)
LEMMA DeletedHasExpired ==
    ASSUME Sessions!SessionsAssumption, SessionInv, LastingInv, [Sessions!Next]_(Sessions!vars)
    PROVE  Sessions!OnlyExpiredDeleted
<1> SUFFICES ASSUME NEW t \in Tokens, session[t] # Sessions!NoRow, session'[t] = Sessions!NoRow, cookie' = cookie,
                    ~ Sessions!Leaving(t)
             PROVE  Sessions!SessionExpired(session[t].seen, now) \/ Sessions!DatedMeanwhile(t)
  BY DEF Sessions!OnlyExpiredDeleted
<1>0. /\ session \in [Tokens -> RowRec \cup {Sessions!NoRow}] /\ now \in Nat /\ ttl \in Nat
      /\ session[t] \in RowRec /\ session[t].seen \in Nat /\ Sessions!NoRow \notin RowRec
  BY SeenTypes, Distinct DEF SessionInv, SessionTypes, Sessions!SessionsAssumption
<1>1. ASSUME NEW r \in Requests, Sessions!DeleteExpired(r)
      PROVE  Sessions!SessionExpired(session[t].seen, now) \/ Sessions!DatedMeanwhile(t)
  <2>1. req[r].at \in Places /\ req[r].at = "expire" BY <1>1 DEF Sessions!DeleteExpired, Places
  <2>2. t = req[r].token BY <1>0, <1>1 DEF Sessions!DeleteExpired
  <2>3. req[r] # Sessions!Idle /\ req[r].now \in Nat /\ req[r].now <= now BY <2>1, UnderWay
            DEF SessionInv
  <2>4. DatedFor(req[r], session[t], dated[t]) BY <2>2, <2>3 DEF LastingInv, InTime
  <2>5. Sessions!SessionExpired(session[t].seen, req[r].now) \/ req[r].now <= dated[t]
    BY <1>0, <2>1, <2>4 DEF DatedFor
  <2>6. req'[r] = Sessions!Idle
    BY <1>1, <2>1, Placed DEF SessionInv, Sessions!DeleteExpired
  <2>7. CASE req[r].now <= dated[t] BY <2>1, <2>2, <2>6, <2>7 DEF Sessions!DatedMeanwhile
  <2>8. CASE Sessions!SessionExpired(session[t].seen, req[r].now)
    BY <1>0, <2>3, <2>8 DEF Sessions!SessionExpired, Sessions!SessionDeadline
  <2> QED BY <2>5, <2>7, <2>8
<1>2. ASSUME NEW r \in Requests, Sessions!signOut(r) PROVE FALSE
  <2>1. t = req[r].token BY <1>0, <1>2 DEF Sessions!signOut
  <2> QED BY <1>2, <2>1 DEF Sessions!signOut, Sessions!Leaving
<1>3. ASSUME Sessions!DeleteExpiredSessions PROVE Sessions!SessionExpired(session[t].seen, now)
  <2>1. session[t].seen <= now - ttl BY <1>0, <1>3 DEF Sessions!DeleteExpiredSessions
  <2> QED BY <1>0, <2>1 DEF Sessions!SessionExpired, Sessions!SessionDeadline
<1>4. ASSUME NEW tok \in Tokens, Sessions!Create(tok) PROVE FALSE
  <2>1. CASE t = tok
    <3>1. session'[t] = [row |-> TRUE, garden |-> Sessions!NoGarden, seen |-> now]
      BY <1>4, <2>1 DEF Sessions!Create
    <3>2. [row |-> TRUE, garden |-> Sessions!NoGarden, seen |-> now] \in RowRec BY <1>0 DEF RowRec
    <3> QED BY <1>0, <3>1, <3>2
  <2>2. CASE t # tok
    <3>1. t = cookie /\ cookie' = tok BY <1>4, <2>2 DEF Sessions!Create
    <3> QED BY <2>2, <3>1
  <2> QED BY <2>1, <2>2
<1>5. ASSUME NEW g \in Gardens \cup {Sessions!NoGarden}
      PROVE  [session[t] EXCEPT !.garden = g] # Sessions!NoRow
  <2>1. [session[t] EXCEPT !.garden = g] \in RowRec BY <1>0 DEF RowRec
  <2> QED BY <1>0, <2>1
<1>6. ASSUME NEW r \in Requests, Sessions!TouchSession(r) PROVE FALSE
  <2>1. req[r].at \in Places BY <1>6 DEF Sessions!TouchSession, Places
  <2>2. req[r].now \in Nat BY <2>1, UnderWay DEF SessionInv
  <2>3. session'[t] = session[t] \/ session'[t] = [session[t] EXCEPT !.seen = req[r].now]
    BY <1>0, <1>6 DEF Sessions!TouchSession
  <2>4. [session[t] EXCEPT !.seen = req[r].now] \in RowRec BY <1>0, <2>2 DEF RowRec
  <2> QED BY <1>0, <2>3, <2>4
<1>7. ASSUME NEW r \in Requests, Sessions!MoveSession(r) PROVE FALSE
  <2>1. req[r].at \in Places BY <1>7 DEF Sessions!MoveSession, Places
  <2>2. req[r].garden \in Gardens \cup {Sessions!NoGarden} BY <2>1, UnderWay DEF SessionInv
  <2>3. session'[t] = session[t] \/ session'[t] = [session[t] EXCEPT !.garden = req[r].garden]
    BY <1>0, <1>7 DEF Sessions!MoveSession
  <2> QED BY <1>5, <2>2, <2>3
<1>8. ASSUME NEW r \in Requests, NEW g \in Gardens, Sessions!switchGarden(r, g) PROVE FALSE
  <2>1. session'[t] = session[t] \/ session'[t] = [session[t] EXCEPT !.garden = g]
    BY <1>0, <1>8 DEF Sessions!switchGarden
  <2> QED BY <1>5, <2>1
<1>9. ASSUME NEW g \in Gardens, Sessions!RemoveMember(g) PROVE FALSE
  <2>1. session'[t] = session[t] \/ session'[t] = [session[t] EXCEPT !.garden = Sessions!NoGarden]
    BY <1>9 DEF Sessions!RemoveMember
  <2> QED BY <1>5, <2>1
<1>10. session' # session OBVIOUS
<1>11. \/ Sessions!DeleteExpiredSessions
       \/ \E g \in Gardens : Sessions!RemoveMember(g)
       \/ \E tok \in Tokens : Sessions!Create(tok)
       \/ \E r \in Requests : \/ Sessions!DeleteExpired(r) \/ Sessions!signOut(r) \/ Sessions!TouchSession(r) \/ Sessions!MoveSession(r)
                              \/ \E g \in Gardens : Sessions!switchGarden(r, g)
  BY <1>10 DEF Sessions!Next, Sessions!Resolve, Sessions!Arrive, Sessions!Lookup,
     Sessions!KeepGarden, Sessions!PickGarden, Sessions!ReadMembership, Sessions!Answer,
     Sessions!Join,
     Sessions!Clock, Sessions!vars
<1> QED BY <1>1, <1>2, <1>3, <1>4, <1>6, <1>7, <1>8, <1>9, <1>11

(* "A session in use therefore expires up to this much earlier than its     *)
(* last request plus the TTL" (touchInterval, session.go:29), but for a     *)
(* request that had come by the time a slower one dated the row; and no     *)
(* session is deleted as expired before its deadline, but for one dated     *)
(* between the read of an expired row and its delete.                       *)
THEOREM SessionInUseLasts ==
    ASSUME Sessions!SessionsAssumption
    PROVE  Sessions!Spec => [][Sessions!SessionsLast]_(Sessions!vars)
<1>1. Sessions!Init => SessionInv /\ LastingInv BY SessionInvInit, LastingInit
<1>2. SessionInv /\ LastingInv /\ [Sessions!Next]_(Sessions!vars) => SessionInv' /\ LastingInv'
  BY SessionInvStep, LastingStep
<1>3. ASSUME SessionInv, LastingInv, [Sessions!Next]_(Sessions!vars) PROVE Sessions!SessionsLast
  <2>1. Sessions!UsedSessionLasts' BY <1>3, LastingStep DEF LastingInv
  <2> QED BY <1>3, <2>1, DeletedHasExpired DEF Sessions!SessionsLast
<1> QED BY <1>1, <1>2, <1>3, PTL DEF Sessions!Spec

-----------------------------------------------------------------------------
(* Setup: the inductive invariant.                                         *)

LinkFields == {"state", "used", "expires"}
LinkTypes(x) ==
    DOMAIN x = LinkFields /\ x.state \in {"row", "deleted"} /\ x.used \in {Setup!NoTime} \cup Nat

SetupStates == {"claim", "write"}
ClosingStates == {"close", "closing"}
SetupRec ==
    [at : SetupStates, l : Links \cup {NoLink}, u : Users, what : {"create", "signed-in"}]
CloseRec ==
    [at : ClosingStates, l : {NoLink}, u : Users, saw : SUBSET (Gardens \X Users)]

\* What a request carries; one that sets up signed in has an account, and came
\* with a link or by sign-up.
SetupRequestTypes(x, acc) ==
    /\ x.at \in {"idle"} \cup SetupStates \cup ClosingStates
    /\ x.at \in SetupStates => x \in SetupRec
    /\ x.at \in ClosingStates => x \in CloseRec
    /\ x.at \in SetupStates /\ x.what = "signed-in" =>
          acc[x.u] # "none" /\ (x.l # NoLink \/ enabled)

SetupTypes ==
    /\ now \in Nat
    /\ account \in [Users -> {"none", "open", "closed"}]
    /\ garden \in [Gardens -> {"none", "open", "deleted"}]
    /\ owner \subseteq Gardens \X Users
    /\ \A x \in owner : garden[x[1]] = "open" /\ account[x[2]] # "none"
    /\ DOMAIN link = Links /\ \A l \in Links : link[l] # Setup!NoRow => LinkTypes(link[l])
    /\ made \in [Links -> Nat] /\ firsts \in Nat
    /\ DOMAIN req = Requests /\ \A r \in Requests : SetupRequestTypes(req[r], account)

\* A link that is not used made nothing, and one transaction has its row.
LinkInv ==
    /\ \A l \in Links :
          /\ link[l] = Setup!NoRow => made[l] = 0
          /\ link[l] # Setup!NoRow => (link[l].used # Setup!NoTime) = (made[l] > 0)
    /\ \A r \in Requests : req[r].at = "write" /\ req[r].l # NoLink =>
          /\ link[req[r].l].state = "row" /\ link[req[r].l].used = Setup!NoTime
          /\ \A q \in Requests : req[q].at = "write" /\ req[q].l = req[r].l => q = r
    /\ Setup!SetupLinkOnce

\* Without accounts none was made first; a bare transaction has the table, and
\* there is no account while it has it.
FirstInv ==
    /\ ~enabled /\ ~Setup!AnyUsers => firsts = 0
    /\ \A r \in Requests : req[r].at = "write" /\ Setup!Bare(r) =>
          /\ ~Setup!AnyUsers
          /\ \A q \in Requests : req[q].at = "write" /\ Setup!Bare(q) => q = r
    /\ Setup!FirstAccountOnce

SetupInv == SetupTypes /\ LinkInv /\ FirstInv

\* A garden has one owner; the owner of one that is not at risk has an open
\* account that no request is closing.
Keeps(g, u) == <<g, u>> \in owner /\ account[u] = "open" /\ \A q \in Requests : ~Setup!Closing(q, u)
Kept ==
    /\ \A x, y \in owner : x[1] = y[1] => x = y
    /\ \A g \in Gardens : garden[g] = "open" /\ g \notin risked => \E u \in Users : Keeps(g, u)

\* A set-up signed in that has met no closing: the account is open and nothing
\* is closing it.  A closing is of an account that was made, and of its rows.
Calm(r) ==
    req[r].at \in SetupStates /\ req[r].what = "signed-in" /\ r \notin met =>
        account[req[r].u] = "open" /\ \A q \in Requests : ~Setup!Closing(q, req[r].u)
Parting(r) ==
    req[r].at \in ClosingStates =>
        account[req[r].u] # "none" /\ \A y \in req[r].saw : y[2] = req[r].u

GardenOwnerInv == Kept /\ \A r \in Requests : Calm(r) /\ Parting(r)

-----------------------------------------------------------------------------
(* Requests.                                                               *)

\* The request goes on as x, the others stay.
Becomes(r, x) ==
    DOMAIN req' = Requests /\ req'[r] = x /\ \A q \in Requests : q # r => req'[q] = req[q]

\* No account is unmade.
AccountsStay == \A u \in Users : account[u] # "none" => account'[u] # "none"

(* What Begin, Go and End make of a request.                                *)
LEMMA RequestBecomes ==
    ASSUME SetupTypes, NEW r \in Requests
    PROVE  /\ \A x : Setup!Begin(r, x) => Becomes(r, x)
           /\ \A a : Setup!Go(r, a) => Becomes(r, [req[r] EXCEPT !.at = a])
           /\ Setup!End(r) => Becomes(r, Setup!Idle)
BY DEF SetupTypes, Setup!Begin, Setup!Go, Setup!End, Becomes

(* The types of the requests after a step.                                  *)
LEMMA RequestsTyped ==
    ASSUME SetupTypes, AccountsStay, NEW r \in Requests, NEW x, Becomes(r, x), SetupRequestTypes(x, account')
    PROVE  DOMAIN req' = Requests /\ \A q \in Requests : SetupRequestTypes(req'[q], account')
<1>1. ASSUME NEW q \in Requests, q # r PROVE SetupRequestTypes(req'[q], account')
  <2>1. req'[q] = req[q] /\ SetupRequestTypes(req[q], account) BY <1>1 DEF Becomes, SetupTypes
  <2>2. req[q].at \in SetupStates => req[q].u \in Users BY <2>1 DEF SetupRequestTypes, SetupRec
  <2> QED BY <2>1, <2>2 DEF SetupRequestTypes, AccountsStay
<1>2. SetupRequestTypes(req'[r], account') BY DEF Becomes
<1> QED BY <1>1, <1>2 DEF Becomes

(* A request that is over.                                                  *)
LEMMA IdleTyped == SetupRequestTypes(Setup!Idle, account') /\ SetupRequestTypes(Setup!Idle, account) /\ Setup!Idle.at = "idle"
BY DEF SetupRequestTypes, Setup!Idle, SetupStates, ClosingStates

(* A request that sets up.                                                  *)
LEMMA SetupRequest ==
    ASSUME SetupTypes, NEW r \in Requests, req[r].at \in SetupStates
    PROVE  /\ req[r] \in SetupRec /\ req[r].l \in Links \cup {NoLink} /\ req[r].u \in Users
           /\ req[r].what = "signed-in" => account[req[r].u] # "none" /\ (req[r].l # NoLink \/ enabled)
BY DEF SetupTypes, SetupRequestTypes, SetupRec

(* A request that closes an account.                                        *)
LEMMA CloseRequest ==
    ASSUME SetupTypes, NEW r \in Requests, req[r].at \in ClosingStates
    PROVE  req[r] \in CloseRec /\ req[r].u \in Users
BY DEF SetupTypes, SetupRequestTypes, CloseRec

-----------------------------------------------------------------------------
(* What steps keep.                                                        *)

(* The links, when none is used and no row is deleted that is held.         *)
LEMMA LinksKept ==
    ASSUME SetupInv, made' = made,
           \A q \in Requests : req'[q].at = "write" => req'[q] = req[q],
           \A l \in Links : Setup!HeldLink(l) => link'[l] = link[l],
           \A l \in Links : link[l] # Setup!NoRow => link'[l] # Setup!NoRow /\ link'[l].used = link[l].used,
           \A l \in Links : link[l] = Setup!NoRow => link'[l] = Setup!NoRow \/ link'[l].used = Setup!NoTime
    PROVE  LinkInv'
<1>1. \A l \in Links :
          /\ link'[l] = Setup!NoRow => made'[l] = 0
          /\ link'[l] # Setup!NoRow => (link'[l].used # Setup!NoTime) = (made'[l] > 0)
  <2>1. ASSUME NEW l \in Links, link[l] = Setup!NoRow
        PROVE  /\ link'[l] = Setup!NoRow => made'[l] = 0
               /\ link'[l] # Setup!NoRow => (link'[l].used # Setup!NoTime) = (made'[l] > 0)
    <3>1. made'[l] = 0 /\ ~(made'[l] > 0) BY <2>1 DEF SetupInv, LinkInv
    <3> QED BY <2>1, <3>1
  <2>2. ASSUME NEW l \in Links, link[l] # Setup!NoRow
        PROVE  /\ link'[l] = Setup!NoRow => made'[l] = 0
               /\ link'[l] # Setup!NoRow => (link'[l].used # Setup!NoTime) = (made'[l] > 0)
    BY <2>2 DEF SetupInv, LinkInv
  <2> QED BY <2>1, <2>2
<1>2. ASSUME NEW p \in Requests, req'[p].at = "write", req'[p].l # NoLink
      PROVE  /\ link'[req'[p].l].state = "row" /\ link'[req'[p].l].used = Setup!NoTime
             /\ \A q \in Requests : req'[q].at = "write" /\ req'[q].l = req'[p].l => q = p
  <2>1. req'[p] = req[p] /\ req[p].at = "write" BY <1>2
  <2>2. req[p].l \in Links BY <1>2, <2>1, SetupRequest DEF SetupInv, SetupStates
  <2>3. link'[req[p].l] = link[req[p].l] BY <2>1, <2>2 DEF Setup!HeldLink
  <2> QED BY <1>2, <2>1, <2>3 DEF SetupInv, LinkInv
<1>3. Setup!SetupLinkOnce' BY DEF SetupInv, LinkInv, Setup!SetupLinkOnce
<1> QED BY <1>1, <1>2, <1>3 DEF LinkInv

(* The first account, when no account is made.                              *)
LEMMA FirstKept ==
    ASSUME SetupInv, firsts' = firsts,
           \A u \in Users : account'[u] = "none" <=> account[u] = "none",
           \A q \in Requests : req'[q].at = "write" => req'[q] = req[q]
    PROVE  FirstInv'
<1>1. Setup!AnyUsers' <=> Setup!AnyUsers BY DEF Setup!AnyUsers
<1>2. ~enabled /\ ~Setup!AnyUsers' => firsts' = 0 BY <1>1 DEF SetupInv, FirstInv
<1>3. ASSUME NEW p \in Requests, req'[p].at = "write", Setup!Bare(p)'
      PROVE  ~Setup!AnyUsers' /\ \A q \in Requests : req'[q].at = "write" /\ Setup!Bare(q)' => q = p
  <2>1. \A q \in Requests : req'[q].at = "write" /\ Setup!Bare(q)' => req[q].at = "write" /\ Setup!Bare(q)
    BY DEF Setup!Bare
  <2> QED BY <1>1, <1>3, <2>1 DEF SetupInv, FirstInv
<1>4. Setup!FirstAccountOnce' BY DEF SetupInv, FirstInv, Setup!FirstAccountOnce
<1> QED BY <1>2, <1>3, <1>4 DEF FirstInv

(* A statement that only reads.                                             *)
LEMMA SetupReadGoes ==
    ASSUME SetupInv, UNCHANGED <<now, Setup!rows>>, NEW r \in Requests, NEW x, Becomes(r, x),
           SetupRequestTypes(x, account), x.at # "write"
    PROVE  SetupInv'
<1>1. /\ now' = now /\ account' = account /\ garden' = garden /\ owner' = owner
      /\ link' = link /\ made' = made /\ firsts' = firsts
  BY DEF Setup!rows
<1>2. AccountsStay BY <1>1 DEF AccountsStay
<1>3. DOMAIN req' = Requests /\ \A q \in Requests : SetupRequestTypes(req'[q], account')
  BY <1>1, <1>2, RequestsTyped DEF SetupInv
<1>4. SetupTypes' BY <1>1, <1>3 DEF SetupInv, SetupTypes, LinkTypes
<1>5. \A q \in Requests : req'[q].at = "write" => req'[q] = req[q] BY DEF Becomes
<1>6. LinkInv' BY <1>1, <1>5, LinksKept
<1>7. FirstInv' BY <1>1, <1>5, FirstKept
<1> QED BY <1>4, <1>6, <1>7 DEF SetupInv

(* The invariant holds at first.                                            *)
LEMMA SetupInvInit == ASSUME Setup!SetupAssumption, Setup!Init PROVE SetupInv
<1>1. PICK first \in {{}} \cup {{u} : u \in Users} :
          /\ account = [u \in Users |-> IF u \in first THEN "open" ELSE "none"]
          /\ firsts = Cardinality(first)
  BY DEF Setup!Init, Setup!Cardinality, Cardinality
<1>2. firsts \in Nat /\ firsts <= 1 /\ (first = {} => firsts = 0)
  <2>1. CASE first = {} BY <1>1, <2>1, FS_EmptySet
  <2>2. CASE first # {}
    <3>1. PICK u : first = {u} BY <1>1, <2>2
    <3> QED BY <1>1, <2>2, <3>1, FS_Singleton
  <2> QED BY <2>1, <2>2
<1>3. ~Setup!AnyUsers => first = {} BY <1>1 DEF Setup!AnyUsers
<1>4. SetupTypes BY <1>1, <1>2, IdleTyped DEF Setup!Init, SetupTypes
<1>5. LinkInv BY DEF Setup!Init, LinkInv, Setup!SetupLinkOnce, Setup!Idle
<1>6. \A r \in Requests : req[r].at # "write" BY DEF Setup!Init, Setup!Idle
<1>7. Setup!FirstAccountOnce BY <1>2 DEF Setup!FirstAccountOnce
<1>8. FirstInv BY <1>2, <1>3, <1>6, <1>7 DEF FirstInv
<1> QED BY <1>4, <1>5, <1>8 DEF SetupInv

(* The statements that only read, but for the claim.                        *)
LEMMA SetupReadStep ==
    ASSUME Setup!SetupAssumption, SetupInv, NEW r \in Requests,
           \/ \E l \in Links \cup {NoLink}, u \in Users, what \in {"create", "signed-in"} :
                 Setup!Post(r, l, u, what)
           \/ Setup!Refuse(r)
           \/ \E u \in Users : Setup!CheckSoleOwner(r, u)
           \/ Setup!DeleteUserMemberships(r)
    PROVE  SetupInv'
<1>0. SetupTypes BY DEF SetupInv
<1>1. ASSUME NEW l \in Links \cup {NoLink}, NEW u \in Users, NEW what \in {"create", "signed-in"},
             Setup!Post(r, l, u, what)
      PROVE  SetupInv'
  <2>1. PICK x : x = [at |-> "claim", l |-> l, u |-> u, what |-> what] OBVIOUS
  <2>2. x.at = "claim" /\ x.l = l /\ x.u = u /\ x.what = what /\ x \in SetupRec
    BY <2>1 DEF SetupRec, SetupStates
  <2>3. what = "signed-in" => account[u] = "open" /\ (l # NoLink \/ enabled)
    BY <1>1 DEF Setup!Post, Setup!signedInOpen
  <2>4. SetupRequestTypes(x, account) BY <2>2, <2>3 DEF SetupRequestTypes, SetupStates,
            ClosingStates
  <2>5. Becomes(r, x) /\ UNCHANGED <<now, Setup!rows>> BY <1>0, <1>1, <2>1, RequestBecomes
            DEF Setup!Post
  <2> QED BY <2>2, <2>4, <2>5, SetupReadGoes
<1>2. ASSUME Setup!Refuse(r) PROVE SetupInv'
  <2>1. Becomes(r, Setup!Idle) /\ UNCHANGED <<now, Setup!rows>> BY <1>0, <1>2,
            RequestBecomes DEF Setup!Refuse
  <2> QED BY <2>1, IdleTyped, SetupReadGoes
<1>3. ASSUME NEW u \in Users, Setup!CheckSoleOwner(r, u) PROVE SetupInv'
  <2>1. PICK x : x = [at |-> "close", l |-> NoLink, u |-> u, saw |-> {}] OBVIOUS
  <2>2. x.at = "close" /\ x \in CloseRec BY <2>1 DEF CloseRec, ClosingStates
  <2>3. SetupRequestTypes(x, account) BY <2>2 DEF SetupRequestTypes, SetupStates, ClosingStates
  <2>4. Becomes(r, x) /\ UNCHANGED <<now, Setup!rows>> BY <1>0, <1>3, <2>1, RequestBecomes
            DEF Setup!CheckSoleOwner
  <2> QED BY <2>2, <2>3, <2>4, SetupReadGoes
<1>4. ASSUME Setup!DeleteUserMemberships(r) PROVE SetupInv'
  <2>1. PICK x : x = [req[r] EXCEPT !.at = "closing", !.saw = {y \in owner : y[2] = req[r].u}]
    OBVIOUS
  <2>2. req[r] \in CloseRec BY <1>0, <1>4, CloseRequest DEF Setup!DeleteUserMemberships,
            ClosingStates
  <2>3. x.at = "closing" /\ x \in CloseRec
    BY <1>0, <2>1, <2>2 DEF CloseRec, ClosingStates, SetupTypes
  <2>4. SetupRequestTypes(x, account) BY <2>3 DEF SetupRequestTypes, SetupStates, ClosingStates
  <2>5. Becomes(r, x) /\ UNCHANGED <<now, Setup!rows>>
    BY <1>0, <1>4, <2>1 DEF Setup!DeleteUserMemberships, Becomes, SetupTypes
  <2> QED BY <2>3, <2>4, <2>5, SetupReadGoes
<1> QED BY <1>1, <1>2, <1>3, <1>4

(* The claim takes the row of its link, or the account table while there is *)
(* no account.                                                              *)
LEMMA ClaimStep ==
    ASSUME Setup!SetupAssumption, SetupInv, NEW r \in Requests, Setup!claim(r)
    PROVE  SetupInv'
<1>0. SetupTypes BY DEF SetupInv
<1>1. req[r].at = "claim" /\ UNCHANGED <<now, Setup!rows>> BY DEF Setup!claim
<1>2. /\ now' = now /\ account' = account /\ garden' = garden /\ owner' = owner
      /\ link' = link /\ made' = made /\ firsts' = firsts
  BY <1>1 DEF Setup!rows
<1>3. CASE Setup!End(r)
  <2>1. Becomes(r, Setup!Idle) BY <1>0, <1>3, RequestBecomes
  <2> QED BY <1>1, <2>1, IdleTyped, SetupReadGoes
<1>4. CASE Setup!Go(r, "write") /\ ~Setup!End(r)
  <2>1. PICK l \in Links \cup {NoLink} : l = req[r].l BY <1>0, <1>1, SetupRequest DEF SetupStates
  <2>2. /\ l # NoLink => ~Setup!HeldLink(l) /\ link[l].state = "row" /\ link[l].used = Setup!NoTime
        /\ Setup!Bare(r) => ~Setup!UsersLocked(r) /\ ~Setup!AnyUsers
    BY <1>4, <2>1 DEF Setup!claim, Setup!UseSetupLink, Setup!SetupLinkOpen, Setup!Bare,
       Setup!LockUsers
  <2>3. PICK x : x = [req[r] EXCEPT !.at = "write"] OBVIOUS
  <2>4. req[r] \in SetupRec BY <1>0, <1>1, SetupRequest DEF SetupStates
  <2>5. x.at = "write" /\ x.l = l /\ x.u = req[r].u /\ x.what = req[r].what /\ x \in SetupRec
    BY <2>1, <2>3, <2>4 DEF SetupRec, SetupStates
  <2>6. Becomes(r, x) BY <1>0, <1>4, <2>3, RequestBecomes
  <2>7. SetupRequestTypes(x, account)
    BY <1>0, <1>1, <2>1, <2>5, SetupRequest DEF SetupRequestTypes, SetupStates, ClosingStates
  <2>8. AccountsStay BY <1>2 DEF AccountsStay
  <2>9. DOMAIN req' = Requests /\ \A q \in Requests : SetupRequestTypes(req'[q], account')
    BY <1>0, <1>2, <2>6, <2>7, <2>8, RequestsTyped
  <2>10. SetupTypes' BY <1>0, <1>2, <2>9 DEF SetupTypes, LinkTypes
  <2>11. req'[r] = x /\ \A q \in Requests : q # r => req'[q] = req[q] BY <2>6 DEF Becomes
  <2>12. ASSUME NEW p \in Requests, req'[p].at = "write", req'[p].l # NoLink
         PROVE  /\ link[req'[p].l].state = "row" /\ link[req'[p].l].used = Setup!NoTime
                /\ \A q \in Requests : req'[q].at = "write" /\ req'[q].l = req'[p].l => q = p
    BY <2>2, <2>5, <2>11, <2>12 DEF SetupInv, LinkInv, Setup!HeldLink
  <2>13. LinkInv' BY <1>2, <2>12 DEF SetupInv, LinkInv, Setup!SetupLinkOnce
  <2>14. ASSUME NEW p \in Requests, req'[p].at = "write", Setup!Bare(p)'
         PROVE  ~Setup!AnyUsers' /\ \A q \in Requests : req'[q].at = "write" /\ Setup!Bare(q)' => q = p
    <3>1. Setup!Bare(r)' <=> Setup!Bare(r) BY <2>1, <2>5, <2>11 DEF Setup!Bare
    <3>2. \A q \in Requests : q # r => (Setup!Bare(q)' <=> Setup!Bare(q)) BY <2>11 DEF Setup!Bare
    <3>3. Setup!AnyUsers' <=> Setup!AnyUsers BY <1>2 DEF Setup!AnyUsers
    <3>4. CASE p = r
      BY <2>2, <2>11, <2>14, <3>1, <3>2, <3>3, <3>4 DEF Setup!UsersLocked
    <3>5. CASE p # r
      <4>1. req[p].at = "write" /\ Setup!Bare(p) BY <2>11, <2>14, <3>2, <3>5
      <4>2. ~Setup!Bare(r) BY <2>2, <3>5, <4>1 DEF Setup!UsersLocked
      <4> QED BY <2>11, <3>1, <3>2, <3>3, <4>1, <4>2 DEF SetupInv, FirstInv
    <3> QED BY <3>4, <3>5
  <2>15. FirstInv'
    <3>1. Setup!AnyUsers' <=> Setup!AnyUsers BY <1>2 DEF Setup!AnyUsers
    <3> QED BY <1>2, <2>14, <3>1 DEF SetupInv, FirstInv, Setup!FirstAccountOnce
  <2> QED BY <2>10, <2>13, <2>15 DEF SetupInv
<1> QED BY <1>3, <1>4 DEF Setup!claim

-----------------------------------------------------------------------------
(* The transactions.                                                       *)

(* Commit marks the link that let the request in, which made nothing yet.   *)
LEMMA CommitLinks ==
    ASSUME Setup!SetupAssumption, SetupInv, NEW r \in Requests, req[r].at = "write", Setup!Commit(r)
    PROVE  /\ LinkInv' /\ made' \in [Links -> Nat]
           /\ DOMAIN link' = Links /\ \A l \in Links : link'[l] # Setup!NoRow => LinkTypes(link'[l])
<1>0. SetupTypes BY DEF SetupInv
<1>1. PICK l \in Links \cup {NoLink} : l = req[r].l BY <1>0, SetupRequest DEF SetupStates
<1>2. req'[r].at = "idle" /\ \A q \in Requests : q # r => req'[q] = req[q]
  BY <1>0, RequestBecomes, IdleTyped DEF Setup!Commit, Becomes
<1>3. CASE l = NoLink
  <2>1. link' = link /\ made' = made BY <1>1, <1>3 DEF Setup!Commit
  <2>2. LinkInv' BY <1>2, <2>1, LinksKept
  <2> QED BY <1>0, <2>1, <2>2 DEF SetupTypes
<1>4. CASE l # NoLink
  <2>1. link[l].state = "row" /\ link[l].used = Setup!NoTime /\ l \in Links
    BY <1>1, <1>4 DEF SetupInv, LinkInv
  <2>2. link[l] # Setup!NoRow /\ LinkTypes(link[l]) BY <1>0, <2>1 DEF Setup!NoRow, SetupTypes
  <2>3. made[l] = 0 BY <1>0, <2>1, <2>2 DEF SetupInv, LinkInv, SetupTypes
  <2>4. PICK y : y = [link[l] EXCEPT !.used = now] OBVIOUS
  <2>5. DOMAIN y = LinkFields /\ y.state = "row" /\ y.used = now
    BY <2>1, <2>2, <2>4 DEF LinkTypes, LinkFields
  <2>6. now \in Nat /\ now # Setup!NoTime BY <1>0 DEF SetupTypes, Setup!NoTime
  <2>7. y # Setup!NoRow /\ LinkTypes(y) BY <2>5, <2>6 DEF Setup!NoRow, LinkTypes
  <2>8. DOMAIN link' = Links /\ link'[l] = y /\ \A k \in Links : k # l => link'[k] = link[k]
    BY <1>0, <1>1, <1>4, <2>1, <2>4 DEF Setup!Commit, SetupTypes
  <2>9. made' \in [Links -> Nat] /\ made'[l] = 1 /\ \A k \in Links : k # l => made'[k] = made[k]
    BY <1>0, <1>1, <1>4, <2>1, <2>3 DEF Setup!Commit, SetupTypes
  <2>10. \A k \in Links :
            /\ link'[k] = Setup!NoRow => made'[k] = 0
            /\ link'[k] # Setup!NoRow => (link'[k].used # Setup!NoTime) = (made'[k] > 0)
    <3>1. ASSUME NEW k \in Links, k # l
          PROVE  /\ link'[k] = Setup!NoRow => made'[k] = 0
                 /\ link'[k] # Setup!NoRow => (link'[k].used # Setup!NoTime) = (made'[k] > 0)
      BY <2>8, <2>9, <3>1 DEF SetupInv, LinkInv
    <3>2. link'[l] # Setup!NoRow /\ link'[l].used # Setup!NoTime BY <2>5, <2>6, <2>7, <2>8
    <3>3. made'[l] > 0 BY <2>9
    <3> QED BY <3>1, <3>2, <3>3
  <2>11. ASSUME NEW p \in Requests, req'[p].at = "write", req'[p].l # NoLink
         PROVE  /\ link'[req'[p].l].state = "row" /\ link'[req'[p].l].used = Setup!NoTime
                /\ \A q \in Requests : req'[q].at = "write" /\ req'[q].l = req'[p].l => q = p
    <3>1. p # r /\ req'[p] = req[p] BY <1>2, <2>11
    <3>2. req[p].l # l BY <1>1, <1>4, <2>11, <3>1 DEF SetupInv, LinkInv
    <3>3. req[p].l \in Links BY <1>0, <2>11, <3>1, SetupRequest DEF SetupStates
    <3> QED BY <1>2, <2>8, <2>11, <3>1, <3>2, <3>3 DEF SetupInv, LinkInv
  <2>12. Setup!SetupLinkOnce' BY <2>9 DEF SetupInv, LinkInv, Setup!SetupLinkOnce
  <2>13. LinkInv' BY <2>10, <2>11, <2>12 DEF LinkInv
  <2> QED BY <1>0, <2>7, <2>8, <2>9, <2>13 DEF SetupTypes
<1> QED BY <1>3, <1>4

(* A garden that is made has its maker as its owner.                        *)
LEMMA GardenMade ==
    ASSUME SetupTypes, NEW g \in Gardens, NEW u \in Users, Setup!createGardenOwnedBy(g, u),
           AccountsStay, account'[u] # "none"
    PROVE  /\ garden' \in [Gardens -> {"none", "open", "deleted"}]
           /\ owner' \subseteq Gardens \X Users
           /\ \A x \in owner' : garden'[x[1]] = "open" /\ account'[x[2]] # "none"
<1>1. /\ garden' \in [Gardens -> {"none", "open", "deleted"}] /\ garden'[g] = "open"
      /\ \A h \in Gardens : h # g => garden'[h] = garden[h]
  BY DEF Setup!createGardenOwnedBy, SetupTypes
<1>2. owner' = owner \cup {<<g, u>>} BY DEF Setup!createGardenOwnedBy
<1>3. ASSUME NEW x \in owner PROVE garden'[x[1]] = "open" /\ account'[x[2]] # "none"
  <2>1. x[1] \in Gardens /\ x[2] \in Users BY DEF SetupTypes
  <2>2. garden[x[1]] = "open" /\ account[x[2]] # "none" BY DEF SetupTypes
  <2> QED BY <1>1, <2>1, <2>2 DEF AccountsStay
<1>4. owner' \subseteq Gardens \X Users BY <1>2 DEF SetupTypes
<1>5. ASSUME NEW x \in owner' PROVE garden'[x[1]] = "open" /\ account'[x[2]] # "none"
  <2>1. CASE x \in owner BY <1>3, <2>1
  <2>2. CASE x = <<g, u>> BY <1>1, <2>2
  <2> QED BY <1>2, <2>1, <2>2
<1> QED BY <1>1, <1>4, <1>5

(* A garden with a new account.                                             *)
LEMMA CreateStep ==
    ASSUME Setup!SetupAssumption, SetupInv, NEW r \in Requests, NEW g \in Gardens, Setup!create(r, g)
    PROVE  SetupInv'
<1>0. SetupTypes /\ req[r].at = "write" /\ Setup!Commit(r) BY DEF SetupInv, Setup!create
<1>1. PICK u \in Users : u = req[r].u BY <1>0, SetupRequest DEF SetupStates
<1>2. /\ account' \in [Users -> {"none", "open", "closed"}] /\ account'[u] = "open"
      /\ \A v \in Users : v # u => account'[v] = account[v]
  BY <1>0, <1>1 DEF Setup!create, SetupTypes
<1>3. AccountsStay BY <1>2 DEF AccountsStay
<1>4. Setup!createGardenOwnedBy(g, u) BY <1>1 DEF Setup!create
<1>5. /\ garden' \in [Gardens -> {"none", "open", "deleted"}]
      /\ owner' \subseteq Gardens \X Users
      /\ \A x \in owner' : garden'[x[1]] = "open" /\ account'[x[2]] # "none"
  BY <1>0, <1>2, <1>3, <1>4, GardenMade
<1>6. /\ LinkInv' /\ made' \in [Links -> Nat]
      /\ DOMAIN link' = Links /\ \A l \in Links : link'[l] # Setup!NoRow => LinkTypes(link'[l])
  BY <1>0, CommitLinks
<1>7. Becomes(r, Setup!Idle) BY <1>0, RequestBecomes DEF Setup!Commit
<1>8. DOMAIN req' = Requests /\ \A q \in Requests : SetupRequestTypes(req'[q], account')
  BY <1>0, <1>3, <1>7, RequestsTyped, IdleTyped
<1>9. firsts' = (IF Setup!Bare(r) THEN firsts + 1 ELSE firsts) /\ now' = now
  BY <1>0 DEF Setup!Commit
<1>10. firsts' \in Nat BY <1>0, <1>9 DEF SetupTypes
<1>11. SetupTypes' BY <1>0, <1>2, <1>5, <1>6, <1>8, <1>9, <1>10 DEF SetupTypes
<1>12. Setup!AnyUsers' BY <1>2 DEF Setup!AnyUsers
<1>13. \A q \in Requests : q # r => ~(req[q].at = "write" /\ Setup!Bare(q))
  BY DEF Setup!create, Setup!LockUsers, Setup!UsersLocked
<1>14. ASSUME NEW q \in Requests, req'[q].at = "write" PROVE ~Setup!Bare(q)'
  <2>1. q # r /\ req'[q] = req[q] BY <1>7, <1>14, IdleTyped DEF Becomes
  <2> QED BY <1>13, <1>14, <2>1 DEF Setup!Bare
<1>15. Setup!FirstAccountOnce'
  <2>1. CASE Setup!Bare(r)
    <3>1. ~enabled /\ ~Setup!AnyUsers BY <1>0, <2>1 DEF SetupInv, FirstInv, Setup!Bare
    <3>2. firsts = 0 BY <3>1 DEF SetupInv, FirstInv
    <3>3. firsts' <= 1 BY <1>9, <2>1, <3>2
    <3> QED BY <3>3 DEF Setup!FirstAccountOnce
  <2>2. CASE ~Setup!Bare(r) BY <1>9, <2>2 DEF Setup!FirstAccountOnce, SetupInv, FirstInv
  <2> QED BY <2>1, <2>2
<1>16. FirstInv' BY <1>12, <1>14, <1>15 DEF FirstInv
<1> QED BY <1>6, <1>11, <1>16 DEF SetupInv

(* A garden of somebody signed in.                                          *)
LEMMA CreateSignedInStep ==
    ASSUME Setup!SetupAssumption, SetupInv, NEW r \in Requests, NEW g \in Gardens, Setup!createSignedIn(r, g)
    PROVE  SetupInv'
<1>0. SetupTypes /\ req[r].at = "write" /\ Setup!Commit(r) /\ account' = account
  BY DEF SetupInv, Setup!createSignedIn
<1>1. PICK u \in Users : u = req[r].u BY <1>0, SetupRequest DEF SetupStates
<1>2. account'[u] # "none" /\ ~Setup!Bare(r)
  BY <1>0, <1>1, SetupRequest DEF Setup!createSignedIn, SetupStates, Setup!Bare
<1>3. AccountsStay BY <1>0 DEF AccountsStay
<1>4. Setup!createGardenOwnedBy(g, u) BY <1>1 DEF Setup!createSignedIn
<1>5. /\ garden' \in [Gardens -> {"none", "open", "deleted"}]
      /\ owner' \subseteq Gardens \X Users
      /\ \A x \in owner' : garden'[x[1]] = "open" /\ account'[x[2]] # "none"
  BY <1>0, <1>2, <1>3, <1>4, GardenMade
<1>6. /\ LinkInv' /\ made' \in [Links -> Nat]
      /\ DOMAIN link' = Links /\ \A l \in Links : link'[l] # Setup!NoRow => LinkTypes(link'[l])
  BY <1>0, CommitLinks
<1>7. Becomes(r, Setup!Idle) BY <1>0, RequestBecomes DEF Setup!Commit
<1>8. DOMAIN req' = Requests /\ \A q \in Requests : SetupRequestTypes(req'[q], account')
  BY <1>0, <1>3, <1>7, RequestsTyped, IdleTyped
<1>9. firsts' = firsts /\ now' = now BY <1>0, <1>2 DEF Setup!Commit
<1>10. SetupTypes' BY <1>0, <1>5, <1>6, <1>8, <1>9 DEF SetupTypes
<1>11. \A q \in Requests : req'[q].at = "write" => req'[q] = req[q] BY <1>7, IdleTyped DEF Becomes
<1>12. FirstInv' BY <1>0, <1>9, <1>11, FirstKept
<1> QED BY <1>6, <1>10, <1>12 DEF SetupInv

(* An account is closed.                                                    *)
LEMMA CloseStep ==
    ASSUME Setup!SetupAssumption, SetupInv, NEW r \in Requests, Setup!CloseAccount(r)
    PROVE  SetupInv'
<1>0. /\ SetupTypes /\ owner' \subseteq owner
      /\ UNCHANGED <<now, garden, link, made, firsts>>
  BY DEF SetupInv, Setup!CloseAccount
<1>1. PICK u \in Users : u = req[r].u BY <1>0, CloseRequest DEF ClosingStates, Setup!CloseAccount
<1>2. /\ account' \in [Users -> {"none", "open", "closed"}]
      /\ account[u] = "open" /\ account'[u] = "closed"
      /\ \A v \in Users : v # u => account'[v] = account[v]
  BY <1>0, <1>1 DEF Setup!CloseAccount, SetupTypes
<1>3. \A v \in Users : account'[v] = "none" <=> account[v] = "none" BY <1>2
<1>4. AccountsStay BY <1>3 DEF AccountsStay
<1>5. Becomes(r, Setup!Idle) BY <1>0, RequestBecomes DEF Setup!CloseAccount
<1>6. DOMAIN req' = Requests /\ \A q \in Requests : SetupRequestTypes(req'[q], account')
  BY <1>0, <1>4, <1>5, RequestsTyped, IdleTyped
<1>7. ASSUME NEW x \in owner' PROVE garden'[x[1]] = "open" /\ account'[x[2]] # "none"
  <2>1. x \in owner /\ x[2] \in Users BY <1>0 DEF SetupTypes
  <2> QED BY <1>0, <1>4, <2>1 DEF SetupTypes, AccountsStay
<1>8. owner' \subseteq Gardens \X Users BY <1>0 DEF SetupTypes
<1>9. SetupTypes' BY <1>0, <1>2, <1>6, <1>7, <1>8 DEF SetupTypes, LinkTypes
<1>10. \A q \in Requests : req'[q].at = "write" => req'[q] = req[q] BY <1>5, IdleTyped DEF Becomes
<1>11. LinkInv' BY <1>0, <1>10, LinksKept
<1>12. FirstInv' BY <1>0, <1>3, <1>10, FirstKept
<1> QED BY <1>9, <1>11, <1>12 DEF SetupInv

(* Links made and swept, gardens deleted, and the clock.                    *)
LEMMA OtherStep ==
    ASSUME Setup!SetupAssumption, SetupInv,
           \/ \E l \in Links : Setup!IssueSetupLink(l)
           \/ Setup!DeleteUsedAndExpiredSetupLinks
           \/ \E g \in Gardens : Setup!deleteGarden(g)
           \/ Setup!Clock \/ UNCHANGED Setup!vars
    PROVE  SetupInv'
<1>0. SetupTypes BY DEF SetupInv
<1>1. UNCHANGED <<account, made, firsts, req>>
  BY DEF Setup!IssueSetupLink, Setup!DeleteUsedAndExpiredSetupLinks, Setup!deleteGarden,
     Setup!Clock, Setup!vars, Setup!rows
<1>2. now' \in Nat
  <2>1. now' = now \/ now' = now + 1
    BY DEF Setup!IssueSetupLink, Setup!DeleteUsedAndExpiredSetupLinks, Setup!deleteGarden,
       Setup!Clock, Setup!vars, Setup!rows
  <2> QED BY <1>0, <2>1 DEF SetupTypes
<1>3. /\ garden' \in [Gardens -> {"none", "open", "deleted"}] /\ owner' \subseteq owner
      /\ \A x \in owner' : garden'[x[1]] = garden[x[1]]
  <2>1. CASE \E g \in Gardens : Setup!deleteGarden(g)
    <3>1. PICK g \in Gardens : Setup!deleteGarden(g) BY <2>1
    <3>2. /\ garden' \in [Gardens -> {"none", "open", "deleted"}]
          /\ \A h \in Gardens : h # g => garden'[h] = garden[h]
      BY <1>0, <3>1 DEF Setup!deleteGarden, SetupTypes
    <3>3. owner' = {x \in owner : x[1] # g} BY <3>1 DEF Setup!deleteGarden
    <3>4. \A x \in owner : x[1] \in Gardens BY <1>0 DEF SetupTypes
    <3> QED BY <3>2, <3>3, <3>4
  <2>2. CASE UNCHANGED <<garden, owner>> BY <1>0, <2>2 DEF SetupTypes
  <2> QED BY <2>1, <2>2 DEF Setup!IssueSetupLink, Setup!DeleteUsedAndExpiredSetupLinks,
            Setup!Clock, Setup!vars, Setup!rows
<1>4. DOMAIN link' = Links /\ \A l \in Links :
          \/ link'[l] = link[l]
          \/ link[l] = Setup!NoRow /\ LinkTypes(link'[l]) /\ link'[l].used = Setup!NoTime
          \/ /\ ~Setup!HeldLink(l) /\ link[l] # Setup!NoRow /\ link'[l] # Setup!NoRow
             /\ LinkTypes(link'[l]) /\ link'[l].used = link[l].used
  <2>1. ASSUME NEW k \in Links, Setup!IssueSetupLink(k)
        PROVE  /\ DOMAIN link' = Links /\ \A l \in Links : l # k => link'[l] = link[l]
               /\ link[k] = Setup!NoRow /\ LinkTypes(link'[k]) /\ link'[k].used = Setup!NoTime
    <3>1. PICK y : y = [state |-> "row", used |-> Setup!NoTime, expires |-> now + InviteLifetime]
      OBVIOUS
    <3>2. DOMAIN y = LinkFields /\ y.state = "row" /\ y.used = Setup!NoTime BY <3>1 DEF LinkFields
    <3>3. LinkTypes(y) BY <3>2 DEF LinkTypes
    <3>4. link' = [link EXCEPT ![k] = y] /\ link[k] = Setup!NoRow BY <2>1, <3>1
            DEF Setup!IssueSetupLink
    <3> QED BY <1>0, <3>2, <3>3, <3>4 DEF SetupTypes
  <2>2. ASSUME Setup!DeleteUsedAndExpiredSetupLinks, NEW l \in Links
        PROVE  /\ DOMAIN link' = Links
               /\ \/ link'[l] = link[l]
                  \/ /\ ~Setup!HeldLink(l) /\ link[l] # Setup!NoRow /\ link'[l] # Setup!NoRow
                     /\ LinkTypes(link'[l]) /\ link'[l].used = link[l].used
    <3>1. /\ DOMAIN link' = Links
          /\ \/ link'[l] = link[l]
             \/ /\ ~Setup!HeldLink(l) /\ link[l].state = "row"
                /\ link'[l] = [link[l] EXCEPT !.state = "deleted"]
      BY <2>2 DEF Setup!DeleteUsedAndExpiredSetupLinks
    <3>2. ASSUME link[l].state = "row", NEW y, y = [link[l] EXCEPT !.state = "deleted"]
          PROVE  link[l] # Setup!NoRow /\ LinkTypes(y) /\ y.used = link[l].used /\ y # Setup!NoRow
      <4>1. link[l] # Setup!NoRow /\ LinkTypes(link[l]) BY <1>0, <3>2 DEF Setup!NoRow, SetupTypes
      <4>2. DOMAIN y = LinkFields /\ y.state = "deleted" /\ y.used = link[l].used
        BY <3>2, <4>1 DEF LinkTypes, LinkFields
      <4> QED BY <4>1, <4>2 DEF LinkTypes, Setup!NoRow
    <3> QED BY <3>1, <3>2
  <2>3. CASE UNCHANGED link BY <1>0, <2>3 DEF SetupTypes
  <2>4. CASE \E l \in Links : Setup!IssueSetupLink(l) BY <2>1, <2>4
  <2>5. CASE Setup!DeleteUsedAndExpiredSetupLinks
    <3>1. DOMAIN link' = Links BY <2>5 DEF Setup!DeleteUsedAndExpiredSetupLinks
    <3> QED BY <2>2, <2>5, <3>1
  <2> QED BY <2>3, <2>4, <2>5 DEF Setup!deleteGarden, Setup!Clock, Setup!vars, Setup!rows
<1>5. \A l \in Links : link'[l] # Setup!NoRow => LinkTypes(link'[l]) BY <1>0, <1>4 DEF SetupTypes
<1>6. SetupTypes' BY <1>0, <1>1, <1>2, <1>3, <1>4, <1>5 DEF SetupTypes
<1>7. ASSUME NEW l \in Links, Setup!HeldLink(l) PROVE link'[l] = link[l]
  <2>1. PICK r \in Requests : req[r].at = "write" /\ req[r].l = l BY <1>7 DEF Setup!HeldLink
  <2>2. l # NoLink BY DEF Setup!SetupAssumption
  <2>3. link[l].state = "row" BY <2>1, <2>2 DEF SetupInv, LinkInv
  <2>4. link[l] # Setup!NoRow BY <2>3 DEF Setup!NoRow
  <2> QED BY <1>4, <1>7, <2>4
<1>8. LinkInv' BY <1>1, <1>4, <1>7, LinksKept
<1>9. FirstInv' BY <1>1, FirstKept
<1> QED BY <1>6, <1>8, <1>9 DEF SetupInv

(* The invariant holds after every step.                                    *)
LEMMA SetupInvStep ==
    ASSUME Setup!SetupAssumption, SetupInv, [Setup!Next]_(Setup!vars)
    PROVE  SetupInv'
BY SetupReadStep, ClaimStep, CreateStep, CreateSignedInStep, CloseStep, OtherStep
   DEF Setup!Next, Setup!Request

(* Accounts and gardens have their states, an owner is of an open garden    *)
(* and of an account that was made, and a setup link was used if and only   *)
(* if it made a garden.                                                     *)
THEOREM SetupTypesHold ==
    ASSUME Setup!SetupAssumption
    PROVE  Setup!Spec => []Setup!TypeOK
<1>1. SetupInv => Setup!TypeOK BY DEF SetupInv, SetupTypes, LinkInv, Setup!TypeOK
<1> QED BY <1>1, SetupInvInit, SetupInvStep, PTL DEF Setup!Spec

(* However many requests post at once, a setup link makes one garden        *)
(* (UseSetupLink, setup_link.sql.go:64), and with sign-up off one account   *)
(* of the install was made without a link (claim and LockUsers,             *)
(* setup.go:249).                                                           *)
THEOREM SetUpOnce ==
    ASSUME Setup!SetupAssumption
    PROVE  Setup!Spec => []Setup!UsedOnce
<1>1. SetupInv => Setup!UsedOnce BY DEF SetupInv, LinkInv, FirstInv, Setup!UsedOnce
<1> QED BY <1>1, SetupInvInit, SetupInvStep, PTL DEF Setup!Spec

-----------------------------------------------------------------------------
(* A garden has an owner.                                                  *)

(* A request that goes on and closes no other account than it did.          *)
LEMMA OwnerCalm ==
    ASSUME SetupTypes, GardenOwnerInv, NEW r \in Requests, NEW x, Becomes(r, x),
           UNCHANGED <<account, garden, owner, risked>>,
           \A q \in Requests : q # r /\ q \in met => q \in met',
           \A u \in Users : Setup!Closing(r, u)' => Setup!Closing(r, u),
           Calm(r)', Parting(r)'
    PROVE  GardenOwnerInv'
<1>1. \A q \in Requests : q # r => req'[q] = req[q] BY DEF Becomes
<1>2. \A q \in Requests, u \in Users : Setup!Closing(q, u)' => Setup!Closing(q, u)
  BY <1>1 DEF Setup!Closing
<1>3. Kept' BY <1>2 DEF GardenOwnerInv, Kept, Keeps
<1>4. ASSUME NEW q \in Requests, q # r PROVE Calm(q)' /\ Parting(q)'
  <2>1. req'[q] = req[q] /\ (q \notin met' => q \notin met) BY <1>1, <1>4
  <2>2. req[q].at \in SetupStates => req[q].u \in Users BY SetupRequest
  <2>3. Calm(q) /\ Parting(q) BY DEF GardenOwnerInv
  <2>4. Calm(q)' BY <1>2, <2>1, <2>2, <2>3 DEF Calm
  <2>5. Parting(q)' BY <2>1, <2>3 DEF Parting
  <2> QED BY <2>4, <2>5
<1> QED BY <1>3, <1>4 DEF GardenOwnerInv

(* A request that is over.                                                  *)
LEMMA OwnerOver ==
    ASSUME SetupTypes, GardenOwnerInv, NEW r \in Requests, Setup!End(r),
           UNCHANGED <<account, garden, owner, risked, met>>
    PROVE  GardenOwnerInv'
<1>1. Becomes(r, Setup!Idle) /\ req'[r].at = "idle" BY RequestBecomes DEF Becomes, Setup!Idle
<1>2. Calm(r)' /\ Parting(r)' BY <1>1 DEF Calm, Parting, SetupStates, ClosingStates
<1>3. \A u \in Users : ~Setup!Closing(r, u)' BY <1>1 DEF Setup!Closing
<1> QED BY <1>1, <1>2, <1>3, OwnerCalm

(* A garden that is made gets the owner it needs, or is at risk.            *)
LEMMA OwnerMade ==
    ASSUME SetupTypes, GardenOwnerInv, NEW r \in Requests, Setup!End(r), UNCHANGED met,
           NEW g \in Gardens, NEW u \in Users, Setup!createGardenOwnedBy(g, u),
           \A v \in Users : /\ account[v] = "open" => account'[v] = "open"
                            /\ account[v] # "none" => account'[v] # "none",
           risked \subseteq risked',
           g \in risked' \/ (account'[u] = "open" /\ \A q \in Requests : ~Setup!Closing(q, u))
    PROVE  GardenOwnerInv'
<1>1. /\ req'[r].at = "idle" /\ \A q \in Requests : q # r => req'[q] = req[q]
  BY RequestBecomes DEF Becomes, Setup!Idle
<1>2. \A q \in Requests, v \in Users : Setup!Closing(q, v)' => Setup!Closing(q, v)
  BY <1>1 DEF Setup!Closing
<1>3. /\ garden[g] = "none" /\ owner' = owner \cup {<<g, u>>}
      /\ \A h \in Gardens : h # g => garden'[h] = garden[h]
  BY DEF Setup!createGardenOwnedBy, SetupTypes
<1>4. \A x \in owner : x[1] # g
  <2>1. \A x \in owner : garden[x[1]] = "open" BY DEF SetupTypes
  <2> QED BY <1>3, <2>1
<1>5. ASSUME NEW x \in owner', NEW y \in owner', x[1] = y[1] PROVE x = y
  <2>1. CASE x \in owner /\ y \in owner BY <1>5, <2>1 DEF GardenOwnerInv, Kept
  <2>2. CASE x = <<g, u>> /\ y = <<g, u>> BY <2>2
  <2>3. CASE x = <<g, u>> /\ y \in owner BY <1>4, <1>5, <2>3
  <2>4. CASE x \in owner /\ y = <<g, u>> BY <1>4, <1>5, <2>4
  <2> QED BY <1>3, <2>1, <2>2, <2>3, <2>4
<1>6. ASSUME NEW h \in Gardens, garden'[h] = "open", h \notin risked' PROVE \E v \in Users : Keeps(h, v)'
  <2>1. CASE h = g BY <1>2, <1>3, <1>6, <2>1 DEF Keeps
  <2>2. CASE h # g
    <3>1. PICK v \in Users : Keeps(h, v) BY <1>3, <1>6, <2>2 DEF GardenOwnerInv, Kept
    <3>2. Keeps(h, v)' BY <1>2, <1>3, <3>1 DEF Keeps
    <3> QED BY <3>2
  <2> QED BY <2>1, <2>2
<1>7. Kept' BY <1>5, <1>6 DEF Kept
<1>8. ASSUME NEW q \in Requests PROVE Calm(q)' /\ Parting(q)'
  <2>1. CASE q = r BY <1>1, <2>1 DEF Calm, Parting, SetupStates, ClosingStates
  <2>2. CASE q # r
    <3>1. req'[q] = req[q] /\ Calm(q) /\ Parting(q) BY <1>1, <2>2 DEF GardenOwnerInv
    <3>2. /\ req[q].at \in SetupStates => req[q].u \in Users
          /\ req[q].at \in ClosingStates => req[q].u \in Users
      BY SetupRequest, CloseRequest
    <3>3. Calm(q)' BY <1>2, <3>1, <3>2 DEF Calm
    <3>4. Parting(q)' BY <3>1, <3>2 DEF Parting
    <3> QED BY <3>3, <3>4
  <2> QED BY <2>1, <2>2
<1> QED BY <1>7, <1>8 DEF GardenOwnerInv

(* The invariant holds at first.                                            *)
LEMMA GardenOwnerInvInit == ASSUME Setup!Init PROVE GardenOwnerInv
<1>1. \A r \in Requests : req[r].at = "idle" BY DEF Setup!Init, Setup!Idle
<1> QED BY <1>1 DEF Setup!Init, GardenOwnerInv, Kept, Calm, Parting, SetupStates, ClosingStates

(* The check finds no garden of the account, but for those at risk.         *)
LEMMA OwnerChecked ==
    ASSUME SetupTypes, GardenOwnerInv, NEW r \in Requests, NEW u \in Users, Setup!CheckSoleOwner(r, u)
    PROVE  GardenOwnerInv'
<1>1. /\ Setup!ListGardensOnlyThisUserOwns(u) = {} /\ account[u] = "open"
      /\ met' = met \cup {q \in Requests : Setup!SettingUp(q, u)}
      /\ UNCHANGED <<account, garden, owner, risked>>
  BY DEF Setup!CheckSoleOwner, Setup!rows
<1>2. PICK x : x = [at |-> "close", l |-> NoLink, u |-> u, saw |-> {}] OBVIOUS
<1>3. Becomes(r, x) BY <1>2, RequestBecomes DEF Setup!CheckSoleOwner
<1>4. /\ req'[r].at = "close" /\ req'[r].u = u /\ req'[r].saw = {}
      /\ \A q \in Requests : q # r => req'[q] = req[q]
  BY <1>2, <1>3 DEF Becomes
<1>5. \A q \in Requests, v \in Users : v # u /\ Setup!Closing(q, v)' => Setup!Closing(q, v)
  BY <1>4 DEF Setup!Closing
<1>6. ASSUME NEW g \in Gardens, Keeps(g, u) PROVE FALSE
  <2>1. <<g, u>> \in owner BY <1>6 DEF Keeps
  <2>2. \A y \in owner : y[1] = g => y = <<g, u>> BY <2>1 DEF GardenOwnerInv, Kept
  <2>3. g \in Setup!ListGardensOnlyThisUserOwns(u) BY <2>1, <2>2 DEF Setup!ListGardensOnlyThisUserOwns
  <2> QED BY <1>1, <2>3
<1>7. ASSUME NEW g \in Gardens, garden'[g] = "open", g \notin risked' PROVE \E v \in Users : Keeps(g, v)'
  <2>1. PICK v \in Users : Keeps(g, v) BY <1>1, <1>7 DEF GardenOwnerInv, Kept
  <2>2. v # u BY <1>6, <2>1
  <2>3. Keeps(g, v)' BY <1>1, <1>5, <2>1, <2>2 DEF Keeps
  <2> QED BY <2>3
<1>8. Kept' BY <1>1, <1>7 DEF GardenOwnerInv, Kept
<1>9. ASSUME NEW q \in Requests PROVE Calm(q)' /\ Parting(q)'
  <2>1. CASE q = r BY <1>1, <1>4, <2>1 DEF Calm, Parting, SetupStates, ClosingStates
  <2>2. CASE q # r
    <3>1. req'[q] = req[q] /\ Calm(q) /\ Parting(q) BY <1>4, <2>2 DEF GardenOwnerInv
    <3>2. ASSUME req[q].at \in SetupStates, req[q].what = "signed-in", q \notin met'
          PROVE  req[q].u \in Users /\ req[q].u # u /\ q \notin met
      BY <1>1, <3>2, SetupRequest DEF Setup!SettingUp, SetupStates
    <3>3. Calm(q)' BY <1>1, <1>5, <3>1, <3>2 DEF Calm
    <3>4. Parting(q)' BY <1>1, <3>1 DEF Parting
    <3> QED BY <3>3, <3>4
  <2> QED BY <2>1, <2>2
<1> QED BY <1>8, <1>9 DEF GardenOwnerInv

(* A closing takes the rows of its account alone.                           *)
LEMMA OwnerLeaves ==
    ASSUME SetupTypes, GardenOwnerInv, NEW r \in Requests, Setup!CloseAccount(r)
    PROVE  GardenOwnerInv'
<1>0. /\ req[r].at = "closing" /\ req[r].at \in ClosingStates /\ owner' = owner \ req[r].saw
      /\ UNCHANGED <<garden, met, risked>>
  BY DEF Setup!CloseAccount, ClosingStates
<1>1. PICK u \in Users : u = req[r].u BY <1>0, CloseRequest
<1>2. /\ account'[u] = "closed" /\ \A v \in Users : v # u => account'[v] = account[v]
      /\ Setup!Closing(r, u) /\ \A y \in req[r].saw : y[2] = u
  BY <1>0, <1>1 DEF Setup!CloseAccount, SetupTypes, Setup!Closing, GardenOwnerInv, Parting
<1>3. req'[r].at = "idle" /\ \A q \in Requests : q # r => req'[q] = req[q]
  BY RequestBecomes DEF Setup!CloseAccount, Becomes, Setup!Idle
<1>4. \A q \in Requests, v \in Users : Setup!Closing(q, v)' => Setup!Closing(q, v)
  BY <1>3 DEF Setup!Closing
<1>5. ASSUME NEW g \in Gardens, garden'[g] = "open", g \notin risked' PROVE \E v \in Users : Keeps(g, v)'
  <2>1. PICK v \in Users : Keeps(g, v) BY <1>0, <1>5 DEF GardenOwnerInv, Kept
  <2>2. v # u BY <1>2, <2>1 DEF Keeps
  <2>3. <<g, v>> \in owner' BY <1>0, <1>2, <2>1, <2>2 DEF Keeps
  <2>4. Keeps(g, v)' BY <1>2, <1>4, <2>1, <2>2, <2>3 DEF Keeps
  <2> QED BY <2>4
<1>6. Kept' BY <1>0, <1>5 DEF GardenOwnerInv, Kept
<1>7. ASSUME NEW q \in Requests PROVE Calm(q)' /\ Parting(q)'
  <2>1. CASE q = r BY <1>3, <2>1 DEF Calm, Parting, SetupStates, ClosingStates
  <2>2. CASE q # r
    <3>1. req'[q] = req[q] /\ Calm(q) /\ Parting(q) /\ met' = met BY <1>0, <1>3, <2>2 DEF GardenOwnerInv
    <3>2. /\ req[q].at \in SetupStates => req[q].u \in Users
          /\ req[q].at \in ClosingStates => req[q].u \in Users
      BY SetupRequest, CloseRequest
    <3>3. Calm(q)' BY <1>2, <1>4, <3>1, <3>2 DEF Calm
    <3>4. Parting(q)' BY <1>2, <3>1, <3>2 DEF Parting
    <3> QED BY <3>3, <3>4
  <2> QED BY <2>1, <2>2
<1> QED BY <1>6, <1>7 DEF GardenOwnerInv

(* After every step of a request.                                           *)
LEMMA OwnerRequest ==
    ASSUME Setup!SetupAssumption, SetupInv, GardenOwnerInv, NEW r \in Requests, Setup!Request(r)
    PROVE  GardenOwnerInv'
<1>0. SetupTypes /\ Calm(r) /\ Parting(r) BY DEF SetupInv, GardenOwnerInv
<1>1. ASSUME NEW l \in Links \cup {NoLink}, NEW u \in Users, NEW what \in {"create", "signed-in"},
             Setup!Post(r, l, u, what)
      PROVE  GardenOwnerInv'
  <2>1. PICK x : x = [at |-> "claim", l |-> l, u |-> u, what |-> what] OBVIOUS
  <2>2. Becomes(r, x) BY <1>0, <1>1, <2>1, RequestBecomes DEF Setup!Post
  <2>3. /\ req'[r].at = "claim" /\ req'[r].u = u /\ req'[r].what = what
        /\ \A q \in Requests : q # r => req'[q] = req[q]
    BY <2>1, <2>2 DEF Becomes
  <2>4. /\ UNCHANGED <<account, garden, owner, risked>>
        /\ what = "signed-in" => account[u] = "open"
        /\ met' = IF what = "signed-in" /\ \E q \in Requests : Setup!Closing(q, u)
                  THEN met \cup {r} ELSE met \ {r}
    BY <1>1 DEF Setup!Post, Setup!rows
  <2>5. \A v \in Users : ~Setup!Closing(r, v)' BY <2>3 DEF Setup!Closing
  <2>6. what = "signed-in" /\ r \notin met' => \A q \in Requests : ~Setup!Closing(q, u)'
    BY <2>3, <2>4, <2>5 DEF Setup!Closing
  <2>7. Calm(r)' BY <2>3, <2>4, <2>6 DEF Calm
  <2>8. Parting(r)' BY <2>3 DEF Parting, ClosingStates
  <2>9. \A q \in Requests : q # r /\ q \in met => q \in met' BY <2>4
  <2> QED BY <1>0, <2>2, <2>4, <2>5, <2>7, <2>8, <2>9, OwnerCalm
<1>2. ASSUME Setup!claim(r) PROVE GardenOwnerInv'
  <2>0. req[r].at = "claim" /\ UNCHANGED <<account, garden, owner, risked, met>>
    BY <1>2 DEF Setup!claim, Setup!rows
  <2>1. CASE Setup!End(r) BY <1>0, <2>0, <2>1, OwnerOver
  <2>2. CASE Setup!Go(r, "write")
    <3>1. PICK x : x = [req[r] EXCEPT !.at = "write"] OBVIOUS
    <3>2. req[r] \in SetupRec BY <1>0, <2>0, SetupRequest DEF SetupStates
    <3>3. x.at = "write" /\ x.u = req[r].u /\ x.what = req[r].what BY <3>1, <3>2 DEF SetupRec
    <3>4. Becomes(r, x) BY <1>0, <2>2, <3>1, RequestBecomes
    <3>5. req'[r] = x /\ \A q \in Requests : q # r => req'[q] = req[q] BY <3>4 DEF Becomes
    <3>6. \A q \in Requests, v \in Users : Setup!Closing(q, v)' => q # r /\ Setup!Closing(q, v)
      BY <3>3, <3>5 DEF Setup!Closing
    <3>7. Calm(r)'
      <4>1. ASSUME req[r].what = "signed-in", r \notin met
            PROVE  req[r].u \in Users /\ account[req[r].u] = "open" /\ \A q \in Requests : ~Setup!Closing(q, req[r].u)
        BY <1>0, <2>0, <3>2, <4>1 DEF Calm, SetupStates, SetupRec
      <4> QED BY <2>0, <3>3, <3>5, <3>6, <4>1 DEF Calm
    <3>8. Parting(r)' BY <3>3, <3>5 DEF Parting, ClosingStates
    <3> QED BY <1>0, <2>0, <3>4, <3>6, <3>7, <3>8, OwnerCalm
  <2> QED BY <1>2, <2>1, <2>2 DEF Setup!claim
<1>3. ASSUME Setup!Refuse(r) PROVE GardenOwnerInv' BY <1>0, <1>3, OwnerOver DEF Setup!Refuse, Setup!rows
<1>4. ASSUME NEW g \in Gardens, Setup!create(r, g) PROVE GardenOwnerInv'
  <2>1. req[r].at = "write" /\ Setup!End(r) /\ UNCHANGED <<met, risked>>
    BY <1>4 DEF Setup!create, Setup!Commit
  <2>2. PICK u \in Users : u = req[r].u BY <1>0, <2>1, SetupRequest DEF SetupStates
  <2>3. account[u] = "none" /\ account'[u] = "open" /\ \A v \in Users : v # u => account'[v] = account[v]
    BY <1>0, <1>4, <2>2 DEF Setup!create, SetupTypes
  <2>4. Setup!createGardenOwnedBy(g, u) BY <1>4, <2>2 DEF Setup!create
  <2>5. \A q \in Requests : ~Setup!Closing(q, u)
    BY <2>3 DEF Setup!Closing, GardenOwnerInv, Parting, ClosingStates
  <2> QED BY <1>0, <2>1, <2>3, <2>4, <2>5, OwnerMade
<1>5. ASSUME NEW g \in Gardens, Setup!createSignedIn(r, g) PROVE GardenOwnerInv'
  <2>1. /\ req[r].at = "write" /\ req[r].what = "signed-in" /\ Setup!End(r)
        /\ UNCHANGED <<account, met>> /\ risked' = IF r \in met THEN risked \cup {g} ELSE risked
    BY <1>5 DEF Setup!createSignedIn, Setup!Commit
  <2>2. PICK u \in Users : u = req[r].u BY <1>0, <2>1, SetupRequest DEF SetupStates
  <2>3. Setup!createGardenOwnedBy(g, u) BY <1>5, <2>2 DEF Setup!createSignedIn
  <2>4. r \notin met => account[u] = "open" /\ \A q \in Requests : ~Setup!Closing(q, u)
    BY <1>0, <2>1, <2>2 DEF Calm, SetupStates
  <2> QED BY <1>0, <2>1, <2>3, <2>4, OwnerMade
<1>6. ASSUME NEW u \in Users, Setup!CheckSoleOwner(r, u) PROVE GardenOwnerInv' BY <1>0, <1>6, OwnerChecked
<1>7. ASSUME Setup!DeleteUserMemberships(r) PROVE GardenOwnerInv'
  <2>1. /\ req[r].at = "close" /\ req[r] \in CloseRec
        /\ UNCHANGED <<account, garden, owner, risked, met>>
    BY <1>0, <1>7, CloseRequest DEF Setup!DeleteUserMemberships, ClosingStates, Setup!rows
  <2>2. PICK x : x = [req[r] EXCEPT !.at = "closing", !.saw = {y \in owner : y[2] = req[r].u}]
    OBVIOUS
  <2>3. x.at = "closing" /\ x.u = req[r].u /\ x.saw = {y \in owner : y[2] = req[r].u}
    BY <2>1, <2>2 DEF CloseRec
  <2>4. Becomes(r, x) BY <1>0, <1>7, <2>2 DEF Setup!DeleteUserMemberships, Becomes, SetupTypes
  <2>5. req'[r] = x BY <2>4 DEF Becomes
  <2>6. \A v \in Users : Setup!Closing(r, v)' => Setup!Closing(r, v)
    BY <2>1, <2>3, <2>5 DEF Setup!Closing
  <2>7. Calm(r)' BY <2>3, <2>5 DEF Calm, SetupStates
  <2>8. Parting(r)' BY <1>0, <2>1, <2>3, <2>5 DEF Parting, ClosingStates
  <2> QED BY <1>0, <2>1, <2>4, <2>6, <2>7, <2>8, OwnerCalm
<1>8. ASSUME Setup!CloseAccount(r) PROVE GardenOwnerInv' BY <1>0, <1>8, OwnerLeaves
<1> QED BY <1>1, <1>2, <1>3, <1>4, <1>5, <1>6, <1>7, <1>8 DEF Setup!Request

(* Deleting a garden leaves the others theirs.                              *)
LEMMA OwnerOthers ==
    ASSUME Setup!SetupAssumption, SetupInv, GardenOwnerInv,
           \/ \E l \in Links : Setup!IssueSetupLink(l)
           \/ Setup!DeleteUsedAndExpiredSetupLinks
           \/ \E g \in Gardens : Setup!deleteGarden(g)
           \/ Setup!Clock \/ UNCHANGED Setup!vars
    PROVE  GardenOwnerInv'
<1>0. SetupTypes BY DEF SetupInv
<1>1. UNCHANGED <<account, req, met, risked>>
  BY DEF Setup!IssueSetupLink, Setup!DeleteUsedAndExpiredSetupLinks, Setup!deleteGarden,
     Setup!Clock, Setup!vars, Setup!rows
<1>2. \A r \in Requests : Calm(r)' /\ Parting(r)'
  BY <1>1 DEF GardenOwnerInv, Calm, Parting, Setup!Closing
<1>3. CASE UNCHANGED <<garden, owner>>
  BY <1>1, <1>2, <1>3 DEF GardenOwnerInv, Kept, Keeps, Setup!Closing
<1>4. ASSUME NEW g \in Gardens, Setup!deleteGarden(g) PROVE GardenOwnerInv'
  <2>1. /\ owner' = {x \in owner : x[1] # g} /\ garden'[g] = "deleted"
        /\ \A h \in Gardens : h # g => garden'[h] = garden[h]
    BY <1>0, <1>4 DEF Setup!deleteGarden, SetupTypes
  <2>2. ASSUME NEW h \in Gardens, garden'[h] = "open", h \notin risked' PROVE \E u \in Users : Keeps(h, u)'
    <3>1. h # g /\ garden[h] = "open" BY <2>1, <2>2
    <3>2. PICK u \in Users : Keeps(h, u) BY <1>1, <2>2, <3>1 DEF GardenOwnerInv, Kept
    <3>3. Keeps(h, u)' BY <1>1, <2>1, <3>1, <3>2 DEF Keeps, Setup!Closing
    <3> QED BY <3>3
  <2>3. Kept' BY <2>1, <2>2 DEF GardenOwnerInv, Kept
  <2> QED BY <1>2, <2>3 DEF GardenOwnerInv
<1> QED BY <1>3, <1>4 DEF Setup!IssueSetupLink, Setup!DeleteUsedAndExpiredSetupLinks,
           Setup!Clock, Setup!vars, Setup!rows

(* "Closing it would leave that garden with nobody who can manage it"       *)
(* (closeUserAccount, close_account.go:20): however many requests set up,   *)
(* close and delete at once, a garden has an owner whose account is open    *)
(* unless it was set up by an account while a closing of that account was   *)
(* under way.  Such a one can be left with none, as the run setup_owner     *)
(* shows.                                                                   *)
THEOREM EveryGardenHasItsOwner ==
    ASSUME Setup!SetupAssumption
    PROVE  Setup!Spec => []Setup!OwnerStays
<1>1. Setup!Init => SetupInv /\ GardenOwnerInv BY SetupInvInit, GardenOwnerInvInit
<1>2. SetupInv /\ GardenOwnerInv /\ [Setup!Next]_(Setup!vars) => SetupInv' /\ GardenOwnerInv'
  BY SetupInvStep, OwnerRequest, OwnerOthers DEF Setup!Next
<1>3. GardenOwnerInv => Setup!OwnerStays
  <2> SUFFICES ASSUME GardenOwnerInv, NEW g \in Gardens, garden[g] = "open", g \notin risked
               PROVE  Setup!Owned(g)
    BY DEF Setup!OwnerStays
  <2>1. PICK u \in Users : Keeps(g, u) BY DEF GardenOwnerInv, Kept
  <2>2. <<g, u>> \in owner /\ account[<<g, u>>[2]] = "open" /\ <<g, u>>[1] = g BY <2>1 DEF Keeps
  <2> QED BY <2>2 DEF Setup!Owned
<1> QED BY <1>1, <1>2, <1>3, PTL DEF Setup!Spec

-----------------------------------------------------------------------------
(* Invites: the inductive invariant.                                       *)

Fields == {"state", "garden", "role", "user", "ends", "expires", "redeemed"}
InviteTypes(x) ==
    DOMAIN x = Fields /\ x.state \in {"row", "deleted"} /\ x.redeemed \in {Joining!NoTime} \cup Nat

OpenStates == {"existing", "redeem", "write"}
OpenRec(x) ==
    /\ DOMAIN x = {"at", "what", "i", "u", "existing"}
    /\ x.at \in OpenStates /\ x.what \in {"join", "accept", "device"}
    /\ x.i \in Invites /\ x.u \in Users

\* What a request carries from one statement to the next; an invite it names
\* was made.
JoiningRequestTypes(x) ==
    /\ x.at \in {"idle", "issue", "save"} \cup OpenStates
    /\ x.at \in OpenStates => OpenRec(x) /\ invite[x.i] # Joining!NoInvite
    /\ x.at = "issue" => x.saw \subseteq Invites /\ \A j \in x.saw : invite[j] # Joining!NoInvite

JoiningTypes ==
    /\ now \in Nat
    /\ DOMAIN invite = Invites
    /\ \A i \in Invites : invite[i] # Joining!NoInvite => InviteTypes(invite[i])
    /\ admits \in [Invites -> Nat]
    /\ DOMAIN member = Gardens \X Users
    /\ \A x \in Gardens \X Users : member[x] # Joining!NotMember => x[2] \in account
    /\ DOMAIN req = Requests /\ \A r \in Requests : JoiningRequestTypes(req[r])

\* An invite that was not redeemed let nobody in, and one request has its row.
RedeemInv ==
    /\ \A i \in Invites :
          /\ invite[i] = Joining!NoInvite => admits[i] = 0
          /\ invite[i] # Joining!NoInvite => (invite[i].redeemed # Joining!NoTime) = (admits[i] > 0)
    /\ \A r \in Requests : req[r].at = "write" =>
          /\ Joining!Row(req[r].i) /\ invite[req[r].i].redeemed = Joining!NoTime
          /\ \A q \in Requests : req[q].at = "write" /\ req[q].i = req[r].i => q = r
    /\ Joining!InviteOnce

JoiningInv == JoiningTypes /\ RedeemInv

-----------------------------------------------------------------------------

(* A step of one request leaves the others where they are.                  *)
LEMMA JoiningOneRequest ==
    ASSUME JoiningTypes, NEW r \in Requests, NEW x, Joining!Go(r, x)
    PROVE  DOMAIN req' = Requests /\ req'[r] = x /\ \A q \in Requests : q # r => req'[q] = req[q]
BY DEF JoiningTypes, Joining!Go

(* A request that has an invite open.                                       *)
LEMMA OpenRequest ==
    ASSUME JoiningTypes, NEW r \in Requests, req[r].at \in OpenStates
    PROVE  /\ OpenRec(req[r]) /\ req[r].i \in Invites /\ req[r].u \in Users
           /\ InviteTypes(invite[req[r].i]) /\ invite[req[r].i] # Joining!NoInvite
<1>1. OpenRec(req[r]) /\ invite[req[r].i] # Joining!NoInvite BY DEF JoiningTypes,
            JoiningRequestTypes
<1> QED BY <1>1 DEF JoiningTypes, OpenRec

\* No invite that was made is unmade.
InvitesStay == \A i \in Invites : invite[i] # Joining!NoInvite => invite'[i] # Joining!NoInvite

(* What a request that goes on as x has to show for the types.              *)
LEMMA JoiningRequestGoes ==
    ASSUME JoiningTypes, InvitesStay, NEW r \in Requests, NEW x, Joining!Go(r, x), JoiningRequestTypes(x)
    PROVE  DOMAIN req' = Requests /\ \A q \in Requests : JoiningRequestTypes(req[q])'
<1>1. DOMAIN req' = Requests /\ req'[r] = x /\ \A q \in Requests : q # r => req'[q] = req[q]
  BY JoiningOneRequest
<1>2. ASSUME NEW y, JoiningRequestTypes(y), NEW z, z = y
      PROVE  /\ z.at \in {"idle", "issue", "save"} \cup OpenStates
             /\ z.at \in OpenStates => OpenRec(z) /\ invite'[z.i] # Joining!NoInvite
             /\ z.at = "issue" => z.saw \subseteq Invites /\ \A j \in z.saw : invite'[j] # Joining!NoInvite
  BY <1>2 DEF JoiningRequestTypes, InvitesStay, OpenRec
<1>3. ASSUME NEW q \in Requests
      PROVE  /\ req'[q].at \in {"idle", "issue", "save"} \cup OpenStates
             /\ req'[q].at \in OpenStates => OpenRec(req'[q]) /\ invite'[req'[q].i] # Joining!NoInvite
             /\ req'[q].at = "issue" =>
                   req'[q].saw \subseteq Invites /\ \A j \in req'[q].saw : invite'[j] # Joining!NoInvite
  <2>1. CASE q = r BY <1>1, <1>2, <2>1
  <2>2. CASE q # r
    <3>1. JoiningRequestTypes(req[q]) BY DEF JoiningTypes
    <3> QED BY <1>1, <1>2, <2>2, <3>1
  <2> QED BY <2>1, <2>2
<1> QED BY <1>1, <1>3 DEF JoiningRequestTypes

(* A step that makes, marks or deletes no invite.                           *)
LEMMA SameInvites ==
    ASSUME JoiningInv, UNCHANGED <<invite, admits, now>>, JoiningTypes',
           NEW r \in Requests, NEW x, Joining!Go(r, x), x.at # "write"
    PROVE  JoiningInv'
<1>1. req'[r] = x /\ \A q \in Requests : q # r => req'[q] = req[q] BY JoiningOneRequest
            DEF JoiningInv
<1>2. \A q \in Requests : req'[q].at = "write" => req'[q] = req[q] BY <1>1
<1> QED BY <1>2 DEF JoiningInv, RedeemInv, Joining!InviteOnce, Joining!Row

(* A request that ends and changes nothing.                                 *)
LEMMA EndTypes ==
    ASSUME JoiningTypes, InvitesStay, NEW r \in Requests, Joining!End(r)
    PROVE  DOMAIN req' = Requests /\ \A q \in Requests : JoiningRequestTypes(req[q])'
<1>1. JoiningRequestTypes(Joining!Idle) BY DEF JoiningRequestTypes, Joining!Idle, OpenStates
<1> QED BY <1>1, JoiningRequestGoes DEF Joining!End

(* A step that leaves the rows alone.                                       *)
LEMMA JoiningSameRows ==
    ASSUME JoiningInv, UNCHANGED <<now, Joining!rows>>, NEW r \in Requests, NEW x, Joining!Go(r, x), JoiningRequestTypes(x),
           x.at # "write"
    PROVE  JoiningInv'
<1>1. InvitesStay BY DEF Joining!rows, InvitesStay
<1>2. DOMAIN req' = Requests /\ \A q \in Requests : JoiningRequestTypes(req[q])'
  BY <1>1, JoiningRequestGoes DEF JoiningInv
<1>3. JoiningTypes' BY <1>2 DEF JoiningInv, JoiningTypes, Joining!rows, InviteTypes
<1> QED BY <1>3, SameInvites DEF Joining!rows

(* The invariant holds at first.                                            *)
LEMMA JoiningInvInit == ASSUME Joining!InvitesAssumption, Joining!Init PROVE JoiningInv
<1>1. JoiningTypes
  BY DEF Joining!Init, JoiningTypes, JoiningRequestTypes, Joining!Idle, OpenStates
<1>2. RedeemInv BY DEF Joining!Init, RedeemInv, Joining!InviteOnce, Joining!Idle
<1> QED BY <1>1, <1>2 DEF JoiningInv

(* A statement that changes no row ends the request or moves it on.         *)
LEMMA JoiningReadStep ==
    ASSUME Joining!InvitesAssumption, JoiningInv, NEW r \in Requests,
           \/ \E i \in Invites, u \in Users, what \in {"join", "accept", "device"} : Joining!Open(r, i, u, what)
           \/ Joining!existingMembership(r) \/ Joining!Refuse(r)
           \/ \E u \in Users : Joining!DeleteReenrolmentInvites(r, u)
           \/ \E g \in Gardens, u \in Users : Joining!postedChanges(r, g, u)
    PROVE  JoiningInv'
<1>1. ASSUME Joining!End(r), UNCHANGED <<now, Joining!rows>> PROVE JoiningInv'
  <2>1. JoiningRequestTypes(Joining!Idle) /\ Joining!Idle.at # "write"
    BY DEF JoiningRequestTypes, Joining!Idle, OpenStates
  <2> QED BY <1>1, <2>1, JoiningSameRows DEF Joining!End
<1>2. ASSUME NEW i \in Invites, NEW u \in Users, NEW what \in {"join", "accept", "device"},
             Joining!Open(r, i, u, what)
      PROVE  JoiningInv'
  <2>1. invite[i] # Joining!NoInvite BY <1>2 DEF Joining!Open, Joining!Usable, Joining!Row,
            Joining!NoInvite
  <2>2. PICK x : x = [at |-> IF what = "accept" THEN "existing" ELSE "redeem",
                      what |-> what, i |-> i, u |-> u, existing |-> Joining!NotMember]
    OBVIOUS
  <2>3. OpenRec(x) /\ x.i = i /\ x.at # "write" BY <2>2 DEF OpenRec, OpenStates
  <2>4. JoiningRequestTypes(x) BY <2>1, <2>3 DEF JoiningRequestTypes, OpenRec, OpenStates
  <2>5. Joining!Go(r, x) /\ UNCHANGED <<now, Joining!rows>> BY <1>2, <2>2 DEF Joining!Open,
            Joining!Begin, Joining!Go
  <2> QED BY <2>3, <2>4, <2>5, JoiningSameRows
<1>3. ASSUME Joining!existingMembership(r) PROVE JoiningInv'
  <2>1. req[r].at = "existing" /\ UNCHANGED <<now, Joining!rows>>
    BY <1>3 DEF Joining!existingMembership
  <2>2. OpenRec(req[r]) /\ invite[req[r].i] # Joining!NoInvite BY <2>1, OpenRequest
            DEF JoiningInv, OpenStates
  <2>3. ASSUME NEW m, Joining!Go(r, [req[r] EXCEPT !.at = "redeem", !.existing = m])
        PROVE  JoiningInv'
    <3>1. PICK x : x = [req[r] EXCEPT !.at = "redeem", !.existing = m] OBVIOUS
    <3>2. OpenRec(x) /\ x.i = req[r].i /\ x.at = "redeem" BY <2>2, <3>1 DEF OpenRec, OpenStates
    <3>3. JoiningRequestTypes(x) BY <2>2, <3>2 DEF JoiningRequestTypes, OpenStates
    <3> QED BY <2>1, <2>3, <3>1, <3>2, <3>3, JoiningSameRows
  <2> QED BY <1>1, <1>3, <2>3 DEF Joining!existingMembership
<1>4. ASSUME NEW u \in Users, Joining!DeleteReenrolmentInvites(r, u) PROVE JoiningInv'
  <2>1. PICK g, saw : /\ saw \subseteq Invites /\ \A i \in saw : Joining!Row(i)
                      /\ Joining!Go(r, [at |-> "issue", u |-> u, garden |-> g, saw |-> saw])
    <3>1. PICK g : Joining!Go(r, [at |-> "issue", u |-> u, garden |-> g,
                          saw |-> {i \in Invites : Joining!Row(i) /\ invite[i].user = u
                                     /\ invite[i].garden = g /\ invite[i].redeemed = Joining!NoTime}])
      BY <1>4 DEF Joining!DeleteReenrolmentInvites, Joining!Begin, Joining!Go
    <3> QED BY <3>1
  <2>2. JoiningRequestTypes([at |-> "issue", u |-> u, garden |-> g, saw |-> saw])
    BY <2>1 DEF JoiningRequestTypes, OpenStates, Joining!Row, Joining!NoInvite
  <2> QED BY <1>4, <2>1, <2>2, JoiningSameRows DEF Joining!DeleteReenrolmentInvites
<1>5. ASSUME NEW g \in Gardens, NEW u \in Users, Joining!postedChanges(r, g, u) PROVE JoiningInv'
  <2>1. PICK role, e : Joining!Go(r, [at |-> "save", g |-> g, u |-> u, role |-> role, ends |-> e,
                                      existing |-> member[<<g, u>>]])
    BY <1>5 DEF Joining!postedChanges, Joining!Begin, Joining!Go
  <2>2. JoiningRequestTypes([at |-> "save", g |-> g, u |-> u, role |-> role, ends |-> e,
                             existing |-> member[<<g, u>>]])
    BY DEF JoiningRequestTypes, OpenStates
  <2> QED BY <1>5, <2>1, <2>2, JoiningSameRows DEF Joining!postedChanges
<1> QED BY <1>1, <1>2, <1>3, <1>4, <1>5 DEF Joining!Refuse

(* RedeemInvite takes the row of an invite nobody holds.                    *)
LEMMA RedeemStep ==
    ASSUME Joining!InvitesAssumption, JoiningInv, NEW r \in Requests, Joining!RedeemInvite(r)
    PROVE  JoiningInv'
<1>1. /\ req[r].at = "redeem" /\ ~Joining!Held(req[r].i)
      /\ UNCHANGED <<now, Joining!rows>>
  BY DEF Joining!RedeemInvite
<1>2. OpenRec(req[r]) /\ invite[req[r].i] # Joining!NoInvite /\ req[r].i \in Invites
  BY <1>1, OpenRequest DEF JoiningInv, OpenStates
<1>3. CASE Joining!End(r)
  <2>1. JoiningRequestTypes(Joining!Idle) /\ Joining!Idle.at # "write"
    BY DEF JoiningRequestTypes, Joining!Idle, OpenStates
  <2> QED BY <1>1, <1>3, <2>1, JoiningSameRows DEF Joining!End
<1>4. CASE Joining!Row(req[r].i) /\ invite[req[r].i].redeemed = Joining!NoTime /\ Joining!Go(r, [req[r] EXCEPT !.at = "write"])
  <2>1. PICK x : x = [req[r] EXCEPT !.at = "write"] OBVIOUS
  <2>2. OpenRec(x) /\ x.i = req[r].i /\ x.at = "write" BY <1>2, <2>1 DEF OpenRec, OpenStates
  <2>3. JoiningRequestTypes(x) BY <1>2, <2>2 DEF JoiningRequestTypes, OpenStates
  <2>4. InvitesStay BY <1>1 DEF InvitesStay, Joining!rows
  <2>5. DOMAIN req' = Requests /\ \A q \in Requests : JoiningRequestTypes(req[q])'
    BY <1>4, <2>1, <2>3, <2>4, JoiningRequestGoes DEF JoiningInv
  <2>6. JoiningTypes' BY <1>1, <2>5 DEF JoiningInv, JoiningTypes, Joining!rows, InviteTypes
  <2>7. req'[r] = x /\ \A q \in Requests : q # r => req'[q] = req[q]
    BY <1>4, <2>1, JoiningOneRequest DEF JoiningInv
  <2>8. UNCHANGED <<invite, admits>> BY <1>1 DEF Joining!rows
  <2>9. ASSUME NEW p \in Requests, req'[p].at = "write"
        PROVE  /\ invite[req'[p].i].state = "row" /\ invite[req'[p].i].redeemed = Joining!NoTime
               /\ \A q \in Requests : req'[q].at = "write" /\ req'[q].i = req'[p].i => q = p
    BY <1>1, <1>4, <2>2, <2>7, <2>9 DEF JoiningInv, RedeemInv, Joining!Held, Joining!Row
  <2> QED BY <2>6, <2>8, <2>9 DEF JoiningInv, RedeemInv, Joining!Row, Joining!InviteOnce
<1> QED BY <1>3, <1>4 DEF Joining!RedeemInvite

(* The transaction that holds the row lets one in.                          *)
LEMMA AdmitStep ==
    ASSUME Joining!InvitesAssumption, JoiningInv, NEW r \in Requests, Joining!Admit(r)
    PROVE  JoiningInv' /\ \A i \in Invites : admits'[i] # admits[i] => Joining!Row(i)
<1> DEFINE g == invite[req[r].i].garden
<1>1. PICK i \in Invites, u \in Users : i = req[r].i /\ u = req[r].u /\ g = invite[i].garden
  BY OpenRequest DEF JoiningInv, OpenStates, Joining!Admit
<1>2. Joining!Row(i) /\ invite[i].redeemed = Joining!NoTime /\ admits[i] = 0 /\ InviteTypes(invite[i])
  <2>1. Joining!Row(i) /\ invite[i].redeemed = Joining!NoTime /\ InviteTypes(invite[i]) /\ invite[i] # Joining!NoInvite
    BY <1>1, OpenRequest DEF JoiningInv, RedeemInv, Joining!Admit, OpenStates
  <2> QED BY <1>1, <2>1 DEF JoiningInv, RedeemInv, JoiningTypes
<1>3. invite' = [invite EXCEPT ![i] = [invite[i] EXCEPT !.redeemed = now]]
  BY <1>1 DEF Joining!Admit, Joining!Marked
<1>4. PICK y : y = [invite[i] EXCEPT !.redeemed = now] OBVIOUS
<1>5. DOMAIN y = Fields /\ y.redeemed = now /\ y.state = "row"
  BY <1>2, <1>4 DEF InviteTypes, Fields, Joining!Row
<1>6. y # Joining!NoInvite BY <1>5 DEF Joining!NoInvite
<1>7. DOMAIN invite' = Invites /\ invite'[i] = y /\ \A j \in Invites : j # i => invite'[j] = invite[j]
  BY <1>3, <1>4 DEF JoiningInv, JoiningTypes
<1>8. admits' \in [Invites -> Nat] /\ admits'[i] = 1 /\ \A j \in Invites : j # i => admits'[j] = admits[j]
  BY <1>1, <1>2 DEF Joining!Admit, JoiningInv, JoiningTypes
<1>9. now \in Nat /\ now' = now /\ now # Joining!NoTime BY DEF JoiningInv, JoiningTypes,
            Joining!Admit, Joining!NoTime
<1>10. InvitesStay BY <1>6, <1>7 DEF InvitesStay
<1>11. DOMAIN req' = Requests /\ \A q \in Requests : JoiningRequestTypes(req[q])'
  BY <1>10, EndTypes DEF JoiningInv, Joining!Admit
<1>12. /\ DOMAIN member' = Gardens \X Users
       /\ \A x \in Gardens \X Users : member'[x] # Joining!NotMember => x[2] \in account'
  <2>1. CASE UNCHANGED <<account, member>> BY <2>1 DEF JoiningInv, JoiningTypes
  <2>2. ASSUME NEW m, account' = account \cup {u}, member' = [member EXCEPT ![<<g, u>>] = m]
        PROVE  /\ DOMAIN member' = Gardens \X Users
               /\ \A x \in Gardens \X Users : member'[x] # Joining!NotMember => x[2] \in account'
    <3>1. DOMAIN member' = Gardens \X Users BY <2>2 DEF JoiningInv, JoiningTypes
    <3>2. ASSUME NEW x \in Gardens \X Users, member'[x] # Joining!NotMember
          PROVE  x[2] \in account'
      <4>1. CASE x = <<g, u>> BY <2>2, <4>1
      <4>2. CASE x # <<g, u>> BY <2>2, <3>2, <4>2 DEF JoiningInv, JoiningTypes
      <4> QED BY <4>1, <4>2
    <3> QED BY <3>1, <3>2
  <2>3. \/ UNCHANGED <<account, member>>
        \/ /\ account' = account \cup {u}
           /\ member' = [member EXCEPT ![<<g, u>>] = [role |-> invite[i].role, ends |-> invite[i].ends]]
    BY <1>1 DEF Joining!Admit
  <2> QED BY <2>1, <2>2, <2>3
<1>13. JoiningTypes'
  <2>1. \A j \in Invites : invite'[j] # Joining!NoInvite => InviteTypes(invite'[j])
    BY <1>5, <1>7, <1>9 DEF InviteTypes, JoiningInv, JoiningTypes
  <2> QED BY <1>7, <1>8, <1>9, <1>11, <1>12, <2>1 DEF JoiningTypes
<1>14. req'[r].at = "idle" /\ \A q \in Requests : q # r => req'[q] = req[q]
  BY JoiningOneRequest DEF Joining!Admit, Joining!End, Joining!Idle, JoiningInv
<1>15. \A j \in Invites :
          /\ invite'[j] = Joining!NoInvite => admits'[j] = 0
          /\ invite'[j] # Joining!NoInvite => (invite'[j].redeemed # Joining!NoTime) = (admits'[j] > 0)
  <2>1. ASSUME NEW j \in Invites, j # i
        PROVE  /\ invite'[j] = Joining!NoInvite => admits'[j] = 0
               /\ invite'[j] # Joining!NoInvite => (invite'[j].redeemed # Joining!NoTime) = (admits'[j] > 0)
    BY <1>7, <1>8, <2>1 DEF JoiningInv, RedeemInv
  <2>2. invite'[i] # Joining!NoInvite /\ invite'[i].redeemed # Joining!NoTime BY <1>5, <1>6,
            <1>7, <1>9
  <2>3. admits'[i] > 0 BY <1>8
  <2> QED BY <2>1, <2>2, <2>3
<1>16. ASSUME NEW p \in Requests, req'[p].at = "write"
       PROVE  /\ invite'[req'[p].i].state = "row" /\ invite'[req'[p].i].redeemed = Joining!NoTime
              /\ \A q \in Requests : req'[q].at = "write" /\ req'[q].i = req'[p].i => q = p
  <2>1. req[r].at = "write" BY DEF Joining!Admit
  <2>2. p # r /\ req'[p] = req[p] BY <1>14, <1>16
  <2>3. req[p].i # i BY <1>1, <1>16, <2>1, <2>2 DEF JoiningInv, RedeemInv
  <2>4. req[p].i \in Invites BY <1>16, <2>2, OpenRequest DEF JoiningInv, OpenStates
  <2> QED BY <1>7, <1>14, <1>16, <2>2, <2>3, <2>4 DEF JoiningInv, RedeemInv, Joining!Row
<1>17. Joining!InviteOnce' BY <1>8 DEF JoiningInv, RedeemInv, Joining!InviteOnce
<1>18. RedeemInv' BY <1>15, <1>16, <1>17 DEF RedeemInv, Joining!Row
<1> QED BY <1>2, <1>8, <1>13, <1>18 DEF JoiningInv

(* A step that makes invites and deletes invites nobody holds: what a       *)
(* transaction has taken stays as it is.                                    *)
LEMMA InvitesChange ==
    ASSUME JoiningInv, JoiningTypes', UNCHANGED admits,
           \A q \in Requests : req'[q].at = "write" => req'[q] = req[q],
           \A i \in Invites : Joining!Held(i) => invite'[i] = invite[i],
           \A i \in Invites : invite[i] # Joining!NoInvite =>
                invite'[i] # Joining!NoInvite /\ invite'[i].redeemed = invite[i].redeemed,
           \A i \in Invites : invite[i] = Joining!NoInvite =>
                invite'[i] = Joining!NoInvite \/ invite'[i].redeemed = Joining!NoTime
    PROVE  JoiningInv'
<1>1. \A i \in Invites :
          /\ invite'[i] = Joining!NoInvite => admits'[i] = 0
          /\ invite'[i] # Joining!NoInvite => (invite'[i].redeemed # Joining!NoTime) = (admits'[i] > 0)
  <2>1. ASSUME NEW i \in Invites, invite[i] = Joining!NoInvite
        PROVE  /\ invite'[i] = Joining!NoInvite => admits'[i] = 0
               /\ invite'[i] # Joining!NoInvite => (invite'[i].redeemed # Joining!NoTime) = (admits'[i] > 0)
    <3>1. admits'[i] = 0 /\ ~ (admits'[i] > 0) BY <2>1 DEF JoiningInv, RedeemInv
    <3> QED BY <2>1, <3>1
  <2>2. ASSUME NEW i \in Invites, invite[i] # Joining!NoInvite
        PROVE  /\ invite'[i] = Joining!NoInvite => admits'[i] = 0
               /\ invite'[i] # Joining!NoInvite => (invite'[i].redeemed # Joining!NoTime) = (admits'[i] > 0)
    BY <2>2 DEF JoiningInv, RedeemInv
  <2> QED BY <2>1, <2>2
<1>2. ASSUME NEW p \in Requests, req'[p].at = "write"
      PROVE  /\ invite'[req'[p].i].state = "row" /\ invite'[req'[p].i].redeemed = Joining!NoTime
             /\ \A q \in Requests : req'[q].at = "write" /\ req'[q].i = req'[p].i => q = p
  <2>1. req'[p] = req[p] /\ req[p].at = "write" BY <1>2
  <2>2. req[p].i \in Invites BY <2>1, OpenRequest DEF JoiningInv, OpenStates
  <2>3. invite'[req[p].i] = invite[req[p].i] BY <2>1, <2>2 DEF Joining!Held
  <2> QED BY <2>1, <2>3 DEF JoiningInv, RedeemInv, Joining!Row
<1>3. Joining!InviteOnce' BY DEF JoiningInv, RedeemInv, Joining!InviteOnce
<1> QED BY <1>1, <1>2, <1>3 DEF JoiningInv, RedeemInv, Joining!Row

(* Deleting a row keeps the rest of it.                                     *)
LEMMA Deleted ==
    ASSUME NEW x, InviteTypes(x)
    PROVE  /\ InviteTypes([x EXCEPT !.state = "deleted"])
           /\ [x EXCEPT !.state = "deleted"] # Joining!NoInvite
           /\ [x EXCEPT !.state = "deleted"].redeemed = x.redeemed
<1>1. PICK y : y = [x EXCEPT !.state = "deleted"] OBVIOUS
<1>2. DOMAIN y = Fields /\ y.state = "deleted" /\ y.redeemed = x.redeemed
  BY <1>1 DEF InviteTypes, Fields
<1> QED BY <1>1, <1>2 DEF InviteTypes, Joining!NoInvite

(* An invite that is made is not redeemed.                                  *)
LEMMA Made ==
    ASSUME NEW g, NEW role, NEW u, NEW e, NEW t
    PROVE  /\ InviteTypes([state |-> "row", garden |-> g, role |-> role, user |-> u, ends |-> e,
                           expires |-> t, redeemed |-> Joining!NoTime])
           /\ [state |-> "row", garden |-> g, role |-> role, user |-> u, ends |-> e,
               expires |-> t, redeemed |-> Joining!NoTime] # Joining!NoInvite
           /\ [state |-> "row", garden |-> g, role |-> role, user |-> u, ends |-> e,
               expires |-> t, redeemed |-> Joining!NoTime].redeemed = Joining!NoTime
<1>1. PICK y : y = [state |-> "row", garden |-> g, role |-> role, user |-> u, ends |-> e,
                    expires |-> t, redeemed |-> Joining!NoTime]
  OBVIOUS
<1>2. DOMAIN y = Fields /\ y.state = "row" /\ y.redeemed = Joining!NoTime BY <1>1 DEF Fields
<1> QED BY <1>1, <1>2 DEF InviteTypes, Joining!NoInvite

(* What the handlers that write invites have to show.                       *)
LEMMA InvitesWritten ==
    ASSUME JoiningInv, UNCHANGED <<now, account, member, admits>>,
           \/ UNCHANGED req
           \/ \E r \in Requests : Joining!End(r),
           DOMAIN invite' = Invites,
           \A i \in Invites : invite[i] # Joining!NoInvite =>
              \/ invite'[i] = invite[i]
              \/ ~Joining!Held(i) /\ invite'[i] = [invite[i] EXCEPT !.state = "deleted"],
           \A i \in Invites : invite[i] = Joining!NoInvite =>
              \/ invite'[i] = Joining!NoInvite
              \/ \E g, role, u, e, t :
                    invite'[i] = [state |-> "row", garden |-> g, role |-> role, user |-> u,
                                  ends |-> e, expires |-> t, redeemed |-> Joining!NoTime]
    PROVE  JoiningInv'
<1>1. \A i \in Invites : invite[i] # Joining!NoInvite =>
          /\ invite'[i] # Joining!NoInvite /\ InviteTypes(invite'[i])
          /\ invite'[i].redeemed = invite[i].redeemed
  <2>1. ASSUME NEW i \in Invites, invite[i] # Joining!NoInvite
        PROVE  /\ invite'[i] # Joining!NoInvite /\ InviteTypes(invite'[i])
               /\ invite'[i].redeemed = invite[i].redeemed
    <3>1. InviteTypes(invite[i]) BY <2>1 DEF JoiningInv, JoiningTypes
    <3>2. CASE invite'[i] = invite[i] BY <2>1, <3>1, <3>2
    <3>3. CASE invite'[i] = [invite[i] EXCEPT !.state = "deleted"] BY <3>1, <3>3, Deleted
    <3> QED BY <2>1, <3>2, <3>3
  <2> QED BY <2>1
<1>2. \A i \in Invites : invite[i] = Joining!NoInvite =>
          invite'[i] = Joining!NoInvite \/ (InviteTypes(invite'[i]) /\ invite'[i].redeemed = Joining!NoTime)
  BY Made
<1>3. ASSUME NEW i \in Invites, Joining!Held(i) PROVE invite'[i] = invite[i]
  <2>1. invite[i] # Joining!NoInvite BY <1>3 DEF Joining!Held, JoiningInv, RedeemInv,
            Joining!Row, Joining!NoInvite
  <2> QED BY <1>3, <2>1
<1>4. InvitesStay BY <1>1 DEF InvitesStay
<1>5. DOMAIN req' = Requests /\ \A q \in Requests : JoiningRequestTypes(req[q])'
  <2>1. CASE UNCHANGED req BY <1>4, <2>1 DEF JoiningInv, JoiningTypes, JoiningRequestTypes,
            InvitesStay, OpenRec
  <2>2. CASE \E r \in Requests : Joining!End(r) BY <1>4, <2>2, EndTypes DEF JoiningInv
  <2> QED BY <2>1, <2>2
<1>6. JoiningTypes' BY <1>1, <1>2, <1>5 DEF JoiningInv, JoiningTypes, InviteTypes
<1>7. \A q \in Requests : req'[q].at = "write" => req'[q] = req[q]
  <2>1. ASSUME NEW r \in Requests, Joining!End(r), NEW q \in Requests, req'[q].at = "write"
        PROVE  req'[q] = req[q]
    BY <2>1, JoiningOneRequest DEF Joining!End, Joining!Idle, JoiningInv
  <2> QED BY <2>1
<1> QED BY <1>1, <1>2, <1>3, <1>6, <1>7, InvitesChange

(* The steps that make and delete invites.                                  *)
LEMMA JoiningWriteStep ==
    ASSUME Joining!InvitesAssumption, JoiningInv,
           \/ \E r \in Requests, i \in Invites : Joining!IssueSignInLink(r, i)
           \/ \E i \in Invites : Joining!DeletePendingInvite(i)
           \/ \E i \in Invites, g \in Gardens, role \in offeredRoles : Joining!createInvite(i, g, role)
           \/ Joining!DeleteRedeemedAndExpiredInvites
    PROVE  JoiningInv'
<1>0. \A i \in Invites : Joining!Row(i) => invite[i] # Joining!NoInvite BY DEF Joining!Row,
            Joining!NoInvite
<1>1. ASSUME NEW r \in Requests, NEW i \in Invites, Joining!IssueSignInLink(r, i)
      PROVE  JoiningInv'
  <2>1. \A j \in req[r].saw : invite[j] # Joining!NoInvite
    BY <1>1 DEF Joining!IssueSignInLink, JoiningInv, JoiningTypes, JoiningRequestTypes
  <2>2. i \notin req[r].saw BY <1>1, <2>1 DEF Joining!IssueSignInLink
  <2>3. invite'[i] = [state |-> "row", garden |-> req[r].garden, role |-> "member",
                      user |-> req[r].u, ends |-> Joining!NoTime,
                      expires |-> now + InviteLifetime, redeemed |-> Joining!NoTime]
    BY <1>1, <2>2 DEF Joining!IssueSignInLink
  <2>4. ASSUME NEW j \in Invites, j # i
        PROVE  \/ invite'[j] = invite[j]
               \/ ~Joining!Held(j) /\ j \in req[r].saw /\ invite'[j] = [invite[j] EXCEPT !.state = "deleted"]
    BY <1>1, <2>4 DEF Joining!IssueSignInLink
  <2>5. DOMAIN invite' = Invites BY <1>1 DEF Joining!IssueSignInLink
  <2>6. UNCHANGED <<now, account, member, admits>> /\ Joining!End(r)
    BY <1>1 DEF Joining!IssueSignInLink
  <2>7. invite[i] = Joining!NoInvite BY <1>1 DEF Joining!IssueSignInLink
  <2>8. \A j \in Invites : invite[j] # Joining!NoInvite =>
            \/ invite'[j] = invite[j]
            \/ ~Joining!Held(j) /\ invite'[j] = [invite[j] EXCEPT !.state = "deleted"]
    BY <2>4, <2>7
  <2>9. \A j \in Invites : invite[j] = Joining!NoInvite =>
            \/ invite'[j] = Joining!NoInvite
            \/ \E g, role, u, e, t :
                  invite'[j] = [state |-> "row", garden |-> g, role |-> role, user |-> u,
                                ends |-> e, expires |-> t, redeemed |-> Joining!NoTime]
    <3>1. \A j \in Invites : j # i /\ invite[j] = Joining!NoInvite => invite'[j] = Joining!NoInvite
      BY <2>1, <2>4
    <3> QED BY <2>3, <3>1
  <2> QED BY <2>5, <2>6, <2>8, <2>9, InvitesWritten
<1>2. ASSUME NEW i \in Invites, Joining!DeletePendingInvite(i) PROVE JoiningInv'
  <2>1. /\ DOMAIN invite' = Invites
        /\ invite'[i] = [invite[i] EXCEPT !.state = "deleted"]
        /\ \A j \in Invites : j # i => invite'[j] = invite[j]
    BY <1>2 DEF Joining!DeletePendingInvite, JoiningInv, JoiningTypes
  <2>2. /\ invite[i] # Joining!NoInvite /\ ~Joining!Held(i)
        /\ UNCHANGED <<now, account, member, admits, req>>
    BY <1>0, <1>2 DEF Joining!DeletePendingInvite
  <2> QED BY <2>1, <2>2, InvitesWritten
<1>3. ASSUME NEW i \in Invites, NEW g \in Gardens, NEW role \in offeredRoles, Joining!createInvite(i, g, role)
      PROVE  JoiningInv'
  <2>1. PICK e : invite' = [invite EXCEPT ![i] = [state |-> "row", garden |-> g, role |-> role,
              user |-> Joining!NoAccount, ends |-> e, expires |-> now + InviteLifetime, redeemed |-> Joining!NoTime]]
    BY <1>3 DEF Joining!createInvite
  <2>2. /\ DOMAIN invite' = Invites
        /\ invite'[i] = [state |-> "row", garden |-> g, role |-> role,
              user |-> Joining!NoAccount, ends |-> e, expires |-> now + InviteLifetime, redeemed |-> Joining!NoTime]
        /\ \A j \in Invites : j # i => invite'[j] = invite[j]
    BY <2>1 DEF JoiningInv, JoiningTypes
  <2>3. invite[i] = Joining!NoInvite /\ UNCHANGED <<now, account, member, admits, req>>
    BY <1>3 DEF Joining!createInvite
  <2>4. \A j \in Invites : invite[j] = Joining!NoInvite =>
            \/ invite'[j] = Joining!NoInvite
            \/ \E h, o, u, d, t :
                  invite'[j] = [state |-> "row", garden |-> h, role |-> o, user |-> u,
                                ends |-> d, expires |-> t, redeemed |-> Joining!NoTime]
    BY <2>2
  <2> QED BY <2>2, <2>3, <2>4, InvitesWritten
<1>4. ASSUME Joining!DeleteRedeemedAndExpiredInvites PROVE JoiningInv'
  <2>1. /\ DOMAIN invite' = Invites
        /\ \A i \in Invites :
              IF Joining!Spent(i) THEN ~Joining!Held(i) /\ invite'[i] = [invite[i] EXCEPT !.state = "deleted"]
              ELSE invite'[i] = invite[i]
    BY <1>4 DEF Joining!DeleteRedeemedAndExpiredInvites
  <2>2. \A i \in Invites : Joining!Spent(i) => invite[i] # Joining!NoInvite
    BY <1>0 DEF Joining!Spent
  <2>3. UNCHANGED <<now, account, member, admits, req>>
    BY <1>4 DEF Joining!DeleteRedeemedAndExpiredInvites
  <2> QED BY <2>1, <2>2, <2>3, InvitesWritten
<1> QED BY <1>1, <1>2, <1>3, <1>4

(* The steps about memberships, and the clock.                              *)
LEMMA JoiningOtherStep ==
    ASSUME Joining!InvitesAssumption, JoiningInv,
           \/ \E r \in Requests : Joining!saveMembers(r)
           \/ \E g \in Gardens, u \in Users : Joining!removeMember(g, u) \/ Joining!switchGarden(g, u)
           \/ Joining!Clock \/ UNCHANGED Joining!vars
    PROVE  JoiningInv'
<1>0. UNCHANGED <<account, invite, admits>>
  BY DEF Joining!saveMembers, Joining!removeMember, Joining!switchGarden, Joining!Clock,
     Joining!vars, Joining!rows
<1>1. UNCHANGED <<account, invite, admits>> /\ now' \in Nat
  <2>1. now' = now \/ now' = now + 1
    BY DEF Joining!saveMembers, Joining!removeMember, Joining!switchGarden, Joining!Clock,
       Joining!vars, Joining!rows
  <2>2. now \in Nat BY DEF JoiningInv, JoiningTypes
  <2> QED BY <1>0, <2>1, <2>2
<1>2. UNCHANGED req \/ \E r \in Requests : Joining!End(r)
  BY DEF Joining!saveMembers, Joining!removeMember, Joining!switchGarden, Joining!Clock,
     Joining!vars, Joining!rows
<1>3. InvitesStay BY <1>1 DEF InvitesStay
<1>4. DOMAIN req' = Requests /\ \A q \in Requests : JoiningRequestTypes(req[q])'
  <2>1. CASE UNCHANGED req BY <1>1, <2>1 DEF JoiningInv, JoiningTypes, JoiningRequestTypes
  <2>2. CASE \E r \in Requests : Joining!End(r) BY <1>3, <2>2, EndTypes DEF JoiningInv
  <2> QED BY <1>2, <2>1, <2>2
<1>5. /\ DOMAIN member' = Gardens \X Users
      /\ \A x \in Gardens \X Users : member'[x] # Joining!NotMember => member[x] # Joining!NotMember
  BY DEF Joining!saveMembers, Joining!removeMember, Joining!switchGarden, Joining!Clock,
     Joining!vars, Joining!rows, JoiningInv, JoiningTypes
<1>6. JoiningTypes' BY <1>1, <1>4, <1>5 DEF JoiningInv, JoiningTypes, InviteTypes
<1>7. \A q \in Requests : req'[q].at = "write" => req'[q] = req[q]
  <2>1. ASSUME NEW r \in Requests, Joining!End(r), NEW q \in Requests, req'[q].at = "write"
        PROVE  req'[q] = req[q]
    BY <2>1, JoiningOneRequest DEF Joining!End, Joining!Idle, JoiningInv
  <2> QED BY <1>2, <2>1
<1> QED BY <1>1, <1>6, <1>7, InvitesChange

(* And after every step.                                                    *)
LEMMA JoiningInvStep ==
    ASSUME Joining!InvitesAssumption, JoiningInv, [Joining!Next]_(Joining!vars)
    PROVE  JoiningInv'
BY JoiningReadStep, RedeemStep, AdmitStep, JoiningWriteStep, JoiningOtherStep
   DEF Joining!Next, Joining!Redeeming, Joining!Issuing, Joining!People

(* The rows agree: a membership is of an account, and an invite was         *)
(* redeemed if and only if it let somebody in.                              *)
THEOREM InviteTypesHold ==
    ASSUME Joining!InvitesAssumption
    PROVE  Joining!Spec => []Joining!TypeOK
<1>1. JoiningInv => Joining!TypeOK BY DEF JoiningInv, JoiningTypes, RedeemInv, Joining!TypeOK
<1> QED BY <1>1, JoiningInvInit, JoiningInvStep, PTL DEF Joining!Spec

(* "An invite is single use" (markRedeemed, invited.go:479), and revoking   *)
(* or sweeping it is what makes it stop working: a transaction lets in on a *)
(* row that is there, the one that holds it and no other, however many      *)
(* requests have opened it, and however revocations, new sign-in links and  *)
(* sweeps come between.                                                     *)
THEOREM InviteLetsInOne ==
    ASSUME Joining!InvitesAssumption
    PROVE  Joining!Spec => []Joining!InviteOnce /\ [][Joining!InvitesAdmit]_(Joining!vars)
<1>1. JoiningInv => Joining!InviteOnce BY DEF JoiningInv, RedeemInv
<1>2. JoiningInv /\ [Joining!Next]_(Joining!vars) => Joining!InvitesAdmit
  <2> SUFFICES ASSUME JoiningInv, [Joining!Next]_(Joining!vars) PROVE Joining!InvitesAdmit OBVIOUS
  <2>1. Joining!InviteOnce' BY JoiningInvStep DEF JoiningInv, RedeemInv
  <2>2. ASSUME NEW i \in Invites, admits'[i] # admits[i] PROVE Joining!Row(i)
    <3>1. PICK r \in Requests : Joining!Admit(r)
      BY <2>2 DEF Joining!Next, Joining!Redeeming, Joining!Issuing, Joining!People,
         Joining!Open, Joining!existingMembership, Joining!RedeemInvite, Joining!Refuse,
         Joining!DeleteReenrolmentInvites, Joining!IssueSignInLink, Joining!postedChanges,
         Joining!saveMembers, Joining!DeletePendingInvite,
         Joining!createInvite, Joining!DeleteRedeemedAndExpiredInvites, Joining!removeMember,
         Joining!switchGarden, Joining!Clock, Joining!vars, Joining!rows
    <3> QED BY <2>2, <3>1, AdmitStep
  <2>3. ASSUME NEW r \in Requests, req[r].at = "redeem", req'[r].at = "write"
        PROVE  invite[req[r].i].expires > now
    <3>1. now \in Nat /\ JoiningTypes BY DEF JoiningInv, JoiningTypes
    <3>2. PICK p \in Requests : Joining!Redeeming(p) \/ Joining!Issuing(p) \/ Joining!People(p)
      BY <2>3 DEF Joining!Next, Joining!DeletePendingInvite, Joining!createInvite,
         Joining!DeleteRedeemedAndExpiredInvites, Joining!removeMember, Joining!switchGarden,
         Joining!Clock, Joining!vars
    <3>3. PICK x : Joining!Go(p, x)
      BY <3>2 DEF Joining!Redeeming, Joining!Issuing, Joining!People, Joining!Open,
         Joining!existingMembership, Joining!RedeemInvite, Joining!Admit, Joining!Refuse,
         Joining!DeleteReenrolmentInvites, Joining!IssueSignInLink, Joining!postedChanges,
         Joining!saveMembers, Joining!Begin, Joining!Go, Joining!End
    <3>4. p = r BY <2>3, <3>1, <3>3, JoiningOneRequest
    <3>5. ~Joining!End(r) BY <2>3, <3>1, JoiningOneRequest DEF Joining!End, Joining!Idle
    <3>6. ASSUME NEW y, Joining!Begin(r, y) PROVE FALSE
      BY <2>3, <3>6 DEF Joining!Begin, Joining!Idle
    <3>7. Joining!RedeemInvite(r)
      <4>1. ASSUME NEW j \in Invites, NEW u \in Users, NEW what \in {"join", "accept", "device"},
                   Joining!Open(r, j, u, what)
            PROVE  FALSE
        BY <3>6, <4>1 DEF Joining!Open
      <4>2. ASSUME NEW u \in Users, Joining!DeleteReenrolmentInvites(r, u) PROVE FALSE
        BY <3>6, <4>2 DEF Joining!DeleteReenrolmentInvites
      <4>3. ASSUME NEW g \in Gardens, NEW u \in Users, Joining!postedChanges(r, g, u) PROVE FALSE
        BY <3>6, <4>3 DEF Joining!postedChanges
      <4>4. ~Joining!existingMembership(r) BY <2>3 DEF Joining!existingMembership
      <4>5. ~Joining!Admit(r) /\ ~Joining!Refuse(r) /\ ~Joining!saveMembers(r)
            /\ \A j \in Invites : ~Joining!IssueSignInLink(r, j)
        BY <3>5 DEF Joining!Admit, Joining!Refuse, Joining!saveMembers, Joining!IssueSignInLink
      <4> QED BY <3>2, <3>4, <4>1, <4>2, <4>3, <4>4, <4>5
            DEF Joining!Redeeming, Joining!Issuing, Joining!People
    <3> QED BY <3>5, <3>7 DEF Joining!RedeemInvite
  <2> QED BY <2>1, <2>2, <2>3 DEF Joining!InvitesAdmit, Joining!RevokedLetsNobodyIn,
                                  Joining!ExpiredLetsNobodyIn
<1> QED BY <1>1, <1>2, JoiningInvInit, JoiningInvStep, PTL DEF Joining!Spec

-----------------------------------------------------------------------------
(* Memberships: what a request writes follows from what it read.           *)

\* Somebody who joins or accepts was not in when the request read the
\* membership, and an end is posted for a membership that had one.
HasRead(x, t) ==
    /\ x.at = "existing" => x.what = "accept"
    /\ x.at \in {"redeem", "write"} =>
          /\ x.what = "join" => x.existing = Joining!NotMember
          /\ x.what = "accept" => ~Joining!Live(x.existing, t)
    /\ x.at = "save" /\ x.existing.ends = Joining!NoTime => x.ends = Joining!NoTime

\* Access that has ended stays so.
EndsAt(x) == x.at \in {"redeem", "write"} /\ x.existing # Joining!NotMember => x.existing.ends \in Int

MemberTypes(m) == m # Joining!NotMember => m.ends \in Int

\* What an invite gives.
Gives(x) == x.ends \in Int /\ x.garden \in Gardens

\* What a request carries besides.
Carries(x) ==
    /\ EndsAt(x)
    /\ x.at = "save" => x.ends \in Int
    /\ x.at = "issue" => x.garden \in Gardens

JoiningReadInv ==
    /\ \A x \in Gardens \X Users : MemberTypes(member[x])
    /\ \A i \in Invites : invite[i] # Joining!NoInvite => Gives(invite[i])
    /\ \A r \in Requests : HasRead(req[r], now) /\ Carries(req[r])

(* What requests have read does not go away, and access that has ended      *)
(* stays so.                                                                *)
LEMMA StillRead ==
    ASSUME JoiningInv, JoiningReadInv, NEW r \in Requests, NEW t \in Int, now <= t
    PROVE  HasRead(req[r], t)
<1>1. HasRead(req[r], now) /\ EndsAt(req[r]) /\ now \in Int
  BY DEF JoiningReadInv, Carries, JoiningInv, JoiningTypes
<1>2. ASSUME req[r].at \in {"redeem", "write"}, req[r].what = "accept"
      PROVE  ~Joining!Live(req[r].existing, t)
  <2>1. CASE req[r].existing = Joining!NotMember BY <2>1 DEF Joining!Live
  <2>2. CASE req[r].existing # Joining!NotMember
    <3>1. req[r].existing.ends \in Int BY <1>1, <1>2, <2>2 DEF EndsAt
    <3>2. Joining!MembershipEnded(req[r].existing, now) BY <1>1, <1>2, <2>2 DEF HasRead, Joining!Live
    <3>3. Joining!MembershipEnded(req[r].existing, t) BY <1>1, <3>1, <3>2 DEF Joining!MembershipEnded
    <3> QED BY <3>3 DEF Joining!Live
  <2> QED BY <2>1, <2>2
<1> QED BY <1>1, <1>2 DEF HasRead

(* A statement that only reads.                                             *)
LEMMA JoiningReadGoes ==
    ASSUME JoiningInv, JoiningReadInv, NEW r \in Requests, NEW x, Joining!Go(r, x),
           UNCHANGED <<now, Joining!rows>>, HasRead(x, now), Carries(x)
    PROVE  JoiningReadInv'
<1>1. req'[r] = x /\ \A q \in Requests : q # r => req'[q] = req[q] BY JoiningOneRequest DEF JoiningInv
<1>2. now' = now /\ invite' = invite /\ member' = member BY DEF Joining!rows
<1>3. \A q \in Requests : HasRead(req'[q], now') /\ Carries(req'[q])
  BY <1>1, <1>2 DEF JoiningReadInv
<1>4. \A q \in Requests : (HasRead(req[q], now) /\ Carries(req[q]))' BY <1>3
<1> QED BY <1>2, <1>4 DEF JoiningReadInv, Gives, MemberTypes

(* A step that ends at most one request and writes invites or memberships.  *)
LEMMA ReadWritten ==
    ASSUME JoiningInv, JoiningReadInv, now' \in Int, now <= now',
           UNCHANGED req \/ \E r \in Requests : Joining!End(r),
           \A x \in Gardens \X Users : MemberTypes(member'[x]),
           \A i \in Invites : invite'[i] # Joining!NoInvite => Gives(invite'[i])
    PROVE  JoiningReadInv'
<1>1. ASSUME NEW q \in Requests, req'[q] = req[q]
      PROVE  HasRead(req'[q], now') /\ Carries(req'[q])
  <2>1. HasRead(req[q], now') BY StillRead
  <2> QED BY <1>1, <2>1 DEF JoiningReadInv
<1>2. ASSUME NEW q \in Requests, req'[q] = Joining!Idle
      PROVE  HasRead(req'[q], now') /\ Carries(req'[q])
  BY <1>2 DEF HasRead, Carries, EndsAt, Joining!Idle
<1>3. \A q \in Requests : req'[q] = req[q] \/ req'[q] = Joining!Idle
  BY JoiningOneRequest DEF JoiningInv, Joining!End
<1> QED BY <1>1, <1>2, <1>3 DEF JoiningReadInv, HasRead, Carries, EndsAt, Gives, MemberTypes

(* ReadInv holds at first.                                                  *)
LEMMA JoiningReadInit == ASSUME Joining!InvitesAssumption, Joining!Init PROVE JoiningReadInv
<1>1. \A x \in Gardens \X Users : MemberTypes(member[x])
  <2> SUFFICES ASSUME NEW x \in Gardens \X Users, member[x] # Joining!NotMember
               PROVE  member[x].ends \in Int
    BY DEF MemberTypes
  <2>1. member[x] \in [role : offeredRoles, ends : {Joining!NoTime, 0} \cup Lives]
    BY DEF Joining!Init
  <2>2. member[x].ends \in {Joining!NoTime, 0} \cup Lives BY <2>1
  <2>3. {Joining!NoTime, 0} \cup Lives \subseteq Int BY DEF Joining!InvitesAssumption,
            Joining!NoTime
  <2> QED BY <2>2, <2>3
<1>2. \A r \in Requests : req[r] = Joining!Idle BY DEF Joining!Init
<1> QED BY <1>1, <1>2 DEF JoiningReadInv, Joining!Init, HasRead, Carries, EndsAt, Joining!Idle

(* Ends of invites and memberships are times.                               *)
LEMMA EndsAreTimes ==
    ASSUME Joining!InvitesAssumption, JoiningInv
    PROVE  Joining!Ends \cup {now} \subseteq Int
<1>1. now \in Nat BY DEF JoiningInv, JoiningTypes
<1> QED BY <1>1 DEF Joining!Ends, Joining!NoTime, Joining!InvitesAssumption

(* A sign-in link is to a garden the account is in.                         *)
LEMMA GardenChosen ==
    ASSUME Joining!InvitesAssumption, NEW u, Joining!firstLiveMembership(u) # Joining!NoGarden
    PROVE  Joining!firstLiveMembership(u) \in Gardens
<1>1. PICK live : live = {g \in Gardens : Joining!Live(member[<<g, u>>], now)} OBVIOUS
<1>2. CASE live = {} BY <1>1, <1>2 DEF Joining!firstLiveMembership
<1>3. CASE live # {} /\ last[u] \in live BY <1>1, <1>3 DEF Joining!firstLiveMembership
<1>4. CASE live # {} /\ last[u] \notin live
  <2>1. live \subseteq Nat /\ live \subseteq Gardens BY <1>1 DEF Joining!InvitesAssumption
  <2>2. \E g \in live : \A h \in live : g <= h BY <1>4, <2>1, LeastOf
  <2>3. (CHOOSE g \in live : \A h \in live : g <= h) \in live BY <2>2
  <2>4. Joining!firstLiveMembership(u) = CHOOSE g \in live : \A h \in live : g <= h
    BY <1>1, <1>4 DEF Joining!firstLiveMembership
  <2> QED BY <2>1, <2>3, <2>4
<1> QED BY <1>2, <1>3, <1>4

(* A statement that reads: existingMembership finds that the account is not *)
(* in, and postedChanges takes an end for a membership that has one.        *)
LEMMA JoiningReads ==
    ASSUME Joining!InvitesAssumption, JoiningInv, JoiningReadInv, NEW r \in Requests,
           \/ \E i \in Invites, u \in Users, what \in {"join", "accept", "device"} : Joining!Open(r, i, u, what)
           \/ Joining!existingMembership(r) \/ Joining!RedeemInvite(r) \/ Joining!Refuse(r)
           \/ \E u \in Users : Joining!DeleteReenrolmentInvites(r, u)
           \/ \E g \in Gardens, u \in Users : Joining!postedChanges(r, g, u)
    PROVE  JoiningReadInv'
<1>0. JoiningTypes BY DEF JoiningInv
<1>1. ASSUME Joining!End(r), UNCHANGED <<now, Joining!rows>> PROVE JoiningReadInv'
  <2>1. HasRead(Joining!Idle, now) /\ Carries(Joining!Idle) BY DEF HasRead, Carries, EndsAt, Joining!Idle
  <2> QED BY <1>1, <2>1, JoiningReadGoes DEF Joining!End
<1>2. ASSUME NEW i \in Invites, NEW u \in Users, NEW what \in {"join", "accept", "device"},
             Joining!Open(r, i, u, what)
      PROVE  JoiningReadInv'
  <2>1. PICK x : x = [at |-> IF what = "accept" THEN "existing" ELSE "redeem",
                      what |-> what, i |-> i, u |-> u, existing |-> Joining!NotMember]
    OBVIOUS
  <2>2. /\ x.at = (IF what = "accept" THEN "existing" ELSE "redeem")
        /\ x.what = what /\ x.existing = Joining!NotMember
    BY <2>1
  <2>3. HasRead(x, now) /\ Carries(x) BY <2>2 DEF HasRead, Carries, EndsAt
  <2>4. Joining!Go(r, x) /\ UNCHANGED <<now, Joining!rows>> BY <1>2, <2>1 DEF Joining!Open,
            Joining!Begin, Joining!Go
  <2> QED BY <2>3, <2>4, JoiningReadGoes
<1>3. ASSUME Joining!existingMembership(r), ~Joining!End(r) PROVE JoiningReadInv'
  <2>1. req[r].at = "existing" /\ UNCHANGED <<now, Joining!rows>>
    BY <1>3 DEF Joining!existingMembership
  <2>2. OpenRec(req[r]) BY <1>0, <2>1, OpenRequest DEF OpenStates
  <2>3. req[r].what = "accept" BY <2>1 DEF JoiningReadInv, HasRead
  <2>4. PICK m : m = member[<<invite[req[r].i].garden, req[r].u>>] OBVIOUS
  <2>5. ~Joining!Live(m, now) /\ Joining!Go(r, [req[r] EXCEPT !.at = "redeem", !.existing = m])
    BY <1>3, <2>4 DEF Joining!existingMembership
  <2>6. PICK x : x = [req[r] EXCEPT !.at = "redeem", !.existing = m] OBVIOUS
  <2>7. x.at = "redeem" /\ x.what = "accept" /\ x.existing = m BY <2>2, <2>3, <2>6 DEF OpenRec
  <2>8. m # Joining!NotMember => m.ends \in Int
    <3>1. req[r].i \in Invites /\ req[r].u \in Users /\ invite[req[r].i] # Joining!NoInvite
      BY <1>0, <2>1, OpenRequest DEF OpenStates
    <3>2. <<invite[req[r].i].garden, req[r].u>> \in Gardens \X Users
      BY <3>1 DEF JoiningReadInv, Gives
    <3> QED BY <2>4, <3>2 DEF JoiningReadInv, MemberTypes
  <2>9. HasRead(x, now) /\ Carries(x) BY <2>5, <2>7, <2>8 DEF HasRead, Carries, EndsAt
  <2> QED BY <2>1, <2>5, <2>6, <2>9, JoiningReadGoes
<1>4. ASSUME Joining!RedeemInvite(r), ~Joining!End(r) PROVE JoiningReadInv'
  <2>1. /\ req[r].at = "redeem" /\ UNCHANGED <<now, Joining!rows>>
        /\ Joining!Go(r, [req[r] EXCEPT !.at = "write"])
    BY <1>4 DEF Joining!RedeemInvite
  <2>2. OpenRec(req[r]) BY <1>0, <2>1, OpenRequest DEF OpenStates
  <2>3. PICK x : x = [req[r] EXCEPT !.at = "write"] OBVIOUS
  <2>4. x.at = "write" /\ x.what = req[r].what /\ x.existing = req[r].existing
    BY <2>2, <2>3 DEF OpenRec
  <2>5. HasRead(req[r], now) /\ EndsAt(req[r]) BY DEF JoiningReadInv, Carries
  <2>6. HasRead(x, now) /\ Carries(x) BY <2>1, <2>4, <2>5 DEF HasRead, Carries, EndsAt
  <2> QED BY <2>1, <2>3, <2>6, JoiningReadGoes
<1>5. ASSUME NEW u \in Users, Joining!DeleteReenrolmentInvites(r, u) PROVE JoiningReadInv'
  <2>1. PICK g \in Gardens, saw \in SUBSET Invites : Joining!Go(r, [at |-> "issue", u |-> u, garden |-> g, saw |-> saw])
    <3>1. Joining!firstLiveMembership(u) # Joining!NoGarden
      BY <1>5 DEF Joining!DeleteReenrolmentInvites
    <3>2. Joining!firstLiveMembership(u) \in Gardens BY <3>1, GardenChosen
    <3> QED BY <1>5, <3>2 DEF Joining!DeleteReenrolmentInvites, Joining!Begin, Joining!Go
  <2>2. PICK x : x = [at |-> "issue", u |-> u, garden |-> g, saw |-> saw] OBVIOUS
  <2>3. HasRead(x, now) /\ Carries(x) BY <2>2 DEF HasRead, Carries, EndsAt
  <2> QED BY <1>5, <2>1, <2>2, <2>3, JoiningReadGoes DEF Joining!DeleteReenrolmentInvites
<1>6. ASSUME NEW g \in Gardens, NEW u \in Users, Joining!postedChanges(r, g, u)
      PROVE  JoiningReadInv'
  <2>1. PICK role \in {"same"} \cup (offeredRoles \ {member[<<g, u>>].role}), e \in Joining!Ends \cup {now} :
            /\ Joining!EndPosted(member[<<g, u>>], e)
            /\ Joining!Go(r, [at |-> "save", g |-> g, u |-> u, role |-> role, ends |-> e,
                              existing |-> member[<<g, u>>]])
    BY <1>6 DEF Joining!postedChanges, Joining!Begin, Joining!Go
  <2>2. e \in Int BY <2>1, EndsAreTimes
  <2>3. PICK x : x = [at |-> "save", g |-> g, u |-> u, role |-> role, ends |-> e,
                      existing |-> member[<<g, u>>]]
    OBVIOUS
  <2>4. x.at = "save" /\ x.ends = e /\ x.existing = member[<<g, u>>] BY <2>3
  <2>5. HasRead(x, now) /\ Carries(x) BY <2>1, <2>2, <2>4 DEF HasRead, Carries, EndsAt, Joining!EndPosted
  <2> QED BY <1>6, <2>1, <2>3, <2>5, JoiningReadGoes DEF Joining!postedChanges
<1> QED
  BY <1>1, <1>2, <1>3, <1>4, <1>5, <1>6 DEF Joining!Refuse, Joining!existingMembership,
     Joining!RedeemInvite

(* The writes of invites.                                                   *)
LEMMA ReadInvites ==
    ASSUME Joining!InvitesAssumption, JoiningInv, JoiningReadInv,
           \/ \E r \in Requests, i \in Invites : Joining!IssueSignInLink(r, i)
           \/ \E i \in Invites : Joining!DeletePendingInvite(i)
           \/ \E i \in Invites, g \in Gardens, role \in offeredRoles : Joining!createInvite(i, g, role)
           \/ Joining!DeleteRedeemedAndExpiredInvites
    PROVE  JoiningReadInv'
<1>0. \A i \in Invites : invite[i] # Joining!NoInvite => InviteTypes(invite[i]) /\ Gives(invite[i])
  BY DEF JoiningInv, JoiningTypes, JoiningReadInv
<1>1. ASSUME NEW x, InviteTypes(x), Gives(x) PROVE Gives([x EXCEPT !.state = "deleted"])
  BY <1>1 DEF InviteTypes, Fields, Gives
<1>2. ASSUME \A i \in Invites :
                \/ invite'[i] = invite[i]
                \/ invite[i] # Joining!NoInvite /\ invite'[i] = [invite[i] EXCEPT !.state = "deleted"]
                \/ Gives(invite'[i]),
             UNCHANGED <<now, member>>, UNCHANGED req \/ \E r \in Requests : Joining!End(r)
      PROVE  JoiningReadInv'
  <2>1. \A i \in Invites : invite'[i] # Joining!NoInvite => Gives(invite'[i])
    BY <1>0, <1>1, <1>2
  <2>2. now \in Int /\ now <= now BY DEF JoiningInv, JoiningTypes
  <2> QED BY <1>2, <2>1, <2>2, ReadWritten DEF JoiningReadInv
<1>3. ASSUME NEW r \in Requests, NEW i \in Invites, Joining!IssueSignInLink(r, i)
      PROVE  JoiningReadInv'
  <2>1. \A j \in req[r].saw : j \in Invites /\ invite[j] # Joining!NoInvite
    BY <1>3 DEF Joining!IssueSignInLink, JoiningInv, JoiningTypes, JoiningRequestTypes
  <2>2. invite'[i] = [state |-> "row", garden |-> req[r].garden, role |-> "member",
                      user |-> req[r].u, ends |-> Joining!NoTime,
                      expires |-> now + InviteLifetime, redeemed |-> Joining!NoTime]
    BY <1>3, <2>1 DEF Joining!IssueSignInLink
  <2>3. Gives(invite'[i]) BY <1>3, <2>2 DEF Joining!IssueSignInLink, Joining!NoTime, Gives, JoiningReadInv, Carries
  <2>4. \A j \in Invites : j # i =>
           \/ invite'[j] = invite[j]
           \/ j \in req[r].saw /\ invite'[j] = [invite[j] EXCEPT !.state = "deleted"]
    BY <1>3 DEF Joining!IssueSignInLink
  <2>5. UNCHANGED <<now, member>> /\ Joining!End(r) BY <1>3 DEF Joining!IssueSignInLink
  <2> QED BY <1>2, <2>1, <2>3, <2>4, <2>5
<1>4. ASSUME NEW i \in Invites, Joining!DeletePendingInvite(i) PROVE JoiningReadInv'
  <2>1. /\ invite'[i] = [invite[i] EXCEPT !.state = "deleted"]
        /\ \A j \in Invites : j # i => invite'[j] = invite[j]
    BY <1>4 DEF Joining!DeletePendingInvite, JoiningInv, JoiningTypes
  <2>2. invite[i] # Joining!NoInvite BY <1>4 DEF Joining!DeletePendingInvite, Joining!Row,
            Joining!NoInvite
  <2> QED BY <1>2, <1>4, <2>1, <2>2 DEF Joining!DeletePendingInvite
<1>5. ASSUME NEW i \in Invites, NEW g \in Gardens, NEW role \in offeredRoles, Joining!createInvite(i, g, role)
      PROVE  JoiningReadInv'
  <2>1. PICK e \in Joining!Ends :
              invite' = [invite EXCEPT ![i] = [state |-> "row", garden |-> g, role |-> role,
              user |-> Joining!NoAccount, ends |-> e, expires |-> now + InviteLifetime, redeemed |-> Joining!NoTime]]
    BY <1>5 DEF Joining!createInvite
  <2>2. invite'[i].ends = e /\ invite'[i].garden = g /\ \A j \in Invites : j # i => invite'[j] = invite[j]
    BY <2>1 DEF JoiningInv, JoiningTypes
  <2>3. Gives(invite'[i]) BY <2>2, EndsAreTimes DEF Gives
  <2> QED BY <1>2, <1>5, <2>2, <2>3 DEF Joining!createInvite
<1>6. ASSUME Joining!DeleteRedeemedAndExpiredInvites PROVE JoiningReadInv'
  <2>1. \A i \in Invites :
            \/ invite'[i] = invite[i]
            \/ Joining!Row(i) /\ invite'[i] = [invite[i] EXCEPT !.state = "deleted"]
    BY <1>6 DEF Joining!DeleteRedeemedAndExpiredInvites, Joining!Spent
  <2>2. \A i \in Invites : Joining!Row(i) => invite[i] # Joining!NoInvite BY DEF Joining!Row,
            Joining!NoInvite
  <2> QED BY <1>2, <1>6, <2>1, <2>2 DEF Joining!DeleteRedeemedAndExpiredInvites
<1> QED BY <1>3, <1>4, <1>5, <1>6

(* Whoever is let in had no membership that works when the request read it. *)
LEMMA ReadAdmit ==
    ASSUME Joining!InvitesAssumption, JoiningInv, JoiningReadInv, NEW r \in Requests, Joining!Admit(r)
    PROVE  /\ JoiningReadInv'
           /\ \A x \in Gardens \X Users :
                 member'[x] # member[x] /\ Joining!Live(member[x], now) => Joining!ReadAnother(x)
<1> DEFINE i == req[r].i
           u == req[r].u
           g == invite[i].garden
<1>1. /\ OpenRec(req[r]) /\ i \in Invites /\ u \in Users
      /\ InviteTypes(invite[i]) /\ invite[i] # Joining!NoInvite /\ req[r].at = "write"
  BY OpenRequest DEF JoiningInv, OpenStates, Joining!Admit
<1>2. Gives(invite[i]) /\ Gives([invite[i] EXCEPT !.redeemed = now])
  BY <1>1 DEF InviteTypes, Fields, Gives, JoiningReadInv
<1>3. /\ invite'[i] = [invite[i] EXCEPT !.redeemed = now]
      /\ \A j \in Invites : j # i => invite'[j] = invite[j]
  BY <1>1 DEF Joining!Admit, Joining!Marked, JoiningInv, JoiningTypes
<1>4. \A j \in Invites : invite'[j] # Joining!NoInvite => Gives(invite'[j])
  BY <1>1, <1>2, <1>3 DEF JoiningReadInv
<1>5. ASSUME NEW x \in Gardens \X Users, member'[x] # member[x]
      PROVE  /\ x = <<g, u>> /\ req[r].what # "device"
             /\ (member[x] # Joining!NotMember) = (req[r].existing # Joining!NotMember)
             /\ member'[x] = [role |-> invite[i].role, ends |-> invite[i].ends]
  <2>1. /\ req[r].what # "device"
        /\ (member[<<g, u>>] # Joining!NotMember) = (req[r].existing # Joining!NotMember)
        /\ member' = [member EXCEPT ![<<g, u>>] = [role |-> invite[i].role, ends |-> invite[i].ends]]
    BY <1>5 DEF Joining!Admit
  <2>2. x = <<g, u>> BY <1>5, <2>1 DEF JoiningInv, JoiningTypes
  <2>3. member'[x] = [role |-> invite[i].role, ends |-> invite[i].ends]
    BY <2>1, <2>2 DEF JoiningInv, JoiningTypes
  <2> QED BY <2>1, <2>2, <2>3
<1>6. \A x \in Gardens \X Users : MemberTypes(member'[x])
  <2>1. invite[i].ends \in Int BY <1>2 DEF Gives
  <2> QED BY <1>5, <2>1 DEF JoiningReadInv, MemberTypes
<1>7. ASSUME NEW x \in Gardens \X Users, member'[x] # member[x], Joining!Live(member[x], now)
      PROVE  Joining!ReadAnother(x)
  <2>1. req[r].what \in {"join", "accept"} BY <1>1, <1>5, <1>7 DEF OpenRec
  <2>2. HasRead(req[r], now) BY DEF JoiningReadInv
  <2>3. member[x] # Joining!NotMember BY <1>7 DEF Joining!Live
  <2>4. req[r].existing # member[x]
    <3>1. CASE req[r].what = "join" BY <1>1, <2>2, <2>3, <3>1 DEF HasRead
    <3>2. CASE req[r].what = "accept" BY <1>1, <1>7, <2>2, <3>2 DEF HasRead
    <3> QED BY <2>1, <3>1, <3>2
  <2>5. req'[r].at = "idle" BY JoiningOneRequest DEF Joining!Admit, Joining!End, Joining!Idle, JoiningInv
  <2>6. req'[r] # req[r] BY <1>1, <2>5
  <2> QED BY <1>1, <2>4, <2>6 DEF Joining!ReadAnother
<1>8. now' = now /\ now \in Int /\ Joining!End(r) BY DEF Joining!Admit, JoiningInv, JoiningTypes
<1>9. JoiningReadInv' BY <1>4, <1>6, <1>8, ReadWritten
<1> QED BY <1>7, <1>9

(* A save gives an end to a membership that had one when People was read.   *)
LEMMA ReadSave ==
    ASSUME Joining!InvitesAssumption, JoiningInv, JoiningReadInv, NEW r \in Requests, Joining!saveMembers(r)
    PROVE  /\ JoiningReadInv'
           /\ \A x \in Gardens \X Users :
                 /\ member[x] # Joining!NotMember /\ member[x].ends = Joining!NoTime
                 /\ member'[x] # Joining!NotMember /\ member'[x].ends # Joining!NoTime
                 => Joining!ReadAnother(x)
<1>1. HasRead(req[r], now) /\ req[r].at = "save" /\ req[r].ends \in Int
  BY DEF JoiningReadInv, Carries, Joining!saveMembers
<1>2. ASSUME NEW x \in Gardens \X Users, member'[x] # member[x]
      PROVE  /\ member[x] # Joining!NotMember
             /\ member'[x].ends = IF req[r].ends = Joining!NoTime THEN member[x].ends ELSE req[r].ends
  BY <1>2 DEF Joining!saveMembers, JoiningInv, JoiningTypes
<1>3. \A x \in Gardens \X Users : MemberTypes(member'[x])
  BY <1>1, <1>2 DEF JoiningReadInv, MemberTypes
<1>4. ASSUME NEW x \in Gardens \X Users,
             member[x] # Joining!NotMember, member[x].ends = Joining!NoTime,
             member'[x] # Joining!NotMember, member'[x].ends # Joining!NoTime
      PROVE  Joining!ReadAnother(x)
  <2>1. member'[x] # member[x] BY <1>4
  <2>2. req[r].ends # Joining!NoTime BY <1>2, <1>4, <2>1
  <2>3. req[r].existing # member[x] BY <1>1, <1>4, <2>2 DEF HasRead
  <2>4. req'[r].at = "idle" BY JoiningOneRequest DEF Joining!saveMembers, Joining!End, Joining!Idle, JoiningInv
  <2>5. req'[r] # req[r] BY <1>1, <2>4
  <2> QED BY <1>1, <2>3, <2>5 DEF Joining!ReadAnother
<1>5. Joining!End(r) /\ UNCHANGED <<now, invite>> BY DEF Joining!saveMembers
<1>6. now \in Int /\ now <= now BY DEF JoiningInv, JoiningTypes
<1>7. JoiningReadInv' BY <1>3, <1>5, <1>6, ReadWritten DEF JoiningReadInv
<1> QED BY <1>4, <1>7

(* Removals, another garden opened, and the clock.                          *)
LEMMA ReadOthers ==
    ASSUME Joining!InvitesAssumption, JoiningInv, JoiningReadInv,
           \/ \E g \in Gardens, u \in Users : Joining!removeMember(g, u) \/ Joining!switchGarden(g, u)
           \/ Joining!Clock \/ UNCHANGED Joining!vars
    PROVE  /\ JoiningReadInv' /\ UNCHANGED admits
           /\ \A x \in Gardens \X Users : member'[x] = member[x] \/ member'[x] = Joining!NotMember
<1>1. UNCHANGED <<invite, admits, req>> /\ (now' = now \/ now' = now + 1)
  BY DEF Joining!removeMember, Joining!switchGarden, Joining!Clock, Joining!vars, Joining!rows
<1>2. \A x \in Gardens \X Users : member'[x] = member[x] \/ member'[x] = Joining!NotMember
  BY DEF Joining!removeMember, Joining!switchGarden, Joining!Clock, Joining!vars, Joining!rows,
     JoiningInv, JoiningTypes
<1>3. now' \in Int /\ now <= now' BY <1>1 DEF JoiningInv, JoiningTypes
<1>4. \A x \in Gardens \X Users : MemberTypes(member'[x]) BY <1>2 DEF JoiningReadInv, MemberTypes
<1>5. JoiningReadInv' BY <1>1, <1>3, <1>4, ReadWritten DEF JoiningReadInv
<1> QED BY <1>1, <1>2, <1>5

(* Every step keeps ReadInv, and does to memberships what it may.           *)
LEMMA MembershipStep ==
    ASSUME Joining!InvitesAssumption, JoiningInv, JoiningReadInv, [Joining!Next]_(Joining!vars)
    PROVE  JoiningReadInv' /\ Joining!MembershipStays
<1>1. ASSUME JoiningReadInv', UNCHANGED member
      PROVE  JoiningReadInv' /\ Joining!MembershipStays
  BY <1>1 DEF Joining!MembershipStays, Joining!RenewsEnded, Joining!PermanentStays
<1>2. ASSUME NEW r \in Requests,
             \/ \E i \in Invites, u \in Users, what \in {"join", "accept", "device"} : Joining!Open(r, i, u, what)
             \/ Joining!existingMembership(r) \/ Joining!RedeemInvite(r) \/ Joining!Refuse(r)
             \/ \E u \in Users : Joining!DeleteReenrolmentInvites(r, u)
             \/ \E g \in Gardens, u \in Users : Joining!postedChanges(r, g, u)
      PROVE  JoiningReadInv' /\ Joining!MembershipStays
  <2>1. UNCHANGED member
    BY <1>2 DEF Joining!Open, Joining!existingMembership, Joining!RedeemInvite, Joining!Refuse,
       Joining!DeleteReenrolmentInvites, Joining!postedChanges, Joining!rows
  <2> QED BY <1>1, <1>2, <2>1, JoiningReads
<1>3. ASSUME \/ \E r \in Requests, i \in Invites : Joining!IssueSignInLink(r, i)
             \/ \E i \in Invites : Joining!DeletePendingInvite(i)
             \/ \E i \in Invites, g \in Gardens, role \in offeredRoles : Joining!createInvite(i, g, role)
             \/ Joining!DeleteRedeemedAndExpiredInvites
      PROVE  JoiningReadInv' /\ Joining!MembershipStays
  <2>1. UNCHANGED member
    BY <1>3 DEF Joining!IssueSignInLink, Joining!DeletePendingInvite, Joining!createInvite,
       Joining!DeleteRedeemedAndExpiredInvites
  <2> QED BY <1>1, <1>3, <2>1, ReadInvites
<1>4. ASSUME NEW r \in Requests, Joining!Admit(r)
      PROVE  JoiningReadInv' /\ Joining!MembershipStays
  <2>1. PICK i \in Invites : i = req[r].i BY <1>4, OpenRequest DEF JoiningInv, OpenStates,
            Joining!Admit
  <2>2. admits' # admits
    <3>1. admits'[i] = admits[i] + 1 /\ admits[i] \in Nat BY <1>4, <2>1 DEF Joining!Admit,
            JoiningInv, JoiningTypes
    <3> QED BY <3>1
  <2>3. Joining!PermanentStays BY <2>2 DEF Joining!PermanentStays
  <2>4. Joining!RenewsEnded BY <1>4, ReadAdmit DEF Joining!RenewsEnded
  <2> QED BY <1>4, <2>3, <2>4, ReadAdmit DEF Joining!MembershipStays
<1>5. ASSUME NEW r \in Requests, Joining!saveMembers(r)
      PROVE  JoiningReadInv' /\ Joining!MembershipStays
  <2>1. admits' = admits BY <1>5 DEF Joining!saveMembers
  <2> QED BY <1>5, <2>1, ReadSave DEF Joining!MembershipStays, Joining!RenewsEnded,
            Joining!PermanentStays
<1>6. ASSUME \/ \E g \in Gardens, u \in Users : Joining!removeMember(g, u) \/ Joining!switchGarden(g, u)
             \/ Joining!Clock \/ UNCHANGED Joining!vars
      PROVE  JoiningReadInv' /\ Joining!MembershipStays
  <2>1. /\ JoiningReadInv' /\ UNCHANGED admits
        /\ \A x \in Gardens \X Users : member'[x] = member[x] \/ member'[x] = Joining!NotMember
    BY <1>6, ReadOthers
  <2>2. Joining!RenewsEnded /\ Joining!PermanentStays BY <2>1 DEF Joining!RenewsEnded,
            Joining!PermanentStays
  <2> QED BY <2>1, <2>2 DEF Joining!MembershipStays
<1> QED BY <1>2, <1>3, <1>4, <1>5, <1>6 DEF Joining!Next, Joining!Redeeming, Joining!Issuing,
           Joining!People

(* "An account whose membership of the garden has ended updates that row"   *)
(* (RenewMembership, membership.sql.go:562), and "a membership with no end  *)
(* date has no date field, so a date posted for one is ignored"             *)
(* (postedChanges, people.go:279): an accept that rewrites a membership     *)
(* that works, or a save that ends one without an end, had read another     *)
(* state of it.  For any number of requests, removals, saves and invites.   *)
THEOREM MembershipsStay ==
    ASSUME Joining!InvitesAssumption
    PROVE  Joining!Spec => [][Joining!MembershipStays]_(Joining!vars)
<1>1. Joining!InvitesAssumption OBVIOUS
<1>2. Joining!Init => JoiningInv /\ JoiningReadInv BY <1>1, JoiningInvInit, JoiningReadInit
<1>3. JoiningInv /\ JoiningReadInv /\ [Joining!Next]_(Joining!vars) => JoiningInv' /\ JoiningReadInv' /\ Joining!MembershipStays
  BY <1>1, JoiningInvStep, MembershipStep
<1> QED BY <1>2, <1>3, PTL DEF Joining!Spec

-----------------------------------------------------------------------------
(* The rate limiter.                                                       *)

BucketRec == [level : 0 .. Limiter!Refill, last : Nat]

\* A bucket that is kept is the one had nothing ever been deleted, and one that
\* was deleted has been full since.
BucketAgrees(k) ==
    IF k \in DOMAIN buckets THEN buckets[k] = unswept[k]
    ELSE now - unswept[k].last >= Limiter!Refill

LimiterInv ==
    /\ now \in Nat /\ now <= MaxTime
    /\ DOMAIN buckets \subseteq DOMAIN unswept
    /\ \A k \in DOMAIN unswept :
          unswept[k] \in BucketRec /\ unswept[k].last <= now /\ BucketAgrees(k)

(* A bucket that is full holds a token, and more than none.                 *)
LEMMA RefillHolds ==
    ASSUME Limiter!RateLimitAssumption
    PROVE  Limiter!Refill \in Nat /\ Interval \in Nat /\ 0 < Interval /\ Interval <= Limiter!Refill
<1>1. Interval \in Nat /\ Interval > 0 /\ Burst \in Nat /\ Burst >= 1
  BY DEF Limiter!RateLimitAssumption
<1>2. Burst * Interval \in Nat BY <1>1
<1>3. PICK n \in Nat : Burst = n + 1
  <2>1. Burst - 1 \in Nat /\ Burst = (Burst - 1) + 1 BY <1>1
  <2> QED BY <2>1
<1>4. n * Interval \in Nat BY <1>1
<1>5. (n + 1) * Interval = n * Interval + Interval BY <1>1
<1> QED BY <1>1, <1>2, <1>3, <1>4, <1>5 DEF Limiter!Refill

(* What a bucket has earned by a time that is not before it was last seen   *)
(* is at most what it holds, and is that after a refill.                    *)
LEMMA AdvancedHolds ==
    ASSUME Limiter!RateLimitAssumption, NEW b \in BucketRec, NEW t \in Nat, b.last <= t
    PROVE  /\ Limiter!Advanced(b, t) \in 0 .. Limiter!Refill
           /\ t - b.last >= Limiter!Refill => Limiter!Advanced(b, t) = Limiter!Refill
BY RefillHolds DEF BucketRec, Limiter!Advanced

(* The answer and the row depend on nothing but the bucket of the key.      *)
LEMMA SpentHolds ==
    ASSUME Limiter!RateLimitAssumption, NEW bs, NEW k, NEW t \in Nat,
           k \in DOMAIN bs => bs[k] \in BucketRec /\ bs[k].last <= t
    PROVE  Limiter!Spent(bs, k, t) \in BucketRec /\ Limiter!Spent(bs, k, t).last = t
<1> DEFINE b == Limiter!BucketOf(bs, k, t)
<1>1. b \in BucketRec /\ b.last <= t
  BY RefillHolds DEF Limiter!BucketOf, Limiter!Full, BucketRec
<1>2. Limiter!Advanced(b, t) \in 0 .. Limiter!Refill BY <1>1, AdvancedHolds
<1>3. Limiter!Delay(bs, k, t) = 0 => Limiter!Advanced(b, t) >= Interval
  BY <1>2, RefillHolds DEF Limiter!Delay
<1> HIDE DEF b
<1>4. Limiter!Spent(bs, k, t) =
          [level |-> Limiter!Advanced(b, t) - IF Limiter!Delay(bs, k, t) = 0 THEN Interval ELSE 0,
           last |-> t]
  BY DEF Limiter!Spent, b
<1>5. CASE Limiter!Delay(bs, k, t) = 0
  BY <1>2, <1>3, <1>4, <1>5, RefillHolds DEF BucketRec
<1>6. CASE Limiter!Delay(bs, k, t) # 0
  BY <1>2, <1>4, <1>6, RefillHolds DEF BucketRec
<1> QED BY <1>5, <1>6

(* The heart of it: a key gets of the buckets that were kept the answer,    *)
(* the delay and the row that it would get had nothing been deleted.        *)
LEMMA DeletedIsFull ==
    ASSUME Limiter!RateLimitAssumption, NEW bs, NEW k, NEW t \in Nat,
           k \in DOMAIN bs => k \in DOMAIN unswept,
           k \in DOMAIN unswept =>
              /\ unswept[k] \in BucketRec /\ unswept[k].last <= t
              /\ IF k \in DOMAIN bs THEN bs[k] = unswept[k]
                 ELSE t - unswept[k].last >= Limiter!Refill
    PROVE  /\ Limiter!Delay(bs, k, t) = Limiter!Delay(unswept, k, t)
           /\ Limiter!Spent(bs, k, t) = Limiter!Spent(unswept, k, t)
<1>1. Limiter!Advanced(Limiter!BucketOf(bs, k, t), t)
        = Limiter!Advanced(Limiter!BucketOf(unswept, k, t), t)
  <2>1. CASE k \in DOMAIN bs BY <2>1 DEF Limiter!BucketOf
  <2>2. CASE k \notin DOMAIN unswept BY <2>2 DEF Limiter!BucketOf
  <2>3. CASE k \notin DOMAIN bs /\ k \in DOMAIN unswept
    <3>1. Limiter!Advanced(unswept[k], t) = Limiter!Refill BY <2>3, AdvancedHolds
    <3>2. Limiter!Full(t) \in BucketRec /\ Limiter!Full(t).last = t /\ Limiter!Full(t).level = Limiter!Refill
      BY RefillHolds DEF BucketRec, Limiter!Full
    <3>3. Limiter!Advanced(Limiter!Full(t), t) = Limiter!Refill
      BY <3>2, RefillHolds DEF Limiter!Advanced
    <3> QED BY <2>3, <3>1, <3>3 DEF Limiter!BucketOf
  <2> QED BY <2>1, <2>2, <2>3
<1>2. Limiter!Delay(bs, k, t) = Limiter!Delay(unswept, k, t) BY <1>1 DEF Limiter!Delay
<1> QED BY <1>1, <1>2 DEF Limiter!Spent

(* The invariant holds at first.                                            *)
LEMMA LimiterInvInit == ASSUME Limiter!RateLimitAssumption, Limiter!Init PROVE LimiterInv
BY DEF Limiter!Init, Limiter!RateLimitAssumption, LimiterInv

(* A call of Allow keeps it, and sweeping before it does.                   *)
LEMMA AllowStep ==
    ASSUME Limiter!RateLimitAssumption, LimiterInv, NEW key \in Keys, Limiter!Allow(key)
    PROVE  LimiterInv'
<1> DEFINE sweeps == now - lastSweep >= Limiter!Refill
           kept == IF sweeps THEN Limiter!sweep(buckets, now) ELSE buckets
<1>1. /\ buckets' = Limiter!Put(kept, key, Limiter!Spent(kept, key, now))
      /\ unswept' = Limiter!Put(unswept, key, Limiter!Spent(unswept, key, now))
      /\ now' = now
  BY DEF Limiter!Allow
<1>2. /\ DOMAIN kept \subseteq DOMAIN unswept
      /\ \A k \in DOMAIN unswept :
            IF k \in DOMAIN kept THEN kept[k] = unswept[k]
            ELSE now - unswept[k].last >= Limiter!Refill
  <2>1. CASE ~sweeps BY <2>1 DEF LimiterInv, BucketAgrees
  <2>2. CASE sweeps
    <3>1. kept = [k \in {j \in DOMAIN buckets : ~Limiter!Idle(buckets[j], now)} |-> buckets[k]]
      BY <2>2 DEF Limiter!sweep, Limiter!Restrict
    <3> QED BY <3>1 DEF LimiterInv, BucketAgrees, Limiter!Idle
  <2> QED BY <2>1, <2>2
<1> HIDE DEF kept, sweeps
<1>3. Limiter!Spent(kept, key, now) = Limiter!Spent(unswept, key, now)
  BY <1>2, DeletedIsFull DEF LimiterInv
<1>4. Limiter!Spent(unswept, key, now) \in BucketRec /\ Limiter!Spent(unswept, key, now).last = now
  BY SpentHolds DEF LimiterInv
<1>5. PICK b : b = Limiter!Spent(unswept, key, now) OBVIOUS
<1>6. /\ DOMAIN buckets' = DOMAIN kept \cup {key} /\ DOMAIN unswept' = DOMAIN unswept \cup {key}
      /\ buckets'[key] = b /\ unswept'[key] = b
      /\ \A k \in DOMAIN kept : k # key => buckets'[k] = kept[k]
      /\ \A k \in DOMAIN unswept : k # key => unswept'[k] = unswept[k]
  BY <1>1, <1>3, <1>5 DEF Limiter!Put
<1>7. b \in BucketRec /\ b.last = now BY <1>4, <1>5
<1>8. ASSUME NEW k \in DOMAIN unswept'
      PROVE  unswept'[k] \in BucketRec /\ unswept'[k].last <= now' /\ BucketAgrees(k)'
  <2>1. CASE k = key BY <1>1, <1>6, <1>7, <2>1 DEF LimiterInv, BucketAgrees
  <2>2. CASE k # key
    <3>1. k \in DOMAIN unswept /\ unswept'[k] = unswept[k] BY <1>6, <2>2
    <3>2. unswept[k] \in BucketRec /\ unswept[k].last <= now BY <3>1 DEF LimiterInv
    <3>3. (k \in DOMAIN buckets') = (k \in DOMAIN kept) BY <1>6, <2>2
    <3>4. BucketAgrees(k)' BY <1>1, <1>2, <1>6, <2>2, <3>1, <3>3 DEF BucketAgrees
    <3> QED BY <1>1, <3>1, <3>2, <3>4
  <2> QED BY <2>1, <2>2
<1>9. DOMAIN buckets' \subseteq DOMAIN unswept' BY <1>2, <1>6
<1> QED BY <1>1, <1>8, <1>9 DEF LimiterInv

(* And so does every step.                                                  *)
LEMMA LimiterInvStep ==
    ASSUME Limiter!RateLimitAssumption, LimiterInv, [Limiter!Next]_(Limiter!vars)
    PROVE  LimiterInv'
<1>1. CASE Limiter!Tick
  <2>1. now \in Nat /\ now' = now + 1 /\ now' <= MaxTime /\ UNCHANGED <<buckets, unswept>>
    BY <1>1 DEF Limiter!Tick, LimiterInv, Limiter!RateLimitAssumption
  <2>2. \A k \in DOMAIN unswept : unswept[k].last \in Nat /\ unswept[k].last <= now
    BY DEF LimiterInv, BucketRec
  <2>3. \A k \in DOMAIN unswept : BucketAgrees(k)'
    BY <2>1, <2>2, RefillHolds DEF LimiterInv, BucketAgrees
  <2> QED BY <2>1, <2>2, <2>3 DEF LimiterInv
<1>2. CASE \E key \in Keys : Limiter!Allow(key) BY <1>2, AllowStep
<1>3. CASE UNCHANGED Limiter!vars
  BY <1>3 DEF Limiter!vars, LimiterInv, BucketAgrees
<1> QED BY <1>1, <1>2, <1>3 DEF Limiter!Next

(* What is asked of the seconds a refused caller is told to wait: they are  *)
(* no shorter than the delay.                                               *)
LEMMA RetryCovers ==
    ASSUME Limiter!RateLimitAssumption, NEW delay \in Nat
    PROVE  /\ Limiter!RetryAfter(delay) * Second \in Nat
           /\ delay <= Limiter!RetryAfter(delay) * Second
<1>1. Second \in Nat /\ Second > 0 BY DEF Limiter!RateLimitAssumption
<1> DEFINE n == delay + Second - 1
           up == n \div Second
<1>2. n \in Nat BY <1>1
<1>3. up \in Int /\ n = Second * up + (n % Second) /\ 0 <= n % Second /\ n % Second < Second
  BY <1>1, <1>2
<1> HIDE DEF up
<1>4. delay <= Second * up BY <1>1, <1>3
<1>5. Limiter!RetryAfter(delay) = IF up < 1 THEN 1 ELSE up BY DEF Limiter!RetryAfter, up
<1>6. up * Second = Second * up BY <1>1, <1>3
<1>7. CASE up < 1
  <2>1. -up \in Nat /\ Second * (-up) \in Nat BY <1>1, <1>3, <1>7
  <2>2. Second * (-up) = -(Second * up) BY <1>1, <1>3
  <2> QED BY <1>1, <1>3, <1>4, <1>5, <1>7, <2>1, <2>2
<1>8. CASE ~(up < 1)
  <2>1. Second * up \in Nat BY <1>1, <1>3, <1>8
  <2> QED BY <1>3, <1>4, <1>5, <1>6, <1>8, <2>1
<1> QED BY <1>7, <1>8

(* What the limiter promises: its rows have their types, whatever was swept *)
(* and when each key gets the answer and the delay at every later time that *)
(* it would get had nothing been swept (sweep, ratelimit.go), and a caller  *)
(* that waits as long as Retry-After says is allowed (Limit).               *)
THEOREM LimiterKeepsItsWord ==
    ASSUME Limiter!RateLimitAssumption
    PROVE  Limiter!Spec =>
               [](Limiter!TypeOK /\ Limiter!SweepChangesNothing /\ Limiter!RetryIsAllowed)
<1>1. LimiterInv => Limiter!TypeOK
  <2> SUFFICES ASSUME LimiterInv PROVE Limiter!TypeOK OBVIOUS
  <2>1. ASSUME NEW k \in DOMAIN buckets
        PROVE  buckets[k].level \in 0 .. Limiter!Refill /\ buckets[k].last \in 0 .. now
    BY <2>1 DEF LimiterInv, BucketAgrees, BucketRec
  <2> QED BY <2>1 DEF LimiterInv, Limiter!TypeOK, Limiter!RateLimitAssumption
<1>2. LimiterInv => Limiter!SweepChangesNothing
  <2> SUFFICES ASSUME LimiterInv, NEW k \in Keys, NEW t \in Limiter!Later
               PROVE  Limiter!Delay(buckets, k, t) = Limiter!Delay(unswept, k, t)
    BY DEF Limiter!SweepChangesNothing
  <2>1. t \in Nat /\ now <= t /\ now \in Nat
    BY RefillHolds DEF Limiter!Later, LimiterInv, Limiter!RateLimitAssumption
  <2>2. k \in DOMAIN unswept => unswept[k] \in BucketRec /\ unswept[k].last <= t
    BY <2>1 DEF LimiterInv, BucketRec
  <2>3. k \in DOMAIN unswept =>
            IF k \in DOMAIN buckets THEN buckets[k] = unswept[k] ELSE t - unswept[k].last >= Limiter!Refill
    BY <2>1, <2>2, RefillHolds DEF LimiterInv, BucketAgrees, BucketRec
  <2> QED BY <2>1, <2>2, <2>3, DeletedIsFull DEF LimiterInv
<1>3. LimiterInv => Limiter!RetryIsAllowed
  <2> SUFFICES ASSUME LimiterInv, NEW k \in Keys, NEW t \in Limiter!Later,
                      NEW delay, delay = Limiter!Delay(buckets, k, t), delay > 0
               PROVE  Limiter!Delay(buckets, k, t + Limiter!RetryAfter(delay) * Second) = 0
    BY DEF Limiter!RetryIsAllowed
  <2>1. t \in Nat /\ now <= t /\ now \in Nat
    BY RefillHolds DEF Limiter!Later, LimiterInv, Limiter!RateLimitAssumption
  <2>2. k \in DOMAIN buckets => buckets[k] \in BucketRec /\ buckets[k].last <= t
    BY <2>1 DEF LimiterInv, BucketRec, BucketAgrees
  <2>3. k \in DOMAIN buckets
    <3>1. Limiter!Full(t).level = Limiter!Refill /\ Limiter!Full(t).last = t BY DEF Limiter!Full
    <3>2. Limiter!Advanced(Limiter!Full(t), t) = Limiter!Refill
      BY <2>1, <3>1, RefillHolds DEF Limiter!Advanced
    <3> QED BY <3>2, RefillHolds DEF Limiter!Delay, Limiter!BucketOf
  <2>4. PICK b : b = buckets[k] OBVIOUS
  <2>5. b \in BucketRec /\ b.last <= t BY <2>2, <2>3, <2>4
  <2>6. delay \in Nat /\ delay = Interval - Limiter!Advanced(b, t)
    BY <2>1, <2>3, <2>4, <2>5, AdvancedHolds, RefillHolds DEF Limiter!Delay, Limiter!BucketOf
  <2>7. PICK later : later = t + Limiter!RetryAfter(delay) * Second OBVIOUS
  <2>8. later \in Nat /\ later >= t + delay BY <2>1, <2>6, <2>7, RetryCovers
  <2>9. Limiter!Advanced(b, later) >= Interval
    BY <2>1, <2>5, <2>6, <2>8, RefillHolds DEF Limiter!Advanced, BucketRec
  <2> QED BY <2>3, <2>4, <2>7, <2>9 DEF Limiter!Delay, Limiter!BucketOf
<1> QED BY <1>1, <1>2, <1>3, LimiterInvInit, LimiterInvStep, PTL DEF Limiter!Spec
=============================================================================
