------------------------------- MODULE MCAccess -------------------------------
(***************************************************************************)
(* The ways into the app, side by side: part says which of the models a    *)
(* behaviour is of.  The constants and variables of Credentials are its    *)
(* own, and rest in an install whose account is closed in the other parts; *)
(* the variables of the other models are Off in the parts that are not     *)
(* theirs.  Two parts of a model are two instances: "sessions_last" runs a *)
(* session to its end, "setup_open" has sign-up on, and "codes" has more   *)
(* than one batch.  In every part two requests are in flight.              *)
(***************************************************************************)
EXTENDS Credentials, TLC

CONSTANTS
    Parts,   \* the parts a run takes
    Off, NoLink,
    r1, r2,                          \* requests
    a1, a2, a3, b1, b2, c1, c2, d1, e1   \* the rows and values of each part, alike within a letter

VARIABLES
    part,
    clock, pending,                                          \* now and req but in Credentials
    member, last, changes, session, spent, cookie, used, dated, \* Sessions
    account, garden, owner, link, made, firsts, met, risked,  \* Setup
    closed1, passkey1, ceremonies1, issued1, sessions1, codes1,   \* Credentials, codes
    buckets, lastSweep, unswept, allowed                     \* RateLimit

sessionVars == <<member, last, changes, session, spent, cookie, used, dated>>
setupVars == <<account, garden, owner, link, made, firsts, met, risked>>
codesVars == <<closed1, passkey1, ceremonies1, issued1, sessions1, codes1>>
limiterVars == <<buckets, lastSweep, unswept, allowed>>
partVars == <<part, vars, clock, pending, sessionVars, setupVars, codesVars, limiterVars>>

Both == {r1, r2}
As == {a1, a2, a3}
Bs == {b1, b2}
Cs == {c1, c2}
D == {d1}
E == {e1}
First == {1}
FirstTwo == {1, 2}
Soon == {2}
Late == {11}
ToTheEnd == {1, 2, 10, 11}

Symmetry == Permutations(As) \cup Permutations(Bs) \cup Permutations(Cs) \cup Permutations(Both)

Sess == INSTANCE Sessions WITH
    Tokens <- D, Gardens <- FirstTwo, Requests <- Both, ttl <- 10, touchInterval <- 2,
    EndTimes <- Soon, MaxChanges <- 2, Times <- FirstTwo, now <- clock, req <- pending
SessLast == INSTANCE Sessions WITH
    Tokens <- D, Gardens <- First, Requests <- Both, ttl <- 10, touchInterval <- 2,
    EndTimes <- Late, MaxChanges <- 1, Times <- ToTheEnd, now <- clock, req <- pending
Set == INSTANCE Setup WITH
    Gardens <- Cs, Users <- As, Links <- Bs, Requests <- Both, enabled <- FALSE,
    InviteLifetime <- 2, linkGrace <- 0, MaxTime <- 2, now <- clock, req <- pending
SetOpen == INSTANCE Setup WITH
    Gardens <- Cs, Users <- Bs, Links <- {}, Requests <- Both, enabled <- TRUE,
    InviteLifetime <- 2, linkGrace <- 0, MaxTime <- 0, now <- clock, req <- pending
CredCodes == INSTANCE Credentials WITH
    Keys <- Cs, Challenges <- E, Batches <- FirstTwo, MaxCount <- 0, now <- clock,
    req <- pending, closed <- closed1, passkey <- passkey1, ceremonies <- ceremonies1,
    issued <- issued1, sessions <- sessions1, codes <- codes1
Limiter == INSTANCE RateLimit WITH
    Keys <- Bs, Interval <- 3, Burst <- 2, Second <- 2, MaxTime <- 7, now <- clock

ASSUME Sess!SessionsAssumption /\ SessLast!SessionsAssumption
ASSUME Set!SetupAssumption /\ SetOpen!SetupAssumption
ASSUME CredentialsAssumption /\ CredCodes!CredentialsAssumption
ASSUME Limiter!RateLimitAssumption

-----------------------------------------------------------------------------

Resting ==
    /\ now = 0 /\ closed = Users /\ passkey = [k \in Keys |-> NoKey] /\ ceremonies = {}
    /\ issued = {} /\ sessions = {} /\ codes = {} /\ req = [r \in Requests |-> Idle]
NoSessions ==
    /\ member = Off /\ last = Off /\ changes = Off
    /\ session = Off /\ spent = Off /\ cookie = Off /\ used = Off /\ dated = Off
NoSetup ==
    /\ account = Off /\ garden = Off /\ owner = Off /\ link = Off /\ made = Off /\ firsts = Off
    /\ met = Off /\ risked = Off
NoCodes ==
    /\ closed1 = Off /\ passkey1 = Off /\ ceremonies1 = Off /\ issued1 = Off /\ sessions1 = Off
    /\ codes1 = Off
NoLimiter == buckets = Off /\ lastSweep = Off /\ unswept = Off /\ allowed = Off

InitParts ==
    /\ part \in Parts
    /\ \/ /\ part = "credentials" /\ Init
          /\ clock = Off /\ pending = Off /\ NoSessions /\ NoSetup /\ NoCodes /\ NoLimiter
       \/ /\ Resting
          /\ \/ part = "sessions" /\ Sess!Init /\ NoSetup /\ NoCodes /\ NoLimiter
             \/ part = "sessions_last" /\ SessLast!Init /\ NoSetup /\ NoCodes /\ NoLimiter
             \/ part = "setup" /\ Set!Init /\ NoSessions /\ NoCodes /\ NoLimiter
             \/ part = "setup_open" /\ SetOpen!Init /\ NoSessions /\ NoCodes /\ NoLimiter
             \/ part = "codes" /\ CredCodes!Init /\ NoSessions /\ NoSetup /\ NoLimiter
             \/ part = "limiter" /\ Limiter!Init /\ pending = Off /\ NoSessions /\ NoSetup /\ NoCodes

KeepSessions == UNCHANGED sessionVars
KeepSetup == UNCHANGED setupVars
KeepCodes == UNCHANGED codesVars
KeepLimiter == UNCHANGED limiterVars
KeepAll == UNCHANGED <<clock, pending>> /\ KeepSessions /\ KeepSetup /\ KeepCodes /\ KeepLimiter

NextParts ==
    /\ UNCHANGED part
    /\ \/ part = "credentials" /\ Next /\ KeepAll
       \/ /\ UNCHANGED vars
          /\ \/ part = "sessions" /\ Sess!Next /\ KeepSetup /\ KeepCodes /\ KeepLimiter
             \/ part = "sessions_last" /\ SessLast!Next /\ KeepSetup /\ KeepCodes /\ KeepLimiter
             \/ part = "setup" /\ Set!Next /\ KeepSessions /\ KeepCodes /\ KeepLimiter
             \/ part = "setup_open" /\ SetOpen!Next /\ KeepSessions /\ KeepCodes /\ KeepLimiter
             \/ part = "codes" /\ CredCodes!Next /\ KeepSessions /\ KeepSetup /\ KeepLimiter
             \/ /\ part = "limiter" /\ Limiter!Next /\ UNCHANGED pending
                /\ KeepSessions /\ KeepSetup /\ KeepCodes

SideBySide == InitParts /\ [][NextParts]_partVars

-----------------------------------------------------------------------------
(* What holds of the parts besides CredentialsAgree and UsedOnce, which are *)
(* of Credentials.                                                          *)

(* Sessions: the rows have their types, and nobody comes back in: a session *)
(* that was signed out, swept or expired never works again, not through the *)
(* refresh of a request that read it before (TouchSession), and a request   *)
(* is let into a garden only by a membership that works at that moment      *)
(* (Resolve).                                                               *)
OutStaysOut ==
    /\ [](part = "sessions" => Sess!TypeOK)
    /\ [](part = "sessions_last" => SessLast!TypeOK)
    /\ [][part = "sessions" => Sess!OutStaysOut]_partVars
    /\ [][part = "sessions_last" => SessLast!OutStaysOut]_partVars

(* A session in use lasts, but for the refresh it is not given within       *)
(* touchInterval or by a request that is behind; only a session that has    *)
(* run out is deleted as expired, or one dated since it was found so        *)
(* (Lookup, DeleteExpiredSessions); and an account's recovery codes are of  *)
(* one batch, but for creations under way at once (createCodes).            *)
RenewalsHold ==
    /\ [](part = "codes" => CredCodes!OneBatch)
    /\ [][part = "sessions_last" => SessLast!SessionsLast]_partVars

(* Setup: the rows have their types, and however two requests interleave a  *)
(* setup link makes one garden and with sign-up off one account is made     *)
(* without a link (claim, LockUsers), and a garden has an owner whose       *)
(* account is open unless it was set up while a closing of that account was *)
(* under way (ListGardensOnlyThisUserOwns).                                 *)
SetupHolds ==
    /\ part = "setup" => Set!TypeOK /\ Set!UsedOnce /\ Set!OwnerStays
    /\ part = "setup_open" => SetOpen!TypeOK /\ SetOpen!OwnerStays

(* Setup: a garden has an owner whose account is open, also when two        *)
(* requests interleave; a setup that meets a closing account breaks it.     *)
GardenHasOwner == part = "setup_open" => SetOpen!GardenHasOwner

(* RateLimit: deleting idle buckets changes no later answer, a key gets no  *)
(* more than a burst and what it has earned since, and a call that waits    *)
(* for its Retry-After is allowed (sweep, Allow, RetryAfter).               *)
LimiterHolds ==
    part = "limiter" =>
        /\ Limiter!TypeOK /\ Limiter!SweepChangesNothing
        /\ Limiter!BudgetHolds /\ Limiter!RetryIsAllowed
=============================================================================
