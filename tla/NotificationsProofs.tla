------------------------- MODULE NotificationsProofs -------------------------
(***************************************************************************)
(* The Notifications page and its pushes, for every number of accounts,    *)
(* browsers, requests and sends and every cap: no account goes over its    *)
(* cap, the date on a browser is of a push to the account it is on, and a  *)
(* push service's late answer takes no browser from another account.       *)
(***************************************************************************)
EXTENDS Notifications, TLAPS, FiniteSetTheorems

-----------------------------------------------------------------------------
(* The inductive invariant.                                                *)

RowRec == [id : Nat, user : Users, sent : {None} \cup Users]
Target == [endpoint : Endpoints, id : Nat, user : Users]
SendRec == [at : {"idle", "next", "record", "delete"}, left : SUBSET Target, row : {None} \cup Target]

Subscribing == {"lock", "count", "upsert"}
SubscribeRec == [op : Subscribing, user : Users, endpoint : Endpoints]

\* What a request carries from one statement to the next.
RequestTypes(x) ==
    /\ x.op \in {"idle", "save"} \cup Subscribing
    /\ x.op \in Subscribing => x \in SubscribeRec
    /\ x.op = "save" => x.user \in Users /\ x.activity \in BOOLEAN /\ x.hour \in 0 .. 23

RowTypes ==
    /\ rows \in [DOMAIN rows -> RowRec] /\ DOMAIN rows \subseteq Endpoints /\ IsFiniteSet(DOMAIN rows)
    /\ given \in 0 .. MaxRows
    /\ \A e \in DOMAIN rows : rows[e].id \in 1 .. given
    /\ \A d, e \in DOMAIN rows : rows[d].id = rows[e].id => d = e

RequestInv ==
    /\ lock \in [Users -> Requests \cup {None}]
    /\ settings \in [Users -> [activity : BOOLEAN, hour : 0 .. 23]]
    /\ DOMAIN reqs = Requests /\ \A r \in Requests : RequestTypes(reqs[r])

SendTypes == sends \in [Sends -> SendRec]

\* The browsers of an account.
Devices(u) == {x \in DOMAIN rows : rows[x].user = u}

\* A request that counts, or has counted, holds the account's row, and what it
\* has counted leaves room for one more.
CapInv ==
    /\ \A r \in Requests : reqs[r].op \in {"count", "upsert"} => lock[reqs[r].user] = r
    /\ \A r \in Requests : reqs[r].op = "upsert" =>
          Cardinality(Devices(reqs[r].user) \ {reqs[r].endpoint}) < maxPushSubscriptions
    /\ \A u \in Users : Cardinality(Devices(u)) <= maxPushSubscriptions

Inv == RowTypes /\ RequestInv /\ SendTypes /\ CapInv /\ DatesAreOwn

-----------------------------------------------------------------------------
(* Sets of browsers.                                                       *)

(* The browsers of an account are finitely many.                            *)
LEMMA DevicesFinite ==
    ASSUME RowTypes, NEW u
    PROVE  IsFiniteSet(Devices(u)) /\ Cardinality(Devices(u)) \in Nat
<1>1. Devices(u) \in SUBSET (DOMAIN rows) /\ IsFiniteSet(DOMAIN rows) BY DEF Devices, RowTypes
<1>2. IsFiniteSet(Devices(u)) BY <1>1, FS_Subset
<1> QED BY <1>2, FS_CardinalityType

(* Fewer browsers, and fewer beside one of them.                            *)
LEMMA FewerDevices ==
    ASSUME NEW S, IsFiniteSet(S), NEW T \in SUBSET S, NEW e
    PROVE  /\ Cardinality(T) \in Nat /\ Cardinality(S) \in Nat /\ Cardinality(T) <= Cardinality(S)
           /\ Cardinality(T \ {e}) \in Nat /\ Cardinality(S \ {e}) \in Nat
           /\ Cardinality(T \ {e}) <= Cardinality(S \ {e})
<1>1. IsFiniteSet(T) /\ Cardinality(T) <= Cardinality(S) BY FS_Subset
<1>2. IsFiniteSet(S \ {e}) /\ IsFiniteSet(T \ {e}) BY <1>1, FS_RemoveElement
<1>3. T \ {e} \in SUBSET (S \ {e}) OBVIOUS
<1>4. Cardinality(T \ {e}) <= Cardinality(S \ {e}) BY <1>2, <1>3, FS_Subset
<1> QED BY <1>1, <1>2, <1>4, FS_CardinalityType

(* One browser beside fewer than n is at most n of them.                    *)
LEMMA OneMore ==
    ASSUME NEW S, IsFiniteSet(S), NEW e, NEW n \in Nat, Cardinality(S \ {e}) < n,
           NEW T, T \subseteq (S \ {e}) \cup {e}
    PROVE  Cardinality(T) <= n
<1>1. IsFiniteSet(S \ {e}) BY FS_RemoveElement
<1>2. Cardinality(S \ {e}) \in Nat BY <1>1, FS_CardinalityType
<1>3. IsFiniteSet((S \ {e}) \cup {e}) /\ Cardinality((S \ {e}) \cup {e}) = Cardinality(S \ {e}) + 1
  BY <1>1, FS_AddElement
<1>4. IsFiniteSet(T) /\ Cardinality(T) <= Cardinality((S \ {e}) \cup {e})
  <2>1. T \in SUBSET ((S \ {e}) \cup {e}) OBVIOUS
  <2> QED BY <1>3, <2>1, FS_Subset
<1>5. Cardinality(T) \in Nat BY <1>4, FS_CardinalityType
<1> QED BY <1>2, <1>3, <1>4, <1>5

(* The rows a send lists for an account are no more than its browsers.      *)
LEMMA RowsAreDevices ==
    ASSUME RowTypes, NEW u
    PROVE  /\ Cardinality(RowsOf(u)) <= Cardinality(Devices(u))
           /\ Cardinality(RowsOf(u)) \in Nat
<1>1. PICK f : f = [x \in Devices(u) |-> RowAt(x)] OBVIOUS
<1>2. RowsOf(u) = {RowAt(x) : x \in Devices(u)} BY DEF RowsOf, Devices
<1>3. f \in [Devices(u) -> RowsOf(u)] /\ \A t \in RowsOf(u) : \E x \in Devices(u) : f[x] = t
  BY <1>1, <1>2
<1>4. f \in Surjection(Devices(u), RowsOf(u)) BY <1>3 DEF Surjection
<1>5. IsFiniteSet(RowsOf(u)) /\ Cardinality(RowsOf(u)) <= Cardinality(Devices(u))
  BY <1>4, DevicesFinite, FS_Surjection
<1> QED BY <1>5, FS_CardinalityType

(* What a send lists are browsers.                                          *)
LEMMA ListedAreTargets ==
    ASSUME RowTypes, NEW u
    PROVE  RowsOf(u) \subseteq Target
BY DEF RowTypes, RowsOf, RowAt, Target, RowRec

-----------------------------------------------------------------------------
(* Steps.                                                                  *)

\* Rows are dropped, or what they say of their last send changes.
RowsGo ==
    /\ rows' \in [DOMAIN rows' -> RowRec] /\ DOMAIN rows' \subseteq DOMAIN rows
    /\ \A e \in DOMAIN rows' : /\ rows'[e].id = rows[e].id /\ rows'[e].user = rows[e].user
                               /\ rows'[e].sent \in {rows[e].sent, rows[e].user}

(* Then the rows have their types, and the dates their owner.               *)
LEMMA RowsGoTypes ==
    ASSUME Inv, RowsGo, UNCHANGED given
    PROVE  RowTypes' /\ DatesAreOwn'
<1>1. IsFiniteSet(DOMAIN rows') BY FS_Subset DEF Inv, RowTypes, RowsGo
<1>2. RowTypes' BY <1>1 DEF Inv, RowTypes, RowsGo
<1>3. DatesAreOwn' BY DEF Inv, DatesAreOwn, RowsGo
<1> QED BY <1>2, <1>3

(* A step that adds no browser to an account, after which no request has    *)
(* counted but those that had.                                              *)
LEMMA CapKept ==
    ASSUME NotificationsAssumption, Inv, RowsGo \/ UNCHANGED rows,
           \A q \in Requests : reqs'[q].op \in {"count", "upsert"} => lock'[reqs'[q].user] = q,
           \A q \in Requests : reqs'[q].op = "upsert" =>
              \/ reqs'[q] = reqs[q]
              \/ /\ reqs'[q].user \in Users
                 /\ Cardinality(Devices(reqs'[q].user) \ {reqs'[q].endpoint}) < maxPushSubscriptions
    PROVE  CapInv'
<1>1. ASSUME NEW u
      PROVE  IsFiniteSet(Devices(u)) /\ Devices(u)' \in SUBSET Devices(u)
  <2>1. Devices(u)' \subseteq Devices(u) BY DEF Devices, RowsGo
  <2> QED BY <2>1, DevicesFinite DEF Inv
<1>2. maxPushSubscriptions \in Nat BY DEF NotificationsAssumption
<1>3. \A u \in Users : Cardinality(Devices(u)') <= maxPushSubscriptions
  <2>1. ASSUME NEW u \in Users PROVE Cardinality(Devices(u)') <= maxPushSubscriptions
    <3>1. /\ Cardinality(Devices(u)') \in Nat /\ Cardinality(Devices(u)) \in Nat
          /\ Cardinality(Devices(u)') <= Cardinality(Devices(u))
      BY <1>1, FewerDevices
    <3>2. Cardinality(Devices(u)) <= maxPushSubscriptions BY DEF Inv, CapInv
    <3> QED BY <1>2, <3>1, <3>2
  <2> QED BY <2>1
<1>4. ASSUME NEW q \in Requests, reqs'[q].op = "upsert"
      PROVE  Cardinality((Devices(reqs[q].user) \ {reqs[q].endpoint})') < maxPushSubscriptions
  <2>1. PICK u, e : u = reqs'[q].user /\ e = reqs'[q].endpoint OBVIOUS
  <2>2. Cardinality(Devices(u) \ {e}) < maxPushSubscriptions
    BY <1>4, <2>1 DEF Inv, CapInv
  <2>3. /\ Cardinality(Devices(u)' \ {e}) \in Nat /\ Cardinality(Devices(u) \ {e}) \in Nat
        /\ Cardinality(Devices(u)' \ {e}) <= Cardinality(Devices(u) \ {e})
    BY <1>1, FewerDevices
  <2>4. Cardinality(Devices(u)' \ {e}) < maxPushSubscriptions BY <1>2, <2>2, <2>3
  <2> QED BY <2>1, <2>4 DEF Devices
<1> QED BY <1>3, <1>4 DEF CapInv

(* A request that goes on as x leaves the others where they are.            *)
LEMMA OneRequest ==
    ASSUME RequestInv, NEW r \in Requests, NEW x, reqs' = [reqs EXCEPT ![r] = x], RequestTypes(x)
    PROVE  /\ reqs'[r] = x /\ \A q \in Requests : q # r => reqs'[q] = reqs[q]
           /\ DOMAIN reqs' = Requests /\ \A q \in Requests : RequestTypes(reqs'[q])
<1>1. /\ reqs'[r] = x /\ \A q \in Requests : q # r => reqs'[q] = reqs[q]
      /\ DOMAIN reqs' = Requests
  BY DEF RequestInv
<1>2. \A q \in Requests : RequestTypes(reqs[q]) BY DEF RequestInv
<1>3. ASSUME NEW q \in Requests PROVE RequestTypes(reqs'[q])
  <2>1. CASE q = r BY <1>1, <2>1
  <2>2. CASE q # r
    <3>1. reqs'[q] = reqs[q] /\ RequestTypes(reqs[q]) BY <1>1, <1>2, <2>2
    <3> QED BY <3>1
  <2> QED BY <2>1, <2>2
<1> QED BY <1>1, <1>3

(* A request that has ended carries nothing.                                *)
LEMMA IdleTypes == RequestTypes(Idle) /\ Idle.op = "idle"
BY DEF RequestTypes, Idle, Subscribing

(* A request that adds a browser.                                           *)
LEMMA SubscribeRequest ==
    ASSUME RequestInv, NEW r \in Requests, reqs[r].op \in Subscribing
    PROVE  reqs[r] \in SubscribeRec /\ reqs[r].user \in Users /\ reqs[r].endpoint \in Endpoints
BY DEF RequestInv, RequestTypes, SubscribeRec

(* A request that goes on and has not counted, the rows left alone.         *)
LEMMA RequestGoes ==
    ASSUME NotificationsAssumption, Inv, NEW r \in Requests, NEW x,
           reqs' = [reqs EXCEPT ![r] = x], RequestTypes(x), x.op \notin {"count", "upsert"},
           UNCHANGED <<rows, given, sends>>,
           settings' \in [Users -> [activity : BOOLEAN, hour : 0 .. 23]],
           \/ UNCHANGED lock
           \/ reqs[r].op = "count" /\ lock' = [lock EXCEPT ![reqs[r].user] = None]
    PROVE  Inv'
<1>1. /\ reqs'[r] = x /\ \A q \in Requests : q # r => reqs'[q] = reqs[q]
      /\ DOMAIN reqs' = Requests /\ \A q \in Requests : RequestTypes(reqs'[q])
  BY OneRequest DEF Inv
<1>2. lock' \in [Users -> Requests \cup {None}]
  <2>1. CASE UNCHANGED lock BY <2>1 DEF Inv, RequestInv
  <2>2. CASE lock' = [lock EXCEPT ![reqs[r].user] = None] BY <2>2 DEF Inv, RequestInv
  <2> QED BY <2>1, <2>2
<1>3. RequestInv' BY <1>1, <1>2 DEF RequestInv, RequestTypes
<1>4. ASSUME NEW q \in Requests, reqs'[q].op \in {"count", "upsert"}
      PROVE  reqs'[q] = reqs[q] /\ lock'[reqs'[q].user] = q
  <2>1. q # r /\ reqs'[q] = reqs[q] BY <1>1, <1>4
  <2>2. lock[reqs[q].user] = q BY <1>4, <2>1 DEF Inv, CapInv
  <2>3. CASE UNCHANGED lock BY <2>1, <2>2, <2>3
  <2>4. CASE reqs[r].op = "count" /\ lock' = [lock EXCEPT ![reqs[r].user] = None]
    <3>1. lock[reqs[r].user] = r BY <2>4 DEF Inv, CapInv
    <3>2. reqs[q].user # reqs[r].user BY <2>1, <2>2, <3>1
    <3>3. reqs[q].user \in Users BY <1>4, <2>1, SubscribeRequest DEF Inv, Subscribing
    <3> QED BY <2>1, <2>2, <2>4, <3>2, <3>3 DEF Inv, RequestInv
  <2> QED BY <2>3, <2>4
<1>5. CapInv' BY <1>4, CapKept
<1>6. RowTypes' /\ SendTypes' /\ DatesAreOwn' BY DEF Inv, RowTypes, SendTypes, DatesAreOwn
<1> QED BY <1>3, <1>5, <1>6 DEF Inv

(* The steps of requests that add no browser and lock nothing.              *)
LEMMA OtherRequestStep ==
    ASSUME NotificationsAssumption, Inv, NEW r \in Requests,
           \/ saveNotifications(r)
           \/ \E u \in Users, e \in Endpoints : subscribeBrowser(r, u, e)
           \/ \E u \in Users, activity \in BOOLEAN, posted \in Hours \cup {None} :
                 ReadToSave(r, u, activity, posted)
    PROVE  Inv'
<1>1. ASSUME saveNotifications(r) PROVE Inv'
  <2>1. RequestTypes(reqs[r]) /\ reqs[r].op = "save" BY <1>1 DEF saveNotifications, Inv, RequestInv
  <2>2. reqs[r].activity \in BOOLEAN /\ reqs[r].hour \in 0 .. 23 BY <2>1 DEF RequestTypes
  <2>3. settings' \in [Users -> [activity : BOOLEAN, hour : 0 .. 23]]
    BY <1>1, <2>2 DEF saveNotifications, Inv, RequestInv
  <2> QED BY <1>1, <2>3, RequestGoes, IdleTypes DEF saveNotifications, Answered
<1>2. ASSUME NEW u \in Users, NEW e \in Endpoints, subscribeBrowser(r, u, e) PROVE Inv'
  <2>1. PICK x : x = [op |-> "lock", user |-> u, endpoint |-> e] OBVIOUS
  <2>2. x.op = "lock" /\ RequestTypes(x) BY <2>1 DEF RequestTypes, Subscribing, SubscribeRec
  <2>3. settings' \in [Users -> [activity : BOOLEAN, hour : 0 .. 23]]
    BY <1>2 DEF subscribeBrowser, Inv, RequestInv
  <2> QED BY <1>2, <2>1, <2>2, <2>3, RequestGoes DEF subscribeBrowser
<1>3. ASSUME NEW u \in Users, NEW a \in BOOLEAN, NEW p \in Hours \cup {None}, ReadToSave(r, u, a, p)
      PROVE  Inv'
  <2>1. PICK h : h = (IF p = None THEN settings[u].hour ELSE p) OBVIOUS
  <2>2. h \in 0 .. 23
    <3>1. settings[u].hour \in 0 .. 23 BY DEF Inv, RequestInv
    <3> QED BY <1>3, <2>1, <3>1 DEF ReadToSave, offeredHour
  <2>3. PICK x : x = [op |-> "save", user |-> u, activity |-> a, posted |-> p, hour |-> h] OBVIOUS
  <2>4. x.op = "save" /\ x.user = u /\ x.activity = a /\ x.hour = h BY <2>3
  <2>5. RequestTypes(x) BY <2>2, <2>4 DEF RequestTypes, Subscribing
  <2>6. reqs' = [reqs EXCEPT ![r] = x] BY <1>3, <2>1, <2>3 DEF ReadToSave
  <2>7. settings' \in [Users -> [activity : BOOLEAN, hour : 0 .. 23]]
    BY <1>3 DEF ReadToSave, Inv, RequestInv
  <2> QED BY <1>3, <2>4, <2>5, <2>6, <2>7, RequestGoes DEF ReadToSave
<1> QED BY <1>1, <1>2, <1>3

(* A request that has the account's row is the only one that has it.        *)
LEMMA LockStep ==
    ASSUME NotificationsAssumption, Inv, NEW r \in Requests, LockUser(r)
    PROVE  Inv'
<1>1. PICK u, x : u = reqs[r].user /\ x = [reqs[r] EXCEPT !.op = "count"] OBVIOUS
<1>2. reqs[r] \in SubscribeRec /\ u \in Users
  BY <1>1, SubscribeRequest DEF LockUser, Inv, Subscribing
<1>3. x \in SubscribeRec /\ x.op = "count" /\ x.user = u BY <1>1, <1>2 DEF SubscribeRec, Subscribing
<1>4. RequestTypes(x) BY <1>3 DEF RequestTypes, Subscribing
<1>5. reqs' = [reqs EXCEPT ![r] = x] BY <1>1 DEF LockUser
<1>6. /\ reqs'[r] = x /\ \A q \in Requests : q # r => reqs'[q] = reqs[q]
      /\ DOMAIN reqs' = Requests /\ \A q \in Requests : RequestTypes(reqs'[q])
  BY <1>4, <1>5, OneRequest DEF Inv
<1>7. /\ lock' \in [Users -> Requests \cup {None}] /\ lock'[u] = r /\ lock[u] = None
      /\ \A v \in Users : v # u => lock'[v] = lock[v]
  BY <1>1, <1>2 DEF LockUser, MayLock, Inv, RequestInv
<1>8. UNCHANGED <<rows, given, settings, sends>> BY DEF LockUser
<1>9. RequestInv' BY <1>6, <1>7, <1>8 DEF Inv, RequestInv, RequestTypes
<1>10. ASSUME NEW q \in Requests, reqs'[q].op \in {"count", "upsert"}
       PROVE  lock'[reqs'[q].user] = q
  <2>1. CASE q = r BY <1>3, <1>6, <1>7, <2>1
  <2>2. CASE q # r
    <3>1. reqs'[q] = reqs[q] BY <1>6, <2>2
    <3>2. lock[reqs[q].user] = q /\ reqs[q].user \in Users
      BY <1>10, <3>1, SubscribeRequest DEF Inv, CapInv, Subscribing
    <3>3. reqs[q].user # u BY <1>7, <3>2 DEF NotificationsAssumption
    <3> QED BY <1>7, <3>1, <3>2, <3>3
  <2> QED BY <2>1, <2>2
<1>11. \A q \in Requests : reqs'[q].op = "upsert" => reqs'[q] = reqs[q] BY <1>3, <1>6
<1>12. CapInv' BY <1>8, <1>10, <1>11, CapKept
<1>13. RowTypes' /\ SendTypes' /\ DatesAreOwn' BY <1>8 DEF Inv, RowTypes, SendTypes, DatesAreOwn
<1> QED BY <1>9, <1>12, <1>13 DEF Inv

(* What it counts leaves room, or it ends.                                  *)
LEMMA CountStep ==
    ASSUME NotificationsAssumption, Inv, NEW r \in Requests, Count(r)
    PROVE  Inv'
<1>0. reqs[r].op = "count" /\ UNCHANGED <<rows, given, settings, sends>> BY DEF Count
<1>1. CASE Answered(r) /\ lock' = [lock EXCEPT ![reqs[r].user] = None]
  <2>1. settings' \in [Users -> [activity : BOOLEAN, hour : 0 .. 23]] BY <1>0 DEF Inv, RequestInv
  <2> QED BY <1>0, <1>1, <2>1, RequestGoes, IdleTypes DEF Answered
<1>2. CASE /\ ~ (CountOtherPushSubscriptions(reqs[r].user, reqs[r].endpoint) >= maxPushSubscriptions)
           /\ reqs' = [reqs EXCEPT ![r].op = "upsert"] /\ UNCHANGED lock
  <2>1. PICK u, e, x : /\ u = reqs[r].user /\ e = reqs[r].endpoint
                       /\ x = [reqs[r] EXCEPT !.op = "upsert"]
    OBVIOUS
  <2>2. reqs[r] \in SubscribeRec /\ u \in Users
    BY <1>0, <2>1, SubscribeRequest DEF Inv, Subscribing
  <2>3. x \in SubscribeRec /\ x.op = "upsert" /\ x.user = u /\ x.endpoint = e
    BY <2>1, <2>2 DEF SubscribeRec, Subscribing
  <2>4. RequestTypes(x) BY <2>3 DEF RequestTypes, Subscribing
  <2>5. reqs' = [reqs EXCEPT ![r] = x] BY <1>2, <2>1
  <2>6. /\ reqs'[r] = x /\ \A q \in Requests : q # r => reqs'[q] = reqs[q]
        /\ DOMAIN reqs' = Requests /\ \A q \in Requests : RequestTypes(reqs'[q])
    BY <2>4, <2>5, OneRequest DEF Inv
  <2>7. RequestInv' BY <1>0, <1>2, <2>6 DEF Inv, RequestInv, RequestTypes
  <2>8. Cardinality(Devices(u) \ {e}) < maxPushSubscriptions
    <3>1. {y \in DOMAIN rows \ {e} : rows[y].user = u} = Devices(u) \ {e} BY DEF Devices
    <3>2. ~ (Cardinality(Devices(u) \ {e}) >= maxPushSubscriptions)
      BY <1>2, <2>1, <3>1 DEF CountOtherPushSubscriptions
    <3>3. Cardinality(Devices(u) \ {e}) \in Nat
      <4>1. IsFiniteSet(Devices(u)) BY DevicesFinite DEF Inv
      <4> QED BY <4>1, FewerDevices
    <3> QED BY <3>2, <3>3 DEF NotificationsAssumption
  <2>9. ASSUME NEW q \in Requests, reqs'[q].op \in {"count", "upsert"}
        PROVE  lock'[reqs'[q].user] = q
    BY <1>0, <1>2, <2>1, <2>3, <2>6, <2>9 DEF Inv, CapInv
  <2>10. ASSUME NEW q \in Requests, reqs'[q].op = "upsert"
         PROVE  \/ reqs'[q] = reqs[q]
                \/ /\ reqs'[q].user \in Users
                   /\ Cardinality(Devices(reqs'[q].user) \ {reqs'[q].endpoint}) < maxPushSubscriptions
    BY <2>2, <2>3, <2>6, <2>8
  <2>11. CapInv' BY <1>0, <2>9, <2>10, CapKept
  <2>12. RowTypes' /\ SendTypes' /\ DatesAreOwn' BY <1>0 DEF Inv, RowTypes, SendTypes, DatesAreOwn
  <2> QED BY <2>7, <2>11, <2>12 DEF Inv
<1> QED BY <1>1, <1>2 DEF Count

(* The row a browser gets.                                                  *)
LEMMA UpsertedRow ==
    ASSUME NotificationsAssumption, Inv, NEW u \in Users, NEW e \in Endpoints
    PROVE  /\ Upserted(u, e) \in RowRec
           /\ Upserted(u, e).user = u /\ Upserted(u, e).sent \in {None, u}
           /\ Upserted(u, e).id = IF e \in DOMAIN rows THEN rows[e].id ELSE given + 1
<1>1. CASE e \in DOMAIN rows
  <2>1. rows[e] \in RowRec /\ rows[e].sent \in {None, rows[e].user}
    BY <1>1 DEF Inv, RowTypes, DatesAreOwn
  <2>2. PICK t : t = IF rows[e].user = u THEN rows[e].sent ELSE None OBVIOUS
  <2>3. t \in {None, u} BY <2>1, <2>2
  <2>4. PICK y : y = [rows[e] EXCEPT !.user = u, !.sent = t] OBVIOUS
  <2>5. y \in RowRec /\ y.user = u /\ y.sent = t /\ y.id = rows[e].id BY <2>1, <2>3, <2>4 DEF RowRec
  <2>6. Upserted(u, e) = y BY <1>1, <2>1, <2>2, <2>4 DEF Upserted, RowRec
  <2> QED BY <1>1, <2>3, <2>5, <2>6
<1>2. CASE e \notin DOMAIN rows
  <2>1. given + 1 \in Nat BY DEF Inv, RowTypes, NotificationsAssumption
  <2>2. PICK y : y = [id |-> given + 1, user |-> u, sent |-> None] OBVIOUS
  <2>3. y \in RowRec /\ y.user = u /\ y.sent = None /\ y.id = given + 1 BY <2>1, <2>2 DEF RowRec
  <2>4. Upserted(u, e) = y BY <1>2, <2>2 DEF Upserted
  <2> QED BY <1>2, <2>3, <2>4
<1> QED BY <1>1, <1>2

(* The insert: the account that holds its row gets one more than it         *)
(* counted, and every other one no more than it had.                        *)
LEMMA UpsertStep ==
    ASSUME NotificationsAssumption, Inv, NEW r \in Requests, UpsertPushSubscription(r)
    PROVE  Inv'
<1>1. PICK u, e : u = reqs[r].user /\ e = reqs[r].endpoint OBVIOUS
<1>2. u \in Users /\ e \in Endpoints /\ lock[u] = r
  BY <1>1, SubscribeRequest DEF UpsertPushSubscription, Inv, CapInv, Subscribing
<1>3. PICK y : y = Upserted(u, e) OBVIOUS
<1>4. /\ y \in RowRec /\ y.user = u /\ y.sent \in {None, u}
      /\ y.id = IF e \in DOMAIN rows THEN rows[e].id ELSE given + 1
  BY <1>2, <1>3, UpsertedRow
<1>5. /\ DOMAIN rows' = DOMAIN rows \cup {e} /\ rows'[e] = y
      /\ \A d \in DOMAIN rows : d # e => rows'[d] = rows[d]
      /\ rows' = [d \in DOMAIN rows' |-> rows'[d]]
  BY <1>1, <1>3 DEF UpsertPushSubscription
<1>6. /\ e \in DOMAIN rows \/ given < MaxRows
      /\ given' = IF e \in DOMAIN rows THEN given ELSE given + 1
      /\ lock' = [lock EXCEPT ![u] = None]
      /\ reqs' = [reqs EXCEPT ![r] = Idle] /\ UNCHANGED <<settings, sends>>
  BY <1>1 DEF UpsertPushSubscription, Answered
<1>7. RowTypes'
  <2>1. IsFiniteSet(DOMAIN rows') BY <1>5, FS_AddElement DEF Inv, RowTypes
  <2>2. rows' \in [DOMAIN rows' -> RowRec] /\ DOMAIN rows' \subseteq Endpoints
    BY <1>2, <1>4, <1>5 DEF Inv, RowTypes
  <2>3. given \in Nat /\ MaxRows \in Nat /\ given <= MaxRows
    BY DEF Inv, RowTypes, NotificationsAssumption
  <2>4. given' \in 0 .. MaxRows BY <1>6, <2>3
  <2>5. \A d \in DOMAIN rows : rows[d].id \in 1 .. given BY DEF Inv, RowTypes
  <2>6. ASSUME NEW d \in DOMAIN rows' PROVE rows'[d].id \in 1 .. given'
    <3>1. CASE d = e BY <1>4, <1>5, <1>6, <2>3, <2>5, <3>1
    <3>2. CASE d # e
      <4>1. d \in DOMAIN rows /\ rows'[d] = rows[d] /\ rows[d].id \in 1 .. given
        BY <1>5, <2>5, <2>6, <3>2
      <4> QED BY <1>6, <2>3, <4>1
    <3> QED BY <3>1, <3>2
  <2>7. ASSUME NEW d \in DOMAIN rows, d # e PROVE rows'[d].id # y.id
    <3>1. rows'[d] = rows[d] /\ rows[d].id \in 1 .. given BY <1>5, <2>5, <2>7
    <3>2. CASE e \in DOMAIN rows
      <4>1. y.id = rows[e].id BY <1>4, <3>2
      <4>2. rows[d].id # rows[e].id BY <2>7, <3>2 DEF Inv, RowTypes
      <4> QED BY <3>1, <4>1, <4>2
    <3>3. CASE e \notin DOMAIN rows
      <4>1. y.id = given + 1 BY <1>4, <3>3
      <4> QED BY <2>3, <3>1, <4>1
    <3> QED BY <3>2, <3>3
  <2>8. ASSUME NEW c \in DOMAIN rows', NEW d \in DOMAIN rows', rows'[c].id = rows'[d].id PROVE c = d
    <3>1. CASE c = e \/ d = e BY <1>5, <2>7, <2>8, <3>1
    <3>2. CASE c # e /\ d # e BY <1>5, <2>8, <3>2 DEF Inv, RowTypes
    <3> QED BY <3>1, <3>2
  <2> QED BY <2>1, <2>2, <2>4, <2>6, <2>8 DEF RowTypes
<1>8. DatesAreOwn' BY <1>4, <1>5 DEF Inv, DatesAreOwn
<1>9. /\ reqs'[r] = Idle /\ \A q \in Requests : q # r => reqs'[q] = reqs[q]
      /\ DOMAIN reqs' = Requests /\ \A q \in Requests : RequestTypes(reqs'[q])
  BY <1>6, IdleTypes, OneRequest DEF Inv
<1>10. lock' \in [Users -> Requests \cup {None}] BY <1>6 DEF Inv, RequestInv
<1>11. RequestInv' BY <1>6, <1>9, <1>10 DEF Inv, RequestInv, RequestTypes
<1>12. SendTypes' BY <1>6 DEF Inv, SendTypes
<1>13. maxPushSubscriptions \in Nat BY DEF NotificationsAssumption
<1>14. ASSUME NEW v, v # u
       PROVE  IsFiniteSet(Devices(v)) /\ Devices(v)' \in SUBSET Devices(v)
  <2>1. Devices(v)' \subseteq Devices(v) BY <1>4, <1>5, <1>14 DEF Devices
  <2> QED BY <2>1, DevicesFinite DEF Inv
<1>15. ASSUME NEW v \in Users PROVE Cardinality(Devices(v)') <= maxPushSubscriptions
  <2>1. CASE v = u
    <3>1. IsFiniteSet(Devices(u)) BY DevicesFinite DEF Inv
    <3>2. Cardinality(Devices(u) \ {e}) < maxPushSubscriptions
      BY <1>1 DEF UpsertPushSubscription, Inv, CapInv
    <3>3. Devices(u)' \subseteq (Devices(u) \ {e}) \cup {e} BY <1>5 DEF Devices
    <3>4. Cardinality(Devices(u)') <= maxPushSubscriptions BY <1>13, <3>1, <3>2, <3>3, OneMore
    <3> QED BY <2>1, <3>4
  <2>2. CASE v # u
    <3>1. /\ Cardinality(Devices(v)') \in Nat /\ Cardinality(Devices(v)) \in Nat
          /\ Cardinality(Devices(v)') <= Cardinality(Devices(v))
      BY <1>14, <2>2, FewerDevices
    <3>2. Cardinality(Devices(v)) <= maxPushSubscriptions BY DEF Inv, CapInv
    <3> QED BY <1>13, <3>1, <3>2
  <2> QED BY <2>1, <2>2
<1>16. ASSUME NEW q \in Requests, reqs'[q].op \in {"count", "upsert"}
       PROVE  /\ reqs'[q] = reqs[q] /\ reqs[q].user \in Users /\ reqs[q].user # u
              /\ lock'[reqs'[q].user] = q
  <2>1. q # r /\ reqs'[q] = reqs[q] BY <1>9, <1>16, IdleTypes
  <2>2. lock[reqs[q].user] = q /\ reqs[q].user \in Users
    BY <1>16, <2>1, SubscribeRequest DEF Inv, CapInv, Subscribing
  <2>3. reqs[q].user # u BY <1>2, <2>1, <2>2
  <2>4. lock'[reqs[q].user] = q BY <1>6, <2>2, <2>3 DEF Inv, RequestInv
  <2> QED BY <2>1, <2>2, <2>3, <2>4
<1>17. ASSUME NEW q \in Requests, reqs'[q].op = "upsert"
       PROVE  Cardinality((Devices(reqs[q].user) \ {reqs[q].endpoint})') < maxPushSubscriptions
  <2>1. PICK v, d : v = reqs'[q].user /\ d = reqs'[q].endpoint OBVIOUS
  <2>2. reqs'[q] = reqs[q] /\ v # u BY <1>16, <1>17, <2>1
  <2>3. Cardinality(Devices(v) \ {d}) < maxPushSubscriptions BY <1>17, <2>1, <2>2 DEF Inv, CapInv
  <2>4. /\ Cardinality(Devices(v)' \ {d}) \in Nat /\ Cardinality(Devices(v) \ {d}) \in Nat
        /\ Cardinality(Devices(v)' \ {d}) <= Cardinality(Devices(v) \ {d})
    BY <1>14, <2>2, FewerDevices
  <2>5. Cardinality(Devices(v)' \ {d}) < maxPushSubscriptions BY <1>13, <2>3, <2>4
  <2> QED BY <2>1, <2>5 DEF Devices
<1>18. CapInv' BY <1>15, <1>16, <1>17 DEF CapInv
<1> QED BY <1>7, <1>8, <1>11, <1>12, <1>18 DEF Inv

(* A step that drops rows or dates one, and is no request's.                *)
LEMMA RowsGoStep ==
    ASSUME NotificationsAssumption, Inv, RowsGo \/ UNCHANGED rows, SendTypes',
           UNCHANGED <<given, lock, settings, reqs>>
    PROVE  Inv'
<1>1. RowTypes' /\ DatesAreOwn'
  <2>1. CASE RowsGo BY <2>1, RowsGoTypes
  <2>2. CASE UNCHANGED rows BY <2>2 DEF Inv, RowTypes, DatesAreOwn
  <2> QED BY <2>1, <2>2
<1>2. RequestInv' BY DEF Inv, RequestInv, RequestTypes
<1>3. CapInv' BY CapKept DEF Inv, CapInv
<1> QED BY <1>1, <1>2, <1>3 DEF Inv

(* What a DELETE leaves is as it was.                                       *)
LEMMA DeleteGoes ==
    ASSUME Inv, NEW u, NEW id, DeletePushSubscription(u, id)
    PROVE  RowsGo
BY DEF DeletePushSubscription, Restrict, RowsGo, Inv, RowTypes

(* Removing a device.                                                       *)
LEMMA RemoveStep ==
    ASSUME NotificationsAssumption, Inv, NEW w, removeBrowser(w)
    PROVE  Inv'
<1>1. RowsGo BY DeleteGoes DEF removeBrowser
<1>2. SendTypes' BY DEF removeBrowser, Inv, SendTypes
<1> QED BY <1>1, <1>2, RowsGoStep DEF removeBrowser

(* A send that goes on as x, with the rows left alone.                      *)
LEMMA SendGoes ==
    ASSUME NotificationsAssumption, Inv, NEW s \in Sends, NEW x \in SendRec,
           sends' = [sends EXCEPT ![s] = x], RowsGo \/ UNCHANGED rows,
           UNCHANGED <<given, lock, settings, reqs>>
    PROVE  Inv'
<1>1. SendTypes' BY DEF Inv, SendTypes
<1> QED BY <1>1, RowsGoStep

(* A send that starts lists browsers.                                       *)
LEMMA StartStep ==
    ASSUME NotificationsAssumption, Inv, NEW s \in Sends, NEW u \in Users,
           \/ sendActivity(s, u) \/ sendToUser(s, u)
           \/ \E e \in Endpoints : sendTestNotification(s, u, e)
    PROVE  Inv'
<1>0. \A v : RowsOf(v) \subseteq Target BY ListedAreTargets DEF Inv
<1>1. PICK listed : listed \subseteq Target /\ StartSend(s, listed)
  <2>1. ListActivitySubscriptions(u) \subseteq Target BY <1>0 DEF ListActivitySubscriptions
  <2>2. \A e : {w \in RowsOf(u) : w.endpoint = e} \subseteq Target BY <1>0
  <2> QED BY <1>0, <2>1, <2>2 DEF sendActivity, sendToUser, sendTestNotification
<1>2. [at |-> "next", left |-> listed, row |-> None] \in SendRec BY <1>1 DEF SendRec
<1> QED BY <1>1, <1>2, SendGoes DEF StartSend

(* A send's steps.                                                          *)
LEMMA SendStepKeeps ==
    ASSUME NotificationsAssumption, Inv, NEW s \in Sends, SendStep(s)
    PROVE  Inv'
<1>0. sends[s] \in SendRec /\ DOMAIN sends = Sends BY DEF Inv, SendTypes
<1>1. ASSUME NEW w \in sends[s].left, NEW status \in {"ok", "gone", "refused"}, Send(s, w, status)
      PROVE  Inv'
  <2>1. PICK t : t = (CASE status = "ok" -> "record" [] status = "gone" -> "delete" [] OTHER -> "next")
    OBVIOUS
  <2>2. t \in {"next", "record", "delete"} BY <2>1
  <2>3. PICK x : x = [at |-> t, left |-> sends[s].left \ {w}, row |-> w] OBVIOUS
  <2>4. x \in SendRec
    <3>1. sends[s].left \subseteq Target BY <1>0 DEF SendRec
    <3>2. w \in Target /\ sends[s].left \ {w} \subseteq Target BY <1>1, <3>1
    <3> QED BY <2>2, <2>3, <3>2 DEF SendRec
  <2>5. sends' = [sends EXCEPT ![s] = x] BY <1>0, <1>1, <2>1, <2>3 DEF Send
  <2> QED BY <1>1, <2>4, <2>5, SendGoes DEF Send
<1>2. ASSUME NEW t \in {"next"}, NEW left \in SUBSET sends[s].left,
             sends' = [sends EXCEPT ![s] = [sends[s] EXCEPT !.at = t, !.left = left]],
             RowsGo \/ UNCHANGED rows, UNCHANGED <<given, lock, settings, reqs>>
      PROVE  Inv'
  <2>1. [sends[s] EXCEPT !.at = t, !.left = left] \in SendRec
    <3>1. left \subseteq Target BY <1>0 DEF SendRec
    <3> QED BY <1>0, <3>1 DEF SendRec
  <2> QED BY <1>2, <2>1, SendGoes
<1>3. [sends EXCEPT ![s].at = "next"]
      = [sends EXCEPT ![s] = [sends[s] EXCEPT !.at = "next", !.left = sends[s].left]]
  <2>1. [sends[s] EXCEPT !.at = "next"] = [sends[s] EXCEPT !.at = "next", !.left = sends[s].left]
    BY <1>0 DEF SendRec
  <2> QED BY <2>1
<1>4. ASSUME SetPushSubscriptionSent(s) PROVE Inv'
  <2>1. PICK w : w = sends[s].row OBVIOUS
  <2>2. /\ DOMAIN rows' = DOMAIN rows
        /\ rows' = [e \in DOMAIN rows |-> rows'[e]]
        /\ \A e \in DOMAIN rows : \/ rows'[e] = rows[e]
                                  \/ rows'[e] = [rows[e] EXCEPT !.sent = rows[e].user]
    BY <1>4, <2>1 DEF SetPushSubscriptionSent, Recorded
  <2>3. ASSUME NEW e \in DOMAIN rows
        PROVE  /\ rows'[e] \in RowRec /\ rows'[e].id = rows[e].id /\ rows'[e].user = rows[e].user
               /\ rows'[e].sent \in {rows[e].sent, rows[e].user}
    <3>1. rows[e] \in RowRec BY DEF Inv, RowTypes
    <3>2. CASE rows'[e] = rows[e] BY <3>1, <3>2
    <3>3. CASE rows'[e] = [rows[e] EXCEPT !.sent = rows[e].user] BY <3>1, <3>3 DEF RowRec
    <3> QED BY <2>2, <3>2, <3>3
  <2>4. RowsGo BY <2>2, <2>3 DEF RowsGo
  <2> QED BY <1>2, <1>3, <1>4, <2>4 DEF SetPushSubscriptionSent
<1>5. ASSUME DropGone(s) PROVE Inv'
  <2>1. RowsGo BY <1>5, DeleteGoes DEF DropGone
  <2> QED BY <1>2, <1>3, <1>5, <2>1 DEF DropGone
<1>6. ASSUME StoreFails(s) PROVE Inv'
  <2>1. PICK left : left = {w \in sends[s].left : w.user # sends[s].row.user} OBVIOUS
  <2>2. sends' = [sends EXCEPT ![s] = [sends[s] EXCEPT !.at = "next", !.left = left]]
    BY <1>0, <1>6, <2>1 DEF StoreFails, SendRec
  <2>3. left \in SUBSET sends[s].left BY <2>1
  <2> QED BY <1>2, <1>6, <2>2, <2>3 DEF StoreFails
<1>7. ASSUME EndSend(s) PROVE Inv'
  <2>1. NoSend \in SendRec BY DEF NoSend, SendRec
  <2> QED BY <1>7, <2>1, SendGoes DEF EndSend
<1> QED BY <1>1, <1>4, <1>5, <1>6, <1>7 DEF SendStep

-----------------------------------------------------------------------------
(* The theorems.                                                           *)

(* The invariant holds at first.                                            *)
LEMMA InvInit == ASSUME NotificationsAssumption, Init PROVE Inv
<1>1. DOMAIN rows = {} /\ rows = [e \in {} |-> 0] BY DEF Init
<1>2. RowTypes BY <1>1, FS_EmptySet DEF Init, RowTypes, NotificationsAssumption
<1>3. RequestInv BY IdleTypes DEF Init, RequestInv
<1>4. SendTypes BY DEF Init, SendTypes, SendRec, NoSend
<1>5. CapInv
  <2>1. \A u : Devices(u) = {} BY <1>1 DEF Devices
  <2>2. \A u \in Users : Cardinality(Devices(u)) <= maxPushSubscriptions
    BY <2>1, FS_EmptySet DEF NotificationsAssumption
  <2>3. \A r \in Requests : reqs[r].op = "idle" BY IdleTypes DEF Init
  <2> QED BY <2>2, <2>3 DEF CapInv
<1>6. DatesAreOwn BY <1>1 DEF DatesAreOwn
<1> QED BY <1>2, <1>3, <1>4, <1>5, <1>6 DEF Inv

(* And after every step.                                                    *)
LEMMA InvStep ==
    ASSUME NotificationsAssumption, Inv, [Next]_vars
    PROVE  Inv'
<1>1. CASE UNCHANGED vars
  <2>1. SendTypes' BY <1>1 DEF vars, Inv, SendTypes
  <2> QED BY <1>1, <2>1, RowsGoStep DEF vars
<1> QED BY <1>1, OtherRequestStep, LockStep, CountStep, UpsertStep, RemoveStep, StartStep, SendStepKeeps
        DEF Next, RequestStep

(* No account has more than maxPushSubscriptions browsers, although the     *)
(* count and the insert are two statements and browsers move from one       *)
(* account to another between them (subscribeBrowser, notifications.go),    *)
(* and the date on a browser is of a push to the account it is on.  The     *)
(* lock on the account's row is what the cap rests on: who has counted has  *)
(* it, and a browser that moves away only makes room.                       *)
THEOREM BrowsersHold ==
    ASSUME NotificationsAssumption
    PROVE  Spec => []BrowsersAgree
<1>1. ASSUME Inv PROVE BrowsersAgree
  <2>1. TypeOK
    <3>1. \A s \in Sends : sends[s].at \in {"idle", "next", "record", "delete"}
      BY <1>1 DEF Inv, SendTypes, SendRec
    <3>2. \A e \in DOMAIN rows : rows[e].user \in Users BY <1>1 DEF Inv, RowTypes, RowRec
    <3> QED BY <1>1, <3>1, <3>2 DEF Inv, RowTypes, RequestInv, TypeOK
  <2>2. ASSUME NEW u \in Users PROVE Cardinality(RowsOf(u)) <= maxPushSubscriptions
    <3>1. /\ Cardinality(RowsOf(u)) <= Cardinality(Devices(u))
          /\ Cardinality(RowsOf(u)) \in Nat /\ Cardinality(Devices(u)) \in Nat
      BY <1>1, RowsAreDevices, DevicesFinite DEF Inv
    <3>2. Cardinality(Devices(u)) <= maxPushSubscriptions BY <1>1 DEF Inv, CapInv
    <3> QED BY <3>1, <3>2 DEF NotificationsAssumption
  <2> QED BY <1>1, <2>1, <2>2 DEF BrowsersAgree, CapHolds, Inv
<1> QED BY <1>1, InvInit, InvStep, PTL DEF Spec

(* The push service's answer that a browser is gone may come after the      *)
(* browser has moved to another account: the row that account has of it     *)
(* stays, whichever statement the send takes next (sendOne,                 *)
(* DeletePushSubscription).                                                 *)
THEOREM LateAnswerKeepsOthers ==
    ASSUME NotificationsAssumption
    PROVE  Spec => OthersBrowserStays
<1> DEFINE Kept == \A s \in Sends : sends[s].at = "delete" /\ sends'[s] # sends[s] =>
              \A e \in DOMAIN rows : rows[e].user # sends[s].row.user => e \in DOMAIN rows'
<1>1. ASSUME Inv, [Next]_vars PROVE Kept
  <2> SUFFICES ASSUME NEW s \in Sends, sends[s].at = "delete", sends'[s] # sends[s],
                      NEW e \in DOMAIN rows, rows[e].user # sends[s].row.user
               PROVE  e \in DOMAIN rows'
    OBVIOUS
  <2>1. CASE UNCHANGED rows BY <2>1
  <2>2. CASE DropGone(s) BY <2>2 DEF DropGone, DeletePushSubscription, Restrict
  <2>3. UNCHANGED rows \/ DropGone(s)
    <3>1. DOMAIN sends = Sends BY <1>1 DEF Inv, SendTypes
    <3>2. sends' # sends OBVIOUS
    <3>3. PICK p \in Sends :
             \/ SendStep(p)
             \/ \E u \in Users : \/ sendActivity(p, u) \/ sendToUser(p, u)
                                 \/ \E d \in Endpoints : sendTestNotification(p, u, d)
      BY <1>1, <3>2 DEF Next, RequestStep, LockUser, Count, UpsertPushSubscription, saveNotifications,
         subscribeBrowser, ReadToSave, removeBrowser, vars
    <3>4. PICK x : sends' = [sends EXCEPT ![p] = x]
      BY <3>3 DEF SendStep, Send, SetPushSubscriptionSent, DropGone, StoreFails, EndSend, sendActivity,
         sendToUser, sendTestNotification, StartSend
    <3>5. p = s BY <3>1, <3>4
    <3> QED BY <3>3, <3>5 DEF SendStep, Send, SetPushSubscriptionSent, StoreFails, EndSend,
        sendActivity, sendToUser, sendTestNotification, StartSend
  <2> QED BY <2>1, <2>2, <2>3
<1> QED BY <1>1, InvInit, InvStep, PTL DEF Spec, OthersBrowserStays
==============================================================================
