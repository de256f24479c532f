----------------------------- MODULE CareProofs -----------------------------
(***************************************************************************)
(* Care, for every number of members, care types, requests and events: no  *)
(* event is left without its type, what was logged can be saved again, who *)
(* gave it and when never change and nobody else touches it, and Undo puts *)
(* back what was deleted but for a correction the deletion had not read.   *)
(* And CareTypes, for every number of names, icons, requests and types:    *)
(* slugs, icons and buttons.                                               *)
(***************************************************************************)
EXTENDS Care, TLAPS, FiniteSetTheorems

CONSTANTS Names, Slug, Seeded, Icons, MaxTypes   \* of CareTypes

VARIABLE used                                    \* of CareTypes

Kinds == INSTANCE CareTypes

-----------------------------------------------------------------------------
(* The inductive invariant.                                                *)

RowOK(e) ==
    e \in Rows /\ e.at <= now /\ e.recorded <= now /\ e.done = (e.again = None)

\* What a request carries from its read to its write.
RequestOK(x) ==
    /\ x.op \in {"idle", "create", "save", "update", "remove", "restore"}
    /\ x.op # "idle" => x.user \in Users
    /\ x.op \in {"save", "update", "remove", "restore"} => x.id \in 1 .. made
    /\ x.op \in {"create", "update", "restore"} => RowOK(x.row)
    /\ x.op \in {"save", "remove"} => RowOK(x.read)
    /\ x.op = "create" => x.row.by = x.user
    /\ x.op = "save" => x.now \in 0 .. now

Types ==
    /\ now \in 0 .. MaxTime
    /\ types \in [Cares -> {"on", "off", "gone"}]
    /\ usual \in [Cares -> {NoSchedule} \cup Usuals]
    /\ made \in 0 .. MaxEvents /\ DOMAIN events \subseteq 1 .. made
    /\ \A id \in DOMAIN events : RowOK(events[id])
    /\ \A f \in forms : f.id \in 1 .. made /\ RowOK(f.fields)
    /\ DOMAIN reqs = Requests /\ \A r \in Requests : RequestOK(reqs[r])
    /\ DOMAIN removed = 1 .. MaxEvents

\* The event of an id, or what it was when it was deleted.
Origin(id) == IF id \in DOMAIN events THEN events[id] ELSE removed[id]

Same(e, id) == e.by = Origin(id).by /\ e.recorded = Origin(id).recorded

\* What a form or a request would put back was given by who gave it, when it
\* was logged.
Performers ==
    /\ \A f \in forms : Same(f.fields, f.id)
    /\ \A r \in Requests :
          /\ reqs[r].op = "remove" => Same(reqs[r].read, reqs[r].id)
          /\ reqs[r].op = "restore" => Same(reqs[r].row, reqs[r].id)

Inv == Types /\ EventHasType /\ Performers

-----------------------------------------------------------------------------
(* Facts about the steps.                                                  *)

(* A row a form or a request holds stays well typed as time goes on.        *)
LEMMA RowKept ==
    ASSUME CareAssumption, now \in Nat, now' \in Nat, now <= now', NEW e, RowOK(e)
    PROVE  RowOK(e)'
<1>1. e \in Rows /\ e.at <= now /\ e.recorded <= now /\ e.done = (e.again = None) BY DEF RowOK
<1>2. e.at \in Nat /\ e.recorded \in Nat BY <1>1 DEF Rows, CareAssumption
<1>3. e.at <= now' /\ e.recorded <= now' BY <1>1, <1>2
<1> QED BY <1>1, <1>3 DEF RowOK, Rows

(* And so does a request.                                                   *)
LEMMA RequestKept ==
    ASSUME CareAssumption, Types, now' \in Nat, now <= now', made' \in Nat, made <= made',
           NEW x, RequestOK(x)
    PROVE  RequestOK(x)'
<1>1. now \in Nat /\ made \in Nat BY DEF Types, CareAssumption
<1>2. \A e : RowOK(e) => RowOK(e)' BY <1>1, RowKept
<1>3. \A i \in 1 .. made : i \in 1 .. made' BY <1>1
<1>4. \A i \in 0 .. now : i \in 0 .. now' BY <1>1
<1> QED BY <1>2, <1>3, <1>4 DEF RequestOK

(* A sheet that is accepted gives a well typed row of its writer.           *)
LEMMA ParamsOK ==
    ASSUME CareAssumption, Types, NEW u \in Users, NEW d \in Drafts, NEW t \in 0 .. now,
           performedAt(d, t) # None
    PROVE  RowOK(careEventParams(u, d, t)) /\ careEventParams(u, d, t).by = u
<1>1. now \in Nat /\ now <= MaxTime /\ MaxTime \in Nat BY DEF Types, CareAssumption
<1>2. d.care \in Cares /\ d.done \in BOOLEAN /\ d.again \in Agains /\ d.at \in {Now} \cup (0 .. MaxTime)
  BY DEF Drafts
<1>3. performedAt(d, t) \in 0 .. t BY <1>1, <1>2 DEF performedAt, Now, None
<1>4. d.again # None BY <1>2 DEF CareAssumption, None
<1>5. PICK e : e = careEventParams(u, d, t) OBVIOUS
<1>6. /\ e = [care |-> d.care, by |-> u, at |-> performedAt(d, t), recorded |-> t,
              done |-> d.done, again |-> IF d.done THEN None ELSE d.again]
  BY <1>5 DEF careEventParams
<1>7. e \in Rows BY <1>1, <1>2, <1>3, <1>6 DEF Rows
<1>8. e.at <= now /\ e.recorded <= now BY <1>1, <1>3, <1>6
<1>9. e.done = (e.again = None) BY <1>2, <1>4, <1>6
<1> QED BY <1>5, <1>6, <1>7, <1>8, <1>9 DEF RowOK

(* A correction keeps who gave the care and when it was logged.             *)
LEMMA UpdatedOK ==
    ASSUME NEW old, NEW new, RowOK(old), RowOK(new)
    PROVE  /\ RowOK(UpdatedRow(old, new)) /\ UpdatedRow(old, new).care = new.care
           /\ UpdatedRow(old, new).by = old.by /\ UpdatedRow(old, new).recorded = old.recorded
BY DEF RowOK, Rows, UpdatedRow

(* The requests after a step of one of them.                                *)
LEMMA RequestGoes ==
    ASSUME CareAssumption, Types, NEW r \in Requests, NEW x, reqs' = [reqs EXCEPT ![r] = x],
           now' = now, made' \in Nat, made <= made', RequestOK(x)'
    PROVE  DOMAIN reqs' = Requests /\ \A q \in Requests : RequestOK(reqs[q])'
<1>1. DOMAIN reqs' = Requests /\ \A q \in Requests : reqs'[q] = IF q = r THEN x ELSE reqs[q]
  BY DEF Types
<1>2. now \in Nat /\ now <= now' BY DEF Types, CareAssumption
<1>3. \A q \in Requests : q # r => RequestOK(reqs[q])' 
  <2> SUFFICES ASSUME NEW q \in Requests, q # r PROVE RequestOK(reqs[q])' OBVIOUS
  <2>1. PICK y : y = reqs[q] OBVIOUS
  <2>2. RequestOK(y) BY <2>1 DEF Types
  <2>3. RequestOK(y)' BY <1>2, <2>2, RequestKept
  <2> QED BY <1>1, <2>1, <2>3
<1> QED BY <1>1, <1>3

(* A step that changes no event keeps what was given, by whom.              *)
LEMMA PerformersKept ==
    ASSUME Types, Performers, events' = events, removed' = removed, NEW r \in Requests, NEW x,
           reqs' = [reqs EXCEPT ![r] = x], forms' \subseteq forms,
           x.op = "remove" => Same(x.read, x.id), x.op = "restore" => Same(x.row, x.id)
    PROVE  Performers'
<1>1. \A q \in Requests : reqs'[q] = IF q = r THEN x ELSE reqs[q] BY DEF Types
<1>2. \A e, id : Same(e, id)' = Same(e, id) BY DEF Same, Origin
<1> QED BY <1>1, <1>2 DEF Performers

(* An answered request carries nothing.                                     *)
LEMMA IdleOK == ASSUME NEW code PROVE Idle(code).op = "idle" /\ RequestOK(Idle(code)) /\ RequestOK(Idle(code))'
BY DEF Idle, RequestOK

(* Nobody is kept out of, and nothing is taken from, events that stay.      *)
LEMMA EventsStay ==
    ASSUME events' = events
    PROVE  OthersKeepOut /\ PerformerStays
<1>1. OthersKeepOut BY DEF OthersKeepOut
<1>2. PerformerStays BY DEF PerformerStays
<1> QED BY <1>1, <1>2

(* A step of a request that changes no row.                                 *)
LEMMA ReadStep ==
    ASSUME CareAssumption, Inv, UNCHANGED <<now, types, usual, events, made, removed>>,
           forms' \subseteq forms, NEW r \in Requests, NEW x, reqs' = [reqs EXCEPT ![r] = x],
           RequestOK(x),
           x.op = "remove" => Same(x.read, x.id), x.op = "restore" => Same(x.row, x.id)
    PROVE  Inv' /\ OthersKeepOut /\ PerformerStays
<1>1. Types /\ EventHasType /\ Performers BY DEF Inv
<1>2. made' \in Nat /\ made <= made' /\ now' = now /\ now \in Nat BY <1>1 DEF Types, CareAssumption
<1>3. RequestOK(x)' BY <1>1, <1>2, RequestKept
<1>4. DOMAIN reqs' = Requests /\ \A q \in Requests : RequestOK(reqs[q])'
  BY <1>1, <1>2, <1>3, RequestGoes
<1>5. \A e : RowOK(e)' = RowOK(e) BY DEF RowOK, Rows
<1>6. Types' BY <1>1, <1>4, <1>5 DEF Types
<1>7. EventHasType' BY <1>1 DEF EventHasType
<1>8. Performers' BY <1>1, PerformersKept
<1> QED BY <1>6, <1>7, <1>8, EventsStay DEF Inv

(* Who a row is of stays when an event is put back or changed under its own *)
(* performer, or a new one is made.                                         *)
LEMMA PutKeepsOrigins ==
    ASSUME Types, NEW id \in Nat, NEW e, events' = With(id, e), removed' = removed,
           id <= made => Same(e, id)
    PROVE  \A row, j : j \in 1 .. made => Same(row, j)' = Same(row, j)
<1>1. /\ DOMAIN events' = DOMAIN events \cup {id} /\ events'[id] = e
      /\ \A i \in DOMAIN events : i # id => events'[i] = events[i]
  BY DEF With
<1> SUFFICES ASSUME NEW row, NEW j \in 1 .. made PROVE Same(row, j)' = Same(row, j)
  OBVIOUS
<1>2. CASE j # id
  <2>1. Origin(j)' = Origin(j) BY <1>1, <1>2 DEF Origin
  <2> QED BY <2>1 DEF Same
<1>3. CASE j = id
  <2>1. Origin(j)' = e BY <1>1, <1>3 DEF Origin
  <2>2. e.by = Origin(j).by /\ e.recorded = Origin(j).recorded BY <1>3 DEF Same, Types
  <2> QED BY <2>1, <2>2 DEF Same
<1> QED BY <1>2, <1>3

(* A write that puts a row at an id: of a type that is there, of who gave   *)
(* it, and by somebody who may.                                             *)
LEMMA PutStep ==
    ASSUME CareAssumption, Inv, UNCHANGED <<now, types, usual, forms, removed>>,
           made' \in 0 .. MaxEvents, made <= made', NEW id \in 1 .. made', NEW e, RowOK(e),
           types[e.care] # "gone", events' = With(id, e), id <= made => Same(e, id),
           made < id => id \notin DOMAIN events,
           NEW r \in Requests, NEW code, Answer(r, code),
           \/ reqs[r].user \in Owners
           \/ id \in DOMAIN events /\ events[id].by = reqs[r].user
           \/ id \notin DOMAIN events /\ e.by = reqs[r].user
    PROVE  Inv' /\ OthersKeepOut /\ PerformerStays
<1>1. Types /\ EventHasType /\ Performers BY DEF Inv
<1>2. /\ DOMAIN events' = DOMAIN events \cup {id} /\ events'[id] = e
      /\ \A i \in DOMAIN events : i # id => events'[i] = events[i]
  BY DEF With
<1>3. now \in Nat /\ now' = now /\ made \in Nat /\ made' \in Nat /\ id \in Nat
  BY <1>1 DEF Types, CareAssumption
<1>4. \A x : RowOK(x)' = RowOK(x) BY DEF RowOK, Rows
<1>5. reqs' = [reqs EXCEPT ![r] = Idle(code)] BY DEF Answer
<1>6. DOMAIN reqs' = Requests /\ \A q \in Requests : RequestOK(reqs[q])'
  BY <1>1, <1>3, <1>5, IdleOK, RequestGoes
<1>7. \A q \in Requests : reqs'[q] = IF q = r THEN Idle(code) ELSE reqs[q] BY <1>1, <1>5 DEF Types
<1>8. \A i \in DOMAIN events' : RowOK(events[i])' BY <1>1, <1>2, <1>4 DEF Types
<1>9. \A i \in 1 .. made : i \in 1 .. made' BY <1>3
<1>10. Types'
  <2>1. DOMAIN events' \subseteq 1 .. made' BY <1>1, <1>2, <1>9 DEF Types
  <2>2. \A f \in forms' : f.id \in 1 .. made' /\ RowOK(f.fields)' BY <1>1, <1>4, <1>9 DEF Types
  <2> QED BY <1>1, <1>6, <1>8, <2>1, <2>2 DEF Types
<1>11. EventHasType' BY <1>1, <1>2 DEF EventHasType
<1>12. \A row, j : j \in 1 .. made => Same(row, j)' = Same(row, j)
  BY <1>1, <1>3, PutKeepsOrigins
<1>13. Performers'
  <2>1. \A f \in forms' : Same(f.fields, f.id)' BY <1>1, <1>12 DEF Performers, Types
  <2>2. ASSUME NEW q \in Requests
        PROVE  /\ reqs'[q].op = "remove" => Same(reqs[q].read, reqs[q].id)'
               /\ reqs'[q].op = "restore" => Same(reqs[q].row, reqs[q].id)'
    <3>1. CASE q = r BY <1>7, <3>1, IdleOK
    <3>2. CASE q # r
      <4>1. PICK x : x = reqs[q] OBVIOUS
      <4>2. reqs'[q] = x BY <1>7, <3>2, <4>1
      <4>3. RequestOK(x) BY <1>1, <4>1 DEF Types
      <4>4. x.op \in {"remove", "restore"} => x.id \in 1 .. made BY <4>3 DEF RequestOK
      <4>5. x.op = "remove" => Same(x.read, x.id)' BY <1>1, <1>12, <4>1, <4>4 DEF Performers
      <4>6. x.op = "restore" => Same(x.row, x.id)' BY <1>1, <1>12, <4>1, <4>4 DEF Performers
      <4> QED BY <4>2, <4>5, <4>6
    <3> QED BY <3>1, <3>2
  <2> QED BY <2>1, <2>2 DEF Performers
<1>14. OthersKeepOut
  <2> SUFFICES ASSUME NEW u \in Users \ Owners, NEW q \in Requests, reqs[q].user = u,
                      reqs'[q] # reqs[q], NEW j \in DOMAIN events \cup DOMAIN events'
               PROVE  \/ j \in DOMAIN events /\ j \in DOMAIN events' /\ events[j] = events'[j]
                      \/ j \in DOMAIN events /\ events[j].by = u
                      \/ j \notin DOMAIN events /\ events'[j].by = u
    BY DEF OthersKeepOut
  <2>1. q = r BY <1>7
  <2>2. CASE j # id BY <1>2, <2>2
  <2>3. CASE j = id BY <1>2, <2>1, <2>3
  <2> QED BY <2>2, <2>3
<1>15. PerformerStays
  <2> SUFFICES ASSUME NEW j \in 1 .. made', j \in DOMAIN events',
                      NEW was, was = IF j \in DOMAIN events THEN events[j]
                                     ELSE IF j <= made THEN removed[j] ELSE events'[j]
               PROVE  events'[j].by = was.by /\ events'[j].recorded = was.recorded
    BY DEF PerformerStays
  <2>1. CASE j # id BY <1>2, <2>1
  <2>2. CASE j = id /\ id <= made BY <1>2, <2>2 DEF Same, Origin
  <2>3. CASE j = id /\ ~(id <= made) BY <1>2, <1>3, <2>3
  <2> QED BY <2>1, <2>2, <2>3
<1> QED BY <1>10, <1>11, <1>13, <1>14, <1>15 DEF Inv

(* A delete keeps what it deletes.                                          *)
LEMMA DropStep ==
    ASSUME CareAssumption, Inv, UNCHANGED <<now, types, usual, made>>,
           NEW id \in DOMAIN events, DeleteCareEvent(id),
           DOMAIN reqs' = Requests,
           \A q \in Requests : reqs'[q] = reqs[q] \/ \E code : reqs'[q] = Idle(code),
           \A f \in forms' : f \in forms \/ (f.id = id /\ RowOK(f.fields) /\ Same(f.fields, id))
    PROVE  Inv' /\ PerformerStays
<1>1. Types /\ EventHasType /\ Performers BY DEF Inv
<1>2. id \in 1 .. made /\ id \in 1 .. MaxEvents /\ made \in Nat
  BY <1>1 DEF Types, CareAssumption
<1>3. /\ DOMAIN events' = DOMAIN events \ {id}
      /\ \A i \in DOMAIN events' : events'[i] = events[i]
      /\ DOMAIN removed' = 1 .. MaxEvents /\ removed'[id] = events[id]
      /\ \A i \in 1 .. MaxEvents : i # id => removed'[i] = removed[i]
  BY <1>1, <1>2 DEF DeleteCareEvent, Without, Restrict, Types
<1>4. \A x : RowOK(x)' = RowOK(x) BY DEF RowOK, Rows
<1>5. \A x : RequestOK(x)' = RequestOK(x) BY <1>4 DEF RequestOK
<1>6. \A q \in Requests : RequestOK(reqs[q])'
  <2> SUFFICES ASSUME NEW q \in Requests PROVE RequestOK(reqs[q])' OBVIOUS
  <2>1. PICK x : x = reqs'[q] OBVIOUS
  <2>2. RequestOK(x) BY <1>1, <2>1, IdleOK DEF Types
  <2> QED BY <1>5, <2>1, <2>2
<1>7. \A f \in forms' : f.id \in 1 .. made' /\ RowOK(f.fields)' BY <1>1, <1>2, <1>4 DEF Types
<1>8. Types' BY <1>1, <1>3, <1>4, <1>6, <1>7 DEF Types
<1>9. EventHasType' BY <1>1, <1>3 DEF EventHasType
<1>10. \A row, j : j \in 1 .. made => Same(row, j)' = Same(row, j)
  <2> SUFFICES ASSUME NEW row, NEW j \in 1 .. made PROVE Same(row, j)' = Same(row, j) OBVIOUS
  <2>1. j \in 1 .. MaxEvents BY <1>1 DEF Types, CareAssumption
  <2>2. Origin(j)' = Origin(j) BY <1>3, <2>1 DEF Origin
  <2> QED BY <2>2 DEF Same
<1>11. Performers'
  <2>1. \A f \in forms' : Same(f.fields, f.id)' BY <1>1, <1>2, <1>10 DEF Performers, Types
  <2>2. ASSUME NEW q \in Requests
        PROVE  /\ reqs'[q].op = "remove" => Same(reqs[q].read, reqs[q].id)'
               /\ reqs'[q].op = "restore" => Same(reqs[q].row, reqs[q].id)'
    <3>1. CASE \E code : reqs'[q] = Idle(code) BY <3>1, IdleOK
    <3>2. CASE reqs'[q] = reqs[q]
      <4>1. PICK x : x = reqs[q] OBVIOUS
      <4>2. RequestOK(x) BY <1>1, <4>1 DEF Types
      <4>3. x.op \in {"remove", "restore"} => x.id \in 1 .. made BY <4>2 DEF RequestOK
      <4>4. x.op = "remove" => Same(x.read, x.id)' BY <1>1, <1>10, <4>1, <4>3 DEF Performers
      <4>5. x.op = "restore" => Same(x.row, x.id)' BY <1>1, <1>10, <4>1, <4>3 DEF Performers
      <4> QED BY <3>2, <4>1, <4>4, <4>5
    <3> QED BY <3>1, <3>2
  <2> QED BY <2>1, <2>2 DEF Performers
<1>12. PerformerStays BY <1>3 DEF PerformerStays
<1> QED BY <1>8, <1>9, <1>11, <1>12 DEF Inv

-----------------------------------------------------------------------------
(* The steps.                                                              *)

(* What is posted, read or answered, up to the write.                       *)
LEMMA PostStep ==
    ASSUME CareAssumption, Inv, NEW r \in Requests, Posts(r) \/ \E d \in Drafts : save(r, d)
    PROVE  Inv' /\ OthersKeepOut /\ PerformerStays
<1>1. Types /\ EventHasType /\ Performers BY DEF Inv
<1>2. now \in Nat /\ now \in 0 .. now BY <1>1 DEF Types, CareAssumption
<1>3. ASSUME NEW u \in Users, NEW d \in Drafts, NEW offered, Post(r, u, d, offered)
      PROVE  Inv' /\ OthersKeepOut /\ PerformerStays
  <2>1. performedAt(d, now) # None BY <1>3 DEF Post, accept
  <2>2. PICK x : x = [op |-> "create", user |-> u, row |-> careEventParams(u, d, now)] OBVIOUS
  <2>3. RowOK(x.row) /\ x.row.by = u BY <1>1, <1>2, <2>1, <2>2, ParamsOK
  <2>4. RequestOK(x) BY <2>2, <2>3 DEF RequestOK
  <2>5. reqs' = [reqs EXCEPT ![r] = x] /\ UNCHANGED <<now, types, usual, events, made, forms, removed>>
    BY <1>3, <2>2 DEF Post
  <2> QED BY <2>2, <2>4, <2>5, ReadStep
<1>4. ASSUME NEW u \in Users, NEW id \in DOMAIN events, ReadToSave(r, u, id)
      PROVE  Inv' /\ OthersKeepOut /\ PerformerStays
  <2>1. PICK x : x = [op |-> "save", user |-> u, id |-> id, read |-> events[id], now |-> now] OBVIOUS
  <2>2. RequestOK(x) BY <1>1, <1>2, <2>1 DEF RequestOK, Types
  <2>3. reqs' = [reqs EXCEPT ![r] = x] /\ UNCHANGED <<now, types, usual, events, made, forms, removed>>
    BY <1>4, <2>1 DEF ReadToSave
  <2> QED BY <2>1, <2>2, <2>3, ReadStep
<1>5. ASSUME NEW u \in Users, NEW id \in DOMAIN events, ReadToRemove(r, u, id)
      PROVE  Inv' /\ OthersKeepOut /\ PerformerStays
  <2>1. PICK x : x = [op |-> "remove", user |-> u, id |-> id, read |-> events[id]] OBVIOUS
  <2>2. RequestOK(x) BY <1>1, <2>1 DEF RequestOK, Types
  <2>3. reqs' = [reqs EXCEPT ![r] = x] /\ UNCHANGED <<now, types, usual, events, made, forms, removed>>
    BY <1>5, <2>1 DEF ReadToRemove
  <2>4. Same(x.read, x.id) BY <2>1 DEF Same, Origin
  <2> QED BY <2>1, <2>2, <2>3, <2>4, ReadStep
<1>6. ASSUME NEW u \in Users, NEW f \in forms, restore(r, u, f)
      PROVE  Inv' /\ OthersKeepOut /\ PerformerStays
  <2>1. forms' \subseteq forms /\ UNCHANGED <<now, types, usual, events, made, removed>>
    BY <1>6 DEF restore
  <2>2. PICK x : x = [op |-> "restore", user |-> u, id |-> f.id, row |-> f.fields] OBVIOUS
  <2>3. RequestOK(x) BY <1>1, <2>2 DEF RequestOK, Types
  <2>4. Same(x.row, x.id) BY <1>1, <2>2 DEF Performers
  <2>5. CASE reqs' = [reqs EXCEPT ![r] = x] BY <2>1, <2>2, <2>3, <2>4, <2>5, ReadStep
  <2>6. CASE reqs' = [reqs EXCEPT ![r] = Idle("404")] BY <2>1, <2>6, IdleOK, ReadStep
  <2> QED BY <1>6, <2>2, <2>5, <2>6 DEF restore, Answer
<1>7. ASSUME NEW d \in Drafts, save(r, d)
      PROVE  Inv' /\ OthersKeepOut /\ PerformerStays
  <2>1. reqs[r].op = "save" /\ UNCHANGED <<now, types, usual, events, made, forms, removed>>
    BY <1>7 DEF save
  <2>2. CASE reqs' = [reqs EXCEPT ![r] = Idle("refused")] BY <2>1, <2>2, IdleOK, ReadStep
  <2>3. CASE reqs' # [reqs EXCEPT ![r] = Idle("refused")]
    <3>1. PICK q : q = reqs[r] OBVIOUS
    <3>2. RequestOK(q) /\ q.op = "save" /\ DOMAIN reqs = Requests BY <1>1, <2>1, <3>1 DEF Types
    <3>3. q.user \in Users /\ q.id \in 1 .. made /\ q.now \in 0 .. now BY <3>2 DEF RequestOK
    <3>4. PICK x : x = [op |-> "update", user |-> q.user, id |-> q.id,
                        row |-> careEventParams(q.user, d, q.now)]
      OBVIOUS
    <3>5. performedAt(d, q.now) # None /\ reqs' = [reqs EXCEPT ![r] = x]
      BY <1>7, <2>3, <3>1, <3>2, <3>4 DEF save, Answer, accept
    <3>6. RowOK(x.row) BY <1>1, <3>3, <3>4, <3>5, ParamsOK
    <3>7. RequestOK(x) BY <3>3, <3>4, <3>6 DEF RequestOK
    <3> QED BY <2>1, <3>4, <3>5, <3>7, ReadStep
  <2> QED BY <2>2, <2>3
<1> QED BY <1>3, <1>4, <1>5, <1>6, <1>7 DEF Posts, log, logOnPlant

(* The writes of a request.                                                 *)
LEMMA WriteStep ==
    ASSUME CareAssumption, Inv, NEW r \in Requests, Writes(r)
    PROVE  Inv' /\ OthersKeepOut /\ PerformerStays
<1>1. Types /\ EventHasType /\ Performers BY DEF Inv
<1>2. PICK x : x = reqs[r] OBVIOUS
<1>3. RequestOK(x) BY <1>1, <1>2 DEF Types
<1>4. made \in Nat /\ made <= MaxEvents /\ MaxEvents \in Nat BY <1>1 DEF Types, CareAssumption
<1>5. ASSUME NEW code, Answer(r, code), UNCHANGED <<now, types, usual, events, made, forms, removed>>
      PROVE  Inv' /\ OthersKeepOut /\ PerformerStays
  <2>1. reqs' = [reqs EXCEPT ![r] = Idle(code)] BY <1>5 DEF Answer
  <2> QED BY <1>5, <2>1, IdleOK, ReadStep
<1>6. CASE CreateCareEvent(r)
  <2>1. x.op = "create" /\ made < MaxEvents /\ UNCHANGED <<now, types, usual, forms, removed>>
    BY <1>2, <1>6 DEF CreateCareEvent
  <2>2. CASE types[x.row.care] = "gone" BY <1>2, <1>5, <1>6, <2>1, <2>2 DEF CreateCareEvent
  <2>3. CASE types[x.row.care] # "gone"
    <3>1. /\ events' = With(made + 1, x.row) /\ made' = made + 1 /\ Answer(r, "ok")
      BY <1>2, <1>6, <2>3 DEF CreateCareEvent
    <3>2. RowOK(x.row) /\ x.row.by = x.user BY <1>3, <2>1 DEF RequestOK
    <3>3. made' \in 0 .. MaxEvents /\ made <= made' /\ made + 1 \in 1 .. made' /\ ~(made + 1 <= made)
      BY <1>4, <2>1, <3>1
    <3>4. made + 1 \notin DOMAIN events BY <1>1, <1>4 DEF Types
    <3> QED BY <1>2, <2>1, <2>3, <3>1, <3>2, <3>3, <3>4, PutStep
  <2> QED BY <2>2, <2>3
<1>7. CASE UpdateCareEvent(r)
  <2>1. x.op = "update" /\ UNCHANGED <<now, types, usual, made, forms, removed>>
    BY <1>2, <1>7 DEF UpdateCareEvent
  <2>2. CASE events' = events
    <3>1. \E code : Answer(r, code) BY <1>7 DEF UpdateCareEvent
    <3> QED BY <1>5, <2>1, <2>2, <3>1
  <2>3. CASE events' # events
    <3>1. /\ x.id \in DOMAIN events /\ (x.user \in Owners \/ events[x.id].by = x.user)
          /\ types[x.row.care] # "gone" /\ events' = With(x.id, UpdatedRow(events[x.id], x.row))
          /\ Answer(r, "ok")
      BY <1>2, <1>7, <2>3 DEF UpdateCareEvent
    <3>2. RowOK(x.row) /\ x.id \in 1 .. made BY <1>3, <2>1 DEF RequestOK
    <3>3. PICK e : e = UpdatedRow(events[x.id], x.row) OBVIOUS
    <3>4. RowOK(events[x.id]) BY <1>1, <3>1 DEF Types
    <3>5. RowOK(e) /\ e.care = x.row.care /\ e.by = events[x.id].by /\ e.recorded = events[x.id].recorded
      BY <3>2, <3>3, <3>4, UpdatedOK
    <3>6. Same(e, x.id) BY <3>1, <3>5 DEF Same, Origin
    <3>7. made' \in 0 .. MaxEvents /\ made <= made' /\ x.id \in 1 .. made' /\ ~(made < x.id)
      BY <1>4, <2>1, <3>2
    <3> QED BY <1>2, <2>1, <3>1, <3>3, <3>5, <3>6, <3>7, PutStep
  <2> QED BY <2>2, <2>3
<1>8. CASE RestoreCareEvent(r)
  <2>1. x.op = "restore" /\ UNCHANGED <<now, types, usual, made, forms, removed>>
    BY <1>2, <1>8 DEF RestoreCareEvent
  <2>2. CASE events' = events
    <3>1. \E code : Answer(r, code) BY <1>8 DEF RestoreCareEvent
    <3> QED BY <1>5, <2>1, <2>2, <3>1
  <2>3. CASE events' # events
    <3>1. /\ x.id \notin DOMAIN events /\ (x.user \in Owners \/ x.row.by = x.user)
          /\ types[x.row.care] # "gone" /\ events' = With(x.id, x.row)
          /\ Answer(r, "ok")
      BY <1>2, <1>8, <2>3 DEF RestoreCareEvent
    <3>2. RowOK(x.row) /\ x.id \in 1 .. made BY <1>3, <2>1 DEF RequestOK
    <3>3. Same(x.row, x.id) BY <1>1, <1>2, <2>1 DEF Performers
    <3>4. made' \in 0 .. MaxEvents /\ made <= made' /\ x.id \in 1 .. made' /\ ~(made < x.id)
      BY <1>4, <2>1, <3>2
    <3> QED BY <1>2, <2>1, <3>1, <3>2, <3>3, <3>4, PutStep
  <2> QED BY <2>2, <2>3
<1>9. CASE remove(r)
  <2>1. x.op = "remove" /\ UNCHANGED <<now, types, usual, made>> BY <1>2, <1>9 DEF remove
  <2>2. CASE ~Deletable(x.user, x.id) BY <1>2, <1>5, <1>9, <2>1, <2>2 DEF remove
  <2>3. CASE Deletable(x.user, x.id)
    <3>1. /\ DeleteCareEvent(x.id) /\ Answer(r, "ok")
          /\ forms' = forms \cup {[id |-> x.id, fields |-> restoreFields(x.read)]}
      BY <1>2, <1>9, <2>3 DEF remove
    <3>2. x.id \in DOMAIN events /\ (x.user \in Owners \/ events[x.id].by = x.user)
      BY <2>3 DEF Deletable
    <3>3. RowOK(x.read) /\ Same(x.read, x.id)
      BY <1>1, <1>2, <1>3, <2>1 DEF RequestOK, Performers
    <3>4. DOMAIN reqs' = Requests /\ \A q \in Requests : reqs'[q] = IF q = r THEN Idle("ok") ELSE reqs[q]
      BY <1>1, <3>1 DEF Answer, Types
    <3>5. \A f \in forms' : f \in forms \/ (f.id = x.id /\ RowOK(f.fields) /\ Same(f.fields, x.id))
      BY <3>1, <3>3 DEF restoreFields
    <3>6. Inv' /\ PerformerStays BY <2>1, <3>1, <3>2, <3>4, <3>5, DropStep
    <3>7. events' = [i \in DOMAIN events \ {x.id} |-> events[i]]
      BY <3>1 DEF DeleteCareEvent, Without, Restrict
    <3>8. OthersKeepOut BY <1>2, <3>2, <3>4, <3>7 DEF OthersKeepOut
    <3> QED BY <3>6, <3>8
  <2> QED BY <2>2, <2>3
<1> QED BY <1>6, <1>7, <1>8, <1>9 DEF Writes

(* Undo of what was just logged.                                            *)
LEMMA UndoStep ==
    ASSUME CareAssumption, Inv, NEW u \in Users, NEW id \in DOMAIN events, undo(u, id)
    PROVE  Inv' /\ OthersKeepOut /\ PerformerStays
<1>1. DeleteCareEvent(id) /\ UNCHANGED <<now, types, usual, made, forms, reqs>> BY DEF undo
<1>2. DOMAIN reqs' = Requests BY <1>1 DEF Inv, Types
<1>3. Inv' /\ PerformerStays BY <1>1, <1>2, DropStep
<1>4. OthersKeepOut BY <1>1 DEF OthersKeepOut
<1> QED BY <1>3, <1>4

(* The care types, the schedules and the clock.                             *)
LEMMA OtherStep ==
    ASSUME CareAssumption, Inv,
           \/ \E c \in Cares :
                 \/ turnOffCareType(c) \/ turnOnCareType(c) \/ deleteCareType(c) \/ removeSchedule(c)
                 \/ \E n \in Usuals : saveSchedule(c, n)
           \/ Clock
           \/ UNCHANGED careVars
    PROVE  Inv' /\ OthersKeepOut /\ PerformerStays
<1>1. Types /\ EventHasType /\ Performers BY DEF Inv
<1>2. events' = events /\ made' = made /\ forms' = forms /\ reqs' = reqs /\ removed' = removed
  BY DEF turnOffCareType, turnOnCareType, deleteCareType, removeSchedule, saveSchedule, Clock,
     careVars
<1>3. now \in Nat /\ now' \in 0 .. MaxTime /\ now <= now'
  BY <1>1 DEF turnOffCareType, turnOnCareType, deleteCareType, removeSchedule, saveSchedule, Clock,
     careVars, Types, CareAssumption
<1>4. types' \in [Cares -> {"on", "off", "gone"}] /\ usual' \in [Cares -> {NoSchedule} \cup Usuals]
  BY <1>1 DEF turnOffCareType, turnOnCareType, deleteCareType, removeSchedule, saveSchedule, Clock,
     careVars, Types
<1>5. \A id \in DOMAIN events : types[events[id].care]' # "gone"
  <2> SUFFICES ASSUME NEW id \in DOMAIN events PROVE types'[events[id].care] # "gone" BY <1>2
  <2>1. events[id].care \in Cares BY <1>1 DEF Types, RowOK, Rows
  <2>2. types[events[id].care] # "gone" BY <1>1 DEF EventHasType
  <2>3. \A c \in Cares : deleteCareType(c) => events[id].care # c BY DEF deleteCareType, Unused
  <2> QED BY <1>1, <2>1, <2>2, <2>3 DEF turnOffCareType, turnOnCareType, deleteCareType,
          removeSchedule, saveSchedule, Clock, careVars, Types
<1>6. \A e : RowOK(e) => RowOK(e)' BY <1>3, RowKept
<1>7. made' \in Nat /\ made <= made' BY <1>1, <1>2 DEF Types, CareAssumption
<1>8. now' \in Nat BY <1>3 DEF CareAssumption
<1>9. \A x : RequestOK(x) => RequestOK(x)' BY <1>1, <1>3, <1>7, <1>8, RequestKept
<1>10. Types' BY <1>1, <1>2, <1>3, <1>4, <1>6, <1>9 DEF Types
<1>11. EventHasType' BY <1>2, <1>5 DEF EventHasType
<1>12. \A e, id : Same(e, id)' = Same(e, id) BY <1>2 DEF Same, Origin
<1>13. Performers' BY <1>1, <1>2, <1>12 DEF Performers
<1> QED BY <1>2, <1>10, <1>11, <1>13, EventsStay DEF Inv

(* The invariant holds at first.                                            *)
LEMMA InvInit == ASSUME CareAssumption, CareInit PROVE Inv
<1>1. DOMAIN reqs = Requests /\ \A r \in Requests : reqs[r] = Idle("none") BY DEF CareInit
<1>2. \A r \in Requests : RequestOK(reqs[r]) /\ reqs[r].op = "idle" BY <1>1, IdleOK
<1>3. Types BY <1>1, <1>2 DEF CareInit, Types, CareAssumption
<1>4. EventHasType BY DEF CareInit, EventHasType
<1>5. Performers BY <1>2 DEF CareInit, Performers
<1> QED BY <1>3, <1>4, <1>5 DEF Inv

(* And after every step, which takes no care from who gave it and lets      *)
(* nobody else touch it.                                                    *)
LEMMA InvStep ==
    ASSUME CareAssumption, Inv, [CareNext]_careVars
    PROVE  Inv' /\ OthersKeepOut /\ PerformerStays
BY PostStep, WriteStep, UndoStep, OtherStep DEF CareNext

-----------------------------------------------------------------------------

(* A time to the minute is not after the time.                              *)
LEMMA MinuteStarts ==
    ASSUME CareAssumption, NEW t \in Nat
    PROVE  t - (t % Minute) \in Nat /\ t - (t % Minute) <= t
<1>1. Minute \in Nat /\ Minute > 0 BY DEF CareAssumption
<1> DEFINE n == t \div Minute
<1>2. n \in Nat /\ t = Minute * n + (t % Minute) /\ t % Minute \in Nat BY <1>1
<1> HIDE DEF n
<1>3. Minute * n \in Nat BY <1>1, <1>2
<1>4. t - (t % Minute) = Minute * n BY <1>2, <1>3
<1> QED BY <1>2, <1>3, <1>4

(* The rows are of their types, no event is left pointing at a deleted care *)
(* type, however the post and the delete interleave (DeleteUnusedCareType), *)
(* and what was logged opens and can be saved again, whatever has happened  *)
(* to its care type and to the schedule (withEventCare, offerReminder).     *)
THEOREM CareHolds == ASSUME CareAssumption PROVE CareSpec => []CareAgrees
<1>1. Inv => TypeOK
  <2> SUFFICES ASSUME Inv PROVE TypeOK OBVIOUS
  <2>1. Types BY DEF Inv
  <2>2. \A id \in DOMAIN events :
            /\ events[id] \in Rows
            /\ events[id].at <= now /\ events[id].recorded <= now
            /\ events[id].done = (events[id].again = None)
    BY <2>1 DEF Types, RowOK
  <2>3. \A f \in forms : f.id \in 1 .. made /\ f.fields \in Rows BY <2>1 DEF Types, RowOK
  <2> QED BY <2>1, <2>2, <2>3 DEF Types, TypeOK
<1>2. Inv => OpensAndSaves
  <2> SUFFICES ASSUME Inv, NEW id \in DOMAIN events, NEW e, e = events[id], NEW d, d = draftOf(e)
               PROVE  d.care \in withEventCare(e) /\ accept(d, offerReminder(e, d.care), now)
    BY DEF OpensAndSaves
  <2>1. RowOK(e) /\ now \in Nat BY DEF Inv, Types, CareAssumption
  <2>2. e.at \in Nat /\ e.at <= now BY <2>1 DEF RowOK, Rows, CareAssumption
  <2>3. d.care = e.care /\ d.done = e.done /\ d.at = e.at - (e.at % Minute)
    BY DEF draftOf
  <2>4. ~e.done => e.again # None BY <2>1 DEF RowOK
  <2>5. ~d.done => d.again \in offerReminder(e, d.care) BY <2>3, <2>4 DEF draftOf, offerReminder
  <2>6. d.at \in Nat /\ d.at <= e.at BY <2>2, <2>3, MinuteStarts
  <2>7. performedAt(d, now) # None BY <2>1, <2>2, <2>6 DEF performedAt, Now, None
  <2> QED BY <2>3, <2>5, <2>7 DEF accept, withEventCare
<1>3. Inv => CareAgrees BY <1>1, <1>2 DEF Inv, CareAgrees
<1> QED BY <1>3, InvInit, InvStep, PTL DEF CareSpec

(* Who gave the care and when it was logged never change through            *)
(* corrections, deletions and restores, and care is changed, deleted or put *)
(* back only by whoever gave it or by an owner, whatever was read before    *)
(* the write (UpdateCareEvent, DeleteCareEvent, RestoreCareEvent).          *)
THEOREM CareIsKept == ASSUME CareAssumption PROVE CareSpec => CareStays
<1>1. Inv /\ [CareNext]_careVars => Inv' /\ OthersKeepOut /\ PerformerStays BY InvStep
<1> QED BY <1>1, InvInit, PTL DEF CareSpec, CareStays

-----------------------------------------------------------------------------
(* Undo.                                                                   *)

AsDeleted(row, id) == removed[id] = row \/ id \in lost

\* An event that was deleted is in one form or on its way back with one
\* request, and one that is there is in none.
Returning(r) ==
    LET x == reqs[r] IN x.op = "restore" =>
       /\ x.id \notin DOMAIN events /\ AsDeleted(x.row, x.id) /\ \A f \in forms : f.id # x.id
       /\ \A q \in Requests : reqs[q].op = "restore" /\ reqs[q].id = x.id => q = r

\* A removal whose event was not written since has read it as it is.
AsRead(r) ==
    LET x == reqs[r] IN
       x.op = "remove" /\ x.id \in DOMAIN events => x.read = events[x.id] \/ r \in behind

Kept ==
    /\ \A f \in forms : f.id \notin DOMAIN events /\ AsDeleted(f.fields, f.id)
    /\ \A f, g \in forms : f.id = g.id => f = g
    /\ \A r \in Requests : Returning(r) /\ AsRead(r)

(* A step of the request that changes no row.                               *)
LEMMA KeptReads ==
    ASSUME Types, Kept, NEW r \in Requests,
           UNCHANGED <<events, removed, lost>>, behind \subseteq behind' \cup {r},
           forms' \subseteq forms, NEW x,
           reqs' = [reqs EXCEPT ![r] = x],
           x.op = "remove" => x.read = events[x.id],
           x.op = "restore" =>
              /\ x.id \notin DOMAIN events /\ AsDeleted(x.row, x.id) /\ \A f \in forms' : f.id # x.id
              /\ \A q \in Requests : reqs[q].op = "restore" => reqs[q].id # x.id
    PROVE  Kept' /\ UndoGivesBack
<1>1. \A q \in Requests : reqs'[q] = IF q = r THEN x ELSE reqs[q] BY DEF Types
<1>2. \A row, id : AsDeleted(row, id)' = AsDeleted(row, id) BY DEF AsDeleted
<1>3. ASSUME NEW q \in Requests PROVE Returning(q)' /\ AsRead(q)'
  <2>1. CASE q = r
    <3>1. reqs'[q] = x BY <1>1, <2>1
    <3>2. AsRead(q)' BY <3>1 DEF AsRead
    <3>3. \A p \in Requests : reqs'[p].op = "restore" /\ reqs'[p].id = x.id /\ x.op = "restore" => p = r
      BY <1>1
    <3> QED BY <1>2, <2>1, <3>1, <3>2, <3>3 DEF Returning
  <2>2. CASE q # r
    <3>1. reqs'[q] = reqs[q] /\ Returning(q) /\ AsRead(q) BY <1>1, <2>2 DEF Kept
    <3>2. AsRead(q)' BY <2>2, <3>1 DEF AsRead
    <3>3. reqs[q].op = "restore" =>
             \A p \in Requests : reqs'[p].op = "restore" /\ reqs'[p].id = reqs[q].id => p = q
      BY <1>1, <2>2, <3>1 DEF Returning
    <3> QED BY <1>2, <3>1, <3>2, <3>3 DEF Returning
  <2> QED BY <2>1, <2>2
<1> QED BY <1>2, <1>3 DEF Kept, UndoGivesBack

(* An answer is one.                                                        *)
LEMMA KeptAnswers ==
    ASSUME Types, Kept, NEW r \in Requests,
           UNCHANGED <<events, removed, lost>>, behind \subseteq behind' \cup {r},
           forms' \subseteq forms, NEW code, Answer(r, code)
    PROVE  Kept' /\ UndoGivesBack
<1>1. reqs' = [reqs EXCEPT ![r] = Idle(code)] BY DEF Answer
<1> QED BY <1>1, IdleOK, KeptReads

(* What is posted and read.                                                 *)
LEMMA KeptPosts ==
    ASSUME Types, Kept, NEW r \in Requests,
           Posts(r) \/ \E d \in Drafts : save(r, d)
    PROVE  Kept' /\ UndoGivesBack
<1>1. ASSUME NEW u \in Users, NEW d \in Drafts, NEW offered, Post(r, u, d, offered)
      PROVE  Kept' /\ UndoGivesBack
  <2>1. PICK x : x = [op |-> "create", user |-> u, row |-> careEventParams(u, d, now)] OBVIOUS
  <2>2. reqs' = [reqs EXCEPT ![r] = x] /\ UNCHANGED <<events, forms, removed, behind, lost>>
    BY <1>1, <2>1 DEF Post
  <2> QED BY <2>1, <2>2, KeptReads
<1>2. ASSUME NEW u \in Users, NEW id \in DOMAIN events, ReadToSave(r, u, id)
      PROVE  Kept' /\ UndoGivesBack
  <2>1. PICK x : x = [op |-> "save", user |-> u, id |-> id, read |-> events[id], now |-> now] OBVIOUS
  <2>2. reqs' = [reqs EXCEPT ![r] = x] /\ UNCHANGED <<events, forms, removed, behind, lost>>
    BY <1>2, <2>1 DEF ReadToSave
  <2> QED BY <2>1, <2>2, KeptReads
<1>3. ASSUME NEW u \in Users, NEW id \in DOMAIN events, ReadToRemove(r, u, id)
      PROVE  Kept' /\ UndoGivesBack
  <2>1. PICK x : x = [op |-> "remove", user |-> u, id |-> id, read |-> events[id]] OBVIOUS
  <2>2. reqs' = [reqs EXCEPT ![r] = x] /\ UNCHANGED <<events, forms, removed, behind, lost>>
    BY <1>3, <2>1 DEF ReadToRemove
  <2> QED BY <2>1, <2>2, KeptReads
<1>4. ASSUME NEW u \in Users, NEW f \in forms, restore(r, u, f)
      PROVE  Kept' /\ UndoGivesBack
  <2>1. forms' = forms \ {f} /\ UNCHANGED <<events, removed, behind, lost>> BY <1>4 DEF restore
  <2>2. PICK x : x = [op |-> "restore", user |-> u, id |-> f.id, row |-> f.fields] OBVIOUS
  <2>3. \A g \in forms' : g.id # f.id BY <2>1 DEF Kept
  <2>4. /\ f.id \notin DOMAIN events /\ AsDeleted(f.fields, f.id)
        /\ \A q \in Requests : reqs[q].op = "restore" => reqs[q].id # f.id
    BY DEF Kept, Returning
  <2>5. CASE reqs' = [reqs EXCEPT ![r] = x] BY <2>1, <2>2, <2>3, <2>4, <2>5, KeptReads
  <2>6. CASE Answer(r, "404") BY <2>1, <2>6, KeptAnswers
  <2> QED BY <1>4, <2>2, <2>5, <2>6 DEF restore
<1>5. ASSUME NEW d \in Drafts, save(r, d) PROVE Kept' /\ UndoGivesBack
  <2>1. UNCHANGED <<events, forms, removed, behind, lost>> BY <1>5 DEF save
  <2>2. CASE Answer(r, "refused") BY <2>1, <2>2, KeptAnswers
  <2>3. CASE ~Answer(r, "refused")
    <3>1. PICK q : q = reqs[r] OBVIOUS
    <3>2. PICK x : x = [op |-> "update", user |-> q.user, id |-> q.id,
                        row |-> careEventParams(q.user, d, q.now)]
      OBVIOUS
    <3>3. reqs' = [reqs EXCEPT ![r] = x] BY <1>5, <2>3, <3>1, <3>2 DEF save, Types
    <3> QED BY <2>1, <3>2, <3>3, KeptReads
  <2> QED BY <2>2, <2>3
<1> QED BY <1>1, <1>2, <1>3, <1>4, <1>5 DEF Posts, log, logOnPlant

(* What is written.                                                         *)
LEMMA KeptWrites ==
    ASSUME CareAssumption, Inv, Kept, NEW r \in Requests, Writes(r)
    PROVE  Kept' /\ UndoGivesBack
<1>1. Types BY DEF Inv
<1>2. PICK x : x = reqs[r] OBVIOUS
<1>3. /\ made \in Nat /\ \A f \in forms : f.id \in 1 .. made
      /\ \A q \in Requests : reqs[q].op \in {"restore", "remove"} => reqs[q].id \in 1 .. made
  BY <1>1 DEF Types, RequestOK
<1>4. ASSUME NEW code, Answer(r, code)
      PROVE  \A q \in Requests : reqs'[q].op = "restore" => q # r /\ reqs'[q] = reqs[q]
  BY <1>1, <1>4, IdleOK DEF Answer, Types
<1>5. ASSUME NEW id, NEW e, events' = With(id, e), UNCHANGED <<forms, removed>>,
             \A f \in forms : f.id # id,
             \A q \in Requests : q # r /\ reqs[q].op = "restore" => reqs[q].id # id,
             \A q \in Requests : reqs[q].op = "remove" /\ reqs[q].id = id => q \in behind',
             behind \subseteq behind', lost \subseteq lost' \cup {id}, NEW code, Answer(r, code)
      PROVE  Kept' /\ DOMAIN events' = DOMAIN events \cup {id} /\ events'[id] = e
  <2>1. /\ DOMAIN events' = DOMAIN events \cup {id} /\ events'[id] = e
        /\ \A i \in DOMAIN events : i # id => events'[i] = events[i]
    BY <1>5 DEF With
  <2>2. \A row, i : i # id /\ AsDeleted(row, i) => AsDeleted(row, i)' BY <1>5 DEF AsDeleted
  <2>3. ASSUME NEW q \in Requests PROVE Returning(q)' /\ AsRead(q)'
    <3>1. CASE q = r
      <4>1. reqs'[q].op = "idle" BY <1>1, <1>5, <3>1, IdleOK DEF Answer, Types
      <4> QED BY <4>1 DEF Returning, AsRead
    <3>2. CASE q # r
      <4>1. reqs'[q] = reqs[q] /\ Returning(q) /\ AsRead(q)
        BY <1>1, <1>5, <3>2 DEF Answer, Types, Kept
      <4>2. AsRead(q)' BY <1>5, <2>1, <4>1 DEF AsRead
      <4> QED BY <1>4, <1>5, <2>1, <2>2, <3>2, <4>1, <4>2 DEF Returning
    <3> QED BY <3>1, <3>2
  <2> QED BY <1>5, <2>1, <2>2, <2>3 DEF Kept
<1>6. CASE UNCHANGED <<events, removed, lost, forms>> /\ behind \subseteq behind' \cup {r}
  <2>1. \E code : Answer(r, code)
    BY <1>6 DEF Writes, CreateCareEvent, UpdateCareEvent, RestoreCareEvent, remove
  <2> QED BY <1>1, <1>6, <2>1, KeptAnswers
<1>7. CASE CreateCareEvent(r)
  <2>1. CASE types[x.row.care] = "gone" BY <1>2, <1>6, <1>7, <2>1 DEF CreateCareEvent
  <2>2. CASE types[x.row.care] # "gone"
    <3>1. /\ events' = With(made + 1, x.row) /\ Answer(r, "ok")
          /\ UNCHANGED <<forms, removed, behind, lost>>
      BY <1>2, <1>7, <2>2 DEF CreateCareEvent
    <3>2. /\ \A f \in forms : f.id # made + 1
          /\ \A q \in Requests : reqs[q].op \in {"restore", "remove"} => reqs[q].id # made + 1
      BY <1>3
    <3>3. Kept' /\ DOMAIN events' = DOMAIN events \cup {made + 1} BY <1>5, <3>1, <3>2
    <3> QED BY <1>3, <3>3 DEF UndoGivesBack
  <2> QED BY <2>1, <2>2
<1>8. CASE UpdateCareEvent(r)
  <2>1. CASE UNCHANGED <<events, behind>> BY <1>6, <1>8, <2>1 DEF UpdateCareEvent
  <2>2. CASE ~UNCHANGED <<events, behind>>
    <3>1. /\ events' = With(x.id, UpdatedRow(events[x.id], x.row)) /\ x.id \in DOMAIN events
          /\ Answer(r, "ok") /\ UNCHANGED <<forms, removed, lost>> /\ behind' = BehindAfter(x.id)
      BY <1>2, <1>8, <2>2 DEF UpdateCareEvent
    <3>2. /\ \A f \in forms : f.id # x.id
          /\ \A q \in Requests : reqs[q].op = "restore" => reqs[q].id # x.id
      BY <3>1 DEF Kept, Returning
    <3>3. Kept' /\ DOMAIN events' = DOMAIN events \cup {x.id}
      BY <1>5, <3>1, <3>2 DEF BehindAfter
    <3> QED BY <3>1, <3>3 DEF UndoGivesBack
  <2> QED BY <2>1, <2>2
<1>9. CASE RestoreCareEvent(r)
  <2>1. CASE UNCHANGED <<events, behind, lost>> BY <1>6, <1>9, <2>1 DEF RestoreCareEvent
  <2>2. CASE ~UNCHANGED <<events, behind, lost>>
    <3>1. /\ events' = With(x.id, x.row) /\ Answer(r, "ok") /\ UNCHANGED <<forms, removed>>
          /\ x.op = "restore" /\ behind' = BehindAfter(x.id) /\ lost' = lost \ {x.id}
      BY <1>2, <1>9, <2>2 DEF RestoreCareEvent
    <3>2. /\ AsDeleted(x.row, x.id) /\ \A f \in forms : f.id # x.id
          /\ \A q \in Requests : q # r /\ reqs[q].op = "restore" => reqs[q].id # x.id
      BY <1>2, <3>1 DEF Kept, Returning
    <3>3. Kept' /\ DOMAIN events' = DOMAIN events \cup {x.id} /\ events'[x.id] = x.row
      BY <1>5, <3>1, <3>2 DEF BehindAfter
    <3> QED BY <3>2, <3>3 DEF UndoGivesBack, AsDeleted
  <2> QED BY <2>1, <2>2
<1>10. CASE remove(r) /\ Deletable(x.user, x.id)
  <2>1. /\ DeleteCareEvent(x.id) /\ Answer(r, "ok") /\ x.id \in DOMAIN events /\ x.op = "remove"
        /\ forms' = forms \cup {[id |-> x.id, fields |-> x.read]} /\ behind' = behind \ {r}
        /\ lost' = IF r \in behind THEN lost \cup {x.id} ELSE lost \ {x.id}
    BY <1>2, <1>10 DEF remove, Deletable, restoreFields
  <2>2. /\ \A f \in forms : f.id # x.id
        /\ \A q \in Requests : reqs[q].op = "restore" => reqs[q].id # x.id
    BY <2>1 DEF Kept, Returning
  <2>3. x.id \in DOMAIN removed BY <1>1, <2>1 DEF Types, CareAssumption
  <2>4. /\ events' = [i \in DOMAIN events \ {x.id} |-> events[i]]
        /\ removed'[x.id] = events[x.id] /\ \A i : i # x.id => removed'[i] = removed[i]
    BY <2>1, <2>3 DEF DeleteCareEvent, Without, Restrict
  <2>5. \A row, i : i # x.id /\ AsDeleted(row, i) => AsDeleted(row, i)'
    BY <2>1, <2>4 DEF AsDeleted
  <2>6. x.read = events[x.id] \/ r \in behind BY <1>2, <2>1 DEF Kept, AsRead
  <2>7. AsDeleted(x.read, x.id)' BY <2>1, <2>4, <2>6 DEF AsDeleted
  <2>8. ASSUME NEW q \in Requests PROVE Returning(q)' /\ AsRead(q)'
    <3>1. CASE q = r
      <4>1. reqs'[q].op = "idle" BY <1>1, <2>1, <3>1, IdleOK DEF Answer, Types
      <4> QED BY <4>1 DEF Returning, AsRead
    <3>2. CASE q # r
      <4>1. reqs'[q] = reqs[q] /\ Returning(q) /\ AsRead(q)
        BY <1>1, <2>1, <3>2 DEF Answer, Types, Kept
      <4>2. AsRead(q)' BY <2>1, <2>4, <3>2, <4>1 DEF AsRead
      <4> QED BY <1>4, <2>1, <2>2, <2>4, <2>5, <4>1, <4>2 DEF Returning
    <3> QED BY <3>1, <3>2
  <2>9. Kept' BY <2>1, <2>2, <2>4, <2>5, <2>7, <2>8 DEF Kept
  <2> QED BY <2>4, <2>9 DEF UndoGivesBack
<1>11. CASE remove(r) /\ ~Deletable(x.user, x.id) BY <1>2, <1>6, <1>11 DEF remove
<1> QED BY <1>7, <1>8, <1>9, <1>10, <1>11 DEF Writes

(* Undo of what was just logged, and the steps that change no event.        *)
LEMMA KeptOthers ==
    ASSUME CareAssumption, Inv, Kept,
           \/ \E u \in Users, id \in DOMAIN events : undo(u, id)
           \/ UNCHANGED <<events, forms, reqs, removed, behind, lost>>
    PROVE  Kept' /\ UndoGivesBack
<1>1. CASE UNCHANGED <<events, forms, reqs, removed, behind, lost>> BY <1>1 DEF Kept, Returning, AsRead, AsDeleted, UndoGivesBack
<1>2. ASSUME NEW u \in Users, NEW id \in DOMAIN events, undo(u, id) PROVE Kept' /\ UndoGivesBack
  <2>1. /\ events' = [i \in DOMAIN events \ {id} |-> events[i]]
        /\ \A i : i # id => removed'[i] = removed[i]
        /\ UNCHANGED <<forms, reqs, behind, lost>>
    BY <1>2 DEF undo, DeleteCareEvent, Without, Restrict, Inv, Types
  <2>2. \A f \in forms : f.id # id BY DEF Kept
  <2>3. \A r \in Requests : reqs[r].op = "restore" => reqs[r].id # id BY DEF Kept, Returning
  <2>4. Kept' BY <2>1, <2>2, <2>3 DEF Kept, Returning, AsRead, AsDeleted
  <2> QED BY <2>1, <2>4 DEF UndoGivesBack
<1> QED BY <1>1, <1>2

(* What Undo puts back is the event that was deleted, field for field,      *)
(* while any number of requests correct it, delete it and put it back       *)
(* (deletedRow and restoreFields, correct.go:553; RestoreCareEvent).  What  *)
(* it can lose is a correction, or an earlier Undo, between the read and    *)
(* the delete of the request that deleted it, which takes no lock.          *)
THEOREM UndoPutsBack ==
    ASSUME CareAssumption
    PROVE  CareSpec => [][UndoGivesBack]_careVars
<1>1. CareAssumption OBVIOUS
<1>2. CareInit => Inv /\ Kept
  <2> SUFFICES ASSUME CareInit PROVE Inv /\ Kept OBVIOUS
  <2>1. \A r \in Requests : reqs[r].op = "idle" BY IdleOK DEF CareInit
  <2>2. Kept BY <2>1 DEF Kept, Returning, AsRead, CareInit
  <2> QED BY <1>1, <2>2, InvInit
<1>3. Inv /\ Kept /\ [CareNext]_careVars => Inv' /\ Kept' /\ UndoGivesBack
  <2> SUFFICES ASSUME Inv, Kept, [CareNext]_careVars PROVE Inv' /\ Kept' /\ UndoGivesBack OBVIOUS
  <2>1. Inv' /\ Types BY <1>1, InvStep DEF Inv
  <2>2. ASSUME NEW r \in Requests, Posts(r) \/ \E d \in Drafts : save(r, d)
        PROVE  Kept' /\ UndoGivesBack
    BY <1>1, <2>1, <2>2, KeptPosts
  <2>3. ASSUME NEW r \in Requests, Writes(r) PROVE Kept' /\ UndoGivesBack
    BY <1>1, <2>3, KeptWrites
  <2>4. ASSUME NEW u \in Users, NEW id \in DOMAIN events, undo(u, id) PROVE Kept' /\ UndoGivesBack
    BY <1>1, <2>4, KeptOthers
  <2>5. ASSUME \/ \E c \in Cares :
                     \/ turnOffCareType(c) \/ turnOnCareType(c) \/ deleteCareType(c)
                     \/ removeSchedule(c) \/ \E n \in Usuals : saveSchedule(c, n)
               \/ Clock \/ UNCHANGED careVars
        PROVE  Kept' /\ UndoGivesBack
    <3>1. UNCHANGED <<events, forms, reqs, removed, behind, lost>>
      BY <2>5 DEF turnOffCareType, turnOnCareType, deleteCareType, removeSchedule,
         saveSchedule, Clock,
         careVars
    <3> QED BY <1>1, <3>1, KeptOthers
  <2> QED BY <2>1, <2>2, <2>3, <2>4, <2>5 DEF CareNext
<1> QED BY <1>2, <1>3, PTL DEF CareSpec

-----------------------------------------------------------------------------
(* The types of a garden.                                                  *)

Slugs == {Slug[n] : n \in Names} \ {Kinds!Free}
Pictures == Icons \cup {Seeded[s] : s \in DOMAIN Seeded}
KindRec == [name : Names, slug : Slugs, icon : Pictures, off : BOOLEAN]

IconOK(slug, icon) ==
    /\ icon \in Pictures
    /\ IF slug \in DOMAIN Seeded THEN icon = Seeded[slug] ELSE icon \in Icons

KindOK(x) == x \in KindRec /\ IconOK(x.slug, x.icon)

\* The slug a request read is the slug the type still has.
KindRequestOK(x) ==
    /\ x.op \in {"idle", "create", "save", "update", "off", "on", "delete"}
    /\ x.op = "create" => KindOK(x.row)
    /\ x.op = "save" => /\ x.id \in 1 .. made /\ KindOK(x.read)
                        /\ x.id \in DOMAIN types => types[x.id].slug = x.read.slug
    /\ x.op = "update" => /\ x.id \in 1 .. made /\ x.name \in Names /\ x.icon \in Pictures
                          /\ x.id \in DOMAIN types => IconOK(types[x.id].slug, x.icon)

KindsInv ==
    /\ DOMAIN types \subseteq 1 .. made /\ made \in 0 .. MaxTypes /\ used \subseteq DOMAIN types
    /\ \A id \in DOMAIN types : KindOK(types[id])
    /\ \A i, j \in DOMAIN types : types[i].slug = types[j].slug => i = j
    /\ DOMAIN reqs = Requests /\ \A r \in Requests : KindRequestOK(reqs[r])

\* The properties, of the states and of the steps.
KindsHold == Kinds!TypeOK /\ Kinds!SeededIconStays
KindsStay == Kinds!OfferedWorks /\ Kinds!SlugNamesOne

(* What holds of the rows is what the properties say of them.               *)
LEMMA KindsInvHolds == ASSUME KindsInv PROVE KindsHold
BY DEF KindsInv, KindsHold, Kinds!TypeOK, Kinds!SeededIconStays, KindOK, KindRec, Slugs, IconOK

(* A garden starts with the seeded types, each under a slug of its own.     *)
LEMMA KindsInit == ASSUME Kinds!CareTypesAssumption, Kinds!Init PROVE KindsInv
<1>0. Kinds!Cardinality(DOMAIN Seeded) = Cardinality(DOMAIN Seeded)
  BY DEF Kinds!Cardinality, Cardinality
<1>1. PICK f \in Kinds!Bijection(1 .. Cardinality(DOMAIN Seeded), DOMAIN Seeded) :
          types = [i \in DOMAIN f |->
                      [name |-> CHOOSE n \in Names : Slug[n] = f[i],
                       slug |-> f[i], icon |-> Seeded[f[i]], off |-> FALSE]]
  BY <1>0 DEF Kinds!Init
<1>2. Cardinality(DOMAIN Seeded) \in Nat
  <2>1. IsFiniteSet(DOMAIN Seeded) BY DEF Kinds!CareTypesAssumption, Kinds!IsFiniteSet, IsFiniteSet
  <2> QED BY <2>1, FS_CardinalityType
<1>3. /\ f \in [1 .. Cardinality(DOMAIN Seeded) -> DOMAIN Seeded]
      /\ \A i, j \in DOMAIN f : f[i] = f[j] => i = j
  BY <1>1 DEF Kinds!Bijection, Kinds!Injection, Kinds!IsInjective
<1>4. \A i \in DOMAIN types : KindOK(types[i])
  <2> SUFFICES ASSUME NEW i \in DOMAIN f PROVE KindOK(types[i]) BY <1>1
  <2>1. f[i] \in DOMAIN Seeded BY <1>3
  <2>2. PICK n \in Names : Slug[n] = f[i] BY <2>1 DEF Kinds!CareTypesAssumption
  <2>3. (CHOOSE m \in Names : Slug[m] = f[i]) \in Names BY <2>2
  <2>4. f[i] \in Slugs BY <2>1, <2>2 DEF Slugs, Kinds!Free, Kinds!CareTypesAssumption
  <2>5. IconOK(f[i], Seeded[f[i]]) BY <2>1 DEF IconOK, Pictures
  <2> QED BY <1>1, <2>3, <2>4, <2>5 DEF KindOK, KindRec, IconOK
<1>5. \A r \in Requests : KindRequestOK(reqs[r])
  BY DEF Kinds!Init, KindRequestOK, Kinds!Idle
<1>6. DOMAIN types = 1 .. made /\ made \in 0 .. MaxTypes
  <2>1. made = Cardinality(DOMAIN Seeded) BY <1>0 DEF Kinds!Init
  <2>2. DOMAIN types = 1 .. Cardinality(DOMAIN Seeded) BY <1>1, <1>3
  <2>3. MaxTypes \in Nat /\ Cardinality(DOMAIN Seeded) <= MaxTypes
    BY <1>0 DEF Kinds!CareTypesAssumption
  <2> QED BY <1>2, <2>1, <2>2, <2>3
<1>7. \A i, j \in DOMAIN types : types[i].slug = types[j].slug => i = j BY <1>1, <1>3
<1> QED BY <1>4, <1>5, <1>6, <1>7 DEF KindsInv, Kinds!Init

\* A request that stays as it was is still right when the slugs are as they were.
LEMMA KindRequestKept ==
    ASSUME NEW x, KindRequestOK(x), made \in Nat, made' \in Nat, made <= made',
           DOMAIN types \subseteq 1 .. made, 
           \A id \in DOMAIN types' \cap 1 .. made : id \in DOMAIN types /\ types'[id].slug = types[id].slug
    PROVE  KindRequestOK(x)'
BY DEF KindRequestOK, KindOK, IconOK, KindRec, Slugs, Pictures

(* A step that gives no type another slug or an icon that is not its own,   *)
(* and changes the type of no slug, keeps the rows right.                   *)
LEMMA KindsKept ==
    ASSUME KindsInv, NEW r \in Requests, NEW x, 
           reqs' = [reqs EXCEPT ![r] = x], KindRequestOK(x),
           made' \in made .. MaxTypes, DOMAIN types' \subseteq 1 .. made', used' \subseteq DOMAIN types',
           \A id \in DOMAIN types' : KindOK(types'[id]),
           \A id \in DOMAIN types' \cap 1 .. made : id \in DOMAIN types /\ types'[id].slug = types[id].slug,
           \A i, j \in DOMAIN types' : types'[i].slug = types'[j].slug => i = j
    PROVE  KindsInv'
<1>0. made \in Nat /\ made' \in Nat /\ made <= made' /\ DOMAIN types \subseteq 1 .. made
  BY DEF KindsInv
<1>1. ASSUME NEW q \in Requests PROVE KindRequestOK(reqs[q])'
  <2>1. PICK y : y = reqs'[q] /\ KindRequestOK(y) BY DEF KindsInv
  <2>2. KindRequestOK(y)' BY <1>0, <2>1, KindRequestKept
  <2> QED BY <2>1, <2>2
<1>2. \A id \in DOMAIN types' : KindOK(types[id])' BY DEF KindOK, KindRec, Slugs, Pictures, IconOK
<1> QED BY <1>0, <1>1, <1>2 DEF KindsInv

\* A request that becomes idle is right.
LEMMA KindsIdle ==
    ASSUME NEW code PROVE KindRequestOK(Kinds!Idle(code)) /\ Kinds!Idle(code).op = "idle"
BY DEF KindRequestOK, Kinds!Idle

\* A request that is refused as invalid, or fails, does not answer 404.
LEMMA KindsCodes ==
    /\ Kinds!Idle("422") # Kinds!Idle("404")
    /\ Kinds!Idle("saved") # Kinds!Idle("404")
    /\ \A x : x.op # "idle" => x # Kinds!Idle("404")
<1>1. Kinds!Idle("422").answer = "422" /\ Kinds!Idle("404").answer = "404"
      /\ Kinds!Idle("saved").answer = "saved" /\ Kinds!Idle("404").op = "idle"
  BY DEF Kinds!Idle
<1> QED BY <1>1

\* What a request does that presses no button leaves the buttons of the others.
LEMMA KindsOthers ==
    ASSUME KindsInv, NEW r \in Requests, NEW x, reqs' = [reqs EXCEPT ![r] = x],
           x # Kinds!Idle("404") \/ reqs[r].op \notin {"off", "on", "delete"}
    PROVE  Kinds!OfferedWorks
BY KindsCodes DEF KindsInv, Kinds!OfferedWorks

(* What a request reads, or refuses, is right when it is read; nothing else *)
(* changes.                                                                 *)
LEMMA KindsReads ==
    ASSUME KindsInv, NEW r \in Requests, NEW name \in Names, NEW icon \in Icons \cup {"unknown"},
           \/ Kinds!createCareType(r, name, icon) \/ Kinds!saveCareType(r, name, icon)
           \/ \E id \in DOMAIN types :
                 Kinds!ReadToSave(r, id) \/ Kinds!ReadToDrop(r, id, Kinds!openCareType(id))
    PROVE  KindsInv' /\ KindsStay
<1>1. UNCHANGED <<types, made, used>>
  BY DEF Kinds!createCareType, Kinds!saveCareType, Kinds!ReadToSave, Kinds!ReadToDrop
<1>2. PICK x : reqs' = [reqs EXCEPT ![r] = x] /\ KindRequestOK(x) /\ x # Kinds!Idle("404")
  <2>1. CASE Kinds!createCareType(r, name, icon)
    <3>1. CASE Kinds!Refusal(Slug[name], icon, name) \/ Kinds!careTypeWithSlug(Slug[name])
      <4>1. reqs' = [reqs EXCEPT ![r] = Kinds!Idle("422")]
        BY <2>1, <3>1 DEF Kinds!createCareType, Kinds!Answer
      <4> QED BY <4>1, KindsIdle, KindsCodes
    <3>2. CASE ~(Kinds!Refusal(Slug[name], icon, name) \/ Kinds!careTypeWithSlug(Slug[name]))
      <4> DEFINE row == [name |-> name, slug |-> Slug[name],
                         icon |-> Kinds!IconFor(Slug[name], icon), off |-> FALSE]
      <4>1. reqs' = [reqs EXCEPT ![r] = [op |-> "create", row |-> row]]
        BY <2>1, <3>2 DEF Kinds!createCareType
      <4>2. Slug[name] \in Slugs BY <3>2 DEF Slugs, Kinds!Refusal, Kinds!nameProblem
      <4>3. IconOK(Slug[name], Kinds!IconFor(Slug[name], icon))
        BY <3>2 DEF IconOK, Pictures, Kinds!IconFor, Kinds!Refusal, Kinds!knownCareIcon
      <4>4. KindOK(row) BY <4>2, <4>3 DEF KindOK, KindRec, IconOK
      <4>5. KindRequestOK([op |-> "create", row |-> row]) BY <4>4 DEF KindRequestOK
      <4> QED BY <4>1, <4>5 DEF Kinds!Idle
    <3> QED BY <3>1, <3>2
  <2>2. CASE Kinds!saveCareType(r, name, icon)
    <3> DEFINE care == reqs[r].read
    <3>0. reqs[r].op = "save" /\ KindRequestOK(reqs[r]) BY <2>2 DEF KindsInv, Kinds!saveCareType
    <3>1. CASE Kinds!Refusal(care.slug, icon, name)
               \/ (Slug[name] # care.slug /\ Kinds!careTypeWithSlug(Slug[name]))
      <4>1. reqs' = [reqs EXCEPT ![r] = Kinds!Idle("422")]
        BY <2>2, <3>1 DEF Kinds!saveCareType, Kinds!Answer
      <4> QED BY <4>1, KindsIdle, KindsCodes
    <3>2. CASE ~(Kinds!Refusal(care.slug, icon, name)
                 \/ (Slug[name] # care.slug /\ Kinds!careTypeWithSlug(Slug[name])))
      <4> DEFINE x == [op |-> "update", id |-> reqs[r].id, name |-> name,
                       icon |-> IF care.slug \in DOMAIN Seeded THEN care.icon ELSE icon]
      <4>1. reqs' = [reqs EXCEPT ![r] = x] BY <2>2, <3>2 DEF Kinds!saveCareType, KindsInv
      <4>2. IconOK(care.slug, x.icon)
        BY <3>0, <3>2 DEF KindRequestOK, KindOK, IconOK, Pictures, Kinds!Refusal,
           Kinds!knownCareIcon
      <4>3. KindRequestOK(x) BY <3>0, <4>2 DEF KindRequestOK, IconOK
      <4> QED BY <4>1, <4>3 DEF Kinds!Idle
    <3> QED BY <3>1, <3>2
  <2>3. ASSUME NEW id \in DOMAIN types, Kinds!ReadToSave(r, id)
        PROVE  \E x : reqs' = [reqs EXCEPT ![r] = x] /\ KindRequestOK(x) /\ x # Kinds!Idle("404")
    <3>1. KindRequestOK([op |-> "save", id |-> id, read |-> types[id]]) BY DEF KindsInv,
            KindRequestOK
    <3> QED BY <2>3, <3>1 DEF Kinds!ReadToSave, Kinds!Idle
  <2>4. ASSUME NEW id \in DOMAIN types, Kinds!ReadToDrop(r, id, Kinds!openCareType(id))
        PROVE  \E x : reqs' = [reqs EXCEPT ![r] = x] /\ KindRequestOK(x) /\ x # Kinds!Idle("404")
    <3>1. Kinds!openCareType(id) \in {"on", "off", "delete"} BY DEF Kinds!openCareType
    <3>2. KindRequestOK([op |-> Kinds!openCareType(id), id |-> id]) BY <3>1 DEF KindRequestOK
    <3> QED BY <2>4, <3>1, <3>2 DEF Kinds!ReadToDrop, Kinds!Idle
  <2> QED BY <2>1, <2>2, <2>3, <2>4
<1>3. KindsInv'
  <2>1. made' \in made .. MaxTypes BY <1>1 DEF KindsInv
  <2> QED BY <1>1, <1>2, <2>1, KindsKept DEF KindsInv
<1>4. KindsStay
  BY <1>1, <1>2, KindsOthers DEF KindsStay, Kinds!SlugNamesOne, KindsInv
<1> QED BY <1>3, <1>4

(* The unique index on the slug refuses the second of two additions, and a  *)
(* type that is renamed keeps its slug.                                     *)
LEMMA KindsSaved ==
    ASSUME Kinds!CareTypesAssumption, KindsInv, NEW r \in Requests,
           Kinds!CreateCareType(r) \/ Kinds!UpdateCareType(r)
    PROVE  KindsInv' /\ KindsStay
<1>0. MaxTypes \in Nat BY DEF Kinds!CareTypesAssumption
<1>1. CASE Kinds!CreateCareType(r)
  <2>1. reqs[r].op = "create" /\ KindRequestOK(reqs[r]) /\ used' = used
    BY <1>1 DEF KindsInv, Kinds!CreateCareType
  <2>2. CASE Kinds!Conflicts(reqs[r].row.slug)
    <3>1. reqs' = [reqs EXCEPT ![r] = Kinds!Idle("500")] /\ UNCHANGED <<types, made>>
      BY <1>1, <2>2 DEF Kinds!CreateCareType, Kinds!Answer
    <3>2. made' \in made .. MaxTypes BY <2>1, <3>1 DEF KindsInv
    <3>3. KindsInv' BY <2>1, <3>1, <3>2, KindsIdle, KindsKept DEF KindsInv
    <3>4. Kinds!OfferedWorks BY <2>1, <3>1, KindsOthers
    <3> QED BY <3>1, <3>3, <3>4 DEF KindsInv, KindsStay, Kinds!SlugNamesOne
  <2>3. CASE ~Kinds!Conflicts(reqs[r].row.slug)
    <3> DEFINE row == reqs[r].row
    <3>1. /\ reqs' = [reqs EXCEPT ![r] = Kinds!Idle("saved")] /\ made' = made + 1 /\ made < MaxTypes
          /\ types' = [i \in DOMAIN types \cup {made + 1} |-> IF i = made + 1 THEN row ELSE types[i]]
      BY <1>1, <2>3 DEF Kinds!CreateCareType, Kinds!Answer, Kinds!Put
    <3>2. made' \in made .. MaxTypes /\ DOMAIN types' \subseteq 1 .. made' /\ made + 1 \notin 1 .. made
      <4>1. made \in Nat /\ MaxTypes \in Int /\ DOMAIN types \subseteq 1 .. made BY <1>0 DEF KindsInv
      <4>2. DOMAIN types' = DOMAIN types \cup {made + 1} BY <3>1
      <4> QED BY <3>1, <4>1, <4>2
    <3>3. \A id \in DOMAIN types : types[id].slug # row.slug
      BY <2>3 DEF Kinds!Conflicts, Kinds!Holders
    <3>4. \A id \in DOMAIN types' : KindOK(types'[id]) BY <2>1, <3>1 DEF KindsInv, KindRequestOK
    <3>5. \A id \in DOMAIN types' \cap 1 .. made : id \in DOMAIN types /\ types'[id] = types[id]
      BY <3>1, <3>2
    <3>6. \A i, j \in DOMAIN types' : types'[i].slug = types'[j].slug => i = j
      BY <3>1, <3>3 DEF KindsInv
    <3>7. used' \subseteq DOMAIN types' BY <2>1, <3>1 DEF KindsInv
    <3>8. KindsInv'
      <4>1. KindRequestOK(Kinds!Idle("saved")) BY KindsIdle
      <4>2. \A id \in DOMAIN types' \cap 1 .. made : id \in DOMAIN types /\ types'[id].slug = types[id].slug
        BY <3>5
      <4> HIDE DEF row
      <4> QED BY <3>1, <3>2, <3>4, <3>6, <3>7, <4>1, <4>2, KindsKept
    <3>9. \A i \in DOMAIN types \cap DOMAIN types' : types'[i].slug = types[i].slug
      BY <3>5 DEF KindsInv
    <3>10. Kinds!OfferedWorks BY <2>1, <3>1, KindsOthers
    <3> QED BY <3>6, <3>8, <3>9, <3>10 DEF KindsStay, Kinds!SlugNamesOne
  <2> QED BY <2>2, <2>3
<1>2. CASE Kinds!UpdateCareType(r)
  <2> DEFINE id == reqs[r].id
  <2>1. reqs[r].op = "update" /\ KindRequestOK(reqs[r]) /\ UNCHANGED <<made, used>>
    BY <1>2 DEF KindsInv, Kinds!UpdateCareType
  <2>2. CASE id \notin DOMAIN types
    <3>1. reqs' = [reqs EXCEPT ![r] = Kinds!Idle("500")] /\ UNCHANGED types
      BY <1>2, <2>2 DEF Kinds!UpdateCareType, Kinds!Answer
    <3>2. made' \in made .. MaxTypes BY <2>1, <3>1 DEF KindsInv
    <3>3. KindsInv' BY <2>1, <3>1, <3>2, KindsIdle, KindsKept DEF KindsInv
    <3>4. Kinds!OfferedWorks BY <2>1, <3>1, KindsOthers
    <3> QED BY <3>1, <3>3, <3>4 DEF KindsInv, KindsStay, Kinds!SlugNamesOne
  <2>3. CASE id \in DOMAIN types
    <3> DEFINE row == Kinds!UpdatedType(types[id], reqs[r].name, reqs[r].icon)
    <3>1. /\ reqs' = [reqs EXCEPT ![r] = Kinds!Idle("saved")]
          /\ types' = [i \in DOMAIN types |-> IF i = id THEN row ELSE types[i]]
      <4>1. DOMAIN types \cup {id} = DOMAIN types BY <2>3
      <4> QED BY <1>2, <2>3, <4>1 DEF Kinds!UpdateCareType, Kinds!Answer, Kinds!Put
    <3>2. types[id] \in KindRec BY <2>3 DEF KindsInv, KindOK
    <3>3. row \in KindRec /\ row.slug = types[id].slug /\ row.icon = reqs[r].icon
      BY <2>1, <3>2 DEF Kinds!UpdatedType, KindRec, KindRequestOK
    <3>4. KindOK(row) BY <2>1, <2>3, <3>3 DEF KindOK, KindRequestOK
    <3>5. /\ DOMAIN types' = DOMAIN types
          /\ \A i \in DOMAIN types : types'[i].slug = types[i].slug /\ KindOK(types'[i])
      BY <3>1, <3>3, <3>4 DEF KindsInv
    <3>6. made' \in made .. MaxTypes BY <2>1 DEF KindsInv
    <3>7. KindsInv'
      <4>1. KindRequestOK(Kinds!Idle("saved")) BY KindsIdle
      <4>2. \A i \in DOMAIN types' : KindOK(types'[i]) BY <3>5
      <4>3. \A i \in DOMAIN types' \cap 1 .. made : i \in DOMAIN types /\ types'[i].slug = types[i].slug
        BY <3>5
      <4>4. \A i, j \in DOMAIN types' : types'[i].slug = types'[j].slug => i = j BY <3>5 DEF KindsInv
      <4>5. DOMAIN types' \subseteq 1 .. made' /\ used' \subseteq DOMAIN types'
        BY <2>1, <3>5 DEF KindsInv
      <4> HIDE DEF row
      <4> QED BY <3>1, <3>6, <4>1, <4>2, <4>3, <4>4, <4>5, KindsKept
    <3>8. Kinds!OfferedWorks BY <2>1, <3>1, KindsOthers
    <3> QED BY <3>5, <3>7, <3>8 DEF KindsInv, KindsStay, Kinds!SlugNamesOne
  <2> QED BY <2>2, <2>3
<1> QED BY <1>1, <1>2

(* A button that is still offered does what it says.                        *)
LEMMA KindsDropped ==
    ASSUME KindsInv, NEW r \in Requests,
           Kinds!turnOffCareType(r) \/ Kinds!turnOnCareType(r) \/ Kinds!deleteCareType(r)
    PROVE  KindsInv' /\ KindsStay
<1> DEFINE id == reqs[r].id
<1>1. PICK code : reqs' = [reqs EXCEPT ![r] = Kinds!Idle(code)]
  BY DEF Kinds!turnOffCareType, Kinds!turnOnCareType, Kinds!deleteCareType, Kinds!Answer
<1>2. UNCHANGED <<made, used>>
  BY DEF Kinds!turnOffCareType, Kinds!turnOnCareType, Kinds!deleteCareType
<1>3. /\ DOMAIN types' \subseteq DOMAIN types /\ used \subseteq DOMAIN types'
      /\ \A i \in DOMAIN types' : KindOK(types'[i]) /\ types'[i].slug = types[i].slug
  <2>1. ASSUME NEW o \in BOOLEAN, id \in DOMAIN types, types' = [types EXCEPT ![id].off = o]
        PROVE  /\ DOMAIN types' = DOMAIN types
               /\ \A i \in DOMAIN types' : KindOK(types'[i]) /\ types'[i].slug = types[i].slug
    <3>1. types[id] \in KindRec BY <2>1 DEF KindsInv, KindOK
    <3>2. [types[id] EXCEPT !.off = o] \in KindRec
          /\ [types[id] EXCEPT !.off = o].slug = types[id].slug
          /\ [types[id] EXCEPT !.off = o].icon = types[id].icon
      BY <3>1 DEF KindRec
    <3> QED BY <2>1, <3>2 DEF KindsInv, KindOK
  <2>2. CASE UNCHANGED types BY <2>2 DEF KindsInv
  <2>3. CASE types' = [types EXCEPT ![id].off = TRUE] /\ id \in DOMAIN types
    BY <2>1, <2>3 DEF KindsInv
  <2>4. CASE types' = [types EXCEPT ![id].off = FALSE] /\ id \in DOMAIN types
    BY <2>1, <2>4 DEF KindsInv
  <2>5. CASE types' = Kinds!Restrict(types, DOMAIN types \ {id}) /\ id \notin used
    BY <2>5 DEF KindsInv, Kinds!Restrict
  <2> QED BY <2>2, <2>3, <2>4, <2>5 DEF Kinds!turnOffCareType, Kinds!turnOnCareType,
            Kinds!deleteCareType
<1>4. KindsInv'
  <2>1. DOMAIN types' \subseteq 1 .. made' /\ made' \in made .. MaxTypes /\ used' \subseteq DOMAIN types'
    BY <1>2, <1>3 DEF KindsInv
  <2>2. \A i, j \in DOMAIN types' : types'[i].slug = types'[j].slug => i = j BY <1>3 DEF KindsInv
  <2> QED BY <1>1, <1>3, <2>1, <2>2, KindsIdle, KindsKept
<1>5. Kinds!SlugNamesOne BY <1>3 DEF KindsInv, Kinds!SlugNamesOne
<1>6. Kinds!OfferedWorks
  <2> SUFFICES ASSUME NEW q \in Requests, reqs[q].op \in {"off", "on", "delete"},
                      reqs[q].id \in DOMAIN types, reqs[q].op = Kinds!openCareType(reqs[q].id)
               PROVE  reqs'[q] # Kinds!Idle("404")
    BY DEF Kinds!OfferedWorks
  <2>1. CASE q # r BY <1>1, <2>1 DEF KindsInv, Kinds!Idle
  <2>2. CASE q = r
    <3>1. reqs'[r] = Kinds!Idle("saved")
      BY <2>2 DEF KindsInv, Kinds!turnOffCareType, Kinds!turnOnCareType, Kinds!deleteCareType,
         Kinds!Answer, Kinds!openCareType
    <3> QED BY <2>2, <3>1 DEF Kinds!Idle
  <2> QED BY <2>1, <2>2
<1> QED BY <1>4, <1>5, <1>6 DEF KindsStay

(* The types every garden starts with keep their icons, each type its slug, *)
(* and a slug names one type, however additions, renames and deletions      *)
(* interleave; and a button that a row still offers when it is pressed does *)
(* what it says (createCareType, seededIcon, openCareType).                 *)
THEOREM OfferedButtonsWork ==
    ASSUME Kinds!CareTypesAssumption
    PROVE  Kinds!Spec => [](Kinds!TypeOK /\ Kinds!SeededIconStays)
                         /\ [][Kinds!OfferedWorks /\ Kinds!SlugNamesOne]_(Kinds!vars)
<1>1. Kinds!CareTypesAssumption OBVIOUS
<1>2. Kinds!Init => KindsInv BY <1>1, KindsInit
<1>3. KindsInv /\ [Kinds!Next]_(Kinds!vars) => KindsInv' /\ KindsStay
  <2> SUFFICES ASSUME KindsInv, [Kinds!Next]_(Kinds!vars) PROVE KindsInv' /\ KindsStay OBVIOUS
  <2>1. ASSUME NEW id \in DOMAIN types, Kinds!LogCare(id) PROVE KindsInv' /\ KindsStay
    <3>1. UNCHANGED <<types, made, reqs>> /\ used' \subseteq DOMAIN types
      BY <2>1 DEF KindsInv, Kinds!LogCare
    <3>2. \A r \in Requests : KindRequestOK(reqs[r])'
      BY <3>1 DEF KindsInv, KindRequestOK, IconOK, KindOK, KindRec, Slugs, Pictures
    <3> QED BY <3>1, <3>2 DEF KindsInv, KindsStay, Kinds!OfferedWorks, Kinds!SlugNamesOne,
            Kinds!Idle,
       KindOK, KindRec, Slugs, Pictures, IconOK
  <2>2. ASSUME UNCHANGED Kinds!vars PROVE KindsInv' /\ KindsStay
    BY <2>2 DEF Kinds!vars, KindsInv, KindRequestOK, KindsStay, Kinds!OfferedWorks,
       Kinds!SlugNamesOne,
       Kinds!Idle, KindOK, KindRec, Slugs, Pictures, IconOK
  <2>3. ASSUME NEW r \in Requests, NEW id \in DOMAIN types,
               Kinds!ReadToSave(r, id) \/ Kinds!ReadToDrop(r, id, Kinds!openCareType(id))
        PROVE  KindsInv' /\ KindsStay
    <3>1. PICK name \in Names : TRUE BY DEF KindsInv, KindOK, KindRec
    <3> QED BY <2>3, <3>1, KindsReads
  <2>4. ASSUME NEW r \in Requests, NEW name \in Names, NEW icon \in Icons \cup {"unknown"},
               Kinds!createCareType(r, name, icon) \/ Kinds!saveCareType(r, name, icon)
        PROVE  KindsInv' /\ KindsStay
    BY <2>4, KindsReads
  <2>5. ASSUME NEW r \in Requests, Kinds!CreateCareType(r) \/ Kinds!UpdateCareType(r)
        PROVE  KindsInv' /\ KindsStay
    BY <1>1, <2>5, KindsSaved
  <2>6. ASSUME NEW r \in Requests,
               Kinds!turnOffCareType(r) \/ Kinds!turnOnCareType(r) \/ Kinds!deleteCareType(r)
        PROVE  KindsInv' /\ KindsStay
    BY <2>6, KindsDropped
  <2> QED BY <2>1, <2>2, <2>3, <2>4, <2>5, <2>6 DEF Kinds!Next
<1>4. KindsInv => Kinds!TypeOK /\ Kinds!SeededIconStays BY KindsInvHolds DEF KindsHold
<1>5. KindsStay => Kinds!OfferedWorks /\ Kinds!SlugNamesOne BY DEF KindsStay
<1> QED BY <1>2, <1>3, <1>4, <1>5, PTL DEF Kinds!Spec
=============================================================================
