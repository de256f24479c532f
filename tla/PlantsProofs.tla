---------------------------- MODULE PlantsProofs ----------------------------
(***************************************************************************)
(* Plants, for every number of rooms, care types, plants, photos and       *)
(* requests: a picture is one of the plant's own photos, a plant is added  *)
(* whole or not at all, an archived one stays as it was, and a second      *)
(* spelling of a room comes only by a restore or a form's race.            *)
(***************************************************************************)
EXTENDS Plants, FiniteSetTheorems, TLAPS

-----------------------------------------------------------------------------
(* The inductive invariant.                                                *)

PlantRec == [room : Rooms, archived : BOOLEAN, picture : Nat]

OnPlant == {"add photo", "log", "schedule", "unschedule"}

\* What a request carries from its read to its write: a plant stays.
RequestOK(x) ==
    /\ x.op \in {"idle", "create", "update"} \cup OnPlant
    /\ x.op \in {"create", "update"} => x.room \in Rooms /\ x.focus \in Focuses
    /\ x.op = "create" => x.photo \in BOOLEAN
    /\ x.op \in {"update"} \cup OnPlant => x.plant \in DOMAIN plants

\* The plants, of which there are n, and what points at them.
Rows(n) ==
    /\ n \in Nat /\ DOMAIN plants = 1 .. n
    /\ \A p \in DOMAIN plants : plants[p] \in PlantRec
    /\ given \in 0 .. MaxPhotos /\ DOMAIN photos \subseteq 1 .. given
    /\ \A f \in DOMAIN photos : photos[f] \in [plant : DOMAIN plants, focus : Focuses]
    /\ schedules \subseteq ((DOMAIN plants) \X cares) /\ cares \subseteq Cares

Reqs == DOMAIN reqs = Requests /\ \A r \in Requests : RequestOK(reqs[r])

Inv == Rows(Cardinality(DOMAIN plants)) /\ Reqs /\ PictureIsOwn

-----------------------------------------------------------------------------
(* Facts about the steps.                                                  *)

(* The ids of n plants are counted.                                         *)
LEMMA Counted == ASSUME NEW n, Rows(n) PROVE Cardinality(DOMAIN plants) = n
<1>1. Cardinality(1 .. n) = IF 1 > n THEN 0 ELSE n - 1 + 1 BY FS_Interval DEF Rows
<1> QED BY <1>1 DEF Rows

(* After a step there is a number of them too.                              *)
LEMMA CountedNext == ASSUME NEW n, Rows(n)' PROVE Rows(Cardinality(DOMAIN plants))'
<1>1. n \in Nat /\ DOMAIN plants' = 1 .. n BY DEF Rows
<1>2. Cardinality(1 .. n) = IF 1 > n THEN 0 ELSE n - 1 + 1 BY <1>1, FS_Interval
<1>3. Cardinality(DOMAIN plants') = n BY <1>1, <1>2
<1> QED BY <1>3

(* The requests after a step of one of them.                                *)
LEMMA RequestGoes ==
    ASSUME Reqs, DOMAIN plants \subseteq DOMAIN plants', NEW r \in Requests, NEW x,
           reqs' = [reqs EXCEPT ![r] = x], RequestOK(x)
    PROVE  Reqs' /\ \A q \in Requests : reqs'[q] = IF q = r THEN x ELSE reqs[q]
<1>1. DOMAIN reqs' = Requests /\ \A q \in Requests : reqs'[q] = IF q = r THEN x ELSE reqs[q]
  BY DEF Reqs
<1>2. \A y : RequestOK(y) => RequestOK(y)' BY DEF RequestOK
<1>3. \A q \in Requests : RequestOK(reqs[q])'
  <2> SUFFICES ASSUME NEW q \in Requests PROVE RequestOK(reqs[q])' OBVIOUS
  <2>1. PICK y : y = reqs'[q] OBVIOUS
  <2>2. RequestOK(y) BY <1>1, <2>1 DEF Reqs
  <2> QED BY <1>2, <2>1, <2>2
<1> QED BY <1>1, <1>3 DEF Reqs

(* An answered request carries nothing.                                     *)
LEMMA IdleOK == ASSUME NEW code PROVE Idle(code).op = "idle" /\ RequestOK(Idle(code))
BY DEF Idle, RequestOK, OnPlant

(* The requests after an answer.                                            *)
LEMMA AnswerGoes ==
    ASSUME Reqs, DOMAIN plants \subseteq DOMAIN plants', NEW r \in Requests, NEW code, Answer(r, code)
    PROVE  Reqs' /\ reqs'[r] = Idle(code) /\ \A q \in Requests : q # r => reqs'[q] = reqs[q]
<1>1. PICK x : x = Idle(code) OBVIOUS
<1>2. reqs' = [reqs EXCEPT ![r] = x] BY <1>1 DEF Answer
<1>3. RequestOK(x) BY <1>1, IdleOK
<1>4. Reqs' /\ \A q \in Requests : reqs'[q] = IF q = r THEN x ELSE reqs[q]
  BY <1>2, <1>3, RequestGoes
<1> QED BY <1>1, <1>4

(* A room a form is kept under is one of those it may post, and has its     *)
(* name but for the case.                                                   *)
LEMMA CanonicalRoom ==
    ASSUME Inv, NEW typed \in Rooms
    PROVE  /\ canonicalRoom(typed) \in Rooms /\ Fold[canonicalRoom(typed)] = Fold[typed]
           /\ \A a \in ListRooms : Fold[a] = Fold[typed] => canonicalRoom(typed) \in ListRooms
<1>1. ListRooms \subseteq Rooms BY DEF ListRooms, Live, Inv, Rows, PlantRec
<1>2. CASE \E room \in ListRooms : Fold[room] = Fold[typed]
  <2>1. canonicalRoom(typed) = CHOOSE room \in ListRooms : Fold[room] = Fold[typed]
    BY <1>2 DEF canonicalRoom
  <2>2. canonicalRoom(typed) \in ListRooms /\ Fold[canonicalRoom(typed)] = Fold[typed]
    BY <1>2, <2>1
  <2> QED BY <1>1, <2>2
<1>3. CASE ~\E room \in ListRooms : Fold[room] = Fold[typed] BY <1>3 DEF canonicalRoom
<1> QED BY <1>2, <1>3

(* A step of a request that changes no row.                                 *)
LEMMA ReadStep ==
    ASSUME Inv, UNCHANGED <<plants, photos, schedules, cares, given>>, NEW r \in Requests, NEW x,
           reqs' = [reqs EXCEPT ![r] = x], RequestOK(x),
           reqs[r].op = "create" => x # Idle("saved")
    PROVE  Inv' /\ PlantIsWhole /\ ArchivedStays
<1>1. Reqs' /\ \A q \in Requests : reqs'[q] = IF q = r THEN x ELSE reqs[q]
  BY RequestGoes DEF Inv
<1>2. Rows(Cardinality(DOMAIN plants))' BY DEF Inv, Rows
<1>3. PictureIsOwn' BY DEF Inv, PictureIsOwn
<1>4. PlantIsWhole BY <1>1 DEF PlantIsWhole
<1>5. ArchivedStays BY DEF ArchivedStays
<1> QED BY <1>1, <1>2, <1>3, <1>4, <1>5 DEF Inv

(* A step that is not of a form to add a plant adds none.                   *)
LEMMA NoFormIsWhole ==
    ASSUME \A q \in Requests : reqs[q].op = "create" => reqs'[q] = reqs[q]
    PROVE  PlantIsWhole
BY DEF PlantIsWhole

-----------------------------------------------------------------------------
(* The steps.                                                              *)

(* What is read.                                                            *)
LEMMA PostStep ==
    ASSUME PlantsAssumption, Inv, NEW r \in Requests,
           \/ \E typed \in Rooms, focus \in Focuses :
                 \/ \E chosen \in SUBSET cares, photo \in BOOLEAN : create(r, typed, chosen, photo, focus)
                 \/ \E p \in DOMAIN plants, what \in {"photo", "remove", "focus", "none"} :
                       ReadToUpdate(r, p, typed, what, focus)
           \/ \E p \in DOMAIN plants, op \in OnPlant, care \in cares \cup {None} : ReadPlant(r, p, op, care)
    PROVE  Inv' /\ PlantIsWhole /\ ArchivedStays
<1>1. ASSUME NEW typed \in Rooms, NEW focus \in Focuses, NEW chosen, NEW photo \in BOOLEAN,
             create(r, typed, chosen, photo, focus)
      PROVE  Inv' /\ PlantIsWhole /\ ArchivedStays
  <2>1. PICK x : x = [op |-> "create", room |-> canonicalRoom(typed), saw |-> ListRooms,
                      cares |-> chosen, photo |-> photo, focus |-> focus]
    OBVIOUS
  <2>2. RequestOK(x) BY <2>1, CanonicalRoom DEF RequestOK, OnPlant
  <2>3. /\ reqs' = [reqs EXCEPT ![r] = x] /\ UNCHANGED <<plants, photos, schedules, cares, given>>
        /\ reqs[r].op # "create"
    BY <1>1, <2>1 DEF create, IsIdle
  <2> QED BY <2>2, <2>3, ReadStep
<1>2. ASSUME NEW typed \in Rooms, NEW focus \in Focuses, NEW p \in DOMAIN plants, NEW what,
             ReadToUpdate(r, p, typed, what, focus)
      PROVE  Inv' /\ PlantIsWhole /\ ArchivedStays
  <2>1. PICK x : x = [op |-> "update", plant |-> p, room |-> canonicalRoom(typed), saw |-> ListRooms,
                      what |-> what, focus |-> focus, picture |-> plants[p].picture]
    OBVIOUS
  <2>2. RequestOK(x) BY <2>1, CanonicalRoom DEF RequestOK, OnPlant
  <2>3. /\ reqs' = [reqs EXCEPT ![r] = x] /\ UNCHANGED <<plants, photos, schedules, cares, given>>
        /\ reqs[r].op # "create"
    BY <1>2, <2>1 DEF ReadToUpdate, IsIdle
  <2> QED BY <2>2, <2>3, ReadStep
<1>3. ASSUME NEW p \in DOMAIN plants, NEW op \in OnPlant, NEW care, ReadPlant(r, p, op, care)
      PROVE  Inv' /\ PlantIsWhole /\ ArchivedStays
  <2>1. PICK x : x = [op |-> op, plant |-> p, care |-> care] OBVIOUS
  <2>2. RequestOK(x) BY <2>1 DEF RequestOK, OnPlant
  <2>3. /\ reqs' = [reqs EXCEPT ![r] = x] /\ UNCHANGED <<plants, photos, schedules, cares, given>>
        /\ reqs[r].op # "create"
    BY <1>3, <2>1 DEF ReadPlant, IsIdle
  <2> QED BY <2>2, <2>3, ReadStep
<1> QED BY <1>1, <1>2, <1>3

(* A refused form and a logged event change no row of these.                *)
LEMMA AnswerStep ==
    ASSUME Inv, UNCHANGED <<plants, photos, schedules, cares, given>>, NEW r \in Requests, NEW code,
           Answer(r, code), reqs[r].op = "create" => code # "saved"
    PROVE  Inv' /\ PlantIsWhole /\ ArchivedStays
<1>1. reqs' = [reqs EXCEPT ![r] = Idle(code)] BY DEF Answer
<1>2. code # "saved" => Idle(code) # Idle("saved")
  <2>1. Idle(code).answer = code /\ Idle("saved").answer = "saved" BY DEF Idle
  <2> QED BY <2>1
<1> QED BY <1>1, <1>2, IdleOK, ReadStep

(* The next photo has an id that none has.                                  *)
LEMMA PhotoAdded ==
    ASSUME PlantsAssumption, NEW n, Rows(n), NEW row, photos' = Added(photos, given + 1, row)
    PROVE  /\ given + 1 \in Nat /\ given + 1 # None /\ given + 1 \notin DOMAIN photos
           /\ DOMAIN photos' = DOMAIN photos \cup {given + 1} /\ photos'[given + 1] = row
           /\ \A f \in DOMAIN photos : photos'[f] = photos[f] /\ f \in 1 .. given + 1
<1>1. given \in Nat /\ DOMAIN photos \subseteq 1 .. given BY DEF Rows, PlantsAssumption
<1>2. given + 1 \in Nat /\ given + 1 # None /\ given + 1 \notin DOMAIN photos BY <1>1 DEF None
<1>3. \A f \in DOMAIN photos : f \in 1 .. given + 1 BY <1>1
<1> QED BY <1>2, <1>3 DEF Added

(* A plant is added with its schedules and its photo, in one transaction.   *)
LEMMA CreateStep ==
    ASSUME PlantsAssumption, Inv, NEW r \in Requests, CreatePlant(r)
    PROVE  Inv' /\ PlantIsWhole /\ ArchivedStays
<1>1. PICK x : x = reqs[r] OBVIOUS
<1>2. x.op = "create" /\ cares' = cares BY <1>1 DEF CreatePlant
<1>3. RequestOK(x) /\ Reqs BY <1>1 DEF Inv, Reqs
<1>4. x.room \in Rooms /\ x.focus \in Focuses /\ x.photo \in BOOLEAN BY <1>2, <1>3 DEF RequestOK
<1>5. PICK n : n = Cardinality(DOMAIN plants) OBVIOUS
<1>6. Rows(n) /\ PictureIsOwn BY <1>5 DEF Inv
<1>7. CASE ~(x.cares \subseteq cares) BY <1>1, <1>2, <1>7, AnswerStep DEF CreatePlant
<1>8. CASE x.cares \subseteq cares
  <2> DEFINE p == n + 1
             f == given + 1
             plant == [room |-> x.room, archived |-> FALSE, picture |-> IF x.photo THEN f ELSE None]
  <2>1. /\ plants' = Added(plants, p, plant) /\ (x.photo => f <= MaxPhotos)
        /\ schedules' = schedules \cup {<<p, c>> : c \in x.cares}
        /\ photos' = IF x.photo THEN Added(photos, f, [plant |-> p, focus |-> x.focus]) ELSE photos
        /\ given' = IF x.photo THEN f ELSE given
        /\ Answer(r, "saved")
    BY <1>1, <1>5, <1>8 DEF CreatePlant
  <2>2. n \in Nat /\ DOMAIN plants = 1 .. n /\ p \in Nat /\ p \notin DOMAIN plants BY <1>6 DEF Rows
  <2>3. /\ DOMAIN plants' = 1 .. p /\ plants'[p] = plant
        /\ \A q \in DOMAIN plants : plants'[q] = plants[q] /\ q \in DOMAIN plants' /\ q # p
    <3>1. 1 .. n \cup {p} = 1 .. p BY <2>2
    <3> QED BY <2>1, <2>2, <3>1 DEF Added
  <2>4. given \in Nat /\ given <= MaxPhotos /\ MaxPhotos \in Nat BY <1>6 DEF Rows, PlantsAssumption
  <2>5. plant \in PlantRec /\ (plant.picture # None) = x.photo
    BY <1>4, <2>4 DEF PlantRec, None
  <2>6. x.photo => /\ f \notin DOMAIN photos /\ DOMAIN photos' = DOMAIN photos \cup {f}
                   /\ photos'[f] = [plant |-> p, focus |-> x.focus]
                   /\ \A g \in DOMAIN photos : photos'[g] = photos[g] /\ g \in 1 .. f
    BY <1>6, <2>1, PhotoAdded
  <2> HIDE DEF f, plant
  <2>7. Rows(p)'
    <3>1. \A q \in DOMAIN plants' : plants'[q] \in PlantRec
      BY <1>6, <2>2, <2>3, <2>5 DEF Rows
    <3>2. given' \in 0 .. MaxPhotos /\ DOMAIN photos' \subseteq 1 .. given'
      BY <1>4, <1>6, <2>1, <2>4, <2>6 DEF Rows, f
    <3>3. \A g \in DOMAIN photos : photos[g] \in [plant : DOMAIN plants', focus : Focuses]
      BY <1>6, <2>3 DEF Rows
    <3>4. \A g \in DOMAIN photos' : photos'[g] \in [plant : DOMAIN plants', focus : Focuses]
      <4>1. CASE x.photo
        <5>1. p \in DOMAIN plants' BY <2>2, <2>3
        <5> QED BY <1>4, <2>6, <3>3, <4>1, <5>1
      <4>2. CASE ~x.photo BY <2>1, <3>3, <4>2
      <4> QED BY <4>1, <4>2
    <3>5. schedules' \subseteq ((DOMAIN plants') \X cares')
      BY <1>2, <1>6, <1>8, <2>1, <2>2, <2>3 DEF Rows
    <3> QED BY <1>2, <1>6, <2>2, <2>3, <3>1, <3>2, <3>4, <3>5 DEF Rows
  <2>8. PictureIsOwn'
    <3> SUFFICES ASSUME NEW q \in DOMAIN plants', plants'[q].picture # None
                 PROVE  /\ plants'[q].picture \in DOMAIN photos'
                        /\ photos'[plants'[q].picture].plant = q
      BY DEF PictureIsOwn
    <3>1. CASE q = p BY <2>3, <2>5, <2>6, <3>1 DEF plant
    <3>2. CASE q # p
      <4>1. q \in DOMAIN plants /\ plants'[q] = plants[q] BY <2>2, <2>3, <3>2
      <4>2. plants[q].picture \in DOMAIN photos /\ photos[plants[q].picture].plant = q
        BY <1>6, <4>1 DEF PictureIsOwn
      <4>3. CASE x.photo BY <2>6, <4>1, <4>2, <4>3
      <4>4. CASE ~x.photo BY <2>1, <4>1, <4>2, <4>4
      <4> QED BY <1>4, <4>3, <4>4
    <3> QED BY <3>1, <3>2
  <2>9. DOMAIN plants \subseteq DOMAIN plants' BY <2>3
  <2>10. Reqs' /\ reqs'[r] = Idle("saved") /\ \A q \in Requests : q # r => reqs'[q] = reqs[q]
    BY <1>3, <2>1, <2>9, AnswerGoes
  <2>11. PlantIsWhole
    <3>1. p \in DOMAIN plants' \ DOMAIN plants BY <2>2, <2>3
    <3>2. reqs'[r] = Idle("saved") BY <2>10
    <3>3. {t \in schedules' : t[1] = p} = {<<p, c>> : c \in x.cares}
      <4>1. \A t \in schedules : t[1] \in DOMAIN plants BY <1>6 DEF Rows
      <4>2. \A t \in schedules : t[1] # p BY <2>2, <4>1
      <4> QED BY <2>1, <4>2
    <3>4. {t[2] : t \in {<<p, c>> : c \in x.cares}} = x.cares
      <4>1. \A c : <<p, c>>[2] = c OBVIOUS
      <4>2. \A c \in x.cares : c \in {t[2] : t \in {<<p, b>> : b \in x.cares}}
        <5> SUFFICES ASSUME NEW c \in x.cares PROVE \E t \in {<<p, b>> : b \in x.cares} : t[2] = c
          OBVIOUS
        <5>1. <<p, c>> \in {<<p, b>> : b \in x.cares} OBVIOUS
        <5> QED BY <4>1, <5>1
      <4>3. \A t \in {<<p, b>> : b \in x.cares} : t[2] \in x.cares BY <4>1
      <4> QED BY <4>2, <4>3
    <3>5. (plants'[p].picture # None) = x.photo BY <2>3, <2>5
    <3> QED BY <1>1, <2>10, <3>1, <3>2, <3>3, <3>4, <3>5 DEF PlantIsWhole
  <2>12. ArchivedStays BY <2>3 DEF ArchivedStays
  <2> QED BY <2>7, <2>8, <2>10, <2>11, <2>12, CountedNext DEF Inv
<1> QED BY <1>7, <1>8

(* The form of a plant writes one that is not archived.                     *)
LEMMA UpdateStep ==
    ASSUME PlantsAssumption, Inv, NEW r \in Requests, update(r)
    PROVE  Inv' /\ PlantIsWhole /\ ArchivedStays
<1>1. PICK x : x = reqs[r] OBVIOUS
<1>2. PICK p : p = x.plant OBVIOUS
<1>3. x.op = "update" /\ UNCHANGED <<schedules, cares>> BY <1>1 DEF update
<1>4. RequestOK(x) /\ Reqs BY <1>1 DEF Inv, Reqs
<1>5. x.room \in Rooms /\ x.focus \in Focuses /\ p \in DOMAIN plants BY <1>2, <1>3, <1>4 DEF RequestOK
<1>6. PICK n : n = Cardinality(DOMAIN plants) OBVIOUS
<1>7. Rows(n) /\ PictureIsOwn BY <1>6 DEF Inv
<1>8. PICK row : row = [plants[p] EXCEPT !.room = x.room] OBVIOUS
<1>9. /\ row \in PlantRec /\ row.picture = plants[p].picture
      /\ \A f \in Nat : [row EXCEPT !.picture = f] \in PlantRec /\ [row EXCEPT !.picture = f].picture = f
  BY <1>5, <1>7, <1>8 DEF Rows, PlantRec
<1>10. CASE ~Editable(p)
  BY <1>1, <1>2, <1>3, <1>10, AnswerStep DEF update
<1>11. CASE Editable(p)
  <2>1. ~plants[p].archived BY <1>11 DEF Editable, Live
  <2>2. Answer(r, "saved")
    BY <1>1, <1>2, <1>11 DEF update
  <2>4. ASSUME NEW y \in PlantRec, plants' = [plants EXCEPT ![p] = y],
               given' \in 0 .. MaxPhotos, DOMAIN photos' \subseteq 1 .. given',
               \A f \in DOMAIN photos' : photos'[f] \in [plant : DOMAIN plants, focus : Focuses],
               \A f \in DOMAIN photos : f \in DOMAIN photos' /\ photos'[f].plant = photos[f].plant,
               y.picture # None => y.picture \in DOMAIN photos' /\ photos'[y.picture].plant = p
        PROVE  Inv' /\ PlantIsWhole /\ ArchivedStays
    <3>1. /\ DOMAIN plants' = DOMAIN plants /\ plants'[p] = y
          /\ \A q \in DOMAIN plants : q # p => plants'[q] = plants[q]
      BY <1>5, <2>4
    <3>2. Rows(n)' BY <1>3, <1>7, <2>4, <3>1 DEF Rows
    <3>3. PictureIsOwn' BY <1>5, <1>7, <2>4, <3>1 DEF PictureIsOwn
    <3>4. Reqs' /\ \A q \in Requests : q # r => reqs'[q] = reqs[q]
      BY <1>4, <2>2, <3>1, AnswerGoes
    <3>5. PlantIsWhole BY <1>1, <1>3, <3>4, NoFormIsWhole
    <3>6. ArchivedStays BY <1>5, <2>1, <3>1 DEF ArchivedStays
    <3> QED BY <3>2, <3>3, <3>4, <3>5, <3>6, CountedNext DEF Inv
  <2>5. plants[p].picture # None =>
            plants[p].picture \in DOMAIN photos /\ photos[plants[p].picture].plant = p
    BY <1>5, <1>7 DEF PictureIsOwn
  <2>6. CASE x.what = "photo"
    <3>1. /\ given + 1 <= MaxPhotos /\ plants' = [plants EXCEPT ![p] = [row EXCEPT !.picture = given + 1]]
          /\ photos' = Added(photos, given + 1, [plant |-> p, focus |-> x.focus])
          /\ given' = given + 1
      BY <1>1, <1>2, <1>8, <1>11, <2>6 DEF update
    <3>2. /\ given + 1 \in Nat /\ given + 1 # None /\ given + 1 \notin DOMAIN photos
          /\ DOMAIN photos' = DOMAIN photos \cup {given + 1}
          /\ photos'[given + 1] = [plant |-> p, focus |-> x.focus]
          /\ \A f \in DOMAIN photos : photos'[f] = photos[f] /\ f \in 1 .. given + 1
      BY <1>7, <3>1, PhotoAdded
    <3>3. given' \in 0 .. MaxPhotos /\ DOMAIN photos' \subseteq 1 .. given'
      BY <1>7, <3>1, <3>2 DEF Rows, PlantsAssumption
    <3>4. \A f \in DOMAIN photos' : photos'[f] \in [plant : DOMAIN plants, focus : Focuses]
      BY <1>5, <1>7, <3>2 DEF Rows
    <3>5. PICK y : y = [row EXCEPT !.picture = given + 1] OBVIOUS
    <3>6. y \in PlantRec /\ y.picture = given + 1 BY <1>9, <3>2, <3>5
    <3>7. plants' = [plants EXCEPT ![p] = y] BY <3>1, <3>5
    <3>8. \A f \in DOMAIN photos : f \in DOMAIN photos' /\ photos'[f].plant = photos[f].plant BY <3>2
    <3>9. y.picture \in DOMAIN photos' /\ photos'[y.picture].plant = p BY <3>2, <3>6
    <3> QED BY <2>4, <3>3, <3>4, <3>6, <3>7, <3>8, <3>9
  <2>7. CASE x.what = "remove"
    <3>1. plants' = [plants EXCEPT ![p] = [row EXCEPT !.picture = None]] /\ UNCHANGED <<photos, given>>
      BY <1>1, <1>2, <1>8, <1>11, <2>7 DEF update
    <3>2. [row EXCEPT !.picture = None] \in PlantRec /\ [row EXCEPT !.picture = None].picture = None
      BY <1>9 DEF None
    <3> QED BY <1>7, <2>4, <3>1, <3>2 DEF Rows
  <2>8. CASE x.what \notin {"photo", "remove"}
    <3>1. /\ plants' = [plants EXCEPT ![p] = row] /\ given' = given
          /\ photos' = IF x.what = "focus" /\ x.picture \in DOMAIN photos
                       THEN [photos EXCEPT ![x.picture].focus = x.focus] ELSE photos
      BY <1>1, <1>2, <1>8, <1>11, <2>8 DEF update
    <3>2. /\ DOMAIN photos' = DOMAIN photos
          /\ \A f \in DOMAIN photos : /\ photos'[f] \in [plant : DOMAIN plants, focus : Focuses]
                                      /\ photos'[f].plant = photos[f].plant
      BY <1>5, <1>7, <3>1 DEF Rows
    <3> QED BY <1>7, <1>9, <2>4, <2>5, <3>1, <3>2 DEF Rows
  <2> QED BY <2>6, <2>7, <2>8
<1> QED BY <1>10, <1>11

(* A photo of its own, and the schedules of a plant.                        *)
LEMMA OnPlantStep ==
    ASSUME PlantsAssumption, Inv, NEW r \in Requests,
           addPhoto(r) \/ UpsertCareSchedule(r) \/ DeleteCareSchedule(r)
    PROVE  Inv' /\ PlantIsWhole /\ ArchivedStays
<1>1. PICK x : x = reqs[r] OBVIOUS
<1>2. PICK n : n = Cardinality(DOMAIN plants) OBVIOUS
<1>3. Rows(n) /\ PictureIsOwn /\ Reqs /\ RequestOK(x) BY <1>1, <1>2 DEF Inv, Reqs
<1>4. x.op \in OnPlant /\ x.op # "create" /\ UNCHANGED <<plants, cares>>
  BY <1>1 DEF addPhoto, UpsertCareSchedule, DeleteCareSchedule, OnPlant
<1>5. x.plant \in DOMAIN plants BY <1>3, <1>4 DEF RequestOK
<1>6. PICK code : Answer(r, code) BY DEF addPhoto, UpsertCareSchedule, DeleteCareSchedule
<1>7. DOMAIN plants \subseteq DOMAIN plants' BY <1>4
<1>8. Reqs' /\ \A q \in Requests : q # r => reqs'[q] = reqs[q]
  BY <1>3, <1>6, <1>7, AnswerGoes
<1>9. PlantIsWhole BY <1>1, <1>4, <1>8, NoFormIsWhole
<1>10. ArchivedStays BY <1>4 DEF ArchivedStays
<1>11. Rows(n)' /\ PictureIsOwn'
  <2>1. CASE addPhoto(r)
    <3>1. /\ given < MaxPhotos /\ given' = given + 1 /\ schedules' = schedules
          /\ photos' = Added(photos, given + 1, [plant |-> x.plant, focus |-> centre])
      BY <1>1, <2>1 DEF addPhoto
    <3>2. /\ given + 1 \in Nat /\ DOMAIN photos' = DOMAIN photos \cup {given + 1}
          /\ photos'[given + 1] = [plant |-> x.plant, focus |-> centre]
          /\ \A f \in DOMAIN photos : photos'[f] = photos[f] /\ f \in 1 .. given + 1
      BY <1>3, <3>1, PhotoAdded
    <3>3. centre \in Focuses BY DEF PlantsAssumption
    <3>4. given' \in 0 .. MaxPhotos /\ DOMAIN photos' \subseteq 1 .. given'
      BY <1>3, <3>1, <3>2 DEF Rows, PlantsAssumption
    <3>5. \A f \in DOMAIN photos' : photos'[f] \in [plant : DOMAIN plants', focus : Focuses]
      BY <1>3, <1>4, <1>5, <3>2, <3>3 DEF Rows
    <3>6. Rows(n)' BY <1>3, <1>4, <3>1, <3>4, <3>5 DEF Rows
    <3>7. PictureIsOwn' BY <1>3, <1>4, <3>2 DEF PictureIsOwn
    <3> QED BY <3>6, <3>7
  <2>2. CASE UpsertCareSchedule(r) \/ DeleteCareSchedule(r)
    <3>1. photos' = photos /\ given' = given BY <2>2 DEF UpsertCareSchedule, DeleteCareSchedule
    <3>2. schedules' \subseteq ((DOMAIN plants) \X cares)
      BY <1>1, <1>3, <1>5, <2>2 DEF UpsertCareSchedule, DeleteCareSchedule, Rows
    <3> QED BY <1>3, <1>4, <3>1, <3>2 DEF Rows, PictureIsOwn
  <2> QED BY <2>1, <2>2
<1> QED BY <1>8, <1>9, <1>10, <1>11, CountedNext DEF Inv

(* A deleted photo is nobody's picture, the archive, and a deleted type.    *)
LEMMA OtherStep ==
    ASSUME PlantsAssumption, Inv,
           \/ \E id \in DOMAIN photos : deletePhoto(id)
           \/ \E p \in DOMAIN plants : archive(p) \/ restore(p)
           \/ \E c \in Cares : deleteCareType(c)
           \/ UNCHANGED vars
    PROVE  Inv' /\ PlantIsWhole /\ ArchivedStays
<1>1. PICK n : n = Cardinality(DOMAIN plants) OBVIOUS
<1>2. Rows(n) /\ PictureIsOwn /\ Reqs BY <1>1 DEF Inv
<1>3. reqs' = reqs /\ given' = given
  BY DEF deletePhoto, archive, restore, deleteCareType, vars
<1>4. PlantIsWhole BY <1>3 DEF PlantIsWhole
<1>5. ASSUME NEW id \in DOMAIN photos, deletePhoto(id)
      PROVE  Rows(n)' /\ PictureIsOwn' /\ ArchivedStays /\ DOMAIN plants' = DOMAIN plants
  <2>1. /\ DOMAIN photos' = DOMAIN photos \ {id}
        /\ \A f \in DOMAIN photos' : photos'[f] = photos[f]
        /\ schedules' = schedules /\ cares' = cares
    BY <1>5 DEF deletePhoto, DeletePhoto, Restrict
  <2>2. plants' = [p \in DOMAIN plants |-> [plants[p] EXCEPT !.picture = IF @ = id THEN None ELSE @]]
    BY <1>5 DEF deletePhoto, DeletePhoto
  <2>3. DOMAIN plants' = DOMAIN plants BY <2>2
  <2>4. \A p \in DOMAIN plants :
            /\ plants'[p] \in PlantRec /\ plants'[p].room = plants[p].room
            /\ plants'[p].picture = IF plants[p].picture = id THEN None ELSE plants[p].picture
    BY <1>2, <2>2 DEF Rows, PlantRec, None
  <2>5. Rows(n)' BY <1>2, <1>3, <2>1, <2>3, <2>4 DEF Rows
  <2>6. PictureIsOwn' BY <1>2, <2>1, <2>3, <2>4 DEF PictureIsOwn
  <2>7. ArchivedStays BY <2>4 DEF ArchivedStays
  <2> QED BY <2>3, <2>5, <2>6, <2>7
<1>6. ASSUME NEW p \in DOMAIN plants, archive(p) \/ restore(p)
      PROVE  Rows(n)' /\ PictureIsOwn' /\ ArchivedStays /\ DOMAIN plants' = DOMAIN plants
  <2>1. PICK b \in BOOLEAN : plants' = [plants EXCEPT ![p].archived = b]
    BY <1>6 DEF archive, restore
  <2>2. photos' = photos /\ schedules' = schedules /\ cares' = cares BY <1>6 DEF archive, restore
  <2>3. DOMAIN plants' = DOMAIN plants BY <2>1
  <2>4. \A q \in DOMAIN plants :
            /\ plants'[q] \in PlantRec /\ plants'[q].room = plants[q].room
            /\ plants'[q].picture = plants[q].picture
    BY <1>2, <2>1 DEF Rows, PlantRec
  <2>5. Rows(n)' BY <1>2, <1>3, <2>2, <2>3, <2>4 DEF Rows
  <2>6. PictureIsOwn' BY <1>2, <2>2, <2>3, <2>4 DEF PictureIsOwn
  <2>7. ArchivedStays BY <2>4 DEF ArchivedStays
  <2> QED BY <2>3, <2>5, <2>6, <2>7
<1>7. ASSUME NEW c \in Cares, deleteCareType(c)
      PROVE  Rows(n)' /\ PictureIsOwn' /\ ArchivedStays /\ DOMAIN plants' = DOMAIN plants
  <2>1. /\ plants' = plants /\ photos' = photos /\ cares' = cares \ {c}
        /\ schedules' = {t \in schedules : t[2] # c}
    BY <1>7 DEF deleteCareType
  <2>2. schedules' \subseteq ((DOMAIN plants) \X cares') BY <1>2, <2>1 DEF Rows
  <2>3. Rows(n)' BY <1>2, <1>3, <2>1, <2>2 DEF Rows
  <2> QED BY <1>2, <2>1, <2>3 DEF PictureIsOwn, ArchivedStays
<1>8. ASSUME UNCHANGED vars
      PROVE  Rows(n)' /\ PictureIsOwn' /\ ArchivedStays /\ DOMAIN plants' = DOMAIN plants
  <2>1. plants' = plants /\ photos' = photos /\ cares' = cares /\ schedules' = schedules
    BY <1>8 DEF vars
  <2> QED BY <1>2, <1>3, <2>1 DEF PictureIsOwn, ArchivedStays, Rows
<1>9. Rows(n)' /\ PictureIsOwn' /\ ArchivedStays /\ DOMAIN plants' = DOMAIN plants
  BY <1>5, <1>6, <1>7, <1>8
<1>10. Reqs' BY <1>2, <1>3, <1>9 DEF Reqs, RequestOK
<1> QED BY <1>4, <1>9, <1>10, CountedNext DEF Inv

(* The invariant holds at first.                                            *)
LEMMA InvInit == ASSUME PlantsAssumption, Init PROVE Inv
<1>1. \A r \in Requests : RequestOK(reqs[r]) BY IdleOK DEF Init
<1>2. Rows(0) BY DEF Init, Rows, PlantsAssumption
<1>3. Rows(Cardinality(DOMAIN plants)) BY <1>2, Counted
<1> QED BY <1>1, <1>3 DEF Init, Inv, Reqs, PictureIsOwn

(* And after every step, which adds plants whole and leaves the archive.    *)
LEMMA InvStep ==
    ASSUME PlantsAssumption, Inv, [Next]_vars
    PROVE  Inv' /\ PlantIsWhole /\ ArchivedStays
<1>1. ASSUME NEW r \in Requests, RefusePhoto(r)
      PROVE  Inv' /\ PlantIsWhole /\ ArchivedStays
  <2>1. Answer(r, "422") /\ UNCHANGED <<plants, photos, schedules, cares, given>>
    BY <1>1 DEF RefusePhoto
  <2> QED BY <2>1, AnswerStep
<1>2. ASSUME NEW r \in Requests, CreateCareEvent(r)
      PROVE  Inv' /\ PlantIsWhole /\ ArchivedStays
  <2>1. /\ \E code : Answer(r, code) /\ UNCHANGED <<plants, photos, schedules, cares, given>>
        /\ reqs[r].op # "create"
    BY <1>2 DEF CreateCareEvent
  <2> QED BY <2>1, AnswerStep
<1> QED BY <1>1, <1>2, PostStep, CreateStep, UpdateStep, OnPlantStep, OtherStep DEF Next, OnPlant

-----------------------------------------------------------------------------

(* The rows agree: ids are given in order, what names a plant, a photo or a *)
(* care type names one that is there, and a plant's picture is one of its   *)
(* own photos, whichever forms, uploads and deletions are under way         *)
(* (savePicture, SetProfilePhoto, DeletePhoto).                             *)
THEOREM PlantsHold == ASSUME PlantsAssumption PROVE Spec => []PlantsAgree
<1>1. Inv => TypeOK
  <2> SUFFICES ASSUME Inv PROVE TypeOK OBVIOUS
  <2>1. Rows(Cardinality(DOMAIN plants)) BY DEF Inv
  <2>2. \A p \in DOMAIN plants : plants[p].room \in Rooms /\ plants[p].archived \in BOOLEAN
    BY <2>1 DEF Rows, PlantRec
  <2>3. \A f \in DOMAIN photos : photos[f].plant \in DOMAIN plants /\ photos[f].focus \in Focuses
    BY <2>1 DEF Rows
  <2> QED BY <2>1, <2>2, <2>3 DEF Rows, TypeOK
<1>2. Inv => PlantsAgree BY <1>1 DEF Inv, PlantsAgree
<1> QED BY <1>2, InvInit, InvStep, PTL DEF Spec

(* A form to add a plant leaves the plant with each schedule and the photo  *)
(* that were asked for, or nothing at all (create, photoRefused), and the   *)
(* fields and the picture of an archived plant stay as they are, whatever   *)
(* was read before it was archived (UpdatePlant).                           *)
THEOREM PlantsAreKept == ASSUME PlantsAssumption PROVE Spec => PlantsStay
<1>1. Inv /\ [Next]_vars => Inv' /\ PlantIsWhole /\ ArchivedStays BY InvStep
<1> QED BY <1>1, InvInit, PTL DEF Spec, PlantsStay

-----------------------------------------------------------------------------
(* The rooms.                                                              *)

\* A form's room is one of those it read, or its name was not among them.
Spelled(x) == x.room \in x.saw \/ \A a \in x.saw : Fold[a] # Fold[x.room]

RoomsInv == \A r \in Requests : reqs[r].op \in {"create", "update"} => Spelled(reqs[r])

(* Rooms go, and no form is read.                                           *)
LEMMA RoomsGo ==
    ASSUME RoomsInv, ListRooms' \subseteq ListRooms,
           \A r \in Requests : reqs'[r] = reqs[r] \/ reqs'[r].op \notin {"create", "update"}
    PROVE  RoomsInv' /\ RoomsDiffer
<1>1. ASSUME NEW r \in Requests, reqs'[r].op \in {"create", "update"} PROVE Spelled(reqs[r])'
  <2>1. reqs'[r] = reqs[r] /\ Spelled(reqs[r]) BY <1>1 DEF RoomsInv
  <2> QED BY <2>1 DEF Spelled
<1>2. RoomsDiffer BY DEF RoomsDiffer
<1> QED BY <1>1, <1>2 DEF RoomsInv

(* The room a form writes joins them.                                       *)
LEMMA RoomWritten ==
    ASSUME Reqs, RoomsInv, NEW r \in Requests, reqs[r].op \in {"create", "update"},
           ListRooms' \subseteq ListRooms \cup {reqs[r].room}, Answer(r, "saved")
    PROVE  RoomsInv' /\ RoomsDiffer
<1>1. /\ reqs'[r] = Idle("saved") /\ reqs'[r].op = "idle"
      /\ \A q \in Requests : q # r => reqs'[q] = reqs[q]
  BY IdleOK DEF Answer, Reqs
<1>2. ASSUME NEW q \in Requests, reqs'[q].op \in {"create", "update"} PROVE Spelled(reqs[q])'
  <2>1. reqs'[q] = reqs[q] /\ Spelled(reqs[q]) BY <1>1, <1>2 DEF RoomsInv
  <2> QED BY <2>1 DEF Spelled
<1>3. RoomsDiffer
  <2> SUFFICES ASSUME NEW room \in ListRooms' \ ListRooms, NEW other \in ListRooms',
                      other # room, Fold[other] = Fold[room]
               PROVE  reqs[r].room = room /\ (other \notin reqs[r].saw \/ room \in reqs[r].saw)
    BY <1>1 DEF RoomsDiffer
  <2>1. reqs[r].room = room OBVIOUS
  <2>2. Spelled(reqs[r]) BY DEF RoomsInv
  <2> QED BY <2>1, <2>2 DEF Spelled
<1> QED BY <1>2, <1>3 DEF RoomsInv

(* A form is read with the garden's spelling of its room.                   *)
LEMMA RoomRead ==
    ASSUME Inv, RoomsInv, NEW r \in Requests, NEW typed \in Rooms, plants' = plants,
           NEW x, reqs' = [reqs EXCEPT ![r] = x], x.room = canonicalRoom(typed), x.saw = ListRooms
    PROVE  RoomsInv' /\ RoomsDiffer
<1>1. Spelled(x)
  <2>1. /\ Fold[canonicalRoom(typed)] = Fold[typed]
        /\ \A a \in ListRooms : Fold[a] = Fold[typed] => canonicalRoom(typed) \in ListRooms
    BY CanonicalRoom
  <2> QED BY <2>1 DEF Spelled
<1>2. ListRooms' = ListRooms BY DEF ListRooms, Live
<1>3. \A q \in Requests : reqs'[q] = IF q = r THEN x ELSE reqs[q] BY DEF Inv, Reqs
<1>4. ASSUME NEW q \in Requests, reqs'[q].op \in {"create", "update"} PROVE Spelled(reqs[q])'
  <2>1. Spelled(reqs'[q]) BY <1>1, <1>3, <1>4 DEF RoomsInv
  <2> QED BY <2>1 DEF Spelled
<1>5. RoomsDiffer BY <1>2 DEF RoomsDiffer
<1> QED BY <1>4, <1>5 DEF RoomsInv

(* The steps of the request.                                                *)
LEMMA RoomsRequest ==
    ASSUME PlantsAssumption, Inv, RoomsInv, NEW r \in Requests,
           \/ \E typed \in Rooms, focus \in Focuses :
                 \/ \E chosen \in SUBSET cares, photo \in BOOLEAN : create(r, typed, chosen, photo, focus)
                 \/ \E p \in DOMAIN plants, what \in {"photo", "remove", "focus", "none"} :
                       ReadToUpdate(r, p, typed, what, focus)
           \/ \E p \in DOMAIN plants, op \in OnPlant, care \in cares \cup {None} : ReadPlant(r, p, op, care)
           \/ CreatePlant(r) \/ RefusePhoto(r) \/ update(r) \/ addPhoto(r)
           \/ CreateCareEvent(r) \/ UpsertCareSchedule(r) \/ DeleteCareSchedule(r)
    PROVE  RoomsInv' /\ RoomsDiffer
<1>1. Reqs /\ DOMAIN reqs = Requests BY DEF Inv, Reqs
<1>2. ASSUME NEW typed \in Rooms, NEW focus, NEW chosen, NEW photo, create(r, typed, chosen, photo, focus)
      PROVE  RoomsInv' /\ RoomsDiffer
  <2>1. PICK x : x = [op |-> "create", room |-> canonicalRoom(typed), saw |-> ListRooms,
                      cares |-> chosen, photo |-> photo, focus |-> focus]
    OBVIOUS
  <2>2. /\ reqs' = [reqs EXCEPT ![r] = x] /\ plants' = plants
        /\ x.room = canonicalRoom(typed) /\ x.saw = ListRooms
    BY <1>2, <2>1 DEF create
  <2> QED BY <2>2, RoomRead
<1>3. ASSUME NEW typed \in Rooms, NEW focus, NEW p, NEW what, ReadToUpdate(r, p, typed, what, focus)
      PROVE  RoomsInv' /\ RoomsDiffer
  <2>1. PICK x : x = [op |-> "update", plant |-> p, room |-> canonicalRoom(typed), saw |-> ListRooms,
                      what |-> what, focus |-> focus, picture |-> plants[p].picture]
    OBVIOUS
  <2>2. /\ reqs' = [reqs EXCEPT ![r] = x] /\ plants' = plants
        /\ x.room = canonicalRoom(typed) /\ x.saw = ListRooms
    BY <1>3, <2>1 DEF ReadToUpdate
  <2> QED BY <2>2, RoomRead
<1>4. ASSUME plants' = plants, NEW x, reqs' = [reqs EXCEPT ![r] = x], x.op \notin {"create", "update"}
      PROVE  RoomsInv' /\ RoomsDiffer
  <2>1. \A q \in Requests : reqs'[q] = reqs[q] \/ reqs'[q].op \notin {"create", "update"}
    BY <1>1, <1>4
  <2>2. ListRooms' = ListRooms BY <1>4 DEF ListRooms, Live
  <2> QED BY <2>1, <2>2, RoomsGo
<1>5. ASSUME NEW p, NEW op \in OnPlant, NEW care, ReadPlant(r, p, op, care) PROVE RoomsInv' /\ RoomsDiffer
  <2>1. PICK x : x = [op |-> op, plant |-> p, care |-> care] OBVIOUS
  <2>2. x.op = op /\ plants' = plants /\ reqs' = [reqs EXCEPT ![r] = x] BY <1>5, <2>1 DEF ReadPlant
  <2> QED BY <1>4, <2>2 DEF OnPlant
<1>6. ASSUME plants' = plants, NEW code, Answer(r, code) PROVE RoomsInv' /\ RoomsDiffer
  <2>1. PICK x : x = Idle(code) OBVIOUS
  <2>2. reqs' = [reqs EXCEPT ![r] = x] /\ x.op = "idle" BY <1>6, <2>1, IdleOK DEF Answer
  <2> QED BY <1>4, <1>6, <2>2
<1>7. ASSUME CreatePlant(r), plants' # plants PROVE RoomsInv' /\ RoomsDiffer
  <2>1. PICK p, picture :
            /\ plants' = Added(plants, p, [room |-> reqs[r].room, archived |-> FALSE, picture |-> picture])
            /\ reqs[r].op = "create" /\ Answer(r, "saved")
    BY <1>7 DEF CreatePlant
  <2>2. ListRooms' \subseteq ListRooms \cup {reqs[r].room} BY <2>1 DEF ListRooms, Live, Added
  <2> QED BY <1>1, <2>1, <2>2, RoomWritten
<1>8. ASSUME update(r), plants' # plants PROVE RoomsInv' /\ RoomsDiffer
  <2>1. PICK x : x = reqs[r] OBVIOUS
  <2>2. PICK p : p = x.plant OBVIOUS
  <2>3. x.op = "update" /\ p \in DOMAIN plants
    BY <1>1, <1>8, <2>1, <2>2 DEF update, Reqs, RequestOK
  <2>4. Editable(p) /\ Answer(r, "saved") BY <1>8, <2>1, <2>2 DEF update
  <2>5. PICK row : row = [plants[p] EXCEPT !.room = x.room] OBVIOUS
  <2>6. plants[p] \in PlantRec /\ x.room \in Rooms
    BY <1>1, <2>1, <2>3 DEF Inv, Rows, Reqs, RequestOK
  <2>7. row \in PlantRec /\ row.room = x.room BY <2>5, <2>6 DEF PlantRec
  <2>8. \A f : [row EXCEPT !.picture = f].room = x.room BY <2>7 DEF PlantRec
  <2>9. PICK y : plants' = [plants EXCEPT ![p] = y] /\ y.room = x.room
    <3>1. CASE x.what = "photo"
      <4>1. PICK y : y = [row EXCEPT !.picture = given + 1] OBVIOUS
      <4>2. plants' = [plants EXCEPT ![p] = y]
        BY <1>8, <2>1, <2>2, <2>4, <2>5, <3>1, <4>1 DEF update
      <4>3. y.room = x.room BY <2>8, <4>1
      <4> QED BY <4>2, <4>3
    <3>2. CASE x.what = "remove"
      <4>1. PICK y : y = [row EXCEPT !.picture = None] OBVIOUS
      <4>2. plants' = [plants EXCEPT ![p] = y]
        BY <1>8, <2>1, <2>2, <2>4, <2>5, <3>2, <4>1 DEF update
      <4>3. y.room = x.room BY <2>8, <4>1
      <4> QED BY <4>2, <4>3
    <3>3. CASE x.what \notin {"photo", "remove"}
      <4>1. plants' = [plants EXCEPT ![p] = row]
        BY <1>8, <2>1, <2>2, <2>4, <2>5, <3>3 DEF update
      <4> QED BY <2>7, <4>1
    <3> QED BY <3>1, <3>2, <3>3
  <2>10. /\ DOMAIN plants' = DOMAIN plants /\ plants'[p] = y
         /\ \A q \in DOMAIN plants : q # p => plants'[q] = plants[q]
    BY <2>3, <2>9
  <2>11. ListRooms' \subseteq ListRooms \cup {x.room} BY <2>9, <2>10 DEF ListRooms, Live
  <2> QED BY <1>1, <2>1, <2>3, <2>4, <2>11, RoomWritten
<1>9. CASE CreatePlant(r) \/ update(r)
  <2>1. \E code : Answer(r, code) BY <1>9 DEF CreatePlant, update
  <2> QED BY <1>6, <1>7, <1>8, <1>9, <2>1
<1>10. CASE RefusePhoto(r) \/ addPhoto(r) \/ CreateCareEvent(r) \/ UpsertCareSchedule(r) \/ DeleteCareSchedule(r)
  <2>1. plants' = plants /\ \E code : Answer(r, code)
    BY <1>10 DEF RefusePhoto, addPhoto, CreateCareEvent, UpsertCareSchedule, DeleteCareSchedule
  <2> QED BY <1>6, <2>1
<1> QED BY <1>2, <1>3, <1>5, <1>9, <1>10

(* The other steps: only a restored plant brings its room.                  *)
LEMMA RoomsOthers ==
    ASSUME Inv, RoomsInv,
           \/ \E id \in DOMAIN photos : deletePhoto(id)
           \/ \E p \in DOMAIN plants : archive(p) \/ restore(p)
           \/ \E c \in Cares : deleteCareType(c)
           \/ UNCHANGED vars
    PROVE  RoomsInv' /\ RoomsDiffer
<1>1. reqs' = reqs BY DEF deletePhoto, archive, restore, deleteCareType, vars
<1>2. CASE ~\E p \in DOMAIN plants : restore(p)
  <2>1. ASSUME NEW id, deletePhoto(id) PROVE ListRooms' \subseteq ListRooms
    <3>1. plants' = [p \in DOMAIN plants |-> [plants[p] EXCEPT !.picture = IF @ = id THEN None ELSE @]]
      BY <2>1 DEF deletePhoto, DeletePhoto
    <3>2. \A p \in DOMAIN plants' :
              /\ p \in DOMAIN plants /\ plants'[p].room = plants[p].room
              /\ plants'[p].archived = plants[p].archived
      BY <3>1 DEF Inv, Rows, PlantRec
    <3> QED BY <3>2 DEF ListRooms, Live
  <2>2. ASSUME NEW p \in DOMAIN plants, archive(p) PROVE ListRooms' \subseteq ListRooms
    <3>1. plants' = [plants EXCEPT ![p].archived = TRUE] BY <2>2 DEF archive
    <3>2. \A q \in DOMAIN plants' :
              /\ q \in DOMAIN plants /\ plants'[q].room = plants[q].room
              /\ plants[q].archived => plants'[q].archived
      BY <3>1 DEF Inv, Rows, PlantRec
    <3> QED BY <3>2 DEF ListRooms, Live
  <2>3. ASSUME plants' = plants PROVE ListRooms' \subseteq ListRooms BY <2>3 DEF ListRooms, Live
  <2>4. ListRooms' \subseteq ListRooms BY <1>2, <2>1, <2>2, <2>3 DEF deleteCareType, vars
  <2> QED BY <1>1, <2>4, RoomsGo
<1>3. ASSUME NEW p \in DOMAIN plants, restore(p) PROVE RoomsInv' /\ RoomsDiffer
  <2>1. plants[p].archived /\ plants' = [plants EXCEPT ![p].archived = FALSE]
    BY <1>3 DEF restore, Live
  <2>2. /\ DOMAIN plants' = DOMAIN plants /\ ~plants'[p].archived
        /\ plants'[p].room = plants[p].room
        /\ \A q \in DOMAIN plants : q # p => plants'[q] = plants[q]
    BY <2>1 DEF Inv, Rows, PlantRec
  <2>3. \A room \in ListRooms' \ ListRooms : room = plants[p].room BY <2>2 DEF ListRooms, Live
  <2>4. RoomsDiffer BY <2>1, <2>2, <2>3 DEF RoomsDiffer
  <2>5. RoomsInv' BY <1>1 DEF RoomsInv, Spelled
  <2> QED BY <2>4, <2>5
<1> QED BY <1>2, <1>3

(* "Without it, bathroom would be a second room beside Bathroom"            *)
(* (canonicalRoom, plant_fields.go:176), whatever forms, archivings and     *)
(* restores there are at once: a room comes to the list beside one that     *)
(* differs in case alone only with the plant that is restored to it, or by  *)
(* a form that had read the list without the other, or with the room.       *)
THEOREM RoomsStayApart == ASSUME PlantsAssumption PROVE Spec => [][RoomsDiffer]_vars
<1>1. PlantsAssumption OBVIOUS
<1>2. Init => Inv /\ RoomsInv
  <2> SUFFICES ASSUME Init PROVE Inv /\ RoomsInv OBVIOUS
  <2>1. \A r \in Requests : reqs[r].op = "idle" BY IdleOK DEF Init
  <2>2. RoomsInv BY <2>1 DEF RoomsInv
  <2> QED BY <1>1, <2>2, InvInit
<1>3. Inv /\ RoomsInv /\ [Next]_vars => Inv' /\ RoomsInv' /\ RoomsDiffer
  <2> SUFFICES ASSUME Inv, RoomsInv, [Next]_vars PROVE Inv' /\ RoomsInv' /\ RoomsDiffer OBVIOUS
  <2>1. Inv' BY <1>1, InvStep
  <2>2. RoomsInv' /\ RoomsDiffer BY <1>1, RoomsRequest, RoomsOthers DEF Next, OnPlant
  <2> QED BY <2>1, <2>2
<1> QED BY <1>2, <1>3, PTL DEF Spec
=============================================================================
