-------------------------------- MODULE Plants --------------------------------
(***************************************************************************)
(* The plants of a garden, their rooms and their pictures                  *)
(* (internal/http/plant_form.go, plant_picture.go, photo_form.go,          *)
(* photo_page.go, archived.go).  A form is checked against rows read in    *)
(* statements of their own and written in one transaction, which the       *)
(* others see all of or nothing of; between the two, others archive,       *)
(* restore, edit and delete.                                               *)
(*                                                                         *)
(* A plant is [room, picture, archived].  Of its fields only the room is   *)
(* kept, a spelling that Fold takes to the name ignoring case.  Files and  *)
(* the quota are in module Photos; here the store may refuse any photo.    *)
(***************************************************************************)
EXTENDS Integers, FiniteSets, Functions

CONSTANTS
    Rooms,       \* the spellings of rooms a form may post
    Fold,        \* each ignoring case
    Cares,       \* care type ids, none of them None
    Focuses,     \* focal points, the centre among them
    Requests,    \* requests in flight
    MaxPlants,   \* bound on the plants added
    MaxPhotos    \* bound on the photos added

None == 0
centre == 50

PlantsAssumption ==
    /\ centre \in Focuses /\ None \notin Cares
    /\ MaxPlants \in Nat /\ MaxPhotos \in Nat

VARIABLES
    plants,     \* the rows of plant, by id
    photos,     \* the rows of photo, by id: [plant, focus]
    schedules,  \* the rows of care_schedule, as <<plant, care>>
    cares,      \* the care types the garden has
    given,      \* how many photo ids were given
    reqs        \* the requests in flight

vars == <<plants, photos, schedules, cares, given, reqs>>

Idle(answer) == [op |-> "idle", answer |-> answer]
IsIdle(r) == reqs[r].op = "idle"
Answer(r, code) == reqs' = [reqs EXCEPT ![r] = Idle(code)]
Added(f, id, row) == [i \in DOMAIN f \cup {id} |-> IF i = id THEN row ELSE f[i]]

Live == {p \in DOMAIN plants : ~plants[p].archived}

\* Rooms of archived plants are left out.
ListRooms == {plants[p].room : p \in Live}

\* Fault: the room is kept as it was typed.
canonicalRoom_Typed(typed) == typed

\* The room the garden has under this name, or the name as it was typed.
canonicalRoom(typed) ==
    IF \E room \in ListRooms : Fold[room] = Fold[typed]
    THEN CHOOSE room \in ListRooms : Fold[room] = Fold[typed] ELSE typed

-----------------------------------------------------------------------------
(* Adding a plant.                                                         *)

\* create up to its transaction; the schedules are of types the form lists.
\* saw is history: the rooms that were read, which the transaction may find
\* changed.
create(r, typed, chosen, photo, focus) ==
    /\ IsIdle(r)
    /\ reqs' = [reqs EXCEPT ![r] =
          [op |-> "create", room |-> canonicalRoom(typed), saw |-> ListRooms, cares |-> chosen,
           photo |-> photo, focus |-> focus]]
    /\ UNCHANGED <<plants, photos, schedules, cares, given>>

\* A schedule of a care type deleted since fails its foreign key.
CreatePlant(r) ==
    /\ reqs[r].op = "create"
    /\ IF reqs[r].cares \subseteq cares
       THEN LET p == Cardinality(DOMAIN plants) + 1
                f == given + 1 IN
            /\ p <= MaxPlants /\ (reqs[r].photo => f <= MaxPhotos)
            /\ plants' = Added(plants, p, [room |-> reqs[r].room, archived |-> FALSE,
                                           picture |-> IF reqs[r].photo THEN f ELSE None])
            /\ schedules' = schedules \cup {<<p, c>> : c \in reqs[r].cares}
            /\ photos' = IF reqs[r].photo THEN Added(photos, f, [plant |-> p, focus |-> reqs[r].focus])
                       ELSE photos
            /\ given' = IF reqs[r].photo THEN f ELSE given
            /\ Answer(r, "saved")
       ELSE Answer(r, "500") /\ UNCHANGED <<plants, photos, schedules, given>>
    /\ UNCHANGED cares

\* Fault: the plant is written outside the transaction of its photo.
RefusePhoto_Kept(r) ==
    /\ reqs[r].op = "create" /\ reqs[r].photo
    /\ Answer(r, "422")
    /\ Cardinality(DOMAIN plants) < MaxPlants
    /\ plants' = Added(plants, Cardinality(DOMAIN plants) + 1,
                       [room |-> reqs[r].room, archived |-> FALSE, picture |-> None])
    /\ UNCHANGED <<photos, schedules, cares, given>>

\* A photo the store refuses, or one posted without its square, rolls back.
RefusePhoto(r) ==
    /\ \/ reqs[r].op = "create" /\ reqs[r].photo
       \/ reqs[r].op = "update" /\ reqs[r].what = "photo" /\ reqs[r].plant \in Live
       \/ reqs[r].op = "add photo"
    /\ Answer(r, "422")
    /\ UNCHANGED <<plants, photos, schedules, cares, given>>

-----------------------------------------------------------------------------
(* Editing a plant.                                                        *)

\* editable and gardenRooms.  what is "photo", "remove", a focus or "none".
ReadToUpdate(r, p, typed, what, focus) ==
    /\ IsIdle(r) /\ p \in Live
    /\ reqs' = [reqs EXCEPT ![r] =
          [op |-> "update", plant |-> p, room |-> canonicalRoom(typed), saw |-> ListRooms,
           what |-> what, focus |-> focus, picture |-> plants[p].picture]]
    /\ UNCHANGED <<plants, photos, schedules, cares, given>>

\* Fault: the statement writes an archived plant too.
Editable_Any(p) == p \in DOMAIN plants

\* WHERE ... archived_at IS NULL.
Editable(p) == p \in Live

\* The transaction of update: the fields, then a new picture, no picture, or
\* the focus of the picture that was read.
update(r) ==
    /\ reqs[r].op = "update"
    /\ LET p == reqs[r].plant
           f == given + 1
           row == [plants[p] EXCEPT !.room = reqs[r].room]
           moved == reqs[r].picture IN
       CASE ~Editable(p) ->
              Answer(r, "404") /\ UNCHANGED <<plants, photos, given>>
         [] Editable(p) /\ reqs[r].what = "photo" ->
              /\ f <= MaxPhotos
              /\ plants' = [plants EXCEPT ![p] = [row EXCEPT !.picture = f]]
              /\ photos' = Added(photos, f, [plant |-> p, focus |-> reqs[r].focus])
              /\ given' = f
              /\ Answer(r, "saved")
         [] Editable(p) /\ reqs[r].what = "remove" ->
              /\ plants' = [plants EXCEPT ![p] = [row EXCEPT !.picture = None]]
              /\ Answer(r, "saved") /\ UNCHANGED <<photos, given>>
         [] OTHER ->
              /\ plants' = [plants EXCEPT ![p] = row]
              /\ photos' = IF reqs[r].what = "focus" /\ moved \in DOMAIN photos
                           THEN [photos EXCEPT ![moved].focus = reqs[r].focus] ELSE photos
              /\ Answer(r, "saved") /\ UNCHANGED given
    /\ UNCHANGED <<schedules, cares>>

-----------------------------------------------------------------------------
(* Photos, the archive, and care.                                          *)

\* editable, loadPlant or plantAndCare; care is the type the URL names.
ReadPlant(r, p, op, care) ==
    /\ IsIdle(r) /\ p \in Live /\ care \in cares \cup {None}
    /\ (care = None) = (op = "add photo")
    /\ reqs' = [reqs EXCEPT ![r] = [op |-> op, plant |-> p, care |-> care]]
    /\ UNCHANGED <<plants, photos, schedules, cares, given>>

addPhoto(r) ==
    /\ reqs[r].op = "add photo" /\ given < MaxPhotos
    /\ given' = given + 1
    /\ photos' = Added(photos, given + 1, [plant |-> reqs[r].plant, focus |-> centre])
    /\ Answer(r, "saved")
    /\ UNCHANGED <<plants, schedules, cares>>

\* Fault: nothing clears the picture of the plant.
DeletePhoto_Dangles(id) == photos' = Restrict(photos, DOMAIN photos \ {id}) /\ UNCHANGED plants

\* ON DELETE SET NULL (profile_photo_id).
DeletePhoto(id) ==
    /\ photos' = Restrict(photos, DOMAIN photos \ {id})
    /\ plants' = [p \in DOMAIN plants |->
                    [plants[p] EXCEPT !.picture = IF @ = id THEN None ELSE @]]

deletePhoto(id) == DeletePhoto(id) /\ UNCHANGED <<schedules, cares, given, reqs>>

archive(p) ==
    /\ p \in Live
    /\ plants' = [plants EXCEPT ![p].archived = TRUE]
    /\ UNCHANGED <<photos, schedules, cares, given, reqs>>

restore(p) ==
    /\ p \in DOMAIN plants \ Live
    /\ plants' = [plants EXCEPT ![p].archived = FALSE]
    /\ UNCHANGED <<photos, schedules, cares, given, reqs>>

\* logOnPlant after loadPlant; the event itself is in module Care.
CreateCareEvent(r) ==
    /\ reqs[r].op = "log"
    /\ Answer(r, IF reqs[r].care \in cares THEN "logged" ELSE "500")
    /\ UNCHANGED <<plants, photos, schedules, cares, given>>

\* saveSchedule after plantAndCare; a type deleted since fails the foreign key.
UpsertCareSchedule(r) ==
    /\ reqs[r].op = "schedule"
    /\ IF reqs[r].care \in cares
       THEN schedules' = schedules \cup {<<reqs[r].plant, reqs[r].care>>} /\ Answer(r, "saved")
       ELSE UNCHANGED schedules /\ Answer(r, "500")
    /\ UNCHANGED <<plants, photos, cares, given>>

\* removeSchedule after plantAndCare.
DeleteCareSchedule(r) ==
    /\ reqs[r].op = "unschedule"
    /\ schedules' = schedules \ {<<reqs[r].plant, reqs[r].care>>}
    /\ Answer(r, IF schedules' = schedules THEN "404" ELSE "saved")
    /\ UNCHANGED <<plants, photos, cares, given>>

\* Deleting a care type deletes the schedules that use it.
deleteCareType(c) ==
    /\ c \in cares
    /\ cares' = cares \ {c}
    /\ schedules' = {s \in schedules : s[2] # c}
    /\ UNCHANGED <<plants, photos, given, reqs>>

-----------------------------------------------------------------------------

Init ==
    /\ plants = <<>> /\ photos = <<>> /\ schedules = {} /\ cares = Cares /\ given = 0
    /\ reqs = [r \in Requests |-> Idle("none")]

Next ==
    \/ \E r \in Requests :
          \/ \E typed \in Rooms, focus \in Focuses :
                \/ \E chosen \in SUBSET cares, photo \in BOOLEAN : create(r, typed, chosen, photo, focus)
                \/ \E p \in DOMAIN plants, what \in {"photo", "remove", "focus", "none"} :
                      ReadToUpdate(r, p, typed, what, focus)
          \/ \E p \in DOMAIN plants, op \in {"add photo", "log", "schedule", "unschedule"},
                care \in cares \cup {None} : ReadPlant(r, p, op, care)
          \/ CreatePlant(r) \/ RefusePhoto(r) \/ update(r) \/ addPhoto(r)
          \/ CreateCareEvent(r) \/ UpsertCareSchedule(r) \/ DeleteCareSchedule(r)
    \/ \E id \in DOMAIN photos : deletePhoto(id)
    \/ \E p \in DOMAIN plants : archive(p) \/ restore(p)
    \/ \E c \in Cares : deleteCareType(c)

Spec == Init /\ [][Next]_vars

-----------------------------------------------------------------------------

TypeOK ==
    /\ DOMAIN plants = 1 .. Cardinality(DOMAIN plants)
    /\ \A p \in DOMAIN plants : plants[p].room \in Rooms /\ plants[p].archived \in BOOLEAN
    /\ DOMAIN photos \subseteq 1 .. given /\ given \in 0 .. MaxPhotos
    /\ \A f \in DOMAIN photos : photos[f].plant \in DOMAIN plants /\ photos[f].focus \in Focuses
    /\ schedules \subseteq ((DOMAIN plants) \X cares)

(* "a plant's picture is always one of" its own photos                      *)
(* (00004_photos.sql:41), whichever edits, uploads and deletions are under  *)
(* way (savePicture, SetProfilePhoto and DeletePhoto).                      *)
PictureIsOwn ==
    \A p \in DOMAIN plants : plants[p].picture # None =>
        plants[p].picture \in DOMAIN photos /\ photos[plants[p].picture].plant = p

(* The rows of plants, photos and schedules are of their types and agree    *)
(* with one another, however the forms of several requests, deleted photos  *)
(* and deleted care types interleave (CreatePlant, update, DeletePhoto,     *)
(* UpsertCareSchedule).                                                     *)
PlantsAgree == TypeOK /\ PictureIsOwn

(* "a photo the store refuses rolls the plant back and a retry does not add *)
(* the plant twice" (create, plant_form.go:272-275): a request that is not  *)
(* answered with success leaves no plant, schedule or photo, and one that   *)
(* is leaves the plant with each schedule that was asked for.               *)
PlantIsWhole ==
    \A r \in Requests : reqs[r].op = "create" /\ reqs'[r] # reqs[r] =>
       IF reqs'[r] = Idle("saved")
       THEN \E p \in DOMAIN plants' \ DOMAIN plants :
               /\ {s[2] : s \in {t \in schedules' : t[1] = p}} = reqs[r].cares
               /\ (plants'[p].picture # None) = reqs[r].photo
       ELSE UNCHANGED <<plants, photos, schedules>>

(* "An archived plant matches nothing because it cannot be edited"          *)
(* (UpdatePlant): the fields and the picture of a plant stay as they are    *)
(* while it is archived, whatever was read before it was, except that its   *)
(* picture may be deleted.                                                  *)
ArchivedStays ==
    \A p \in DOMAIN plants : plants[p].archived /\ plants'[p].archived =>
       /\ plants'[p].room = plants[p].room
       /\ plants'[p].picture \in {plants[p].picture, None}

(* A plant is added with all it was posted with or not at all, and stays as *)
(* it was while it is archived (create, photoRefused, UpdatePlant).         *)
PlantsStay == [][PlantIsWhole /\ ArchivedStays]_vars

(* "Without it, bathroom would be a second room beside Bathroom on the      *)
(* Plants list" (canonicalRoom, plant_fields.go:176): whatever forms are    *)
(* under way at once, a room comes to the list beside one that differs in   *)
(* case alone only with the plant that is restored to it, or by a form that *)
(* had read the list without the other, or with the room itself.            *)
RoomsDiffer ==
    \A room \in ListRooms' \ ListRooms, other \in ListRooms' :
     other # room /\ Fold[other] = Fold[room] =>
       \/ \E p \in DOMAIN plants : plants[p].archived /\ ~plants'[p].archived /\ plants[p].room = room
       \/ \E r \in Requests :
             /\ reqs[r].op \in {"create", "update"} /\ reqs[r].room = room
             /\ reqs'[r] = Idle("saved")
             /\ other \notin reqs[r].saw \/ room \in reqs[r].saw
==============================================================================
