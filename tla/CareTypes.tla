------------------------------ MODULE CareTypes ------------------------------
(***************************************************************************)
(* The care types of a garden (internal/http/garden.go): added, renamed,   *)
(* given an icon, turned off and on, and deleted, by several requests at   *)
(* once.  A request reads the type of its path and the type holding the    *)
(* slug of the posted name in statements of their own and writes in        *)
(* another.  The slug is made from the name once, when a type is added; a   *)
(* path names a type by its slug.  A name is a model of its spelling: Slug  *)
(* gives what slugify leaves of it, "" for punctuation alone.              *)
(***************************************************************************)
EXTENDS Integers, FiniteSets, Functions

CONSTANTS
    Names,      \* the names a form may post
    Slug,       \* CareTypeSlug of each
    Seeded,     \* the slugs every garden starts with, and their icons
    Icons,      \* the icons the field offers
    Requests,   \* requests in flight
    MaxTypes    \* bound on the types added

\* The care types every garden starts with have names of their own.
CareTypesAssumption ==
    /\ "" \notin DOMAIN Seeded /\ \A slug \in DOMAIN Seeded : \E name \in Names : Slug[name] = slug
    /\ IsFiniteSet(DOMAIN Seeded) /\ Cardinality(DOMAIN Seeded) <= MaxTypes /\ MaxTypes \in Nat

Free == ""

VARIABLES
    types,  \* the rows of care_type by id: [name, slug, icon, off]
    made,   \* how many ids were given
    used,   \* the types care has been logged under
    reqs    \* the requests in flight

vars == <<types, made, used, reqs>>

Idle(answer) == [op |-> "idle", answer |-> answer]
IsIdle(r) == reqs[r].op = "idle"
Answer(r, code) == reqs' = [reqs EXCEPT ![r] = Idle(code)]
Put(id, row) == [i \in DOMAIN types \cup {id} |-> IF i = id THEN row ELSE types[i]]

Holders(slug) == {id \in DOMAIN types : types[id].slug = slug}

\* GetCareTypeBySlug finds at most one, on or off.
careTypeWithSlug(slug) == Holders(slug) # {}

nameProblem(name) == Slug[name] = Free

knownCareIcon(icon) == icon \in Icons

-----------------------------------------------------------------------------

\* Fault: the posted icon is taken whatever the slug.
IconFor_Posted(slug, posted) == posted

\* The icon of a seeded slug is fixed.
IconFor(slug, posted) == IF slug \in DOMAIN Seeded THEN Seeded[slug] ELSE posted

Refusal(slug, icon, name) == nameProblem(name) \/ (slug \notin DOMAIN Seeded /\ ~knownCareIcon(icon))

createCareType(r, name, icon) ==
    /\ IsIdle(r)
    /\ IF Refusal(Slug[name], icon, name) \/ careTypeWithSlug(Slug[name])
       THEN Answer(r, "422")
       ELSE reqs' = [reqs EXCEPT ![r] =
                       [op |-> "create", row |-> [name |-> name, slug |-> Slug[name],
                                                  icon |-> IconFor(Slug[name], icon), off |-> FALSE]]]
    /\ UNCHANGED <<types, made, used>>

\* Fault: the table has no unique index on the slug.
Conflicts_Never(slug) == FALSE

\* UNIQUE (garden_id, slug).
Conflicts(slug) == Holders(slug) # {}

CreateCareType(r) ==
    /\ reqs[r].op = "create" /\ made < MaxTypes
    /\ IF Conflicts(reqs[r].row.slug)
       THEN Answer(r, "500") /\ UNCHANGED <<types, made>>
       ELSE /\ types' = Put(made + 1, reqs[r].row)
            /\ made' = made + 1
            /\ Answer(r, "saved")
    /\ UNCHANGED used

\* careTypeFromPath.
ReadToSave(r, id) ==
    /\ IsIdle(r)
    /\ reqs' = [reqs EXCEPT ![r] = [op |-> "save", id |-> id, read |-> types[id]]]
    /\ UNCHANGED <<types, made, used>>

saveCareType(r, name, icon) ==
    /\ reqs[r].op = "save"
    /\ LET care == reqs[r].read IN
       IF \/ Refusal(care.slug, icon, name)
          \/ Slug[name] # care.slug /\ careTypeWithSlug(Slug[name])
       THEN Answer(r, "422")
       ELSE reqs' = [reqs EXCEPT ![r] =
                       [op |-> "update", id |-> @.id, name |-> name,
                        icon |-> IF care.slug \in DOMAIN Seeded THEN care.icon ELSE icon]]
    /\ UNCHANGED <<types, made, used>>

UpdatedType(old, name, icon) == [old EXCEPT !.name = name, !.icon = icon]

\* A type deleted since matches no row, which saveCareType reports as an error.
UpdateCareType(r) ==
    /\ reqs[r].op = "update"
    /\ IF reqs[r].id \in DOMAIN types
       THEN /\ types' = Put(reqs[r].id, UpdatedType(types[reqs[r].id], reqs[r].name, reqs[r].icon))
            /\ Answer(r, "saved")
       ELSE UNCHANGED types /\ Answer(r, "500")
    /\ UNCHANGED <<made, used>>

\* turnOffCareType, turnOnCareType and deleteCareType read the type first.
ReadToDrop(r, id, how) ==
    /\ IsIdle(r)
    /\ reqs' = [reqs EXCEPT ![r] = [op |-> how, id |-> id]]
    /\ UNCHANGED <<types, made, used>>

turnOffCareType(r) ==
    /\ reqs[r].op = "off"
    /\ IF reqs[r].id \in DOMAIN types /\ ~types[reqs[r].id].off
       THEN types' = [types EXCEPT ![reqs[r].id].off = TRUE] /\ Answer(r, "saved")
       ELSE UNCHANGED types /\ Answer(r, "404")
    /\ UNCHANGED <<made, used>>

turnOnCareType(r) ==
    /\ reqs[r].op = "on"
    /\ IF reqs[r].id \in DOMAIN types /\ types[reqs[r].id].off
       THEN types' = [types EXCEPT ![reqs[r].id].off = FALSE] /\ Answer(r, "saved")
       ELSE UNCHANGED types /\ Answer(r, "404")
    /\ UNCHANGED <<made, used>>

deleteCareType(r) ==
    /\ reqs[r].op = "delete"
    /\ IF reqs[r].id \in DOMAIN types \ used
       THEN types' = Restrict(types, DOMAIN types \ {reqs[r].id}) /\ Answer(r, "saved")
       ELSE UNCHANGED types /\ Answer(r, "404")
    /\ UNCHANGED <<made, used>>

\* Fault: Delete is offered for any type that is on.
openCareType_Delete(id) == IF types[id].off THEN "on" ELSE "delete"

\* The one button an open row offers beside Save.
openCareType(id) ==
    CASE types[id].off                    -> "on"
      [] ~types[id].off /\ id \in used    -> "off"
      [] OTHER                            -> "delete"

\* Care is logged under a type that is on (module Care).
LogCare(id) ==
    /\ ~types[id].off /\ id \notin used
    /\ used' = used \cup {id}
    /\ UNCHANGED <<types, made, reqs>>

-----------------------------------------------------------------------------

Init ==
    /\ \E f \in Bijection(1 .. Cardinality(DOMAIN Seeded), DOMAIN Seeded) :
          types = [i \in DOMAIN f |->
                      [name |-> CHOOSE n \in Names : Slug[n] = f[i],
                       slug |-> f[i], icon |-> Seeded[f[i]], off |-> FALSE]]
    /\ made = Cardinality(DOMAIN Seeded)
    /\ used = {}
    /\ reqs = [r \in Requests |-> Idle("none")]

Next ==
    \/ \E id \in DOMAIN types : LogCare(id)
    \/ \E r \in Requests :
        \/ \E name \in Names, icon \in Icons \cup {"unknown"} :
              createCareType(r, name, icon) \/ saveCareType(r, name, icon)
        \/ CreateCareType(r) \/ UpdateCareType(r)
        \/ turnOffCareType(r) \/ turnOnCareType(r) \/ deleteCareType(r)
        \/ \E id \in DOMAIN types : ReadToSave(r, id) \/ ReadToDrop(r, id, openCareType(id))

Spec == Init /\ [][Next]_vars

-----------------------------------------------------------------------------

TypeOK ==
    /\ DOMAIN types \subseteq 1 .. made /\ made \in 0 .. MaxTypes
    /\ used \subseteq DOMAIN types
    /\ \A id \in DOMAIN types :
          /\ types[id].name \in Names /\ types[id].off \in BOOLEAN
          /\ types[id].slug # Free

(* A slug names one care type, whichever two requests add or rename types   *)
(* at the same moment, and a type keeps the slug it was added with:         *)
(* "Code refers to a care type by slug and events refer to its row"         *)
(* (UpdateCareType; the check and the insert of createCareType are two      *)
(* statements, garden.go:234-247).                                          *)
SlugNamesOne ==
    /\ \A i, j \in DOMAIN types' : types'[i].slug = types'[j].slug => i = j
    /\ \A i \in DOMAIN types \cap DOMAIN types' : types'[i].slug = types[i].slug

(* The types every garden starts with keep their icons through renames,     *)
(* deletions and being added again, and the icons left out of careIcons are *)
(* theirs alone: "those two care types keep icons no other type has"        *)
(* (careIcons, care_icon.go:6-7; createCareType, garden.go:211-214).        *)
SeededIconStays ==
    \A id \in DOMAIN types :
        IF types[id].slug \in DOMAIN Seeded THEN types[id].icon = Seeded[types[id].slug]
        ELSE types[id].icon \in Icons

(* A button that the row still offers when it is pressed does what it says: *)
(* "A statement that matched nothing was a button the row did not offer"    *)
(* (openCareType, garden.go:530; afterCareTypeChange, :358).                *)
OfferedWorks ==
    \A r \in Requests :
       /\ reqs[r].op \in {"off", "on", "delete"} /\ reqs[r].id \in DOMAIN types
       /\ reqs[r].op = openCareType(reqs[r].id)
       => reqs'[r] # Idle("404")
==============================================================================
