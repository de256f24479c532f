-------------------------------- MODULE MCCare --------------------------------
(***************************************************************************)
(* Care and the types it is logged under, side by side: part says which of *)
(* the models a behaviour is of.  The constants and variables of Care are  *)
(* its own, and rest as they were at first in the other parts; the         *)
(* variables of the others are Off in the parts that are not theirs.       *)
(* "several" is Care with two care types and one request.                  *)
(***************************************************************************)
EXTENDS Care, TLC

CONSTANTS Off, r0, r1, r2

VARIABLES
    part,
    types1, made1, reqs1,                         \* Care, several, and CareTypes
    now1, usual1, events1, forms1, removed1, behind1, lost1,   \* Care, several
    used                                          \* CareTypes

severalVars == <<now1, usual1, events1, forms1, removed1, behind1, lost1>>
guestVars == <<types1, made1, reqs1, severalVars, used>>
partVars == <<part, careVars, guestVars>>

Both == {r1, r2}
Symmetry == Permutations(Both)

Ellie == {"ellie"}
WaterFeed == {"water", "feed"}
Five == {5}
FiveSeven == {5, 7}
One == {r0}

\* Feed's icon is not offered for other types.
TypeSlug ==
    "Feed" :> "feed" @@ "feed!" :> "feed" @@ "Mist" :> "mist" @@ "!" :> ""
TypeNames == DOMAIN TypeSlug
SeededTypes == "feed" :> "bottle"
OtherIcons == {"drop"}

Several == INSTANCE Care WITH
    Users <- Ellie, Owners <- Ellie, Cares <- WaterFeed, Requests <- One,
    Usuals <- Five, Agains <- FiveSeven, Minute <- 2, MaxEvents <- 1, MaxTime <- 1,
    now <- now1, types <- types1, usual <- usual1, events <- events1, made <- made1,
    forms <- forms1, reqs <- reqs1, removed <- removed1, behind <- behind1, lost <- lost1
Types == INSTANCE CareTypes WITH
    Names <- TypeNames, Slug <- TypeSlug, Seeded <- SeededTypes, Icons <- OtherIcons,
    Requests <- Both, MaxTypes <- 3, types <- types1, made <- made1, reqs <- reqs1

ASSUME CareAssumption /\ Several!CareAssumption
ASSUME Types!CareTypesAssumption

-----------------------------------------------------------------------------

NoSeveral ==
    /\ now1 = Off /\ usual1 = Off /\ events1 = Off /\ forms1 = Off /\ removed1 = Off
    /\ behind1 = Off /\ lost1 = Off

InitParts ==
    /\ CareInit
    /\ \/ /\ part = "care" /\ types1 = Off /\ made1 = Off /\ reqs1 = Off /\ used = Off
          /\ NoSeveral
       \/ part = "several" /\ Several!CareInit /\ used = Off
       \/ part = "types" /\ Types!Init /\ NoSeveral

NextParts ==
    /\ UNCHANGED part
    /\ \/ part = "care" /\ CareNext /\ UNCHANGED guestVars
       \/ part = "several" /\ Several!CareNext /\ UNCHANGED used /\ UNCHANGED careVars
       \/ part = "types" /\ Types!Next /\ UNCHANGED severalVars /\ UNCHANGED careVars

SideBySide == InitParts /\ [][NextParts]_partVars

-----------------------------------------------------------------------------
(* What holds of the parts besides CareAgrees and CareStays, which are of   *)
(* Care.                                                                    *)

(* Undo puts back what was deleted, also when two requests correct, delete  *)
(* and restore at once, but for what was corrected or put back between the  *)
(* read and the delete (restoreFields, RestoreCareEvent); and what was      *)
(* logged under one of two care types opens and can be saved as it opens    *)
(* (withEventCare, offerReminder).                                          *)
GivesBack ==
    /\ [](part = "several" => Several!TypeOK /\ Several!OpensAndSaves)
    /\ [][part = "care" => UndoGivesBack]_partVars

(* CareTypes: the rows have their types, a button still offered does what   *)
(* it says, a slug names one care type and each type keeps its own, and the *)
(* types every garden starts with keep their icons (openCareType,           *)
(* createCareType, seededIcon).                                             *)
OfferedWorks ==
    /\ [](part = "types" => Types!TypeOK)
    /\ [][part = "types" =>
            Types!OfferedWorks /\ Types!SlugNamesOne /\ Types!SeededIconStays']_partVars
=============================================================================
