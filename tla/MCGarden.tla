------------------------------- MODULE MCGarden -------------------------------
(***************************************************************************)
(* A garden's plants, the room its photos have and the notice about it,    *)
(* side by side: part says which of the models a behaviour is of.  The     *)
(* constants and variables of Plants are its own, and rest as they were at *)
(* first in the other parts; the variables of the others are Off in the    *)
(* parts that are not theirs.  "rooms" is Plants with two spellings of one *)
(* room.                                                                   *)
(***************************************************************************)
EXTENDS Plants, TLC

CONSTANTS Off, r1, r2, a1, a2, a3, a4, m1, m2

VARIABLES
    part, faults,
    plants1, photos1, schedules1, cares1, given1, reqs1,            \* Plants, "rooms"
    rows, upload, todo, delete, told, heard, old, wiped, late,      \* StorageNotice
    now, row, pc, garden, bytes, mtime, removing, clearing,         \* Photos
    spc, expected, tocheck, missing, listAt, sweepNow

roomsVars == <<plants1, photos1, schedules1, cares1, given1, reqs1>>
noticeVars == <<rows, upload, delete, told, heard, old, wiped, late>>
spaceVars == <<now, row, pc, garden, bytes, mtime, removing, clearing, spc, expected, tocheck,
               missing, listAt, sweepNow>>
partVars == <<part, faults, vars, roomsVars, noticeVars, todo, spaceVars>>

Both == {r1, r2}
Three == {a1, a2, a3}
Symmetry == Permutations(Both) \cup Permutations(Three)

Four == {a1, a2, a3, a4}
Spellings == {"Bath", "bath"}
FoldCase == "Bath" :> "bath" @@ "bath" :> "bath"
Centre == {50}
Sizes == {2}
Managers == {m1, m2}

PlantRooms == INSTANCE Plants WITH
    Rooms <- Spellings, Fold <- FoldCase, Cares <- {}, Focuses <- Centre, Requests <- Both,
    MaxPlants <- 2, MaxPhotos <- 1,
    plants <- plants1, photos <- photos1, schedules <- schedules1, cares <- cares1,
    given <- given1, reqs <- reqs1
Notice == INSTANCE StorageNotice WITH
    Photos <- Four, Quota <- 4, Share <- 2, MaxHandlers <- 2, MaxFaults <- 2
Space == INSTANCE Photos WITH
    Photos <- Three, Sizes <- Sizes, Quota <- 2, MinAge <- 3, UploadTicks <- 1, SweepTicks <- 1,
    MaxInFlight <- 2, MaxFaults <- 0, MaxTime <- 0

ASSUME PlantsAssumption /\ PlantRooms!PlantsAssumption
ASSUME Notice!NoticeAssumption
ASSUME Space!SizesAssumption /\ Space!TimeAssumption /\ Space!AgeAssumption

-----------------------------------------------------------------------------

NoRooms ==
    /\ plants1 = Off /\ photos1 = Off /\ schedules1 = Off /\ cares1 = Off /\ given1 = Off
    /\ reqs1 = Off
NoNotice ==
    /\ rows = Off /\ upload = Off /\ delete = Off /\ told = Off /\ heard = Off
    /\ old = Off /\ wiped = Off /\ late = Off
NoSpace ==
    /\ now = Off /\ row = Off /\ pc = Off /\ garden = Off /\ bytes = Off /\ mtime = Off
    /\ removing = Off /\ clearing = Off /\ spc = Off /\ expected = Off /\ tocheck = Off
    /\ missing = Off /\ listAt = Off /\ sweepNow = Off

InitParts ==
    /\ Init
    /\ \/ /\ \/ part = "plants" /\ NoRooms
             \/ part = "rooms" /\ PlantRooms!Init
          /\ faults = Off /\ todo = Off /\ NoNotice /\ NoSpace
       \/ part = "notice" /\ Notice!Init /\ NoRooms /\ NoSpace
       \/ part = "space" /\ Space!Init /\ todo = Off /\ NoRooms /\ NoNotice

KeepRooms == UNCHANGED roomsVars
KeepNotice == UNCHANGED noticeVars
KeepSpace == UNCHANGED spaceVars
KeepRest == UNCHANGED <<faults, todo>> /\ KeepNotice /\ KeepSpace

NextParts ==
    /\ UNCHANGED part
    /\ \/ part = "plants" /\ Next /\ KeepRooms /\ KeepRest
       \/ /\ UNCHANGED vars
          /\ \/ part = "rooms" /\ PlantRooms!Next /\ KeepRest
             \/ part = "notice" /\ Notice!Next /\ KeepRooms /\ KeepSpace
             \/ part = "space" /\ Space!Next /\ UNCHANGED todo /\ KeepRooms /\ KeepNotice

SideBySide == InitParts /\ [][NextParts]_partVars

-----------------------------------------------------------------------------
(* What holds of the parts besides PlantsAgree and PlantsStay, which are of *)
(* Plants.                                                                  *)

(* Plants, with rooms of two spellings: the rows have their types, an       *)
(* archived plant keeps its room (UpdatePlant), and a second spelling comes *)
(* only with a restored plant or between a form's read and its write        *)
(* (canonicalRoom).                                                         *)
RoomsApart ==
    /\ [](part = "rooms" => PlantRooms!TypeOK)
    /\ [][part = "rooms" => PlantRooms!ArchivedStays /\ PlantRooms!RoomsDiffer]_partVars

(* Photos and StorageNotice: the quota is overshot by one file for each     *)
(* upload in flight and no more (Save); and who was told is not told again  *)
(* while the photos stay over the share, and under it nobody is marked as   *)
(* told, but by a request that goes by a usage of before (notifyStorage,    *)
(* clearStorageNotification).                                               *)
StorageHolds ==
    /\ part = "space" => Space!TypeOK /\ Space!QuotaOvershoot
    /\ part = "notice" => Notice!StaysOverToldOnce /\ Notice!UnderIsCleared
=============================================================================
