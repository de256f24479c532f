-------------------------------- MODULE Photos --------------------------------
(***************************************************************************)
(* The photos of a garden: rows in the database and files on disk          *)
(* (internal/photo/store.go), and the sweep that compares the two          *)
(* (internal/photo/sweep.go), which is a command and so another process.   *)
(*                                                                         *)
(* Rows and files cannot be written together.  An upload writes its files  *)
(* and then commits its row; a deletion commits and then removes the       *)
(* files; the sweep lists the rows and then walks the files.  Each of them *)
(* is several steps, and a crash or an error may fall between any two.     *)
(***************************************************************************)
EXTENDS Integers, FiniteSets, FiniteSetsExt

CONSTANTS
    Photos,       \* photo ids; an upload takes a new one
    Sizes,        \* bytes an upload may have, its square included
    Quota,        \* SPRIG_PHOTO_QUOTA
    MinAge,       \* sweepMinAge
    UploadTicks,  \* the age a file may reach before its upload ends
    SweepTicks,   \* ticks between a sweep's list and its reading of the clock
    MaxInFlight,  \* bound on uploads at once
    MaxFaults,    \* bound on errors and crashes
    MaxTime       \* bound on the clock

ASSUME SizesAssumption == Sizes \subseteq Nat /\ Quota \in Nat /\ MaxInFlight \in Nat
ASSUME TimeAssumption == MinAge \in Nat /\ MaxTime \in Nat /\ MaxFaults \in Nat

(* "A file younger than this may be an upload still in flight" (sweep.go:19) *)
(* is all the sweep knows of uploads: an upload ends, and a sweep reads its  *)
(* rows, well within sweepMinAge.                                            *)
ASSUME AgeAssumption ==
    UploadTicks \in Nat /\ SweepTicks \in Nat /\ UploadTicks + SweepTicks < MinAge

VARIABLES
    now,
    garden,    \* the garden's row is there
    row,       \* photo rows: "none", "row", "deleted"
    bytes,     \* photo.bytes + photo.square_bytes
    mtime,     \* when a file was last written, or NoFile
    pc,        \* how far an upload is
    removing,  \* files that a handler is about to remove
    clearing,  \* DeleteGardenPhotos is removing the garden's directory
    spc,       \* how far the sweep is
    expected,  \* the photos of the rows the sweep listed
    tocheck,   \* those of them whose files it has not looked for yet
    missing,   \* those whose files it has not found
    listAt,    \* when it listed them
    sweepNow,  \* the now it takes the age of a file from
    faults

uploadVars == <<bytes, pc>>
sweepVars == <<spc, expected, tocheck, missing, listAt, sweepNow>>
vars == <<now, garden, row, uploadVars, mtime, removing, clearing, sweepVars, faults>>

\* Path and SquarePath; every upload has a square variant (postedPhoto).
Main(p) == <<p, "main">>
Square(p) == <<p, "square">>
FilesOf(p) == {Main(p), Square(p)}
Files == Photos \X {"main", "square"}

NoFile == -1
OnDisk(f) == mtime[f] # NoFile

Rows == {p \in Photos : row[p] = "row"}

\* SumPhotoBytes.
Used == MapThenSumSet(LAMBDA p : bytes[p], Rows)

InFlight == {p \in Photos : pc[p] \in {"begun", "main", "square", "inserted"}}
Writing(p) == pc[p] \in {"main", "square", "inserted"}

Faulty == faults < MaxFaults /\ faults' = faults + 1

-----------------------------------------------------------------------------
(* An upload: Save, in the transaction of addPhoto, create or update.      *)

\* Fault: the room is not looked at.
BeginUpload_NoCheck(p) ==
    /\ garden
    /\ pc[p] = "none"
    /\ Cardinality(InFlight) < MaxInFlight
    /\ \E b \in Sizes : bytes' = [bytes EXCEPT ![p] = b]
    /\ pc' = [pc EXCEPT ![p] = "begun"]
    /\ UNCHANGED <<now, garden, row, mtime, removing, clearing, sweepVars, faults>>

\* The room is read once, and the sizes posted have to fit in it.
BeginUpload(p) ==
    /\ garden
    /\ pc[p] = "none"
    /\ Cardinality(InFlight) < MaxInFlight
    /\ \E b \in Sizes :
        /\ Used + b <= Quota
        /\ bytes' = [bytes EXCEPT ![p] = b]
    /\ pc' = [pc EXCEPT ![p] = "begun"]
    /\ UNCHANGED <<now, garden, row, mtime, removing, clearing, sweepVars, faults>>

OpenMain(p) ==
    /\ pc[p] = "begun"
    /\ pc' = [pc EXCEPT ![p] = "main"]
    /\ mtime' = [mtime EXCEPT ![Main(p)] = now]
    /\ UNCHANGED <<now, garden, row, bytes, removing, clearing, sweepVars, faults>>

\* The last bytes of f are written; its directory entry may be gone by now.
Written(f) == IF OnDisk(f) THEN now ELSE NoFile

OpenSquare(p) ==
    /\ pc[p] = "main"
    /\ pc' = [pc EXCEPT ![p] = "square"]
    /\ mtime' = [mtime EXCEPT ![Main(p)] = Written(Main(p)), ![Square(p)] = now]
    /\ UNCHANGED <<now, garden, row, bytes, removing, clearing, sweepVars, faults>>

\* The insert refers to the plant, whose row is locked until the transaction
\* ends.
InsertRow(p) ==
    /\ pc[p] = "square"
    /\ garden
    /\ pc' = [pc EXCEPT ![p] = "inserted"]
    /\ mtime' = [mtime EXCEPT ![Square(p)] = Written(Square(p))]
    /\ UNCHANGED <<now, garden, row, bytes, removing, clearing, sweepVars, faults>>

\* Writing a file fails, or the insert does: its plant is gone or the
\* database failed.  Save removes what it has written.
SaveFails(p) ==
    /\ pc[p] \in {"begun", "main", "square"}
    /\ \/ Faulty
       \/ pc[p] = "square" /\ ~garden /\ UNCHANGED faults
    /\ pc' = [pc EXCEPT ![p] = "done"]
    /\ removing' = removing \cup {f \in FilesOf(p) : OnDisk(f)}
    /\ UNCHANGED <<now, garden, row, bytes, mtime, clearing, sweepVars>>

Commit(p) ==
    /\ pc[p] = "inserted"
    /\ pc' = [pc EXCEPT ![p] = "done"]
    /\ row' = [row EXCEPT ![p] = "row"]
    /\ UNCHANGED <<now, garden, bytes, mtime, removing, clearing, sweepVars, faults>>

\* Fault: the files are removed when the commit returns an error.
CommitFails_RemovesFiles(p) ==
    /\ pc[p] = "inserted"
    /\ Faulty
    /\ pc' = [pc EXCEPT ![p] = "done"]
    /\ \E r \in {"none", "row"} : row' = [row EXCEPT ![p] = r]
    /\ removing' = removing \cup FilesOf(p)
    /\ UNCHANGED <<now, garden, bytes, mtime, clearing, sweepVars>>

\* A later statement or the commit returns an error.  When it is the answer
\* to the commit that is lost, the row is there.  The files stay.
CommitFails(p) ==
    /\ pc[p] = "inserted"
    /\ Faulty
    /\ pc' = [pc EXCEPT ![p] = "done"]
    /\ \E r \in {"none", "row"} : row' = [row EXCEPT ![p] = r]
    /\ UNCHANGED <<now, garden, bytes, mtime, removing, clearing, sweepVars>>

-----------------------------------------------------------------------------
(* Deletions.                                                              *)

\* Delete commits and goes on to the files, unless it was the answer that
\* was lost.
DeletePhoto(p) ==
    /\ row[p] = "row"
    /\ row' = [row EXCEPT ![p] = "deleted"]
    /\ \/ removing' = removing \cup FilesOf(p) /\ UNCHANGED faults
       \/ Faulty /\ UNCHANGED removing
    /\ UNCHANGED <<now, garden, uploadVars, mtime, clearing, sweepVars>>

\* remove ignores an error.
RemoveFile(f) ==
    /\ f \in removing
    /\ removing' = removing \ {f}
    /\ \/ mtime' = [mtime EXCEPT ![f] = NoFile] /\ UNCHANGED faults
       \/ Faulty /\ UNCHANGED mtime
    /\ UNCHANGED <<now, garden, row, uploadVars, clearing, sweepVars>>

\* Every row of the garden goes; an upload that has inserted its row is
\* waited for.
DeleteGarden ==
    /\ garden
    /\ \A p \in Photos : pc[p] # "inserted"
    /\ garden' = FALSE
    /\ row' = [p \in Photos |-> IF row[p] = "row" THEN "deleted" ELSE row[p]]
    /\ clearing' = TRUE
    /\ UNCHANGED <<now, uploadVars, mtime, removing, sweepVars, faults>>

\* RemoveAll takes one file after the other and may stop on an error.
RemoveGardenFile(f) ==
    /\ clearing
    /\ OnDisk(f)
    /\ mtime' = [mtime EXCEPT ![f] = NoFile]
    /\ UNCHANGED <<now, garden, row, uploadVars, removing, clearing, sweepVars, faults>>

GardenFilesRemoved ==
    /\ clearing
    /\ clearing' = FALSE
    /\ \/ (\A f \in Files : ~OnDisk(f)) /\ UNCHANGED faults
       \/ Faulty
    /\ UNCHANGED <<now, garden, row, uploadVars, mtime, removing, sweepVars>>

-----------------------------------------------------------------------------
(* Sweep.                                                                  *)

ListPhotoFiles ==
    /\ spc = "idle"
    /\ spc' = "check"
    /\ expected' = Rows
    /\ tocheck' = Rows
    /\ missing' = {}
    /\ listAt' = now
    /\ UNCHANGED <<now, garden, row, uploadVars, mtime, removing, clearing, sweepNow, faults>>

CheckRow(p) ==
    /\ spc = "check"
    /\ p \in tocheck
    /\ tocheck' = tocheck \ {p}
    /\ missing' = IF \E f \in FilesOf(p) : ~OnDisk(f) THEN missing \cup {p} ELSE missing
    /\ UNCHANGED <<now, garden, row, uploadVars, mtime, removing, clearing, spc, expected,
                   listAt, sweepNow, faults>>

StartWalk ==
    /\ spc = "check"
    /\ tocheck = {}
    /\ spc' = "walk"
    /\ sweepNow' = now
    /\ UNCHANGED <<now, garden, row, uploadVars, mtime, removing, clearing, expected,
                   tocheck, missing, listAt, faults>>

\* No row points at the file, and it is not a new one.
Unwanted(f) == f[1] \notin expected /\ sweepNow - mtime[f] >= MinAge

SweepFile(f) ==
    /\ spc = "walk"
    /\ OnDisk(f)
    /\ Unwanted(f)
    /\ mtime' = [mtime EXCEPT ![f] = NoFile]
    /\ UNCHANGED <<now, garden, row, uploadVars, removing, clearing, sweepVars, faults>>

\* Fault: the report of one sweep is carried into the next.
EndSweep_KeepsReport ==
    /\ spc # "idle"
    /\ \/ /\ spc = "walk"
          /\ \A f \in Files : OnDisk(f) => ~Unwanted(f)
          /\ UNCHANGED faults
       \/ Faulty
    /\ spc' = "idle"
    /\ expected' = {} /\ tocheck' = {}
    /\ UNCHANGED <<now, garden, row, uploadVars, mtime, removing, clearing, missing,
                   listAt, sweepNow>>

\* The walk is over, or an error ends the sweep.
EndSweep ==
    /\ spc # "idle"
    /\ \/ /\ spc = "walk"
          /\ \A f \in Files : OnDisk(f) => ~Unwanted(f)
          /\ UNCHANGED faults
       \/ Faulty
    /\ spc' = "idle"
    /\ expected' = {} /\ tocheck' = {} /\ missing' = {}
    /\ UNCHANGED <<now, garden, row, uploadVars, mtime, removing, clearing, listAt, sweepNow>>

-----------------------------------------------------------------------------
\* The server is killed: open transactions are rolled back.
Crash ==
    /\ Faulty
    /\ pc' = [p \in Photos |-> IF p \in InFlight THEN "done" ELSE pc[p]]
    /\ removing' = {}
    /\ clearing' = FALSE
    /\ UNCHANGED <<now, garden, row, bytes, mtime, sweepVars>>

\* Uploads and the sweep's reading of the rows take no longer than they may.
Clock ==
    /\ now < MaxTime
    /\ \A p \in Photos : Writing(p) =>
          \A f \in FilesOf(p) : OnDisk(f) => now + 1 - mtime[f] <= UploadTicks
    /\ spc = "check" => now + 1 - listAt <= SweepTicks
    /\ now' = now + 1
    /\ UNCHANGED <<garden, row, uploadVars, mtime, removing, clearing, sweepVars, faults>>

Init ==
    /\ now = 0
    /\ garden = TRUE
    /\ row = [p \in Photos |-> "none"]
    /\ bytes = [p \in Photos |-> 0]
    /\ mtime = [f \in Files |-> NoFile]
    /\ pc = [p \in Photos |-> "none"]
    /\ removing = {}
    /\ clearing = FALSE
    /\ spc = "idle"
    /\ expected = {} /\ tocheck = {} /\ missing = {}
    /\ listAt = 0 /\ sweepNow = 0
    /\ faults = 0

Upload(p) ==
    \/ BeginUpload(p) \/ OpenMain(p) \/ OpenSquare(p) \/ InsertRow(p)
    \/ SaveFails(p) \/ Commit(p) \/ CommitFails(p)

Deletion ==
    \/ \E p \in Photos : DeletePhoto(p)
    \/ \E f \in Files : RemoveFile(f) \/ RemoveGardenFile(f)
    \/ DeleteGarden \/ GardenFilesRemoved

Sweep ==
    \/ ListPhotoFiles \/ StartWalk \/ EndSweep
    \/ \E p \in Photos : CheckRow(p)
    \/ \E f \in Files : SweepFile(f)

Next == (\E p \in Photos : Upload(p)) \/ Deletion \/ Sweep \/ Crash \/ Clock

Spec == Init /\ [][Next]_vars

-----------------------------------------------------------------------------
TypeOK ==
    /\ now \in 0 .. MaxTime
    /\ garden \in BOOLEAN /\ clearing \in BOOLEAN
    /\ row \in [Photos -> {"none", "row", "deleted"}]
    /\ bytes \in [Photos -> Nat]
    /\ mtime \in [Files -> (0 .. MaxTime) \cup {NoFile}]
    /\ pc \in [Photos -> {"none", "begun", "main", "square", "inserted", "done"}]
    /\ removing \subseteq Files
    /\ spc \in {"idle", "check", "walk"}
    /\ expected \subseteq Photos /\ tocheck \subseteq expected /\ missing \subseteq expected
    /\ listAt \in 0 .. now
    /\ sweepNow \in 0 .. now
    /\ faults \in 0 .. MaxFaults

(* "A failure leaves at most a file no row points at and never a row        *)
(* without its file" (Save, store.go:114): a photo's row has both its files *)
(* on disk, whatever uploads, deletions, a garden's deletion, the sweep,    *)
(* errors and crashes do in between.                                        *)
RowHasFiles == \A p \in Photos : row[p] = "row" => \A f \in FilesOf(p) : OnDisk(f)

(* Uploads at the same time each see room the others have not taken yet, so *)
(* the quota "can be overshot by one file per upload in flight" (store.go:  *)
(* 121), and by no more: the last upload to read the room saw all but those *)
(* that were in flight with it, also when photos are deleted in between.    *)
QuotaOvershoot == Used <= Quota + (MaxInFlight - 1) * Max(Sizes)
===============================================================================
