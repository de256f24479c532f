----------------------------- MODULE PhotosProofs -----------------------------
(***************************************************************************)
(* Proofs about Photos: its types, and that a row always has its files;    *)
(* and about StorageNotice: who was told, and who is marked as told.       *)
(***************************************************************************)
EXTENDS Photos, TLAPS, FiniteSetTheorems

CONSTANTS Managers, Share, MaxHandlers                \* of StorageNotice

VARIABLES rows, upload, todo, delete, told, heard, old, wiped, late   \* of StorageNotice

Notice == INSTANCE StorageNotice

-----------------------------------------------------------------------------
(* The type invariant.                                                     *)

\* Every initial state of the photo store has its types.
LEMMA InitTypes == Init => TypeOK
<1> SUFFICES ASSUME Init PROVE TypeOK
  OBVIOUS
<1>1. now \in 0 .. MaxTime /\ listAt \in 0 .. now /\ sweepNow \in 0 .. now /\ faults \in 0 .. MaxFaults
  BY TimeAssumption DEF Init
<1>2. mtime \in [Files -> (0 .. MaxTime) \cup {NoFile}] /\ bytes \in [Photos -> Nat]
  BY DEF Init
<1>3. /\ row \in [Photos -> {"none", "row", "deleted"}]
      /\ pc \in [Photos -> {"none", "begun", "main", "square", "inserted", "done"}]
  BY DEF Init
<1> QED BY <1>1, <1>2, <1>3 DEF Init, TypeOK

\* A photo's files are files.
LEMMA FilesOfFiles == \A p \in Photos : FilesOf(p) \subseteq Files
BY DEF FilesOf, Main, Square, Files

\* An error counts within its bound.
LEMMA FaultTypes == ASSUME TypeOK, Faulty PROVE faults' \in 0 .. MaxFaults
BY TimeAssumption DEF TypeOK, Faulty

\* A step of an upload keeps the types.
LEMMA UploadTypes == ASSUME TypeOK, NEW p \in Photos, Upload(p) PROVE TypeOK'
<1> USE TimeAssumption, SizesAssumption
<1>0. Main(p) \in Files /\ Square(p) \in Files /\ FilesOf(p) \subseteq Files
  BY FilesOfFiles DEF Main, Square, Files
<1>1. CASE BeginUpload(p)
  <2>1. PICK b \in Sizes : bytes' = [bytes EXCEPT ![p] = b]
    BY <1>1 DEF BeginUpload
  <2> QED BY <1>1, <2>1 DEF BeginUpload, TypeOK, sweepVars
<1>2. CASE OpenMain(p)
  BY <1>0, <1>2 DEF OpenMain, TypeOK, sweepVars
<1>3. CASE OpenSquare(p)
  BY <1>0, <1>3 DEF OpenSquare, TypeOK, sweepVars, Written, OnDisk
<1>4. CASE InsertRow(p)
  BY <1>0, <1>4 DEF InsertRow, TypeOK, sweepVars, Written, OnDisk
<1>5. CASE SaveFails(p)
  <2>1. faults' \in 0 .. MaxFaults
    BY <1>5, FaultTypes DEF SaveFails, TypeOK
  <2> QED BY <1>0, <1>5, <2>1 DEF SaveFails, TypeOK, sweepVars
<1>6. CASE Commit(p)
  BY <1>6 DEF Commit, TypeOK, sweepVars
<1>7. CASE CommitFails(p)
  <2>1. faults' \in 0 .. MaxFaults
    BY <1>7, FaultTypes DEF CommitFails
  <2>2. PICK r \in {"none", "row"} : row' = [row EXCEPT ![p] = r]
    BY <1>7 DEF CommitFails
  <2> QED BY <1>7, <2>1, <2>2 DEF CommitFails, TypeOK, sweepVars
<1> QED BY <1>1, <1>2, <1>3, <1>4, <1>5, <1>6, <1>7 DEF Upload

\* A step of a deletion keeps the types.
LEMMA DeletionTypes == ASSUME TypeOK, Deletion PROVE TypeOK'
<1> USE TimeAssumption
<1>1. CASE \E p \in Photos : DeletePhoto(p)
  <2>1. PICK p \in Photos : DeletePhoto(p)
    BY <1>1
  <2>2. faults' \in 0 .. MaxFaults
    BY <2>1, FaultTypes DEF DeletePhoto, TypeOK
  <2>3. removing' \subseteq Files
    BY <2>1, FilesOfFiles DEF DeletePhoto, TypeOK
  <2> QED BY <2>1, <2>2, <2>3 DEF DeletePhoto, TypeOK, sweepVars, uploadVars
<1>2. CASE \E f \in Files : RemoveFile(f)
  <2>1. PICK f \in Files : RemoveFile(f)
    BY <1>2
  <2>2. faults' \in 0 .. MaxFaults
    BY <2>1, FaultTypes DEF RemoveFile, TypeOK
  <2> QED BY <2>1, <2>2 DEF RemoveFile, TypeOK, sweepVars, uploadVars
<1>3. CASE \E f \in Files : RemoveGardenFile(f)
  BY <1>3 DEF RemoveGardenFile, TypeOK, sweepVars, uploadVars
<1>4. CASE DeleteGarden
  BY <1>4 DEF DeleteGarden, TypeOK, sweepVars, uploadVars
<1>5. CASE GardenFilesRemoved
  <2>1. faults' \in 0 .. MaxFaults
    BY <1>5, FaultTypes DEF GardenFilesRemoved, TypeOK
  <2> QED BY <1>5, <2>1 DEF GardenFilesRemoved, TypeOK, sweepVars, uploadVars
<1> QED BY <1>1, <1>2, <1>3, <1>4, <1>5 DEF Deletion

\* A step of the sweep keeps the types.
LEMMA SweepTypes == ASSUME TypeOK, Sweep PROVE TypeOK'
<1> USE TimeAssumption
<1>1. CASE ListPhotoFiles
  BY <1>1 DEF ListPhotoFiles, Rows, TypeOK, uploadVars
<1>2. CASE StartWalk
  BY <1>2 DEF StartWalk, TypeOK, uploadVars
<1>3. CASE EndSweep
  <2>1. faults' \in 0 .. MaxFaults
    BY <1>3, FaultTypes DEF EndSweep, TypeOK
  <2> QED BY <1>3, <2>1 DEF EndSweep, TypeOK, uploadVars
<1>4. CASE \E p \in Photos : CheckRow(p)
  <2>1. PICK p \in Photos : CheckRow(p)
    BY <1>4
  <2>2. tocheck' \subseteq expected' /\ missing' \subseteq expected'
    BY <2>1 DEF CheckRow, TypeOK
  <2> QED BY <2>1, <2>2 DEF CheckRow, TypeOK, uploadVars
<1>5. CASE \E f \in Files : SweepFile(f)
  BY <1>5 DEF SweepFile, TypeOK, sweepVars, uploadVars
<1> QED BY <1>1, <1>2, <1>3, <1>4, <1>5 DEF Sweep

\* Every step keeps the types.
LEMMA StepTypes == ASSUME TypeOK, [Next]_vars PROVE TypeOK'
<1> USE TimeAssumption
<1>1. CASE \E p \in Photos : Upload(p)
  BY <1>1, UploadTypes
<1>2. CASE Deletion
  BY <1>2, DeletionTypes
<1>3. CASE Sweep
  BY <1>3, SweepTypes
<1>4. CASE Crash
  <2>1. faults' \in 0 .. MaxFaults
    BY <1>4, FaultTypes DEF Crash
  <2> QED BY <1>4, <2>1 DEF Crash, TypeOK, sweepVars
<1>5. CASE Clock
  BY <1>5 DEF Clock, TypeOK, sweepVars, uploadVars
<1>6. CASE UNCHANGED vars
  BY <1>6 DEF vars, TypeOK, sweepVars, uploadVars
<1> QED BY <1>1, <1>2, <1>3, <1>4, <1>5, <1>6 DEF Next

-----------------------------------------------------------------------------
(* A row has its files.  FilesInv says where the files of a photo are at   *)
(* every step of its upload, and how old they can be; a photo that was not *)
(* listed by the sweep was still uploading when it listed the rows, so its *)
(* files were young then and are young to the sweep.                       *)

Present(p) == OnDisk(Main(p)) /\ OnDisk(Square(p))

\* The files that a photo at this step of its life has on disk.
HasFiles ==
    \A p \in Photos :
        /\ row[p] = "row" => garden /\ pc[p] = "done" /\ Present(p)
        /\ pc[p] = "inserted" => garden /\ Present(p)
        /\ pc[p] = "square" /\ garden => Present(p)
        /\ pc[p] = "main" /\ garden => OnDisk(Main(p))

\* What is about to be removed has no row and will not get one.
RemovalsSafe ==
    /\ clearing => ~garden
    /\ \A p \in Photos : Main(p) \in removing \/ Square(p) \in removing =>
          row[p] # "row" /\ pc[p] = "done"

\* The file f of p is at most UploadTicks old at time t, if it is there.
YoungFile(f, t) == OnDisk(f) => t - mtime[f] <= UploadTicks
Young(p, t) == YoungFile(Main(p), t) /\ YoungFile(Square(p), t)

\* A photo that is not uploading any more, or not yet, has no file to write.
Ages ==
    /\ \A p \in Photos : Writing(p) => Young(p, now)
    /\ \A p \in Photos : pc[p] \in {"none", "begun"} => ~OnDisk(Main(p)) /\ ~OnDisk(Square(p))
    /\ \A p \in Photos : pc[p] = "main" => ~OnDisk(Square(p))

\* The sweep, and the photos that were committed after its list.
SweepInv ==
    /\ spc = "check" => now - listAt <= SweepTicks
    /\ spc = "walk" => sweepNow - listAt <= SweepTicks
    /\ spc # "idle" =>
          \A p \in Photos : row[p] = "row" /\ p \notin expected => Young(p, listAt)

FilesInv == TypeOK /\ HasFiles /\ RemovalsSafe /\ Ages /\ SweepInv

-----------------------------------------------------------------------------
\* Every initial state satisfies the invariant.
LEMMA InitFiles == Init => FilesInv
<1> SUFFICES ASSUME Init PROVE FilesInv
  OBVIOUS
<1>1. TypeOK
  BY InitTypes
<1>2. \A p \in Photos : ~OnDisk(Main(p)) /\ ~OnDisk(Square(p))
  BY DEF Init, OnDisk, Main, Square, Files
<1> QED BY <1>1, <1>2
        DEF Init, FilesInv, HasFiles, RemovalsSafe, Ages, SweepInv, Writing

\* The two files of a photo are different, and those of two photos too.
LEMMA FilesDiffer ==
    \A p, q \in Photos :
        /\ Main(p) \in Files /\ Square(p) \in Files
        /\ Main(p) # Square(q)
        /\ p # q => Main(p) # Main(q) /\ Square(p) # Square(q)
BY DEF Main, Square, Files

\* Every file is the one or the other of some photo.
LEMMA FileCases == \A f \in Files : f[1] \in Photos /\ (f = Main(f[1]) \/ f = Square(f[1]))
BY DEF Main, Square, Files

\* A step that loses no file but f, changes no row and takes no upload
\* further keeps the invariant, if no row and no upload needs f.
LEMMA LosingFile ==
    ASSUME FilesInv, NEW f \in Files,
           mtime' = [mtime EXCEPT ![f] = NoFile],
           removing' \subseteq removing,
           garden' = garden, row' = row, pc' = pc, clearing' = clearing, now' = now,
           UNCHANGED sweepVars,
           \/ row[f[1]] # "row" /\ pc[f[1]] \notin {"main", "square", "inserted"}
           \/ ~garden
    PROVE  HasFiles' /\ RemovalsSafe' /\ Ages' /\ SweepInv'
<1>1. f[1] \in Photos /\ (f = Main(f[1]) \/ f = Square(f[1]))
  BY FileCases
<1>2. \A g \in Files : mtime'[g] = IF g = f THEN NoFile ELSE mtime[g]
  BY DEF FilesInv, TypeOK
<1>3. \A p \in Photos : (OnDisk(Main(p))' => OnDisk(Main(p)) /\ mtime'[Main(p)] = mtime[Main(p)])
                      /\ (OnDisk(Square(p))' => OnDisk(Square(p)) /\ mtime'[Square(p)] = mtime[Square(p)])
  BY <1>2, FilesDiffer DEF OnDisk, Main, Square
<1>4. \A p \in Photos : p # f[1] => (OnDisk(Main(p)) => OnDisk(Main(p))')
                                  /\ (OnDisk(Square(p)) => OnDisk(Square(p))')
  <2> SUFFICES ASSUME NEW p \in Photos, p # f[1]
               PROVE  /\ OnDisk(Main(p)) => OnDisk(Main(p))'
                      /\ OnDisk(Square(p)) => OnDisk(Square(p))'
    OBVIOUS
  <2>1. Main(p) \in Files /\ Square(p) \in Files
    BY DEF Main, Square, Files
  <2>2. Main(p) # f /\ Square(p) # f
    BY DEF Main, Square
  <2>3. mtime'[Main(p)] = mtime[Main(p)] /\ mtime'[Square(p)] = mtime[Square(p)]
    BY <1>2, <2>1, <2>2
  <2> QED BY <2>3 DEF OnDisk, Main, Square
<1>5. HasFiles'
  BY <1>1, <1>4 DEF FilesInv, HasFiles, Present
<1>6. RemovalsSafe'
  BY DEF FilesInv, RemovalsSafe, Main, Square
<1>7. Ages'
  BY <1>3 DEF FilesInv, Ages, Young, YoungFile, Writing
<1>8. SweepInv'
  BY <1>3 DEF FilesInv, SweepInv, Young, YoungFile, sweepVars
<1> QED BY <1>5, <1>6, <1>7, <1>8

\* A step of an upload keeps the invariant: it writes files before the row
\* that needs them.
LEMMA UploadFiles == ASSUME FilesInv, NEW p \in Photos, Upload(p) PROVE FilesInv'
<1> USE FilesDiffer DEF FilesInv
<1>0. TypeOK'
  BY UploadTypes
<1>1. CASE BeginUpload(p)
  <2>1. /\ UNCHANGED <<now, garden, row, mtime, removing, clearing, sweepVars>>
        /\ pc[p] = "none" /\ pc' = [pc EXCEPT ![p] = "begun"]
    BY <1>1 DEF BeginUpload
  <2> QED BY <1>0, <2>1 DEF TypeOK, HasFiles, RemovalsSafe, Ages, SweepInv, Writing,
                            Young, YoungFile, Present, OnDisk, Main, Square, sweepVars
<1>2. CASE OpenMain(p)
  <2>1. \A f \in Files : mtime'[f] = IF f = Main(p) THEN now ELSE mtime[f]
    BY <1>2 DEF OpenMain, TypeOK
  <2>2. now # NoFile
    BY TimeAssumption DEF NoFile, TypeOK
  <2>3. HasFiles' /\ RemovalsSafe'
    BY <1>2, <2>1, <2>2 DEF OpenMain, TypeOK, HasFiles, RemovalsSafe, Present, OnDisk, Main, Square
  <2>4. Ages'
    BY <1>2, <2>1, <2>2, AgeAssumption, TimeAssumption
       DEF OpenMain, TypeOK, Ages, Writing, Young, YoungFile, OnDisk
  <2>5. SweepInv'
    BY <1>2, <2>1, <2>2 DEF OpenMain, TypeOK, HasFiles, SweepInv, Young, YoungFile, OnDisk,
       sweepVars
  <2> QED BY <1>0, <2>3, <2>4, <2>5
<1>3. CASE OpenSquare(p)
  <2>1. \A f \in Files : mtime'[f] = IF f = Square(p) THEN now
                                    ELSE IF f = Main(p) THEN Written(f) ELSE mtime[f]
    BY <1>3 DEF OpenSquare, TypeOK
  <2>2. now # NoFile /\ now \in Int
    BY TimeAssumption DEF NoFile, TypeOK
  <2>3. HasFiles' /\ RemovalsSafe'
    BY <1>3, <2>1, <2>2 DEF OpenSquare, TypeOK, HasFiles, RemovalsSafe, Present, OnDisk,
                            Written, Main, Square
  <2>4. Ages'
    BY <1>3, <2>1, <2>2, AgeAssumption
       DEF OpenSquare, TypeOK, Ages, Writing, Young, YoungFile, OnDisk, Written
  <2>5. SweepInv'
    BY <1>3, <2>1, <2>2 DEF OpenSquare, TypeOK, HasFiles, SweepInv, Young, YoungFile, OnDisk,
       sweepVars
  <2> QED BY <1>0, <2>3, <2>4, <2>5
<1>4. CASE InsertRow(p)
  <2>1. \A f \in Files : mtime'[f] = IF f = Square(p) THEN Written(f) ELSE mtime[f]
    BY <1>4 DEF InsertRow, TypeOK
  <2>2. now # NoFile /\ now \in Int
    BY TimeAssumption DEF NoFile, TypeOK
  <2>3. HasFiles' /\ RemovalsSafe'
    BY <1>4, <2>1, <2>2 DEF InsertRow, TypeOK, HasFiles, RemovalsSafe, Present, OnDisk,
                            Written, Main, Square
  <2>4. Ages'
    BY <1>4, <2>1, <2>2, AgeAssumption
       DEF InsertRow, TypeOK, Ages, Writing, Young, YoungFile, OnDisk, Written
  <2>5. SweepInv'
    BY <1>4, <2>1, <2>2 DEF InsertRow, TypeOK, HasFiles, SweepInv, Young, YoungFile, OnDisk,
       sweepVars
  <2> QED BY <1>0, <2>3, <2>4, <2>5
<1>5. CASE SaveFails(p)
  <2>1. /\ UNCHANGED <<now, garden, row, mtime, clearing, sweepVars>>
        /\ pc[p] \in {"begun", "main", "square"}
        /\ pc' = [pc EXCEPT ![p] = "done"]
        /\ removing' \subseteq removing \cup {Main(p), Square(p)}
    BY <1>5 DEF SaveFails, FilesOf
  <2>2. row[p] # "row"
    BY <2>1 DEF HasFiles
  <2>3. HasFiles' /\ Ages' /\ SweepInv'
    BY <2>1 DEF TypeOK, HasFiles, Ages, SweepInv, Writing, Young, YoungFile, Present,
                OnDisk, Main, Square, sweepVars
  <2>4. RemovalsSafe'
    BY <2>1, <2>2 DEF TypeOK, RemovalsSafe, Main, Square
  <2> QED BY <1>0, <2>3, <2>4
<1>6. CASE Commit(p) \/ CommitFails(p)
  <2>1. /\ UNCHANGED <<now, garden, mtime, removing, clearing, sweepVars>>
        /\ pc[p] = "inserted"
        /\ pc' = [pc EXCEPT ![p] = "done"]
        /\ \A q \in Photos : q # p => row'[q] = row[q]
    BY <1>6 DEF Commit, CommitFails, TypeOK
  <2>2. garden /\ Present(p) /\ Young(p, now)
    BY <2>1 DEF HasFiles, Ages, Writing
  <2>3. Main(p) \notin removing /\ Square(p) \notin removing
    BY <2>1 DEF RemovalsSafe
  <2>4. HasFiles' /\ RemovalsSafe'
    BY <2>1, <2>2, <2>3 DEF TypeOK, HasFiles, RemovalsSafe, Present, OnDisk, Main, Square
  <2>5. Ages'
    BY <2>1 DEF TypeOK, Ages, Writing, Young, YoungFile, OnDisk, Main, Square
  <2>6. Young(p, listAt)
    BY <2>2, AgeAssumption, TimeAssumption DEF TypeOK, Young, YoungFile, OnDisk, NoFile
  <2>7. SweepInv'
    BY <2>1, <2>6 DEF SweepInv, Young, YoungFile, OnDisk, Main, Square, sweepVars
  <2> QED BY <1>0, <2>4, <2>5, <2>7
<1> QED BY <1>1, <1>2, <1>3, <1>4, <1>5, <1>6 DEF Upload

\* A step of a deletion keeps the invariant: the row goes before the files.
LEMMA DeletionFiles == ASSUME FilesInv, Deletion PROVE FilesInv'
<1> USE DEF FilesInv
<1>0. TypeOK'
  BY DeletionTypes
<1>1. CASE \E p \in Photos : DeletePhoto(p)
  <2>1. PICK p \in Photos : DeletePhoto(p)
    BY <1>1
  <2>2. /\ UNCHANGED <<now, garden, mtime, clearing, pc, sweepVars>>
        /\ row[p] = "row" /\ row' = [row EXCEPT ![p] = "deleted"]
        /\ removing' \subseteq removing \cup {Main(p), Square(p)}
    BY <2>1 DEF DeletePhoto, FilesOf, uploadVars
  <2>3. pc[p] = "done"
    BY <2>2 DEF HasFiles
  <2>4. HasFiles' /\ Ages' /\ SweepInv'
    BY <2>2 DEF TypeOK, HasFiles, Ages, SweepInv, Writing, Young, YoungFile, Present,
                OnDisk, Main, Square, sweepVars
  <2>5. RemovalsSafe'
    BY <2>2, <2>3 DEF TypeOK, RemovalsSafe, Main, Square
  <2> QED BY <1>0, <2>4, <2>5
<1>2. CASE \E f \in Files : RemoveFile(f)
  <2>1. PICK f \in Files : RemoveFile(f)
    BY <1>2
  <2>2. /\ UNCHANGED <<now, garden, row, pc, clearing, sweepVars>>
        /\ f \in removing /\ removing' = removing \ {f}
    BY <2>1 DEF RemoveFile, uploadVars
  <2>3. row[f[1]] # "row" /\ pc[f[1]] = "done"
    BY <2>2, FileCases DEF RemovalsSafe
  <2>4. CASE mtime' = [mtime EXCEPT ![f] = NoFile]
    BY <1>0, <2>2, <2>3, <2>4, LosingFile
  <2>5. CASE mtime' = mtime
    BY <1>0, <2>2, <2>5 DEF HasFiles, RemovalsSafe, Ages, SweepInv, Writing, Young, YoungFile,
                            Present, OnDisk, Main, Square, sweepVars
  <2> QED BY <2>1, <2>4, <2>5 DEF RemoveFile
<1>3. CASE \E f \in Files : RemoveGardenFile(f)
  <2>1. PICK f \in Files : RemoveGardenFile(f)
    BY <1>3
  <2>2. ~garden
    BY <2>1 DEF RemoveGardenFile, RemovalsSafe
  <2> QED BY <1>0, <2>1, <2>2, LosingFile DEF RemoveGardenFile, uploadVars
<1>4. CASE DeleteGarden
  <2>1. /\ UNCHANGED <<now, mtime, removing, pc, sweepVars>>
        /\ garden' = FALSE
        /\ \A p \in Photos : row'[p] # "row" /\ pc[p] # "inserted"
    BY <1>4 DEF DeleteGarden, uploadVars, TypeOK
  <2> QED BY <1>0, <2>1 DEF HasFiles, RemovalsSafe, Ages, SweepInv, Writing, Young, YoungFile,
                            Present, OnDisk, Main, Square, sweepVars
<1>5. CASE GardenFilesRemoved
  BY <1>0, <1>5 DEF GardenFilesRemoved, HasFiles, RemovalsSafe, Ages, SweepInv, Writing, Young,
                    YoungFile, Present, OnDisk, Main, Square, sweepVars, uploadVars
<1> QED BY <1>1, <1>2, <1>3, <1>4, <1>5 DEF Deletion

\* The sweep removes no file that a row or an upload needs: it would be as
\* young as the upload that wrote it.
LEMMA SweepFiles == ASSUME FilesInv, Sweep PROVE FilesInv'
<1> USE DEF FilesInv
<1>0. TypeOK'
  BY SweepTypes
<1>1. ASSUME UNCHANGED <<now, garden, row, mtime, removing, clearing, pc>>
      PROVE  HasFiles' /\ RemovalsSafe' /\ Ages'
  BY <1>1 DEF HasFiles, RemovalsSafe, Ages, Writing, Young, YoungFile, Present, OnDisk, Main, Square
<1>2. CASE ListPhotoFiles
  BY <1>0, <1>1, <1>2, AgeAssumption DEF ListPhotoFiles, SweepInv, Rows, TypeOK, uploadVars
<1>3. CASE StartWalk
  BY <1>0, <1>1, <1>3 DEF StartWalk, SweepInv, Young, YoungFile, OnDisk, Main, Square, uploadVars
<1>4. CASE EndSweep
  BY <1>0, <1>1, <1>4 DEF EndSweep, SweepInv, uploadVars
<1>5. CASE \E p \in Photos : CheckRow(p)
  BY <1>0, <1>1, <1>5 DEF CheckRow, SweepInv, Young, YoungFile, OnDisk, Main, Square, uploadVars
<1>6. CASE \E f \in Files : SweepFile(f)
  <2>1. PICK f \in Files : SweepFile(f)
    BY <1>6
  <2>2. spc = "walk" /\ OnDisk(f) /\ f[1] \notin expected /\ sweepNow - mtime[f] >= MinAge
    BY <2>1 DEF SweepFile, Unwanted
  <2>3. f[1] \in Photos /\ (f = Main(f[1]) \/ f = Square(f[1]))
    BY FileCases
  <2>4. mtime[f] \in Int /\ sweepNow \in Int /\ listAt \in Int /\ now \in Int /\ sweepNow <= now
    BY TimeAssumption DEF TypeOK, NoFile
  <2>5. row[f[1]] # "row"
    <3>1. SUFFICES ASSUME row[f[1]] = "row" PROVE FALSE
      OBVIOUS
    <3>2. listAt - mtime[f] <= UploadTicks
      BY <2>2, <2>3, <3>1 DEF SweepInv, Young, YoungFile
    <3>3. sweepNow - listAt <= SweepTicks
      BY <2>2 DEF SweepInv
    <3> QED BY <2>2, <2>4, <3>2, <3>3, AgeAssumption, TimeAssumption
  <2>6. ~Writing(f[1])
    <3>1. SUFFICES ASSUME Writing(f[1]) PROVE FALSE
      OBVIOUS
    <3>2. now - mtime[f] <= UploadTicks
      BY <2>2, <2>3, <3>1 DEF Ages, Young, YoungFile
    <3> QED BY <2>2, <2>4, <3>2, AgeAssumption, TimeAssumption
  <2> QED BY <1>0, <2>1, <2>5, <2>6, LosingFile DEF SweepFile, Writing, uploadVars
<1> QED BY <1>2, <1>3, <1>4, <1>5, <1>6 DEF Sweep

\* Every step keeps the invariant.
LEMMA StepFiles == ASSUME FilesInv, [Next]_vars PROVE FilesInv'
<1> USE DEF FilesInv
<1>0. TypeOK'
  BY StepTypes
<1>1. CASE \E p \in Photos : Upload(p)
  BY <1>1, UploadFiles
<1>2. CASE Deletion
  BY <1>2, DeletionFiles
<1>3. CASE Sweep
  BY <1>3, SweepFiles
<1>4. CASE Crash
  <2>1. /\ UNCHANGED <<now, garden, row, mtime, sweepVars>>
        /\ removing' = {} /\ clearing' = FALSE
        /\ \A p \in Photos : pc'[p] = "done" \/ (pc'[p] = pc[p] /\ ~Writing(p) /\ pc[p] # "begun")
    BY <1>4 DEF Crash, InFlight, Writing, TypeOK
  <2>2. HasFiles' /\ RemovalsSafe' /\ SweepInv'
    BY <2>1 DEF HasFiles, RemovalsSafe, SweepInv, Writing, Young, YoungFile, Present, OnDisk,
                Main, Square, sweepVars
  <2>3. Ages'
    BY <2>1 DEF Ages, Writing, OnDisk, Main, Square
  <2> QED BY <1>0, <2>2, <2>3
<1>5. CASE Clock
  <2>1. /\ now' = now + 1
        /\ UNCHANGED <<garden, row, mtime, removing, clearing, pc, sweepVars>>
        /\ spc = "check" => now' - listAt <= SweepTicks
    <3>1. spc = "check" => now + 1 - listAt <= SweepTicks
      BY <1>5 DEF Clock
    <3> QED BY <1>5, <3>1, TimeAssumption, AgeAssumption DEF Clock, uploadVars, TypeOK
  <2>2. ASSUME NEW p \in Photos, Writing(p)
        PROVE  /\ OnDisk(Main(p)) => now' - mtime[Main(p)] <= UploadTicks
               /\ OnDisk(Square(p)) => now' - mtime[Square(p)] <= UploadTicks
    <3>1. \A f \in FilesOf(p) : OnDisk(f) => now + 1 - mtime[f] <= UploadTicks
      BY <1>5, <2>2 DEF Clock
    <3>2. Main(p) \in FilesOf(p) /\ Square(p) \in FilesOf(p)
      BY DEF FilesOf
    <3>3. Main(p) \in Files /\ Square(p) \in Files
      BY DEF Main, Square, Files
    <3>4. now \in Int /\ mtime[Main(p)] \in Int /\ mtime[Square(p)] \in Int
      BY <3>3, TimeAssumption DEF TypeOK, NoFile
    <3> QED BY <2>1, <3>1, <3>2, <3>4
  <2>3. HasFiles' /\ RemovalsSafe' /\ SweepInv'
    BY <2>1 DEF HasFiles, RemovalsSafe, SweepInv, Young, YoungFile, Present, OnDisk,
                Main, Square, sweepVars
  <2>4. Ages'
    BY <2>1, <2>2 DEF Ages, Writing, Young, YoungFile, OnDisk, Main, Square
  <2> QED BY <1>0, <2>3, <2>4
<1>6. CASE UNCHANGED vars
  BY <1>0, <1>6 DEF vars, uploadVars, sweepVars, HasFiles, RemovalsSafe, Ages, SweepInv, Writing,
                    Young, YoungFile, Present, OnDisk, Main, Square
<1> QED BY <1>1, <1>2, <1>3, <1>4, <1>5, <1>6 DEF Next

\* The types of the photo store hold at every step of its uploads,
\* deletions and sweeps.
THEOREM PhotoTypes == Spec => []TypeOK
BY InitTypes, StepTypes, PTL DEF Spec

\* "Never a row without its file" (store.go:114), for any number of uploads,
\* deletions, sweeps, errors and crashes, as long as an upload and a sweep's
\* reading of the rows take less than sweepMinAge together.
THEOREM NeverARowWithoutItsFile == Spec => []RowHasFiles
<1>1. FilesInv => RowHasFiles
  BY DEF FilesInv, HasFiles, Present, RowHasFiles, FilesOf
<1> QED BY <1>1, InitFiles, StepFiles, PTL DEF Spec

-----------------------------------------------------------------------------
(* The notice that a garden is nearly full.                                *)

NearlyFull(S) == Notice!nearlyFullReached(S)

NoticeTypes ==
    /\ rows \subseteq Photos /\ IsFiniteSet(rows)
    /\ upload \in [Photos -> {"none", "stored", "tell", "done"}]
    /\ delete \in [Photos -> {"none", "check", "clear", "done"}]
    /\ told \subseteq Managers /\ late \subseteq Managers
    /\ heard \in [Managers -> 0 .. 2] /\ wiped \in BOOLEAN /\ faults \in Nat

\* A request that goes by a usage that holds no more is one of the old; who
\* heard is in the ledger unless an old one wiped it; and who is in the ledger
\* with the photos under the share came late or is about to be cleared.
GoesByTheUsage ==
    /\ \A p \in Photos : upload[p] = "tell" => NearlyFull(rows) \/ <<"tell", p>> \in old
    /\ \A p \in Photos : delete[p] = "clear" => ~NearlyFull(rows) \/ <<"clear", p>> \in old

HeardIsTold ==
    \A m \in Managers :
        /\ heard[m] # 0 => NearlyFull(rows) /\ (m \in told \/ wiped)
        /\ heard[m] = 2 => wiped

UnderComesClear ==
    faults = 0 /\ ~NearlyFull(rows) /\ ~(told \subseteq late) => Notice!Deleting # {}

NoticeInv == NoticeTypes /\ GoesByTheUsage /\ HeardIsTold /\ UnderComesClear

(* A step of a request that leaves the photos as they are.                  *)
LEMMA NoticeStays ==
    ASSUME NoticeInv, rows' = rows, NoticeTypes',
           \A p \in Photos : upload'[p] = "tell" /\ ~NearlyFull(rows) => <<"tell", p>> \in old',
           \A p \in Photos : delete'[p] = "clear" /\ NearlyFull(rows) => <<"clear", p>> \in old',
           HeardIsTold', UnderComesClear'
    PROVE  NoticeInv'
<1>1. NearlyFull(rows)' = NearlyFull(rows) BY DEF NearlyFull, Notice!nearlyFullReached
<1> QED BY <1>1 DEF NoticeInv, GoesByTheUsage

(* A commit that brings the photos over or under the share makes those that *)
(* have read the usage old.                                                 *)
LEMMA NoticeCommits ==
    ASSUME Notice!NoticeAssumption, NoticeInv, NEW p \in Photos,
           Notice!StorePhoto(p) \/ Notice!DeletePhoto(p)
    PROVE  NoticeInv'
<1>1. /\ heard' = IF NearlyFull(rows') THEN heard ELSE [m \in Managers |-> 0]
      /\ wiped' = (wiped /\ NearlyFull(rows'))
      /\ old' = IF NearlyFull(rows') = NearlyFull(rows) THEN old ELSE old \cup Notice!GoingBy
      /\ UNCHANGED <<told, late, faults>>
  BY DEF Notice!StorePhoto, Notice!DeletePhoto, Notice!HeardAfter, Notice!OldAfter, NearlyFull
<1>2. NearlyFull(rows)' = NearlyFull(rows') BY DEF NearlyFull, Notice!nearlyFullReached
<1>3. \/ rows' = rows \cup {p} /\ upload' = [upload EXCEPT ![p] = "stored"] /\ delete' = delete
      \/ rows' = rows \ {p} /\ delete' = [delete EXCEPT ![p] = "check"] /\ upload' = upload
  BY DEF Notice!StorePhoto, Notice!DeletePhoto
<1>4. IsFiniteSet(rows') /\ rows' \subseteq Photos
  BY <1>3, FS_AddElement, FS_RemoveElement DEF NoticeInv, NoticeTypes
<1>5. heard' \in [Managers -> 0 .. 2] /\ wiped' \in BOOLEAN
  <2>1. heard \in [Managers -> 0 .. 2] BY DEF NoticeInv, NoticeTypes
  <2>2. [m \in Managers |-> 0] \in [Managers -> 0 .. 2] OBVIOUS
  <2>3. heard' \in [Managers -> 0 .. 2] BY <1>1, <2>1, <2>2
  <2>4. wiped' \in BOOLEAN BY <1>1
  <2> QED BY <2>3, <2>4
<1>6. NoticeTypes'
  <2>1. /\ upload' \in [Photos -> {"none", "stored", "tell", "done"}]
        /\ delete' \in [Photos -> {"none", "check", "clear", "done"}]
    BY <1>3 DEF NoticeInv, NoticeTypes
  <2> QED BY <1>1, <1>4, <1>5, <2>1 DEF NoticeInv, NoticeTypes
<1>7. \A q \in Photos :
          /\ upload'[q] = "tell" => upload[q] = "tell"
          /\ delete'[q] = "clear" => delete[q] = "clear"
  BY <1>3 DEF NoticeInv, NoticeTypes
<1>8. GoesByTheUsage'
  <2>1. ASSUME NEW q \in Photos, upload'[q] = "tell", ~NearlyFull(rows') PROVE <<"tell", q>> \in old'
    <3>1. upload[q] = "tell" BY <1>7, <2>1
    <3>2. NearlyFull(rows) => <<"tell", q>> \in Notice!GoingBy BY <3>1 DEF Notice!GoingBy
    <3>3. ~NearlyFull(rows) => <<"tell", q>> \in old BY <3>1 DEF NoticeInv, GoesByTheUsage
    <3> QED BY <1>1, <2>1, <3>2, <3>3
  <2>2. ASSUME NEW q \in Photos, delete'[q] = "clear", NearlyFull(rows') PROVE <<"clear", q>> \in old'
    <3>1. delete[q] = "clear" BY <1>7, <2>2
    <3>2. ~NearlyFull(rows) => <<"clear", q>> \in Notice!GoingBy BY <3>1 DEF Notice!GoingBy
    <3>3. NearlyFull(rows) => <<"clear", q>> \in old BY <3>1 DEF NoticeInv, GoesByTheUsage
    <3> QED BY <1>1, <2>2, <3>2, <3>3
  <2> QED BY <1>2, <2>1, <2>2 DEF GoesByTheUsage
<1>9. HeardIsTold'
  <2> SUFFICES ASSUME NEW m \in Managers
               PROVE  /\ heard'[m] # 0 => NearlyFull(rows') /\ (m \in told' \/ wiped')
                      /\ heard'[m] = 2 => wiped'
    BY <1>2 DEF HeardIsTold
  <2>1. CASE NearlyFull(rows') BY <1>1, <2>1 DEF NoticeInv, HeardIsTold
  <2>2. CASE ~NearlyFull(rows')
    <3>1. heard'[m] = 0 BY <1>1, <2>2
    <3> QED BY <3>1
  <2> QED BY <2>1, <2>2
<1>10. UnderComesClear'
  <2>1. CASE Notice!StorePhoto(p)
    <3>1. rows' = rows \cup {p} /\ delete' = delete BY <2>1 DEF Notice!StorePhoto
    <3>2. NearlyFull(rows) => NearlyFull(rows')
      <4>1. \A T : Notice!Cardinality(T) = Cardinality(T) BY DEF Notice!Cardinality, Cardinality
      <4>2. IsFiniteSet(rows) BY DEF NoticeInv, NoticeTypes
      <4>3. /\ Cardinality(rows) \in Nat /\ Cardinality(rows') \in Nat
            /\ Cardinality(rows) <= Cardinality(rows')
        BY <1>4, <3>1, <4>2, FS_CardinalityType, FS_Subset
      <4>4. Share \in Nat BY DEF Notice!NoticeAssumption
      <4> QED BY <4>1, <4>3, <4>4 DEF NearlyFull, Notice!nearlyFullReached
    <3>3. Notice!Deleting' = Notice!Deleting BY <3>1 DEF Notice!Deleting
    <3> QED BY <1>1, <1>2, <3>2, <3>3 DEF NoticeInv, UnderComesClear
  <2>2. CASE Notice!DeletePhoto(p)
    <3>1. delete' = [delete EXCEPT ![p] = "check"] BY <2>2 DEF Notice!DeletePhoto
    <3>2. p \in Notice!Deleting' BY <3>1 DEF NoticeInv, NoticeTypes, Notice!Deleting
    <3> QED BY <3>2 DEF UnderComesClear
  <2> QED BY <2>1, <2>2
<1> QED BY <1>6, <1>8, <1>9, <1>10 DEF NoticeInv

(* The upload's reading of the usage, its claims and its errors.            *)
LEMMA NoticeTells ==
    ASSUME NoticeInv, NEW p \in Photos,
           Notice!CheckFull(p) \/ (\E m \in Managers : Notice!Tell(p, m)) \/ Notice!UploadGivesUp(p)
    PROVE  NoticeInv'
<1>1. rows' = rows /\ NearlyFull(rows)' = NearlyFull(rows) /\ delete' = delete
  BY DEF Notice!CheckFull, Notice!Tell, Notice!UploadGivesUp, NearlyFull, Notice!nearlyFullReached
<1>2. Notice!Deleting' = Notice!Deleting BY <1>1 DEF Notice!Deleting
<1>3. CASE Notice!CheckFull(p)
  <2>1. /\ upload' = [upload EXCEPT ![p] = IF NearlyFull(rows) THEN "tell" ELSE "done"]
        /\ UNCHANGED <<rows, delete, told, heard, old, wiped, late, faults>>
    BY <1>3 DEF Notice!CheckFull, NearlyFull
  <2>2. NoticeTypes' BY <2>1 DEF NoticeInv, NoticeTypes
  <2>3. \A q \in Photos : upload'[q] = "tell" /\ ~NearlyFull(rows) => <<"tell", q>> \in old'
    BY <2>1 DEF NoticeInv, NoticeTypes, GoesByTheUsage
  <2>4. \A q \in Photos : delete'[q] = "clear" /\ NearlyFull(rows) => <<"clear", q>> \in old'
    BY <2>1 DEF NoticeInv, GoesByTheUsage
  <2>5. HeardIsTold' /\ UnderComesClear'
    BY <1>1, <1>2, <2>1 DEF NoticeInv, HeardIsTold, UnderComesClear
  <2> QED BY <1>1, <2>2, <2>3, <2>4, <2>5, NoticeStays
<1>4. CASE \E m \in Managers : Notice!Tell(p, m)
  <2>1. PICK m \in Managers : Notice!Tell(p, m) BY <1>4
  <2>2. /\ upload[p] = "tell" /\ upload' = [upload EXCEPT ![p] = IF todo[p] = {m} THEN "done" ELSE "tell"]
        /\ told' = told \cup {m} /\ UNCHANGED <<rows, delete, wiped, faults>>
        /\ heard' = [heard EXCEPT ![m] = IF m \in told THEN @ ELSE Notice!HeardAgain(@)]
        /\ old' = IF todo[p] = {m} THEN old \ {<<"tell", p>>} ELSE old
        /\ late' = IF m \notin told /\ ~NearlyFull(rows) /\ <<"tell", p>> \in old
                   THEN late \cup {m} ELSE late
    BY <2>1 DEF Notice!Tell, Notice!ClaimSeen, NearlyFull
  <2>3. heard[m] \in 0 .. 2 BY DEF NoticeInv, NoticeTypes
  <2>4. /\ Notice!HeardAgain(heard[m]) \in 0 .. 2
        /\ Notice!HeardAgain(heard[m]) # heard[m] => NearlyFull(rows)
        /\ Notice!HeardAgain(heard[m]) = 2 => heard[m] # 0
    BY <2>3 DEF Notice!HeardAgain, NearlyFull
  <2>5. /\ heard'[m] = IF m \in told THEN heard[m] ELSE Notice!HeardAgain(heard[m])
        /\ \A n \in Managers : n # m => heard'[n] = heard[n]
    BY <2>2 DEF NoticeInv, NoticeTypes
  <2>6. heard' \in [Managers -> 0 .. 2] BY <2>2, <2>3, <2>4 DEF NoticeInv, NoticeTypes
  <2>7. NoticeTypes' BY <2>2, <2>6 DEF NoticeInv, NoticeTypes
  <2>8. ASSUME NEW q \in Photos, upload'[q] = "tell", ~NearlyFull(rows) PROVE <<"tell", q>> \in old'
    <3>1. upload[q] = "tell" /\ (q = p => todo[p] # {m}) BY <2>2, <2>8 DEF NoticeInv, NoticeTypes
    <3>2. <<"tell", q>> \in old BY <2>8, <3>1 DEF NoticeInv, GoesByTheUsage
    <3> QED BY <2>2, <3>1, <3>2
  <2>9. ASSUME NEW q \in Photos, delete'[q] = "clear", NearlyFull(rows) PROVE <<"clear", q>> \in old'
    <3>1. <<"clear", q>> \in old BY <2>2, <2>9 DEF NoticeInv, GoesByTheUsage
    <3> QED BY <2>2, <3>1
  <2>10. HeardIsTold'
    <3> SUFFICES ASSUME NEW n \in Managers
                 PROVE  /\ heard'[n] # 0 => NearlyFull(rows) /\ (n \in told' \/ wiped)
                        /\ heard'[n] = 2 => wiped
      BY <1>1, <2>2 DEF HeardIsTold
    <3>1. /\ heard[n] # 0 => NearlyFull(rows) /\ (n \in told \/ wiped)
          /\ heard[n] = 2 => wiped
      BY DEF NoticeInv, HeardIsTold
    <3>2. CASE n # m BY <2>2, <2>5, <3>1, <3>2
    <3>3. CASE n = m BY <2>2, <2>4, <2>5, <3>1, <3>3
    <3> QED BY <3>2, <3>3
  <2>11. UnderComesClear'
    <3> SUFFICES ASSUME faults' = 0, ~NearlyFull(rows), ~(told' \subseteq late')
                 PROVE  Notice!Deleting # {}
      BY <1>1, <1>2 DEF UnderComesClear
    <3>1. <<"tell", p>> \in old BY <2>2 DEF NoticeInv, GoesByTheUsage
    <3>2. ~(told \subseteq late) BY <2>2, <3>1
    <3> QED BY <2>2, <3>2 DEF NoticeInv, UnderComesClear
  <2> QED BY <1>1, <2>7, <2>8, <2>9, <2>10, <2>11, NoticeStays
<1>5. CASE Notice!UploadGivesUp(p)
  <2>1. /\ upload' = [upload EXCEPT ![p] = "done"] /\ faults' = faults + 1
        /\ old' = old \ {<<"tell", p>>} /\ UNCHANGED <<rows, delete, told, heard, wiped, late>>
    BY <1>5 DEF Notice!UploadGivesUp, Notice!Faulty
  <2>2. NoticeTypes' /\ faults' # 0 BY <2>1 DEF NoticeInv, NoticeTypes
  <2>3. ASSUME NEW q \in Photos, upload'[q] = "tell", ~NearlyFull(rows) PROVE <<"tell", q>> \in old'
    <3>1. upload[q] = "tell" /\ q # p BY <2>1, <2>3 DEF NoticeInv, NoticeTypes
    <3>2. <<"tell", q>> \in old BY <2>3, <3>1 DEF NoticeInv, GoesByTheUsage
    <3> QED BY <2>1, <3>1, <3>2
  <2>4. \A q \in Photos : delete'[q] = "clear" /\ NearlyFull(rows) => <<"clear", q>> \in old'
    BY <2>1 DEF NoticeInv, GoesByTheUsage
  <2>5. HeardIsTold' BY <1>1, <2>1 DEF NoticeInv, HeardIsTold
  <2>6. UnderComesClear' BY <2>2 DEF UnderComesClear
  <2> QED BY <1>1, <2>2, <2>3, <2>4, <2>5, <2>6, NoticeStays
<1> QED BY <1>3, <1>4, <1>5

(* The deletion's reading of the usage, its clearing and its errors.        *)
LEMMA NoticeClears ==
    ASSUME NoticeInv, NEW p \in Photos,
           Notice!CheckUnder(p) \/ Notice!ClearTold(p) \/ Notice!DeletionGivesUp(p)
    PROVE  NoticeInv'
<1>1. rows' = rows /\ NearlyFull(rows)' = NearlyFull(rows) /\ upload' = upload
  BY DEF Notice!CheckUnder, Notice!ClearTold, Notice!DeletionGivesUp, NearlyFull,
     Notice!nearlyFullReached
<1>2. CASE Notice!CheckUnder(p)
  <2>1. /\ delete' = [delete EXCEPT ![p] = IF NearlyFull(rows) THEN "done" ELSE "clear"]
        /\ UNCHANGED <<rows, upload, told, heard, old, wiped, late, faults>>
    BY <1>2 DEF Notice!CheckUnder, NearlyFull
  <2>2. NoticeTypes' BY <2>1 DEF NoticeInv, NoticeTypes
  <2>3. \A q \in Photos : upload'[q] = "tell" /\ ~NearlyFull(rows) => <<"tell", q>> \in old'
    BY <2>1 DEF NoticeInv, GoesByTheUsage
  <2>4. \A q \in Photos : delete'[q] = "clear" /\ NearlyFull(rows) => <<"clear", q>> \in old'
    BY <2>1 DEF NoticeInv, NoticeTypes, GoesByTheUsage
  <2>5. HeardIsTold' BY <1>1, <2>1 DEF NoticeInv, HeardIsTold
  <2>6. ~NearlyFull(rows) => p \in Notice!Deleting'
    BY <2>1 DEF NoticeInv, NoticeTypes, Notice!Deleting
  <2>7. UnderComesClear' BY <1>1, <2>6 DEF UnderComesClear
  <2> QED BY <1>1, <2>2, <2>3, <2>4, <2>5, <2>7, NoticeStays
<1>3. CASE Notice!ClearTold(p)
  <2>1. /\ delete' = [delete EXCEPT ![p] = "done"] /\ told' = {} /\ late' = {} /\ delete[p] = "clear"
        /\ wiped' = (wiped \/ (NearlyFull(rows) /\ <<"clear", p>> \in old))
        /\ old' = old \ {<<"clear", p>>} /\ UNCHANGED <<rows, upload, heard, faults>>
    BY <1>3 DEF Notice!ClearTold, NearlyFull
  <2>2. wiped' \in BOOLEAN BY <2>1
  <2>3. NoticeTypes' BY <2>1, <2>2 DEF NoticeInv, NoticeTypes
  <2>4. \A q \in Photos : upload'[q] = "tell" /\ ~NearlyFull(rows) => <<"tell", q>> \in old'
    BY <2>1 DEF NoticeInv, GoesByTheUsage
  <2>5. ASSUME NEW q \in Photos, delete'[q] = "clear", NearlyFull(rows) PROVE <<"clear", q>> \in old'
    <3>1. delete[q] = "clear" /\ q # p BY <2>1, <2>5 DEF NoticeInv, NoticeTypes
    <3>2. <<"clear", q>> \in old BY <2>5, <3>1 DEF NoticeInv, GoesByTheUsage
    <3> QED BY <2>1, <3>1, <3>2
  <2>6. NearlyFull(rows) => wiped' BY <2>1 DEF NoticeInv, GoesByTheUsage
  <2>7. HeardIsTold' BY <1>1, <2>1, <2>6 DEF NoticeInv, HeardIsTold
  <2>8. UnderComesClear' BY <2>1 DEF UnderComesClear
  <2> QED BY <1>1, <2>3, <2>4, <2>5, <2>7, <2>8, NoticeStays
<1>4. CASE Notice!DeletionGivesUp(p)
  <2>1. /\ delete' = [delete EXCEPT ![p] = "done"] /\ faults' = faults + 1
        /\ old' = old \ {<<"clear", p>>} /\ UNCHANGED <<rows, upload, told, heard, wiped, late>>
    BY <1>4 DEF Notice!DeletionGivesUp, Notice!Faulty
  <2>2. NoticeTypes' /\ faults' # 0 BY <2>1 DEF NoticeInv, NoticeTypes
  <2>3. \A q \in Photos : upload'[q] = "tell" /\ ~NearlyFull(rows) => <<"tell", q>> \in old'
    BY <2>1 DEF NoticeInv, GoesByTheUsage
  <2>4. ASSUME NEW q \in Photos, delete'[q] = "clear", NearlyFull(rows) PROVE <<"clear", q>> \in old'
    <3>1. delete[q] = "clear" /\ q # p BY <2>1, <2>4 DEF NoticeInv, NoticeTypes
    <3>2. <<"clear", q>> \in old BY <2>4, <3>1 DEF NoticeInv, GoesByTheUsage
    <3> QED BY <2>1, <3>1, <3>2
  <2>5. HeardIsTold' BY <1>1, <2>1 DEF NoticeInv, HeardIsTold
  <2>6. UnderComesClear' BY <2>2 DEF UnderComesClear
  <2> QED BY <1>1, <2>2, <2>3, <2>4, <2>5, <2>6, NoticeStays
<1> QED BY <1>2, <1>3, <1>4

(* "A garden that stays over the share is told once" (notifyStorage,        *)
(* notify.go:56), and once it is under it nobody is marked as told          *)
(* (clearStorageNotification, notify.go:102), whatever uploads and          *)
(* deletions do at once: a member is told twice only when a deletion        *)
(* cleared the ledger that had read the usage before the photos came over   *)
(* the share, and is left marked only by an upload that had read it before  *)
(* they came under.                                                         *)
THEOREM ToldOncePerCrossing ==
    ASSUME Notice!NoticeAssumption
    PROVE  Notice!Spec => [](Notice!StaysOverToldOnce /\ Notice!UnderIsCleared)
<1>1. Notice!NoticeAssumption OBVIOUS
<1>2. Notice!Init => NoticeInv
  <2> SUFFICES ASSUME Notice!Init PROVE NoticeInv OBVIOUS
  <2>1. NoticeTypes
    <3>1. rows \subseteq Photos /\ IsFiniteSet(rows) BY FS_EmptySet DEF Notice!Init
    <3>2. [m \in Managers |-> 0] \in [Managers -> 0 .. 2] OBVIOUS
    <3>3. heard \in [Managers -> 0 .. 2] BY <3>2 DEF Notice!Init
    <3> QED BY <3>1, <3>3 DEF Notice!Init, NoticeTypes
  <2>2. GoesByTheUsage /\ HeardIsTold /\ UnderComesClear
    BY DEF Notice!Init, GoesByTheUsage, HeardIsTold, UnderComesClear
  <2> QED BY <2>1, <2>2 DEF NoticeInv
<1>3. NoticeInv /\ [Notice!Next]_(Notice!vars) => NoticeInv'
  <2> SUFFICES ASSUME NoticeInv, [Notice!Next]_(Notice!vars) PROVE NoticeInv' OBVIOUS
  <2>1. ASSUME NEW p \in Photos, Notice!StorePhoto(p) \/ Notice!DeletePhoto(p) PROVE NoticeInv'
    BY <1>1, <2>1, NoticeCommits
  <2>2. ASSUME NEW p \in Photos,
               Notice!CheckFull(p) \/ (\E m \in Managers : Notice!Tell(p, m)) \/ Notice!UploadGivesUp(p)
        PROVE  NoticeInv'
    BY <2>2, NoticeTells
  <2>3. ASSUME NEW p \in Photos,
               Notice!CheckUnder(p) \/ Notice!ClearTold(p) \/ Notice!DeletionGivesUp(p)
        PROVE  NoticeInv'
    BY <2>3, NoticeClears
  <2>4. ASSUME UNCHANGED Notice!vars PROVE NoticeInv'
    BY <2>4 DEF Notice!vars, NoticeInv, NoticeTypes, GoesByTheUsage, HeardIsTold, UnderComesClear,
       Notice!Deleting, NearlyFull, Notice!nearlyFullReached
  <2> QED BY <2>1, <2>2, <2>3, <2>4 DEF Notice!Next
<1>4. NoticeInv => Notice!StaysOverToldOnce /\ Notice!UnderIsCleared
  <2> SUFFICES ASSUME NoticeInv PROVE Notice!StaysOverToldOnce /\ Notice!UnderIsCleared OBVIOUS
  <2>1. \A m \in Managers : heard[m] \in 0 .. 2 BY DEF NoticeInv, NoticeTypes
  <2>2. Notice!StaysOverToldOnce
    BY <2>1 DEF NoticeInv, HeardIsTold, Notice!StaysOverToldOnce
  <2>3. Notice!UnderIsCleared
    BY DEF NoticeInv, UnderComesClear, NearlyFull, Notice!UnderIsCleared
  <2> QED BY <2>2, <2>3
<1> QED BY <1>2, <1>3, <1>4, PTL DEF Notice!Spec
===============================================================================
